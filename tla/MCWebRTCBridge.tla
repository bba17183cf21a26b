--------------------------- MODULE MCWebRTCBridge ---------------------------
(* Instances of WebRTCBridge for TLC: WebRTCBridge.cfg checks safety and   *)
(* liveness, WebRTCBridge_StartHandlesFailure.cfg the statement that fails.*)
EXTENDS WebRTCBridge

=============================================================================
