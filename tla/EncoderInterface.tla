--------------------------- MODULE EncoderInterface ---------------------------
(***************************************************************************)
(* What an AudioEncoder (bridge/pkg/rtsp/audio_encoder.go) and the session *)
(* that uses it (bridge.go) rely on from each other.  The session closes   *)
(* an encoder that runs or has ended.  A failure that came before the Close*)
(* is reported once, also when the Close comes between the two; after a    *)
(* Close that came first nothing is reported.                              *)
(*                                                                         *)
(* AudioEncoder and WebRTCBridge both implement this module.               *)
(***************************************************************************)

VARIABLE encoder   (* off, running, or broken and not reported yet          *)

Init == encoder \in {"off", "running"}

Run == encoder = "off" /\ encoder' = "running"

Close == encoder = "running" /\ encoder' = "off"

Break == encoder = "running" /\ encoder' = "broken"

Report == encoder = "broken" /\ encoder' = "off"

Next == Run \/ Close \/ Break \/ Report

Spec == Init /\ [][Next]_encoder

=============================================================================
