--------------------------- MODULE MCCameraStream ---------------------------
(* Instances of CameraStream for TLC: CameraStream.cfg checks safety and   *)
(* liveness, CameraStream_*.cfg the statements of the repository that fail.*)
EXTENDS CameraStream

=============================================================================
