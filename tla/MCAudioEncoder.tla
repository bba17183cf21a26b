--------------------------- MODULE MCAudioEncoder ---------------------------
(* Instances of AudioEncoder for TLC.                                      *)
EXTENDS AudioEncoder

=============================================================================
