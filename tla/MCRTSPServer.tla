---------------------------- MODULE MCRTSPServer ----------------------------
(* Instances of RTSPServer for TLC.                                        *)
EXTENDS RTSPServer

=============================================================================
