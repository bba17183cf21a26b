---------------------------- MODULE MCAppServer ----------------------------
(* Instances of AppServer for TLC.                                         *)
EXTENDS AppServer

=============================================================================
