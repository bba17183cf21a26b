---------------------------- MODULE MCMediaPlane ----------------------------
(* Instances of MediaPlane for TLC.                                        *)
EXTENDS MediaPlane

=============================================================================
