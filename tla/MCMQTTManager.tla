--------------------------- MODULE MCMQTTManager ---------------------------
(* An instance of MQTTManager for TLC: two cameras, one stream each.        *)
EXTENDS MQTTManager, TLC

CONSTANTS d1, d2, s1, s2

(* One stream for each of two cameras.                                     *)
MCDeviceOf == s1 :> d1 @@ s2 :> d2

=============================================================================
