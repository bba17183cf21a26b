--------------------------- MODULE BridgeInterface ---------------------------
(***************************************************************************)
(* What a WebRTCBridge (bridge/pkg/rtsp/bridge.go) and the CameraStream    *)
(* that owns it (server.go) rely on from each other, without signalling,   *)
(* media, viewers or timers.                                               *)
(*                                                                         *)
(* The owner starts a bridge once.  While Start runs it neither stops nor  *)
(* replaces the bridge, and it takes no error.  A bridge raises errors only*)
(* once it has been started and while OnError is set; each is delivered to *)
(* the owner, unless the owner has replaced the bridge before, and the     *)
(* error of a bridge that is up ends it.                                   *)
(*                                                                         *)
(* CameraStream and WebRTCBridge both implement this module: what each of  *)
(* them assumes of the other, the other keeps.                             *)
(***************************************************************************)
EXTENDS Naturals

VARIABLES
    phase,     (* idle; starting, in Start; up, Start returned nil; over    *)
    handler,   (* OnError is set                                            *)
    raised     (* errors on their way to the owner                          *)

vars == <<phase, handler, raised>>

Init ==
    /\ phase = "idle"
    /\ handler = TRUE
    /\ raised = 0

(* The owner may have stopped the bridge already.                          *)
Begin ==
    /\ phase = "idle"
    /\ phase' = "starting"
    /\ UNCHANGED <<handler, raised>>

(* A bridge that was stopped before its Start is never up.                 *)
Return ==
    /\ phase = "starting"
    /\ phase' \in IF handler THEN {"up", "over"} ELSE {"over"}
    /\ UNCHANGED <<handler, raised>>

Finish(old) == IF old = "up" THEN "over" ELSE old

Stop ==
    /\ phase # "starting"
    /\ phase' = Finish(phase)
    /\ handler' = FALSE
    /\ UNCHANGED raised

Raise ==
    /\ phase # "idle"
    /\ handler
    /\ raised' = raised + 1
    /\ UNCHANGED <<phase, handler>>

(* With OnError cleared under it, the goroutine calls nil.                 *)
Deliver ==
    /\ raised > 0
    /\ handler => phase # "starting"
    /\ raised' = raised - 1
    /\ phase' = Finish(phase)
    /\ handler' = (handler /\ phase # "up")

(* A new bridge, which may be started in the same critical section.        *)
Replace ==
    /\ phase # "starting"
    /\ phase' \in {"idle", "starting"}
    /\ handler' = TRUE
    /\ raised' = 0

Next == Begin \/ Return \/ Stop \/ Raise \/ Deliver \/ Replace

Spec == Init /\ [][Next]_vars

=============================================================================
