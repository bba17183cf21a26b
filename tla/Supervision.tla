----------------------------- MODULE Supervision -----------------------------
(***************************************************************************)
(* What the app and its supervisor (bridge/cmd/setupwizard/server.go,      *)
(* bridge/cmd/desktop/desktop.go) promise about the camera processes,      *)
(* without operations, contexts, channels or files.                        *)
(*                                                                         *)
(* The bridge is on or off.  Only while it is on processes are started, one*)
(* per camera, and collected when they have ended; it goes off when all of *)
(* them are gone.  A crash of the container ends everything.               *)
(***************************************************************************)
CONSTANT Cameras

VARIABLES
    on,     (* a supervisor runs                                            *)
    proc    (* per camera: none, booting, ready, or exited                  *)

vars == <<on, proc>>

AllGone == \A i \in Cameras : proc[i] = "none"

Init ==
    /\ on = FALSE
    /\ proc = [i \in Cameras |-> "none"]

TurnOn ==
    /\ ~ on /\ AllGone
    /\ on' = TRUE
    /\ UNCHANGED proc

TurnOff ==
    /\ on /\ AllGone
    /\ on' = FALSE
    /\ UNCHANGED proc

Spawn(i) ==
    /\ on
    /\ proc[i] = "none"
    /\ proc' = [proc EXCEPT ![i] = "booting"]
    /\ UNCHANGED on

Listen(i) ==
    /\ on
    /\ proc[i] = "booting"
    /\ proc' = [proc EXCEPT ![i] = "ready"]
    /\ UNCHANGED on

Die(i) ==
    /\ on
    /\ proc[i] \in {"booting", "ready"}
    /\ proc' = [proc EXCEPT ![i] = "exited"]
    /\ UNCHANGED on

(* A process that still runs is never given up.                            *)
Collect(i) ==
    /\ on
    /\ proc[i] = "exited"
    /\ proc' = [proc EXCEPT ![i] = "none"]
    /\ UNCHANGED on

Crash ==
    /\ on' = FALSE
    /\ proc' = [i \in Cameras |-> "none"]

Next ==
    \/ TurnOn \/ TurnOff \/ Crash
    \/ \E i \in Cameras : Spawn(i) \/ Listen(i) \/ Die(i) \/ Collect(i)

Spec == Init /\ [][Next]_vars

=============================================================================
