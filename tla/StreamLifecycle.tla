--------------------------- MODULE StreamLifecycle ---------------------------
(***************************************************************************)
(* What a CameraStream promises to the RTSP viewers that share it          *)
(* (bridge/pkg/rtsp/server.go), without goroutines, timers, bridges or     *)
(* locks: viewers come and go; the camera session is idle, connecting or   *)
(* live; it comes up only for a viewer, breaks only back to connecting     *)
(* while somebody watches, and is retired only when nobody does.  Once the *)
(* server is stopped, or the process has died, a session may end under its *)
(* viewers and a connecting one may stay as it is.                         *)
(***************************************************************************)
CONSTANT Viewers

VARIABLES viewers, phase, down

vars == <<viewers, phase, down>>

Phases == {"idle", "connecting", "live"}

Init ==
    /\ viewers = {}
    /\ phase = "idle"
    /\ down = FALSE

(* A viewer of an idle session makes it connect.                           *)
Join(v) ==
    /\ viewers' = viewers \cup {v}
    /\ phase' = IF phase = "idle" THEN "connecting" ELSE phase
    /\ UNCHANGED down

Leave(v) ==
    /\ viewers' = viewers \ {v}
    /\ UNCHANGED <<phase, down>>

Establish ==
    /\ phase = "connecting"
    /\ viewers # {}
    /\ phase' = "live"
    /\ UNCHANGED <<viewers, down>>

Break ==
    /\ phase = "live"
    /\ viewers # {}
    /\ phase' = "connecting"
    /\ UNCHANGED <<viewers, down>>

Retire ==
    /\ phase # "idle"
    /\ viewers = {} \/ down
    /\ phase' = "idle"
    /\ UNCHANGED <<viewers, down>>

GoDown ==
    /\ down' = TRUE
    /\ UNCHANGED <<viewers, phase>>

Next ==
    \/ \E v \in Viewers : Join(v) \/ Leave(v)
    \/ Establish
    \/ Break
    \/ Retire
    \/ GoDown

Spec == Init /\ [][Next]_vars

=============================================================================
