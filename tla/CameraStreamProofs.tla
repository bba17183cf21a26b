-------------------------- MODULE CameraStreamProofs --------------------------
(***************************************************************************)
(* Proofs about CameraStream, for any number of connections and startStream*)
(* goroutines and any number of errors and expired timers in flight.       *)
(***************************************************************************)
EXTENDS CameraStream, TLAPS

(* What stopStreamInternal leaves behind: a stream that is neither active  *)
(* nor connecting, with no timer left if it has stopped anything.          *)
LEMMA StopEffect ==
    ASSUME TypeOK, StopStreamInternal
    PROVE  /\ active' = FALSE /\ connecting' = FALSE
           /\ bridgeStarted' = bridgeStarted /\ ran' = ran
           /\ handler' \in BOOLEAN /\ cancelled' \in BOOLEAN
           /\ removing' \in BOOLEAN
           /\ timer' \in {"nil", timer}
           /\ active \/ connecting => timer' = "nil"
<1>1. CASE active \/ connecting
  BY <1>1 DEF StopStreamInternal
<1>2. CASE ~(active \/ connecting)
  BY <1>2 DEF StopStreamInternal, TypeOK, phaseVars, bridgeVars
<1>3. QED
  BY <1>1, <1>2

(* Counting goroutines of the current bridge as retired keeps the counts.  *)
LEMMA RetireType ==
    ASSUME NEW count \in [Bridges -> Nat]
    PROVE  Retire(count) \in [Bridges -> Nat]
  BY DEF Retire, Bridges

(* A goroutine that leaves is one less: the counts stay natural numbers.   *)
LEMMA OneLess ==
    ASSUME NEW count \in [Bridges -> Nat], NEW b \in Bridges, count[b] > 0
    PROVE  [count EXCEPT ![b] = @ - 1] \in [Bridges -> Nat]
<1>1. count[b] - 1 \in Nat
  OBVIOUS
<1>2. QED
  BY <1>1

(* No operation of the stream takes a variable out of its range.           *)
LEMMA TypeStep == TypeOK /\ [Next]_vars => TypeOK'
<1> SUFFICES ASSUME TypeOK, [Next]_vars
             PROVE  TypeOK'
  OBVIOUS
<1> USE DEF TypeOK, viewerVars, phaseVars, timerVars, bridgeVars, errorVars,
            serverVars, StarterStages, Bridges
<1>1. ASSUME NEW c \in Clients, FetchStream(c) PROVE TypeOK'
  BY <1>1 DEF FetchStream
<1>2. ASSUME NEW c \in Clients, AddClient(c) PROVE TypeOK'
  BY <1>2 DEF AddClient, SpawnStarter
<1>3. ASSUME NEW c \in Clients, RemoveClient(c) PROVE TypeOK'
  BY <1>3 DEF RemoveClient, DropClient
<1>4. ASSUME Overwritten PROVE TypeOK'
  BY <1>4 DEF Overwritten
<1>5. ASSUME NEW g \in Starters, EnterStart(g) PROVE TypeOK'
  BY <1>5 DEF EnterStart
<1>6. ASSUME NEW g \in Starters, AttemptSuperseded(g) PROVE TypeOK'
  BY <1>6 DEF AttemptSuperseded
<1>7. ASSUME NEW g \in Starters, AttemptUnwatched(g) PROVE TypeOK'
  BY <1>7, StopEffect DEF AttemptUnwatched
<1>8. ASSUME NEW g \in Starters, AttemptStart(g) PROVE TypeOK'
  BY <1>8, RetireType DEF AttemptStart, ReplaceBridge
<1>9. ASSUME NEW g \in Starters, StartSucceeds(g) PROVE TypeOK'
  BY <1>9 DEF StartSucceeds
<1>10. ASSUME NEW g \in Starters, StartFails(g) PROVE TypeOK'
  <2>1. CASE clients = {}
    BY <1>10, <2>1, StopEffect DEF StartFails
  <2>2. CASE clients # {}
    BY <1>10, <2>2 DEF StartFails
  <2>3. QED
    BY <2>1, <2>2
<1>11. ASSUME NEW g \in Starters, RetryAborted(g) PROVE TypeOK'
  BY <1>11 DEF RetryAborted
<1>12. ASSUME TimerExpires PROVE TypeOK'
  BY <1>12 DEF TimerExpires
<1>13. ASSUME TimerCallback PROVE TypeOK'
  <2>1. expired' \in Nat
    BY <1>13 DEF TimerCallback
  <2>2. CASE clients = {} /\ active
    BY <1>13, <2>1, <2>2, StopEffect DEF TimerCallback
  <2>3. CASE ~(clients = {} /\ active)
    BY <1>13, <2>1, <2>3 DEF TimerCallback
  <2>4. QED
    BY <2>2, <2>3
<1>14. ASSUME BridgeError PROVE TypeOK'
  BY <1>14 DEF BridgeError
<1>15. ASSUME NEW b \in Bridges, CallHandler(b) PROVE TypeOK'
  <2>1. checked' \in [Bridges -> Nat]
    BY <1>15, OneLess DEF CallHandler
  <2>2. CASE b = "current" /\ handler
    BY <1>15, <2>1, <2>2 DEF CallHandler
  <2>3. CASE ~(b = "current" /\ handler)
    BY <1>15, <2>1, <2>3 DEF CallHandler
  <2>4. QED
    BY <2>2, <2>3
<1>16. ASSUME NEW b \in Bridges, ErrorIgnored(b) PROVE TypeOK'
  BY <1>16, OneLess DEF ErrorIgnored
<1>17. ASSUME NEW b \in Bridges, ErrorUnwatched(b) PROVE TypeOK'
  BY <1>17, StopEffect, OneLess DEF ErrorUnwatched
<1>18. ASSUME NEW b \in Bridges, ErrorRecovers(b) PROVE TypeOK'
  BY <1>18, RetireType, OneLess DEF ErrorRecovers, SpawnStarter
<1>19. ASSUME RemoveStream PROVE TypeOK'
  BY <1>19 DEF RemoveStream
<1>20. ASSUME ServerStop PROVE TypeOK'
  BY <1>20 DEF ServerStop
<1>21. ASSUME NEW c \in Clients, StopRemovesClient(c) PROVE TypeOK'
  BY <1>21 DEF StopRemovesClient, DropClient
<1>22. ASSUME StopFinishes PROVE TypeOK'
  BY <1>22 DEF StopFinishes, StopStreamInternal
<1>23. CASE UNCHANGED vars
  BY <1>23 DEF vars
<1>24. QED
  BY <1>1, <1>2, <1>3, <1>4, <1>5, <1>6, <1>7, <1>8, <1>9, <1>10, <1>11,
     <1>12, <1>13, <1>14, <1>15, <1>16, <1>17, <1>18, <1>19, <1>20, <1>21,
     <1>22, <1>23
     DEF Next, ConnectionStep, StarterStep, TimerStep, ErrorStep, ServerStep

(* The object getOrCreateStream makes is in range.                         *)
LEMMA TypeInit == Init => TypeOK
<1> SUFFICES ASSUME Init PROVE TypeOK
  OBVIOUS
<1>1. conn \in [Clients -> {"none", "fetched", "attached"}]
  BY DEF Init
<1>2. checked \in [Bridges -> Nat] /\ callers \in [Bridges -> Nat]
  BY DEF Init
<1>3. starter \in [Starters -> StarterStages]
  BY DEF Init, StarterStages
<1>4. QED
  BY <1>1, <1>2, <1>3 DEF Init, TypeOK

(* Type correctness of every behaviour of the stream.                      *)
THEOREM TypeCorrect == Spec => []TypeOK
  BY TypeInit, TypeStep, PTL DEF Spec

(* The invariant holds initially and every operation keeps it.             *)
LEMMA Inductive == Spec => []IInv
<1> USE DEF viewerVars, phaseVars, timerVars, bridgeVars, errorVars, serverVars
<1>1. Init => IInv
  BY TypeInit DEF Init, IInv, UnwatchedSessionExpires, ShutdownOnlyWhenUnwatched,
     NoStrandedViewer, SingleStarter, StartUnderMutex, ConnectingHasStarter,
     RunIsRecorded, StartIsRun, Locked
<1>2. IInv /\ [Next]_vars => IInv'
  <2> SUFFICES ASSUME IInv, [Next]_vars
               PROVE  IInv'
    OBVIOUS
  <2> USE DEF IInv, UnwatchedSessionExpires, ShutdownOnlyWhenUnwatched,
              NoStrandedViewer, SingleStarter, StartUnderMutex,
              ConnectingHasStarter, RunIsRecorded, StartIsRun
  <2>0. TypeOK /\ TypeOK'
    BY TypeStep
  <2>1. ASSUME NEW c \in Clients, FetchStream(c) PROVE IInv'
    BY <2>1, <2>0 DEF FetchStream, TypeOK, MutexFree, Locked
  <2>2. ASSUME NEW c \in Clients, AddClient(c) PROVE IInv'
    BY <2>2, <2>0 DEF AddClient, SpawnStarter, TypeOK, MutexFree, Locked
  <2>3. ASSUME NEW c \in Clients, RemoveClient(c) PROVE IInv'
    BY <2>3, <2>0 DEF RemoveClient, DropClient, TypeOK, MutexFree, Locked
  <2>4. ASSUME Overwritten PROVE IInv'
    BY <2>4, <2>0 DEF Overwritten, TypeOK, MutexFree, Locked
  <2>5. ASSUME NEW g \in Starters, EnterStart(g) PROVE IInv'
    BY <2>5, <2>0 DEF EnterStart, TypeOK, MutexFree, Locked
  <2>6. ASSUME NEW g \in Starters, AttemptSuperseded(g) PROVE IInv'
    BY <2>6, <2>0 DEF AttemptSuperseded, TypeOK, MutexFree, Locked
  <2>7. ASSUME NEW g \in Starters, AttemptUnwatched(g) PROVE IInv'
    BY <2>7, <2>0, StopEffect DEF AttemptUnwatched, TypeOK, MutexFree, Locked
  <2>8. ASSUME NEW g \in Starters, AttemptStart(g) PROVE IInv'
    BY <2>8, <2>0 DEF AttemptStart, ReplaceBridge, TypeOK, MutexFree, Locked
  <2>9. ASSUME NEW g \in Starters, StartSucceeds(g) PROVE IInv'
    BY <2>9, <2>0 DEF StartSucceeds, TypeOK, MutexFree, Locked
  <2>10. ASSUME NEW g \in Starters, StartFails(g) PROVE IInv'
    BY <2>10, <2>0, StopEffect DEF StartFails, TypeOK, MutexFree, Locked
  <2>11. ASSUME NEW g \in Starters, RetryAborted(g) PROVE IInv'
    BY <2>11, <2>0 DEF RetryAborted, TypeOK, MutexFree, Locked
  <2>12. ASSUME TimerExpires PROVE IInv'
    BY <2>12, <2>0 DEF TimerExpires, TypeOK, MutexFree, Locked
  <2>13. ASSUME TimerCallback PROVE IInv'
    BY <2>13, <2>0, StopEffect DEF TimerCallback, TypeOK, MutexFree, Locked
  <2>14. ASSUME BridgeError PROVE IInv'
    BY <2>14, <2>0 DEF BridgeError, TypeOK, MutexFree, Locked
  <2>15. ASSUME NEW b \in Bridges, CallHandler(b) PROVE IInv'
    BY <2>15, <2>0 DEF CallHandler, TypeOK, MutexFree, Locked
  <2>16. ASSUME NEW b \in Bridges, ErrorIgnored(b) PROVE IInv'
    BY <2>16, <2>0 DEF ErrorIgnored, TypeOK, MutexFree, Locked
  <2>17. ASSUME NEW b \in Bridges, ErrorUnwatched(b) PROVE IInv'
    BY <2>17, <2>0, StopEffect DEF ErrorUnwatched, TypeOK, MutexFree, Locked
  <2>18. ASSUME NEW b \in Bridges, ErrorRecovers(b) PROVE IInv'
    BY <2>18, <2>0 DEF ErrorRecovers, SpawnStarter, TypeOK, MutexFree, Locked
  <2>19. ASSUME RemoveStream PROVE IInv'
    BY <2>19, <2>0 DEF RemoveStream, TypeOK, MutexFree, Locked
  <2>20. ASSUME ServerStop PROVE IInv'
    BY <2>20, <2>0 DEF ServerStop, TypeOK, MutexFree, Locked
  <2>21. ASSUME NEW c \in Clients, StopRemovesClient(c) PROVE IInv'
    BY <2>21, <2>0 DEF StopRemovesClient, DropClient, TypeOK, MutexFree, Locked
  <2>22. ASSUME StopFinishes PROVE IInv'
    BY <2>22, <2>0, StopEffect DEF StopFinishes, TypeOK, MutexFree, Locked
  <2>23. CASE UNCHANGED vars
    BY <2>23, <2>0 DEF vars, TypeOK, MutexFree, Locked
  <2>24. QED
    BY <2>1, <2>2, <2>3, <2>4, <2>5, <2>6, <2>7, <2>8, <2>9, <2>10, <2>11,
       <2>12, <2>13, <2>14, <2>15, <2>16, <2>17, <2>18, <2>19, <2>20, <2>21,
       <2>22, <2>23
       DEF Next, ConnectionStep, StarterStep, TimerStep, ErrorStep, ServerStep
<1>3. QED
  BY <1>1, <1>2, PTL DEF Spec

(* A live session that nobody watches always has its teardown on the way   *)
(* (RemoveClient, scheduleShutdown, AddClient, the timer's callback).      *)
THEOREM UnwatchedAlwaysExpires == Spec => []UnwatchedSessionExpires
  BY Inductive, PTL DEF IInv

(* No shutdown is pending for a session with viewers or one that is down.  *)
THEOREM ShutdownSound == Spec => []ShutdownOnlyWhenUnwatched
  BY Inductive, PTL DEF IInv

(* No viewer is left with a stream that is down and stays down.            *)
THEOREM ViewersNeverStranded == Spec => []NoStrandedViewer
  BY Inductive, PTL DEF IInv

(* Two goroutines never run startStream for the same stream.               *)
THEOREM StartersExclusive == Spec => []SingleStarter
  BY Inductive, PTL DEF IInv

(* An attempt on a stream whose bridge has run takes a fresh bridge.       *)
THEOREM RestartsAreFresh == Spec => RestartGetsFreshBridge
<1>1. IInv /\ [Next]_vars => [ran /\ ~Locked /\ Locked' => handler' /\ ~cancelled']_vars
  <2> SUFFICES ASSUME IInv, [Next]_vars, ran, ~Locked, Locked'
               PROVE  handler' /\ ~cancelled'
    OBVIOUS
  <2>1. PICK h \in Starters : starter'[h] = "starting"
    BY DEF Locked
  <2>2. starter[h] # "starting"
    BY DEF Locked
  <2> USE <2>1, <2>2 DEF IInv, TypeOK, RunIsRecorded
  <2>3. ASSUME NEW c \in Clients, FetchStream(c) PROVE handler' /\ ~cancelled'
    BY <2>3 DEF FetchStream
  <2>4. ASSUME NEW c \in Clients, AddClient(c) PROVE handler' /\ ~cancelled'
    BY <2>4 DEF AddClient, SpawnStarter
  <2>5. ASSUME NEW c \in Clients, RemoveClient(c) PROVE handler' /\ ~cancelled'
    BY <2>5 DEF RemoveClient
  <2>6. ASSUME Overwritten PROVE handler' /\ ~cancelled'
    BY <2>6 DEF Overwritten
  <2>7. ASSUME NEW g \in Starters, EnterStart(g) PROVE handler' /\ ~cancelled'
    BY <2>7 DEF EnterStart
  <2>8. ASSUME NEW g \in Starters, AttemptSuperseded(g) PROVE handler' /\ ~cancelled'
    BY <2>8 DEF AttemptSuperseded
  <2>9. ASSUME NEW g \in Starters, AttemptUnwatched(g) PROVE handler' /\ ~cancelled'
    BY <2>9 DEF AttemptUnwatched
  <2>10. ASSUME NEW g \in Starters, AttemptStart(g) PROVE handler' /\ ~cancelled'
    BY <2>10 DEF AttemptStart, ReplaceBridge
  <2>11. ASSUME NEW g \in Starters, StartSucceeds(g) PROVE handler' /\ ~cancelled'
    BY <2>11 DEF StartSucceeds
  <2>12. ASSUME NEW g \in Starters, StartFails(g) PROVE handler' /\ ~cancelled'
    BY <2>12 DEF StartFails
  <2>13. ASSUME NEW g \in Starters, RetryAborted(g) PROVE handler' /\ ~cancelled'
    BY <2>13 DEF RetryAborted
  <2>14. ASSUME TimerExpires PROVE handler' /\ ~cancelled'
    BY <2>14 DEF TimerExpires
  <2>15. ASSUME TimerCallback PROVE handler' /\ ~cancelled'
    BY <2>15 DEF TimerCallback
  <2>16. ASSUME BridgeError PROVE handler' /\ ~cancelled'
    BY <2>16 DEF BridgeError
  <2>17. ASSUME NEW b \in Bridges, CallHandler(b) PROVE handler' /\ ~cancelled'
    BY <2>17 DEF CallHandler
  <2>18. ASSUME NEW b \in Bridges, ErrorIgnored(b) PROVE handler' /\ ~cancelled'
    BY <2>18 DEF ErrorIgnored
  <2>19. ASSUME NEW b \in Bridges, ErrorUnwatched(b) PROVE handler' /\ ~cancelled'
    BY <2>19 DEF ErrorUnwatched
  <2>20. ASSUME NEW b \in Bridges, ErrorRecovers(b) PROVE handler' /\ ~cancelled'
    BY <2>20 DEF ErrorRecovers, SpawnStarter
  <2>21. ASSUME RemoveStream PROVE handler' /\ ~cancelled'
    BY <2>21 DEF RemoveStream
  <2>22. ASSUME ServerStop PROVE handler' /\ ~cancelled'
    BY <2>22 DEF ServerStop
  <2>23. ASSUME NEW c \in Clients, StopRemovesClient(c) PROVE handler' /\ ~cancelled'
    BY <2>23 DEF StopRemovesClient
  <2>24. ASSUME StopFinishes PROVE handler' /\ ~cancelled'
    BY <2>24 DEF StopFinishes
  <2>25. CASE UNCHANGED vars
    BY <2>25 DEF vars
  <2>26. QED
    BY <2>3, <2>4, <2>5, <2>6, <2>7, <2>8, <2>9, <2>10, <2>11, <2>12, <2>13,
       <2>14, <2>15, <2>16, <2>17, <2>18, <2>19, <2>20, <2>21, <2>22, <2>23,
       <2>24, <2>25
       DEF Next, ConnectionStep, StarterStep, TimerStep, ErrorStep, ServerStep
<1>2. QED
  BY <1>1, Inductive, PTL DEF Spec, RestartGetsFreshBridge

-----------------------------------------------------------------------------

(* The stream implements the abstract session: its states are those of     *)
(* StreamLifecycle and every step is a step of it or a stutter.            *)
THEOREM Implements == Spec => ImplementsLifecycle
<1>1. Init => Lifecycle!Init
  BY DEF Init, Lifecycle!Init, Phase
<1>2. IInv /\ [Next]_vars => [Lifecycle!Next]_(Lifecycle!vars)
  <2> SUFFICES ASSUME IInv, [Next]_vars
               PROVE  [Lifecycle!Next]_(Lifecycle!vars)
    OBVIOUS
  <2> USE DEF viewerVars, phaseVars, timerVars, bridgeVars, errorVars, serverVars,
              IInv, TypeOK, Phase, Lifecycle!vars
  <2> DEFINE Abs == [Lifecycle!Next]_(Lifecycle!vars)
  <2>1. ASSUME NEW c \in Clients, FetchStream(c) PROVE Abs
    BY <2>1 DEF FetchStream
  <2>2. ASSUME NEW c \in Clients, AddClient(c) PROVE Abs
    BY <2>2 DEF AddClient, Lifecycle!Next, Lifecycle!Join
  <2>3. ASSUME NEW c \in Clients, RemoveClient(c) PROVE Abs
    BY <2>3 DEF RemoveClient, DropClient, Lifecycle!Next, Lifecycle!Leave
  <2>4. ASSUME Overwritten PROVE Abs
    BY <2>4 DEF Overwritten
  <2>5. ASSUME NEW g \in Starters, EnterStart(g) PROVE Abs
    BY <2>5 DEF EnterStart
  <2>6. ASSUME NEW g \in Starters, AttemptSuperseded(g) PROVE Abs
    BY <2>6 DEF AttemptSuperseded
  <2>7. ASSUME NEW g \in Starters, AttemptUnwatched(g) PROVE Abs
    BY <2>7, StopEffect DEF AttemptUnwatched, Lifecycle!Next, Lifecycle!Retire
  <2>8. ASSUME NEW g \in Starters, AttemptStart(g) PROVE Abs
    BY <2>8 DEF AttemptStart
  <2>9. ASSUME NEW g \in Starters, StartSucceeds(g) PROVE Abs
    BY <2>9
       DEF StartSucceeds, StartUnderMutex, Lifecycle!Next, Lifecycle!Establish
  <2>10. ASSUME NEW g \in Starters, StartFails(g) PROVE Abs
    BY <2>10, StopEffect DEF StartFails, StartUnderMutex
  <2>11. ASSUME NEW g \in Starters, RetryAborted(g) PROVE Abs
    BY <2>11 DEF RetryAborted
  <2>12. ASSUME TimerExpires PROVE Abs
    BY <2>12 DEF TimerExpires
  <2>13. ASSUME TimerCallback PROVE Abs
    BY <2>13, StopEffect DEF TimerCallback, Lifecycle!Next, Lifecycle!Retire
  <2>14. ASSUME BridgeError PROVE Abs
    BY <2>14 DEF BridgeError
  <2>15. ASSUME NEW b \in Bridges, CallHandler(b) PROVE Abs
    BY <2>15 DEF CallHandler, Lifecycle!Next, Lifecycle!GoDown
  <2>16. ASSUME NEW b \in Bridges, ErrorIgnored(b) PROVE Abs
    BY <2>16 DEF ErrorIgnored
  <2>17. ASSUME NEW b \in Bridges, ErrorUnwatched(b) PROVE Abs
    BY <2>17, StopEffect DEF ErrorUnwatched, Lifecycle!Next, Lifecycle!Retire
  <2>18. ASSUME NEW b \in Bridges, ErrorRecovers(b) PROVE Abs
    BY <2>18 DEF ErrorRecovers, Lifecycle!Next, Lifecycle!Break
  <2>19. ASSUME RemoveStream PROVE Abs
    BY <2>19 DEF RemoveStream
  <2>20. ASSUME ServerStop PROVE Abs
    BY <2>20 DEF ServerStop, Lifecycle!Next, Lifecycle!GoDown
  <2>21. ASSUME NEW c \in Clients, StopRemovesClient(c) PROVE Abs
    BY <2>21 DEF StopRemovesClient, DropClient, Lifecycle!Next, Lifecycle!Leave
  <2>22. ASSUME StopFinishes PROVE Abs
    BY <2>22, StopEffect DEF StopFinishes, Lifecycle!Next, Lifecycle!Retire
  <2>23. CASE UNCHANGED vars
    BY <2>23 DEF vars
  <2>24. QED
    BY <2>1, <2>2, <2>3, <2>4, <2>5, <2>6, <2>7, <2>8, <2>9, <2>10, <2>11,
       <2>12, <2>13, <2>14, <2>15, <2>16, <2>17, <2>18, <2>19, <2>20, <2>21,
       <2>22, <2>23
       DEF Next, ConnectionStep, StarterStep, TimerStep, ErrorStep, ServerStep
<1>3. QED
  BY <1>1, <1>2, Inductive, PTL DEF Spec, ImplementsLifecycle, Lifecycle!Spec

-----------------------------------------------------------------------------
(* The current bridge, as BridgeInterface has it.                          *)

(* A step of a starter that is neither in Start nor enters it leaves the   *)
(* mutex as it is.                                                         *)
LEMMA OtherStage ==
    ASSUME TypeOK, NEW g \in Starters, NEW s \in StarterStages \ {"starting"},
           starter[g] # "starting", starter' = [starter EXCEPT ![g] = s]
    PROVE  Locked' = Locked
  BY DEF Locked, TypeOK

(* So does a starter that is spawned.                                      *)
LEMMA SpawnedStage == TypeOK /\ SpawnStarter => Locked' = Locked
<1> SUFFICES ASSUME TypeOK, NEW g \in Starters, starter[g] = "none",
                    starter' = [starter EXCEPT ![g] = "spawned"]
             PROVE  Locked' = Locked
  BY DEF SpawnStarter
<1>1. QED
  BY OtherStage DEF StarterStages

(* When a Start returns, the mutex is free.                                *)
LEMMA StartLeft ==
    ASSUME TypeOK, StartUnderMutex, NEW g \in Starters, starter[g] = "starting",
           NEW s \in StarterStages \ {"starting"},
           starter' = [starter EXCEPT ![g] = s]
    PROVE  Locked /\ ~Locked'
<1>1. Locked
  BY DEF Locked
<1>2. ASSUME NEW h \in Starters, starter'[h] = "starting" PROVE FALSE
  <2>1. h # g
    BY <1>2 DEF TypeOK
  <2>2. starter[h] = "starting"
    BY <1>2, <2>1 DEF TypeOK
  <2>3. QED
    BY <2>1, <2>2 DEF StartUnderMutex
<1>3. QED
  BY <1>1, <1>2 DEF Locked

(* A step that touches neither the bridge, nor the phase, nor the count of *)
(* the current bridge's errors is a stutter of the interface.              *)
LEMMA BridgeUntouched ==
    ASSUME UNCHANGED <<active, ran, handler, checked, callers>>, Locked' = Locked
    PROVE  UNCHANGED Bridge!vars
<1>1. BridgePhase' = BridgePhase
  BY DEF BridgePhase
<1>2. QED
  BY <1>1 DEF Bridge!vars

(* stopStreamInternal stops the current bridge, or does nothing.           *)
LEMMA BridgeStopped ==
    ASSUME TypeOK, StopStreamInternal, ~Locked, ~Locked', active \/ connecting
    PROVE  /\ handler' = FALSE
           /\ BridgePhase # "starting"
           /\ BridgePhase' = Bridge!Finish(BridgePhase)
  BY DEF StopStreamInternal, BridgePhase, Bridge!Finish, TypeOK

(* One error more or less of the current bridge, and none of it left when  *)
(* the bridge is retired.                                                  *)
LEMMA CurrentCount ==
    ASSUME NEW count \in [Bridges -> Nat], NEW b \in Bridges
    PROVE  /\ count["current"] \in Nat
           /\ Retire(count)["current"] = 0
           /\ [count EXCEPT ![b] = @ - 1]["current"] =
                  IF b = "current" THEN count["current"] - 1 ELSE count["current"]
           /\ [count EXCEPT ![b] = @ + 1]["current"] =
                  IF b = "current" THEN count["current"] + 1 ELSE count["current"]
  BY DEF Retire, Bridges

(* The stream uses its bridge as BridgeInterface says: it starts it once,  *)
(* leaves it alone while Start runs, and drops none of the errors of the   *)
(* current bridge that is up (startStream, stopStreamInternal,             *)
(* replaceBridge, handleBridgeError).                                      *)
THEOREM UsesBridge == Spec => ImplementsBridge
<1>1. Init => Bridge!Init
  <2> SUFFICES ASSUME Init PROVE Bridge!Init
    OBVIOUS
  <2>1. checked["current"] = 0 /\ callers["current"] = 0
    BY DEF Init, Bridges
  <2>2. QED
    BY <2>1 DEF Init, Bridge!Init, BridgePhase
<1>2. IInv /\ [Next]_vars => [Bridge!Next]_(Bridge!vars)
  <2> SUFFICES ASSUME IInv, [Next]_vars
               PROVE  [Bridge!Next]_(Bridge!vars)
    OBVIOUS
  <2> USE DEF viewerVars, phaseVars, timerVars, bridgeVars, errorVars, serverVars
  <2> DEFINE Abs == [Bridge!Next]_(Bridge!vars)
             raised == checked["current"] + callers["current"]
  <2>0. TypeOK /\ StartUnderMutex /\ RunIsRecorded /\ StartIsRun
    BY DEF IInv
  <2>a. /\ checked \in [Bridges -> Nat] /\ callers \in [Bridges -> Nat]
        /\ checked["current"] \in Nat /\ callers["current"] \in Nat
    BY <2>0 DEF TypeOK, Bridges
  <2>b. ASSUME UNCHANGED starter PROVE Locked' = Locked
    BY <2>b DEF Locked
  <2>c. ASSUME UNCHANGED Bridge!vars PROVE Abs
    BY <2>c
  <2> HIDE DEF Abs
  <2>1. ASSUME NEW c \in Clients, FetchStream(c) PROVE Abs
    BY <2>1, <2>b, <2>c, BridgeUntouched DEF FetchStream
  <2>2. ASSUME NEW c \in Clients, AddClient(c) PROVE Abs
    BY <2>2, <2>0, <2>b, <2>c, BridgeUntouched, SpawnedStage DEF AddClient
  <2>3. ASSUME NEW c \in Clients, RemoveClient(c) PROVE Abs
    BY <2>3, <2>b, <2>c, BridgeUntouched DEF RemoveClient
  <2>4. ASSUME Overwritten PROVE Abs
    BY <2>4, <2>b, <2>c, BridgeUntouched DEF Overwritten
  <2>5. ASSUME NEW g \in Starters, EnterStart(g) PROVE Abs
    <3>1. Locked' = Locked
      BY <2>5, <2>0, OtherStage DEF EnterStart, StarterStages
    <3>2. QED
      BY <2>5, <2>c, <3>1, BridgeUntouched DEF EnterStart
  <2>6. ASSUME NEW g \in Starters, AttemptSuperseded(g) PROVE Abs
    <3>1. Locked' = Locked
      BY <2>6, <2>0, OtherStage DEF AttemptSuperseded, StarterStages
    <3>2. QED
      BY <2>6, <2>c, <3>1, BridgeUntouched DEF AttemptSuperseded
  <2>7. ASSUME NEW g \in Starters, AttemptUnwatched(g) PROVE Abs
    <3>1. ~Locked /\ ~Locked'
      BY <2>7, <2>0, OtherStage DEF AttemptUnwatched, MutexFree, StarterStages
    <3>2. UNCHANGED raised
      BY <2>7 DEF AttemptUnwatched
    <3>3. Bridge!Stop
      BY <2>7, <2>0, <3>1, <3>2, BridgeStopped DEF AttemptUnwatched, Bridge!Stop
    <3>4. QED
      BY <3>3 DEF Abs, Bridge!Next
  <2>8. ASSUME NEW g \in Starters, AttemptStart(g) PROVE Abs
    <3>1. ~Locked /\ Locked'
      BY <2>8, <2>0 DEF AttemptStart, MutexFree, Locked, TypeOK
    <3>2. ran' /\ BridgePhase' = "starting" /\ BridgePhase # "starting"
      BY <2>8, <3>1 DEF AttemptStart, ReplaceBridge, BridgePhase
    <3>3. CASE starter[g] = "retry" \/ bridgeStarted
      <4>1. handler' = TRUE /\ raised' = 0
        BY <2>8, <2>a, <3>3, CurrentCount DEF AttemptStart, ReplaceBridge, Bridges
      <4>2. Bridge!Replace
        BY <3>2, <4>1 DEF Bridge!Replace
      <4>3. QED
        BY <4>2 DEF Abs, Bridge!Next
    <3>4. CASE ~(starter[g] = "retry" \/ bridgeStarted)
      <4>1. UNCHANGED <<handler, raised>> /\ ~ran
        BY <2>8, <2>0, <3>4 DEF AttemptStart, RunIsRecorded
      <4>2. Bridge!Begin
        BY <3>2, <4>1 DEF Bridge!Begin, BridgePhase
      <4>3. QED
        BY <4>2 DEF Abs, Bridge!Next
    <3>5. QED
      BY <3>3, <3>4
  <2>9. ASSUME NEW g \in Starters, StartSucceeds(g) PROVE Abs
    <3>1. Locked /\ ~Locked' /\ ran
      BY <2>9, <2>0, StartLeft DEF StartSucceeds, StarterStages, StartIsRun
    <3>2. BridgePhase = "starting" /\ UNCHANGED <<ran, handler, raised>> /\ active'
      BY <2>9, <3>1 DEF StartSucceeds, BridgePhase
    <3>3. BridgePhase' = IF handler THEN "up" ELSE "over"
      BY <3>1, <3>2 DEF BridgePhase
    <3>4. Bridge!Return
      BY <3>2, <3>3 DEF Bridge!Return
    <3>5. QED
      BY <3>4 DEF Abs, Bridge!Next
  <2>10. ASSUME NEW g \in Starters, StartFails(g) PROVE Abs
    <3>1. clients # {} /\ ~active
      BY <2>10, <2>0 DEF StartFails, StartUnderMutex
    <3>2. Locked /\ ~Locked' /\ ran
      BY <2>10, <2>0, <3>1, StartLeft DEF StartFails, StarterStages, StartIsRun
    <3>3. UNCHANGED <<active, ran, handler, raised>>
      BY <2>10, <3>1 DEF StartFails
    <3>4. BridgePhase = "starting" /\ BridgePhase' = "over"
      BY <3>1, <3>2, <3>3 DEF BridgePhase
    <3>5. Bridge!Return
      BY <3>3, <3>4 DEF Bridge!Return
    <3>6. QED
      BY <3>5 DEF Abs, Bridge!Next
  <2>11. ASSUME NEW g \in Starters, RetryAborted(g) PROVE Abs
    <3>1. Locked' = Locked
      BY <2>11, <2>0, OtherStage DEF RetryAborted, StarterStages
    <3>2. QED
      BY <2>11, <2>c, <3>1, BridgeUntouched DEF RetryAborted
  <2>12. ASSUME TimerExpires PROVE Abs
    BY <2>12, <2>b, <2>c, BridgeUntouched DEF TimerExpires
  <2>13. ASSUME TimerCallback PROVE Abs
    <3>1. ~Locked /\ ~Locked' /\ UNCHANGED raised
      BY <2>13, <2>b DEF TimerCallback, MutexFree
    <3>2. CASE clients = {} /\ active
      <4>1. Bridge!Stop
        BY <2>13, <2>0, <3>1, <3>2, BridgeStopped DEF TimerCallback, Bridge!Stop
      <4>2. QED
        BY <4>1 DEF Abs, Bridge!Next
    <3>3. CASE ~(clients = {} /\ active)
      BY <2>13, <2>b, <2>c, <3>3, BridgeUntouched DEF TimerCallback
    <3>4. QED
      BY <3>2, <3>3
  <2>14. ASSUME BridgeError PROVE Abs
    <3>1. raised' = raised + 1
      BY <2>14, <2>a, CurrentCount DEF BridgeError, Bridges
    <3>2. BridgePhase' = BridgePhase /\ BridgePhase # "idle" /\ handler /\ UNCHANGED handler
      BY <2>14, <2>b DEF BridgeError, BridgePhase
    <3>3. Bridge!Raise
      BY <3>1, <3>2 DEF Bridge!Raise
    <3>4. QED
      BY <3>3 DEF Abs, Bridge!Next
  <2>15. ASSUME NEW b \in Bridges, CallHandler(b) PROVE Abs
    <3>1. UNCHANGED <<active, ran, handler>> /\ Locked' = Locked
      BY <2>15, <2>b DEF CallHandler
    <3>2. BridgePhase' = BridgePhase
      BY <3>1 DEF BridgePhase
    <3>3. CASE b = "current" /\ ~handler
      <4>1. raised > 0 /\ raised' = raised - 1
        BY <2>15, <2>a, <3>3, CurrentCount DEF CallHandler, Bridges
      <4>2. BridgePhase # "up"
        BY <3>3 DEF BridgePhase
      <4>3. Bridge!Deliver
        BY <2>0, <3>1, <3>2, <3>3, <4>1, <4>2
           DEF Bridge!Deliver, Bridge!Finish, TypeOK
      <4>4. QED
        BY <4>3 DEF Abs, Bridge!Next
    <3>4. CASE ~(b = "current" /\ ~handler)
      <4>1. UNCHANGED raised
        BY <2>15, <2>a, <3>4, CurrentCount DEF CallHandler, Bridges
      <4>2. QED
        BY <2>c, <3>1, <3>2, <4>1 DEF Bridge!vars
    <3>5. QED
      BY <3>3, <3>4
  <2>16. ASSUME NEW b \in Bridges, ErrorIgnored(b) PROVE Abs
    <3>1. UNCHANGED <<active, ran, handler, checked>> /\ ~Locked /\ ~Locked' /\ ~active
      BY <2>16, <2>b DEF ErrorIgnored, MutexFree, IInv
    <3>2. BridgePhase' = BridgePhase /\ BridgePhase \notin {"up", "starting"}
      BY <3>1 DEF BridgePhase
    <3>3. CASE b = "current"
      <4>1. raised > 0 /\ raised' = raised - 1
        BY <2>16, <2>a, <3>1, <3>3, CurrentCount DEF ErrorIgnored, Bridges
      <4>2. Bridge!Deliver
        BY <2>0, <3>1, <3>2, <4>1 DEF Bridge!Deliver, Bridge!Finish, TypeOK
      <4>3. QED
        BY <4>2 DEF Abs, Bridge!Next
    <3>4. CASE b # "current"
      <4>1. UNCHANGED raised
        BY <2>16, <2>a, <3>1, <3>4, CurrentCount DEF ErrorIgnored, Bridges
      <4>2. QED
        BY <2>c, <3>1, <3>2, <4>1 DEF Bridge!vars
    <3>5. QED
      BY <3>3, <3>4
  <2>17. ASSUME NEW b \in Bridges, ErrorUnwatched(b) PROVE Abs
    <3>1. UNCHANGED checked /\ ~Locked /\ ~Locked' /\ active
      BY <2>17, <2>b DEF ErrorUnwatched, MutexFree
    <3>2. /\ handler' = FALSE /\ BridgePhase # "starting"
          /\ BridgePhase' = Bridge!Finish(BridgePhase)
      BY <2>17, <2>0, <3>1, BridgeStopped DEF ErrorUnwatched
    <3>3. CASE b = "current"
      <4>1. raised > 0 /\ raised' = raised - 1
        BY <2>17, <2>a, <3>1, <3>3, CurrentCount DEF ErrorUnwatched, Bridges
      <4>2. CASE BridgePhase = "up" \/ ~handler
        <5>1. Bridge!Deliver
          BY <2>0, <3>2, <4>1, <4>2 DEF Bridge!Deliver, TypeOK
        <5>2. QED
          BY <5>1 DEF Abs, Bridge!Next
      <4>3. CASE ~(BridgePhase = "up" \/ ~handler)
        BY <2>0, <3>1, <4>3 DEF BridgePhase, StartIsRun
      <4>4. QED
        BY <4>2, <4>3
    <3>4. CASE b # "current"
      <4>1. UNCHANGED raised
        BY <2>17, <2>a, <3>1, <3>4, CurrentCount DEF ErrorUnwatched, Bridges
      <4>2. Bridge!Stop
        BY <3>2, <4>1 DEF Bridge!Stop
      <4>3. QED
        BY <4>2 DEF Abs, Bridge!Next
    <3>5. QED
      BY <3>3, <3>4
  <2>18. ASSUME NEW b \in Bridges, ErrorRecovers(b) PROVE Abs
    <3>1. ~Locked
      BY <2>18 DEF ErrorRecovers, MutexFree
    <3>2. BridgePhase # "starting" /\ BridgePhase' = "idle" /\ handler' = TRUE
      BY <2>18, <3>1 DEF ErrorRecovers, BridgePhase
    <3>3. raised' = 0
      <4>1. [callers EXCEPT ![b] = @ - 1] \in [Bridges -> Nat]
        BY <2>18, <2>a, OneLess DEF ErrorRecovers
      <4>2. checked'["current"] = 0
        BY <2>18, <2>a, CurrentCount DEF ErrorRecovers, Bridges
      <4>3. callers'["current"] = 0
        BY <2>18, <4>1, CurrentCount DEF ErrorRecovers, Bridges
      <4>4. QED
        BY <4>2, <4>3
    <3>4. Bridge!Replace
      BY <3>2, <3>3 DEF Bridge!Replace
    <3>5. QED
      BY <3>4 DEF Abs, Bridge!Next
  <2>19. ASSUME RemoveStream PROVE Abs
    BY <2>19, <2>b, <2>c, BridgeUntouched DEF RemoveStream
  <2>20. ASSUME ServerStop PROVE Abs
    BY <2>20, <2>b, <2>c, BridgeUntouched DEF ServerStop
  <2>21. ASSUME NEW c \in Clients, StopRemovesClient(c) PROVE Abs
    BY <2>21, <2>b, <2>c, BridgeUntouched DEF StopRemovesClient
  <2>22. ASSUME StopFinishes PROVE Abs
    <3>1. ~Locked /\ ~Locked' /\ UNCHANGED raised
      BY <2>22, <2>b DEF StopFinishes, MutexFree
    <3>2. CASE active \/ connecting
      <4>1. Bridge!Stop
        BY <2>22, <2>0, <3>1, <3>2, BridgeStopped DEF StopFinishes, Bridge!Stop
      <4>2. QED
        BY <4>1 DEF Abs, Bridge!Next
    <3>3. CASE ~(active \/ connecting)
      BY <2>22, <2>b, <2>c, <3>3, BridgeUntouched
         DEF StopFinishes, StopStreamInternal
    <3>4. QED
      BY <3>2, <3>3
  <2>23. CASE UNCHANGED vars
    BY <2>23, <2>b, <2>c, BridgeUntouched DEF vars
  <2>24. QED
    BY <2>1, <2>2, <2>3, <2>4, <2>5, <2>6, <2>7, <2>8, <2>9, <2>10, <2>11,
       <2>12, <2>13, <2>14, <2>15, <2>16, <2>17, <2>18, <2>19, <2>20, <2>21,
       <2>22, <2>23
       DEF Abs, Next, ConnectionStep, StarterStep, TimerStep, ErrorStep, ServerStep
<1>3. QED
  BY <1>1, <1>2, Inductive, PTL DEF Spec, ImplementsBridge, Bridge!Spec

=============================================================================
