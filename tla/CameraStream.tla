---------------------------- MODULE CameraStream ----------------------------
(***************************************************************************)
(* One CameraStream object of the RTSP server (bridge/pkg/rtsp/server.go): *)
(* the camera-facing WebRTC session that all RTSP viewers of one camera    *)
(* and resolution share.  The object is touched by                         *)
(*                                                                         *)
(*   - the goroutines of the RTSP connections (getOrCreateStream,          *)
(*     AddClient, RemoveClient),                                           *)
(*   - the startStream goroutines, which hold cs.mutex all through         *)
(*     WebRTCBridge.Start and give it up while they wait for a retry,      *)
(*   - the callbacks of the shutdown timer (time.AfterFunc),               *)
(*   - the goroutines of pion, MQTT and the audio encoder that call        *)
(*     WebRTCBridge.handleError,                                           *)
(*   - the asynchronous removeStream of a stopped stream, and              *)
(*   - RTSPServer.Stop.                                                    *)
(*                                                                         *)
(* cs.mutex is not a variable: every critical section but one is a single  *)
(* action, and the exception, a running WebRTCBridge.Start, is visible in  *)
(* `starter'; Locked says that it holds the mutex.                         *)
(***************************************************************************)
EXTENDS Naturals

CONSTANTS
    Clients,     (* RTSP connections for this camera and resolution         *)
    Starters,    (* slots for startStream goroutines (bound)                *)
    MaxErrors,   (* error goroutines in flight at once (bound)              *)
    MaxExpired   (* expired timer callbacks in flight at once (bound)       *)

ASSUME BoundsAssumption ==
    /\ MaxErrors \in Nat
    /\ MaxExpired \in Nat

VARIABLES
    conn,          (* per connection: where handleConnection stands         *)
    clients,       (* cs.clients                                            *)
    active,        (* cs.active                                             *)
    connecting,    (* cs.connecting                                         *)
    bridgeStarted, (* cs.bridgeStarted                                      *)
    timer,         (* cs.shutdownTimer: nil, armed, or fired but unserved   *)
    expired,       (* timer callbacks that wait for cs.mutex                *)
    starter,       (* the startStream goroutines                            *)
    ran,           (* Start was called on the current bridge                *)
    handler,       (* the current bridge's OnError is set                   *)
    cancelled,     (* the current bridge was stopped: its context is done   *)
    checked,       (* goroutines in handleError past `wb.OnError != nil'    *)
    callers,       (* goroutines that entered handleBridgeError, unserved   *)
    registered,    (* s.streams[streamId] is this object                    *)
    removing,      (* a removeStream goroutine is on its way                *)
    stopper,       (* RTSPServer.Stop: not called, stopping us, or past us  *)
    stopSet,       (* clients Stop has still to remove                      *)
    panicked       (* a nil OnError was called: the process is gone         *)

viewerVars == <<conn, clients>>
phaseVars  == <<active, connecting, bridgeStarted>>
timerVars  == <<timer, expired>>
bridgeVars == <<ran, handler, cancelled>>
errorVars  == <<checked, callers>>
serverVars == <<registered, removing, stopper, stopSet>>
vars == <<viewerVars, phaseVars, timerVars, starter, bridgeVars, errorVars,
          serverVars, panicked>>

(* A callback belongs to the bridge that cs.webrtcBridge points to, or to  *)
(* one that replaceBridge has retired.                                     *)
Bridges == {"current", "retired"}

(* Stages of startStream: spawned, before its first attempt, waiting for a *)
(* retry, inside WebRTCBridge.Start.                                       *)
StarterStages == {"none", "spawned", "first", "retry", "starting"}

-----------------------------------------------------------------------------

Locked == \E g \in Starters : starter[g] = "starting"

(* cs.mutex can be taken; nothing moves any more after a panic.            *)
MutexFree == ~Locked /\ ~panicked

InFlight == checked["current"] + checked["retired"]
              + callers["current"] + callers["retired"]

(* getOrCreateStream has made the object for connection c and registered   *)
(* it; AddClient follows.                                                  *)
Init ==
    /\ \E c \in Clients :
         conn = [d \in Clients |-> IF d = c THEN "fetched" ELSE "none"]
    /\ clients = {}
    /\ active = FALSE /\ connecting = FALSE /\ bridgeStarted = FALSE
    /\ timer = "nil" /\ expired = 0
    /\ starter = [g \in Starters |-> "none"]
    /\ ran = FALSE /\ handler = TRUE /\ cancelled = FALSE
    /\ checked = [b \in Bridges |-> 0]
    /\ callers = [b \in Bridges |-> 0]
    /\ registered = TRUE /\ removing = FALSE
    /\ stopper = "none" /\ stopSet = {}
    /\ panicked = FALSE

-----------------------------------------------------------------------------
(* Building blocks shared by several critical sections.                    *)

(* `go cs.startStream()'                                                   *)
SpawnStarter ==
    \E g \in Starters :
        /\ starter[g] = "none"
        /\ starter' = [starter EXCEPT ![g] = "spawned"]

(* stopStreamInternal.  The bridge it stops keeps being cs.webrtcBridge.   *)
StopStreamInternal ==
    IF active \/ connecting
    THEN /\ active' = FALSE
         /\ connecting' = FALSE
         /\ timer' = "nil"
         /\ handler' = FALSE
         /\ cancelled' = TRUE
         /\ removing' = TRUE
         /\ UNCHANGED <<bridgeStarted, ran>>
    ELSE UNCHANGED <<phaseVars, timer, bridgeVars, removing>>

(* Goroutines that hold the current bridge now hold a retired one.         *)
Retire(count) ==
    [b \in Bridges |->
        IF b = "current" THEN 0 ELSE count["current"] + count["retired"]]

(* replaceBridge: the old bridge loses its handler and is stopped, a new   *)
(* one with a handler takes its place; `started' says whether the caller   *)
(* goes on to Start it.                                                    *)
ReplaceBridge(started) ==
    /\ ran' = started
    /\ handler' = TRUE
    /\ cancelled' = FALSE
    /\ checked' = Retire(checked)
    /\ callers' = Retire(callers)

(* Seeded fault: the last viewer leaves and nobody schedules the shutdown. *)
DropClientForgotten(c) ==
    /\ clients' = clients \ {c}
    /\ UNCHANGED timer

(* The part of RemoveClient that follows the forwarder: with the last      *)
(* viewer gone an active stream (re)schedules its shutdown.                *)
DropClient(c) ==
    /\ clients' = clients \ {c}
    /\ timer' = IF clients' = {} /\ active THEN "armed" ELSE timer

-----------------------------------------------------------------------------
(* The RTSP connections.                                                   *)

(* getOrCreateStream hands out the registered object.  It holds s.mutex    *)
(* and reads active and connecting without cs.mutex.                       *)
FetchStream(c) ==
    /\ ~panicked
    /\ conn[c] = "none"
    /\ registered
    /\ active \/ connecting
    /\ stopper # "stopping"
    /\ conn' = [conn EXCEPT ![c] = "fetched"]
    /\ UNCHANGED <<clients, phaseVars, timerVars, starter, bridgeVars, errorVars,
                   serverVars, panicked>>

(* getOrCreateStream for another connection has found the registered       *)
(* object neither active nor connecting, and overwrites the entry when it  *)
(* has an MQTT client for a new one.  Since s.mutex is kept in between,    *)
(* nobody leaves, but AddClient may come: the object is idle still, or has *)
(* viewers (LiveEntryNotLost of RTSPServer, which has the steps of this).  *)
Overwritten ==
    /\ ~panicked
    /\ registered
    /\ active \/ connecting => clients # {}
    /\ stopper # "stopping"
    /\ registered' = FALSE
    /\ UNCHANGED <<viewerVars, phaseVars, timerVars, starter, bridgeVars,
                   errorVars, removing, stopper, stopSet, panicked>>

(* Seeded fault: AddClient leaves a pending shutdown armed.                *)
AddClientKeepsTimer(c) ==
    /\ conn[c] = "fetched"
    /\ MutexFree
    /\ conn' = [conn EXCEPT ![c] = "attached"]
    /\ clients' = clients \cup {c}
    /\ IF ~active /\ ~connecting
       THEN connecting' = TRUE /\ SpawnStarter
       ELSE UNCHANGED <<connecting, starter>>
    /\ UNCHANGED <<active, bridgeStarted, timerVars, bridgeVars, errorVars,
                   serverVars, panicked>>

(* Seeded fault: AddClient starts a stream that is already connecting.     *)
AddClientStartsTwice(c) ==
    /\ conn[c] = "fetched"
    /\ MutexFree
    /\ conn' = [conn EXCEPT ![c] = "attached"]
    /\ clients' = clients \cup {c}
    /\ timer' = "nil"
    /\ IF ~active
       THEN connecting' = TRUE /\ SpawnStarter
       ELSE UNCHANGED <<connecting, starter>>
    /\ UNCHANGED <<active, bridgeStarted, expired, bridgeVars, errorVars,
                   serverVars, panicked>>

(* CameraStream.AddClient, with the addClient that precedes it.            *)
AddClient(c) ==
    /\ conn[c] = "fetched"
    /\ MutexFree
    /\ conn' = [conn EXCEPT ![c] = "attached"]
    /\ clients' = clients \cup {c}
    /\ timer' = "nil"
    /\ IF ~active /\ ~connecting
       THEN connecting' = TRUE /\ SpawnStarter
       ELSE UNCHANGED <<connecting, starter>>
    /\ UNCHANGED <<active, bridgeStarted, expired, bridgeVars, errorVars,
                   serverVars, panicked>>

(* RTSPServer.removeClient, deferred by handleRTSPProtocol: it holds       *)
(* s.mutex and takes cs.mutex in CameraStream.RemoveClient.                *)
RemoveClient(c) ==
    /\ conn[c] = "attached"
    /\ stopper # "stopping"
    /\ MutexFree
    /\ conn' = [conn EXCEPT ![c] = "none"]
    /\ DropClient(c)
    /\ UNCHANGED <<phaseVars, expired, starter, bridgeVars, errorVars,
                   serverVars, panicked>>

-----------------------------------------------------------------------------
(* startStream.                                                            *)

(* The check before the retry loop.                                        *)
EnterStart(g) ==
    /\ starter[g] = "spawned"
    /\ MutexFree
    /\ starter' = [starter EXCEPT ![g] =
                     IF active \/ ~connecting THEN "none" ELSE "first"]
    /\ UNCHANGED <<viewerVars, phaseVars, timerVars, bridgeVars, errorVars,
                   serverVars, panicked>>

(* An attempt finds that somebody else finished or cancelled the start.    *)
AttemptSuperseded(g) ==
    /\ starter[g] \in {"first", "retry"}
    /\ MutexFree
    /\ active \/ ~connecting
    /\ starter' = [starter EXCEPT ![g] = "none"]
    /\ UNCHANGED <<viewerVars, phaseVars, timerVars, bridgeVars, errorVars,
                   serverVars, panicked>>

(* Seeded fault: the attempt returns without stopping the stream.          *)
AttemptUnwatchedLeaks(g) ==
    /\ starter[g] \in {"first", "retry"}
    /\ MutexFree
    /\ ~active /\ connecting
    /\ clients = {}
    /\ starter' = [starter EXCEPT ![g] = "none"]
    /\ UNCHANGED <<viewerVars, phaseVars, timerVars, bridgeVars, errorVars,
                   serverVars, panicked>>

(* An attempt finds no viewers left and gives up.                          *)
AttemptUnwatched(g) ==
    /\ starter[g] \in {"first", "retry"}
    /\ MutexFree
    /\ ~active /\ connecting
    /\ clients = {}
    /\ StopStreamInternal
    /\ starter' = [starter EXCEPT ![g] = "none"]
    /\ UNCHANGED <<viewerVars, expired, errorVars, registered, stopper, stopSet,
                   panicked>>

(* Seeded fault: only a retry replaces the bridge.                         *)
AttemptStartReuses(g) ==
    /\ starter[g] \in {"first", "retry"}
    /\ MutexFree
    /\ ~active /\ connecting
    /\ clients # {}
    /\ IF starter[g] = "retry"
       THEN ReplaceBridge(TRUE)
       ELSE ran' = TRUE /\ UNCHANGED <<handler, cancelled, errorVars>>
    /\ bridgeStarted' = TRUE
    /\ starter' = [starter EXCEPT ![g] = "starting"]
    /\ UNCHANGED <<viewerVars, active, connecting, timerVars, serverVars,
                   panicked>>

(* An attempt calls WebRTCBridge.Start, on a fresh bridge if this is a     *)
(* retry or the current one has been started before.                       *)
AttemptStart(g) ==
    /\ starter[g] \in {"first", "retry"}
    /\ MutexFree
    /\ ~active /\ connecting
    /\ clients # {}
    /\ IF starter[g] = "retry" \/ bridgeStarted
       THEN ReplaceBridge(TRUE)
       ELSE ran' = TRUE /\ UNCHANGED <<handler, cancelled, errorVars>>
    /\ bridgeStarted' = TRUE
    /\ starter' = [starter EXCEPT ![g] = "starting"]
    /\ UNCHANGED <<viewerVars, active, connecting, timerVars, serverVars,
                   panicked>>

(* Start returned nil.                                                     *)
StartSucceeds(g) ==
    /\ ~panicked
    /\ starter[g] = "starting"
    /\ connecting' = FALSE
    /\ active' = TRUE
    /\ starter' = [starter EXCEPT ![g] = "none"]
    /\ UNCHANGED <<viewerVars, bridgeStarted, timerVars, bridgeVars, errorVars,
                   serverVars, panicked>>

(* Seeded fault: a failed start is not retried.                            *)
StartFailsForGood(g) ==
    /\ ~panicked
    /\ starter[g] = "starting"
    /\ starter' = [starter EXCEPT ![g] = "none"]
    /\ UNCHANGED <<viewerVars, phaseVars, timerVars, bridgeVars, errorVars,
                   serverVars, panicked>>

(* Start returned an error: wait and retry, if there is still a viewer.    *)
StartFails(g) ==
    /\ ~panicked
    /\ starter[g] = "starting"
    /\ IF clients = {}
       THEN /\ StopStreamInternal
            /\ starter' = [starter EXCEPT ![g] = "none"]
       ELSE /\ starter' = [starter EXCEPT ![g] = "retry"]
            /\ UNCHANGED <<phaseVars, timer, bridgeVars, removing>>
    /\ UNCHANGED <<viewerVars, expired, errorVars, registered, stopper, stopSet,
                   panicked>>

(* The server's context is done while the goroutine waits for a retry.     *)
RetryAborted(g) ==
    /\ ~panicked
    /\ starter[g] = "retry"
    /\ stopper # "none"
    /\ starter' = [starter EXCEPT ![g] = "none"]
    /\ UNCHANGED <<viewerVars, phaseVars, timerVars, bridgeVars, errorVars,
                   serverVars, panicked>>

-----------------------------------------------------------------------------
(* scheduleShutdown's timer.                                               *)

(* shutdownDelay has passed: the callback's goroutine exists and can no    *)
(* longer be called off by Timer.Stop.                                     *)
TimerExpires ==
    /\ ~panicked
    /\ timer = "armed"
    /\ expired < MaxExpired
    /\ timer' = "fired"
    /\ expired' = expired + 1
    /\ UNCHANGED <<viewerVars, phaseVars, starter, bridgeVars, errorVars,
                   serverVars, panicked>>

(* Seeded fault: the callback does not look for viewers again.             *)
TimerCallbackBlind ==
    /\ expired > 0
    /\ MutexFree
    /\ expired' = expired - 1
    /\ IF active
       THEN StopStreamInternal
       ELSE /\ timer' = "nil"
            /\ UNCHANGED <<phaseVars, bridgeVars, removing>>
    /\ UNCHANGED <<viewerVars, starter, errorVars, registered, stopper, stopSet,
                   panicked>>

(* Seeded fault: the callback runs although no timer has expired.          *)
TimerCallbackSpurious ==
    /\ MutexFree
    /\ expired' = expired - 1
    /\ timer' = "nil"
    /\ UNCHANGED <<viewerVars, phaseVars, bridgeVars, removing, starter, errorVars,
                   registered, stopper, stopSet, panicked>>

(* The callback gets cs.mutex.                                             *)
TimerCallback ==
    /\ expired > 0
    /\ MutexFree
    /\ expired' = expired - 1
    /\ IF clients = {} /\ active
       THEN StopStreamInternal
       ELSE /\ timer' = "nil"
            /\ UNCHANGED <<phaseVars, bridgeVars, removing>>
    /\ UNCHANGED <<viewerVars, starter, errorVars, registered, stopper, stopSet,
                   panicked>>

-----------------------------------------------------------------------------
(* WebRTCBridge.handleError and handleBridgeError.                         *)

(* A bridge that has been started reports an error: the goroutine sees     *)
(* that OnError is set.  (With OnError nil handleError does nothing.)      *)
BridgeError ==
    /\ ~panicked
    /\ ran
    /\ handler
    /\ InFlight < MaxErrors
    /\ checked' = [checked EXCEPT !["current"] = @ + 1]
    /\ UNCHANGED <<viewerVars, phaseVars, timerVars, starter, bridgeVars, callers,
                   serverVars, panicked>>

(* After waiter.Done the goroutine reads OnError again and calls it.       *)
(* replaceBridge and stopStreamInternal may have set it to nil meanwhile.  *)
CallHandler(b) ==
    /\ ~panicked
    /\ checked[b] > 0
    /\ checked' = [checked EXCEPT ![b] = @ - 1]
    /\ IF b = "current" /\ handler
       THEN /\ callers' = [callers EXCEPT ![b] = @ + 1]
            /\ UNCHANGED panicked
       ELSE /\ panicked' = TRUE
            /\ UNCHANGED callers
    /\ UNCHANGED <<viewerVars, phaseVars, timerVars, starter, bridgeVars,
                   serverVars>>

(* handleBridgeError drops the error while a start is under way or the     *)
(* stream is stopped.  handlingError is FALSE outside critical sections,   *)
(* so it never decides here.                                               *)
ErrorIgnored(b) ==
    /\ callers[b] > 0
    /\ MutexFree
    /\ connecting \/ ~active
    /\ callers' = [callers EXCEPT ![b] = @ - 1]
    /\ UNCHANGED <<viewerVars, phaseVars, timerVars, starter, bridgeVars, checked,
                   serverVars, panicked>>

(* With no viewers the failed session is simply stopped.                   *)
ErrorUnwatched(b) ==
    /\ callers[b] > 0
    /\ MutexFree
    /\ ~connecting /\ active
    /\ clients = {}
    /\ callers' = [callers EXCEPT ![b] = @ - 1]
    /\ StopStreamInternal
    /\ UNCHANGED <<viewerVars, expired, starter, checked, registered, stopper,
                   stopSet, panicked>>

(* Seeded fault: a failed session is replaced for nobody.                  *)
ErrorRecoversUnwatched(b) ==
    /\ callers[b] > 0
    /\ MutexFree
    /\ ~connecting /\ active
    /\ active' = FALSE
    /\ connecting' = TRUE
    /\ bridgeStarted' = FALSE
    /\ ran' = FALSE /\ handler' = TRUE /\ cancelled' = FALSE
    /\ checked' = Retire(checked)
    /\ callers' = Retire([callers EXCEPT ![b] = @ - 1])
    /\ SpawnStarter
    /\ UNCHANGED <<viewerVars, timerVars, serverVars, panicked>>

(* With viewers the failed session is replaced; they stay attached.        *)
ErrorRecovers(b) ==
    /\ callers[b] > 0
    /\ MutexFree
    /\ ~connecting /\ active
    /\ clients # {}
    /\ active' = FALSE
    /\ connecting' = TRUE
    /\ bridgeStarted' = FALSE
    /\ ran' = FALSE /\ handler' = TRUE /\ cancelled' = FALSE
    /\ checked' = Retire(checked)
    /\ callers' = Retire([callers EXCEPT ![b] = @ - 1])
    /\ SpawnStarter
    /\ UNCHANGED <<viewerVars, timerVars, serverVars, panicked>>

-----------------------------------------------------------------------------
(* The registry and the server.                                            *)

(* removeStream: the goroutine spawned by stopStreamInternal.              *)
RemoveStream ==
    /\ ~panicked
    /\ removing
    /\ stopper # "stopping"
    /\ removing' = FALSE
    /\ registered' = FALSE
    /\ UNCHANGED <<viewerVars, phaseVars, timerVars, starter, bridgeVars,
                   errorVars, stopper, stopSet, panicked>>

(* RTSPServer.Stop cancels the server's context and, holding s.mutex,      *)
(* stops the streams of the registry: CameraStream.Stop ranges over        *)
(* cs.clients without cs.mutex.                                            *)
ServerStop ==
    /\ ~panicked
    /\ stopper = "none"
    /\ stopper' = IF registered THEN "stopping" ELSE "stopped"
    /\ stopSet' = IF registered THEN clients ELSE {}
    /\ UNCHANGED <<viewerVars, phaseVars, timerVars, starter, bridgeVars,
                   errorVars, registered, removing, panicked>>

StopRemovesClient(c) ==
    /\ stopper = "stopping"
    /\ c \in stopSet
    /\ MutexFree
    /\ stopSet' = stopSet \ {c}
    /\ DropClient(c)
    /\ UNCHANGED <<conn, phaseVars, expired, starter, bridgeVars, errorVars,
                   registered, removing, stopper, panicked>>

(* CameraStream.Stop ends with stopStream.                                 *)
StopFinishes ==
    /\ stopper = "stopping"
    /\ stopSet = {}
    /\ MutexFree
    /\ StopStreamInternal
    /\ stopper' = "stopped"
    /\ UNCHANGED <<viewerVars, expired, starter, errorVars, registered, stopSet,
                   panicked>>

-----------------------------------------------------------------------------

ConnectionStep ==
    \/ \E c \in Clients : FetchStream(c) \/ AddClient(c) \/ RemoveClient(c)
    \/ Overwritten

StarterStep(g) ==
    \/ EnterStart(g)
    \/ AttemptSuperseded(g)
    \/ AttemptUnwatched(g)
    \/ AttemptStart(g)
    \/ StartSucceeds(g)
    \/ StartFails(g)
    \/ RetryAborted(g)

TimerStep == TimerExpires \/ TimerCallback

ErrorStep ==
    \/ BridgeError
    \/ \E b \in Bridges :
         \/ CallHandler(b)
         \/ ErrorIgnored(b)
         \/ ErrorUnwatched(b)
         \/ ErrorRecovers(b)

ServerStep ==
    \/ RemoveStream
    \/ ServerStop
    \/ \E c \in Clients : StopRemovesClient(c)
    \/ StopFinishes

Next ==
    \/ ConnectionStep
    \/ \E g \in Starters : StarterStep(g)
    \/ TimerStep
    \/ ErrorStep
    \/ ServerStep

Spec == Init /\ [][Next]_vars

(* What the scheduler and the clock give.  Every goroutine that waits for  *)
(* cs.mutex gets it in the end (sync.Mutex hands the lock to its oldest    *)
(* waiter in starvation mode), so those actions are strongly fair; clocks  *)
(* run on.  Connections may come and go or stay for good, bridges need not *)
(* fail, nothing makes Start return, and nobody has to stop the server.    *)
Scheduling ==
    /\ WF_vars(TimerExpires)
    /\ SF_vars(TimerCallback)
    /\ WF_vars(RemoveStream)
    /\ \A b \in Bridges :
         /\ WF_vars(CallHandler(b))
         /\ SF_vars(ErrorIgnored(b) \/ ErrorUnwatched(b) \/ ErrorRecovers(b))
    /\ \A g \in Starters :
         SF_vars(\/ EnterStart(g)
                 \/ AttemptSuperseded(g)
                 \/ AttemptUnwatched(g)
                 \/ AttemptStart(g))

(* An assumption on the environment: every Start returns, and a camera     *)
(* that is asked again and again is reached some day.                      *)
CameraReachable ==
    \A g \in Starters :
        /\ WF_vars(StartSucceeds(g) \/ StartFails(g))
        /\ SF_vars(StartSucceeds(g))

FairSpec == Spec /\ Scheduling /\ CameraReachable

-----------------------------------------------------------------------------
(* Properties.                                                             *)

(* Every variable ranges over the values its Go type and use allow.        *)
TypeOK ==
    /\ conn \in [Clients -> {"none", "fetched", "attached"}]
    /\ clients \in SUBSET Clients
    /\ active \in BOOLEAN /\ connecting \in BOOLEAN /\ bridgeStarted \in BOOLEAN
    /\ timer \in {"nil", "armed", "fired"}
    /\ expired \in Nat
    /\ starter \in [Starters -> StarterStages]
    /\ ran \in BOOLEAN /\ handler \in BOOLEAN /\ cancelled \in BOOLEAN
    /\ checked \in [Bridges -> Nat]
    /\ callers \in [Bridges -> Nat]
    /\ registered \in BOOLEAN /\ removing \in BOOLEAN
    /\ stopper \in {"none", "stopping", "stopped"}
    /\ stopSet \in SUBSET Clients
    /\ panicked \in BOOLEAN

(* A live camera session without viewers always has its teardown on the    *)
(* way: a timer is armed or an expired one's callback waits for the mutex. *)
(* No order of AddClient, RemoveClient, starts, errors and late callbacks  *)
(* leaves a session running for nobody (RemoveClient, scheduleShutdown).   *)
UnwatchedSessionExpires ==
    active /\ clients = {} => \/ timer = "armed"
                             \/ (timer = "fired" /\ expired > 0)

(* A shutdown is pending only for a session that is live and has no viewer:*)
(* whoever joins, stops or restarts the stream has called it off           *)
(* (AddClient, stopStreamInternal).                                        *)
ShutdownOnlyWhenUnwatched ==
    timer # "nil" => active /\ clients = {}

(* Until the server stops, a viewer is never left with a dead stream: the  *)
(* session is live, or it is connecting and a startStream goroutine is     *)
(* there to bring it up (AddClient, handleBridgeError, startStream).       *)
NoStrandedViewer ==
    stopper = "none" /\ clients # {} =>
        active \/ (connecting /\ \E g \in Starters : starter[g] # "none")

(* Until the server stops, one goroutine at most runs startStream, and only*)
(* while the stream is connecting: two would open two camera sessions and  *)
(* break the retry delays.                                                 *)
SingleStarter ==
    stopper = "none" =>
        \A g, h \in Starters :
            starter[g] # "none" => /\ connecting /\ ~active
                                   /\ starter[h] # "none" => g = h

(* While Start runs, its goroutine alone is in Start, the stream is        *)
(* connecting and has a viewer: nobody who wants to change that gets       *)
(* cs.mutex.  So the check for viewers after a failed Start never fires.   *)
StartUnderMutex ==
    \A g \in Starters :
        starter[g] = "starting" =>
            /\ connecting /\ ~active
            /\ clients # {}
            /\ \A h \in Starters : starter[h] = "starting" => g = h

(* Until the server stops, a stream that connects has a goroutine that     *)
(* works on it, viewers or not.                                            *)
ConnectingHasStarter ==
    stopper = "none" /\ connecting => \E g \in Starters : starter[g] # "none"

(* bridgeStarted is never lost while the current bridge has run.           *)
RunIsRecorded == ran => bridgeStarted

(* The Start that holds cs.mutex, and the session of an active stream, are *)
(* those of the current bridge.                                            *)
StartIsRun == Locked \/ active => ran

(* The inductive invariant behind the safety properties above.             *)
IInv ==
    /\ TypeOK
    /\ ~(active /\ connecting)
    /\ UnwatchedSessionExpires
    /\ ShutdownOnlyWhenUnwatched
    /\ timer = "fired" => expired > 0
    /\ NoStrandedViewer
    /\ SingleStarter
    /\ StartUnderMutex
    /\ ConnectingHasStarter
    /\ RunIsRecorded
    /\ StartIsRun

(* A bridge that has run once is not started again: the attempt gets a new *)
(* one, not stopped and with the error handler attached (startStream).     *)
RestartGetsFreshBridge ==
    [][ran /\ ~Locked /\ Locked' => handler' /\ ~cancelled' ]_vars

(* A session nobody watches, live or connecting, is stopped in the end,    *)
(* unless somebody joins, the server stops or the process dies.            *)
SessionTornDown ==
    (active \/ connecting) /\ clients = {}
        ~> \/ (~active /\ ~connecting)
           \/ clients # {} \/ stopper # "none" \/ panicked

(* If the camera can be reached, a viewer that stays gets a live session,  *)
(* whatever fails on the way (retry loop of startStream).                  *)
ViewerServed ==
    clients # {} ~> active \/ clients = {} \/ stopper # "none" \/ panicked

-----------------------------------------------------------------------------
(* The abstract session this object implements.                            *)

Phase == IF active THEN "live" ELSE IF connecting THEN "connecting" ELSE "idle"

Lifecycle == INSTANCE StreamLifecycle WITH
    Viewers <- Clients,
    viewers <- clients,
    phase   <- Phase,
    down    <- stopper # "none" \/ panicked

(* Joining, leaving, connecting, breaking and retiring follow the abstract *)
(* session: see StreamLifecycle.                                           *)
ImplementsLifecycle == Lifecycle!Spec

-----------------------------------------------------------------------------
(* The bridge as this object uses it.                                      *)

BridgePhase == CASE ~ran -> "idle"
                 [] ran /\ Locked -> "starting"
                 [] ran /\ ~Locked /\ active /\ handler -> "up"
                 [] OTHER -> "over"

Bridge == INSTANCE BridgeInterface WITH
    phase   <- BridgePhase,
    handler <- handler,
    raised  <- checked["current"] + callers["current"]

(* The current bridge is started once, is left alone while Start runs, and *)
(* an error of one that is up ends it: see BridgeInterface.  (An error of a*)
(* retired bridge is none of the current one: LateCallbackIgnored.)        *)
ImplementsBridge == Bridge!Spec

-----------------------------------------------------------------------------
(* Statements of the repository that the code does not keep.               *)

(* "A stream reused by a fast reconnect must get a fresh bridge with the   *)
(* handler attached" (stream_error_test.go): Start only ever runs on a     *)
(* bridge that is not stopped and has its handler.                         *)
StartsOnLiveBridge == Locked => handler /\ ~cancelled

(* "Ignore late callbacks from the bridge that was just stopped"           *)
(* (handleBridgeError): an error of a retired bridge changes nothing.      *)
LateCallbackIgnored ==
    [][callers'["retired"] < callers["retired"]
         => UNCHANGED <<active, connecting>>]_vars

(* handleError calls OnError only when it is set.                          *)
HandlerNeverNil == ~panicked

=============================================================================
