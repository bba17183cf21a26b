----------------------------- MODULE RTSPServer -----------------------------
(***************************************************************************)
(* The registry of the RTSP server (bridge/pkg/rtsp/server.go): the        *)
(* CameraStream objects that exist for one stream id, the connections that *)
(* use them, and the two kinds of locks between them.                      *)
(*                                                                         *)
(* s.mutex guards s.streams and s.clients; removeClient and Stop keep it   *)
(* while they wait for the cs.mutex of a stream, which a running           *)
(* WebRTCBridge.Start holds, and getOrCreateStream while it waits for an   *)
(* MQTT client.  getOrCreateStream, the AddClient that follows it and the  *)
(* removeStream that a stopped stream sends after itself are separate      *)
(* critical sections, and AddClient needs cs.mutex only, so several objects*)
(* of one id can be alive.  What happens inside one object is              *)
(* CameraStream's matter: here it is a session of StreamLifecycle, in a    *)
(* little more detail.                                                     *)
(***************************************************************************)
EXTENDS FiniteSets

CONSTANTS
    Streams,   (* the CameraStream objects of one stream id; an object that *)
               (* nothing refers to any more is used again (bound)          *)
    Conns,     (* connections of RTSP clients for that id (bound)           *)
    none       (* no object, no connection                                  *)

ASSUME NoneAssumption ==
    /\ none \notin Streams \cup Conns \cup {"stop"}
    /\ "stop" \notin Conns

VARIABLES
    server,    (* s.running, and whether Stop still has s.mutex             *)
    holder,    (* who keeps s.mutex: none, "stop", or a leaving connection  *)
    streams,   (* s.streams[streamId]                                       *)
    conn,      (* per connection: where handleConnection stands             *)
    at,        (* client.stream, or the result of getOrCreateStream         *)
    closed,    (* connections that Stop has closed                          *)
    sweep,     (* viewers that the loop of CameraStream.Stop still has to   *)
               (* visit                                                     *)
    phase,     (* per object: active, connecting and startStream            *)
    viewers,   (* cs.clients                                                *)
    removing   (* objects with a removeStream goroutine on its way          *)

serverVars == <<server, sweep>>
connVars   == <<conn, at, closed>>
objectVars == <<phase, viewers, removing>>
vars == <<serverVars, holder, streams, connVars, objectVars>>

(* The stages of handleConnection: request read and authorised, stream     *)
(* found or made, in s.clients, in cs.clients, gone from the socket.  In   *)
(* between, with s.mutex, getOrCreateStream has read active as FALSE       *)
(* ("checking"), or makes an object ("creating").                          *)
Stages == {"none", "accepted", "checking", "creating", "fetched", "listed",
           "attached", "leaving"}
NoStream == {"none", "accepted", "checking", "creating"}

(* connecting = TRUE covers four of them: startStream between two critical *)
(* sections before its first attempt, in WebRTCBridge.Start, waiting for a *)
(* retry, and gone because the server's context is done.                   *)
FlagConnecting == {"connecting", "starting", "retrying", "abandoned"}

(* "failing" is handleBridgeError between active = false and               *)
(* connecting = true: to who holds cs.mutex the session is connecting.     *)
Connecting == FlagConnecting \cup {"failing"}
Phases == {"idle", "live"} \cup Connecting

(* s.mutex can be taken.                                                   *)
Free == holder = none

(* cs.mutex of object o can be taken.                                      *)
Unlocked(o) == phase[o] \notin {"starting", "failing"}

(* Nothing refers to object o.                                             *)
Unused(o) ==
    /\ phase[o] = "idle" /\ viewers[o] = {}
    /\ streams # o /\ o \notin removing
    /\ \A c \in Conns : at[c] # o

Init ==
    /\ server = "running" /\ holder = none /\ streams = none
    /\ conn = [c \in Conns |-> "none"] /\ at = [c \in Conns |-> none]
    /\ closed = {} /\ sweep = {}
    /\ phase = [o \in Streams |-> "idle"]
    /\ viewers = [o \in Streams |-> {}]
    /\ removing = {}

-----------------------------------------------------------------------------
(* The connections.                                                        *)

(* acceptConnections.                                                      *)
Accept(c) ==
    /\ server = "running"
    /\ conn[c] = "none"
    /\ conn' = [conn EXCEPT ![c] = "accepted"]
    /\ UNCHANGED <<serverVars, holder, streams, at, closed, objectVars>>

(* getOrCreateStream reads active and connecting of the registered object, *)
(* one after the other and without cs.mutex.  It finds one that is active, *)
(* or, in the second read, connecting ...                                  *)
GetStream(c) ==
    /\ streams # none
    /\ \/ conn[c] = "accepted" /\ Free /\ phase[streams] = "live"
       \/ /\ holder = c /\ conn[c] = "checking"
          /\ phase[streams] \in FlagConnecting
    /\ holder' = none
    /\ conn' = [conn EXCEPT ![c] = "fetched"]
    /\ at' = [at EXCEPT ![c] = streams]
    /\ UNCHANGED <<serverVars, streams, closed, objectVars>>

(* ... or one that is not active in the first read ...                     *)
ReadInactive(c) ==
    /\ conn[c] = "accepted"
    /\ Free
    /\ streams # none /\ phase[streams] # "live"
    /\ holder' = c
    /\ conn' = [conn EXCEPT ![c] = "checking"]
    /\ UNCHANGED <<serverVars, streams, at, closed, objectVars>>

(* ... and not connecting in the second, or none at all.                   *)
NothingToReuse(c) ==
    /\ \/ conn[c] = "accepted" /\ Free /\ streams = none
       \/ /\ holder = c /\ conn[c] = "checking"
          /\ phase[streams] \notin FlagConnecting
    /\ holder' = c
    /\ conn' = [conn EXCEPT ![c] = "creating"]
    /\ UNCHANGED <<serverVars, streams, at, closed, objectVars>>

(* With s.mutex, but not cs.mutex, getOrCreateStream has made an object and*)
(* asked for its MQTT client, which may take long.  The object of that id, *)
(* which a connection that had it may have started meanwhile, loses its    *)
(* entry.                                                                  *)
CreateStream(c, o) ==
    /\ holder = c /\ conn[c] = "creating"
    /\ Unused(o)
    /\ holder' = none
    /\ conn' = [conn EXCEPT ![c] = "fetched"]
    /\ at' = [at EXCEPT ![c] = o]
    /\ streams' = o
    /\ UNCHANGED <<serverVars, closed, objectVars>>

(* No MQTT client can be had for a new object: 500.                        *)
CreateFails(c) ==
    /\ holder = c /\ conn[c] = "creating"
    /\ holder' = none
    /\ conn' = [conn EXCEPT ![c] = "none"]
    /\ UNCHANGED <<serverVars, streams, at, closed, objectVars>>

(* addClient.                                                              *)
ListClient(c) ==
    /\ conn[c] = "fetched"
    /\ Free
    /\ conn' = [conn EXCEPT ![c] = "listed"]
    /\ UNCHANGED <<serverVars, holder, streams, at, closed, objectVars>>

(* CameraStream.AddClient.                                                 *)
AddClient(c) ==
    /\ conn[c] = "listed"
    /\ Unlocked(at[c])
    /\ conn' = [conn EXCEPT ![c] = "attached"]
    /\ viewers' = [viewers EXCEPT ![at[c]] = @ \cup {c}]
    /\ phase' = [phase EXCEPT ![at[c]] = IF @ = "idle" THEN "connecting" ELSE @]
    /\ UNCHANGED <<serverVars, holder, streams, at, closed, removing>>

(* handleRTSPProtocol ends: TEARDOWN, timeout, or a closed connection.     *)
Disconnect(c) ==
    /\ conn[c] = "attached"
    /\ conn' = [conn EXCEPT ![c] = "leaving"]
    /\ UNCHANGED <<serverVars, holder, streams, at, closed, objectVars>>

(* removeClient takes s.mutex ...                                          *)
RemoveClient(c) ==
    /\ conn[c] = "leaving"
    /\ Free
    /\ holder' = c
    /\ UNCHANGED <<serverVars, streams, connVars, objectVars>>

(* Seeded fault: removeClient forgets the stream's own set.                *)
RemoveClientListOnly(c) ==
    /\ holder = c /\ conn[c] = "leaving"
    /\ Unlocked(at[c])
    /\ holder' = none
    /\ conn' = [conn EXCEPT ![c] = "none"]
    /\ at' = [at EXCEPT ![c] = none]
    /\ closed' = closed \ {c}
    /\ UNCHANGED <<serverVars, streams, objectVars>>

(* Seeded fault: an early return leaves s.mutex locked.                    *)
RemoveClientKeepsLock(c) ==
    /\ holder = c /\ conn[c] = "leaving"
    /\ Unlocked(at[c])
    /\ viewers' = [viewers EXCEPT ![at[c]] = @ \ {c}]
    /\ conn' = [conn EXCEPT ![c] = "none"]
    /\ at' = [at EXCEPT ![c] = none]
    /\ closed' = closed \ {c}
    /\ UNCHANGED <<serverVars, holder, streams, phase, removing>>

(* Seeded fault: the pointer to the stream outlives its connection.        *)
RemoveClientStalePointer(c) ==
    /\ holder = c /\ conn[c] = "leaving"
    /\ Unlocked(at[c])
    /\ holder' = none
    /\ viewers' = [viewers EXCEPT ![at[c]] = @ \ {c}]
    /\ conn' = [conn EXCEPT ![c] = "none"]
    /\ closed' = closed \ {c}
    /\ UNCHANGED <<serverVars, streams, at, phase, removing>>

(* ... and keeps it until CameraStream.RemoveClient has had cs.mutex.      *)
RemoveFromStream(c) ==
    /\ holder = c /\ conn[c] = "leaving"
    /\ Unlocked(at[c])
    /\ holder' = none
    /\ viewers' = [viewers EXCEPT ![at[c]] = @ \ {c}]
    /\ conn' = [conn EXCEPT ![c] = "none"]
    /\ at' = [at EXCEPT ![c] = none]
    /\ closed' = closed \ {c}
    /\ UNCHANGED <<serverVars, streams, phase, removing>>

-----------------------------------------------------------------------------
(* The objects, each of them a CameraStream.                               *)

(* stopStreamInternal of an object that is active or connecting.           *)
StopStreamInternal(o) ==
    /\ phase' = [phase EXCEPT ![o] = "idle"]
    /\ removing' = removing \cup {o}

(* An attempt of startStream with viewers enters WebRTCBridge.Start and    *)
(* keeps cs.mutex.                                                         *)
StartBegins(o) ==
    /\ phase[o] \in {"connecting", "retrying"}
    /\ viewers[o] # {}
    /\ phase' = [phase EXCEPT ![o] = "starting"]
    /\ UNCHANGED <<serverVars, holder, streams, connVars, viewers, removing>>

StartReturns(o) ==
    /\ phase[o] = "starting"
    /\ phase' \in {[phase EXCEPT ![o] = "live"], [phase EXCEPT ![o] = "retrying"]}
    /\ UNCHANGED <<serverVars, holder, streams, connVars, viewers, removing>>

(* An attempt without viewers gives the start up.                          *)
StartUnwatched(o) ==
    /\ phase[o] \in {"connecting", "retrying"}
    /\ viewers[o] = {}
    /\ StopStreamInternal(o)
    /\ UNCHANGED <<serverVars, holder, streams, connVars, viewers>>

(* The wait for a retry ends with the server's context.                    *)
RetryAborted(o) ==
    /\ phase[o] = "retrying"
    /\ server # "running"
    /\ phase' = [phase EXCEPT ![o] = "abandoned"]
    /\ UNCHANGED <<serverVars, holder, streams, connVars, viewers, removing>>

(* Seeded fault: the expired delay does not ask for viewers again.         *)
RetireBlind(o) ==
    /\ phase[o] = "live"
    /\ StopStreamInternal(o)
    /\ UNCHANGED <<serverVars, holder, streams, connVars, viewers>>

(* The shutdown delay of an unwatched session is over, or its bridge fails.*)
Retire(o) ==
    /\ phase[o] = "live"
    /\ viewers[o] = {}
    /\ StopStreamInternal(o)
    /\ UNCHANGED <<serverVars, holder, streams, connVars, viewers>>

(* handleBridgeError with viewers: active = false ...                      *)
BridgeError(o) ==
    /\ phase[o] = "live"
    /\ viewers[o] # {}
    /\ phase' = [phase EXCEPT ![o] = "failing"]
    /\ UNCHANGED <<serverVars, holder, streams, connVars, viewers, removing>>

(* ... and connecting = true.                                              *)
BridgeReplaced(o) ==
    /\ phase[o] = "failing"
    /\ phase' = [phase EXCEPT ![o] = "connecting"]
    /\ UNCHANGED <<serverVars, holder, streams, connVars, viewers, removing>>

(* Seeded fault: removal by id, whichever object is registered.            *)
RemoveStreamById(o) ==
    /\ o \in removing
    /\ Free
    /\ removing' = removing \ {o}
    /\ streams' = none
    /\ UNCHANGED <<serverVars, holder, connVars, phase, viewers>>

(* Seeded fault: removal never happens.                                    *)
RemoveStreamNever(o) ==
    /\ o \in removing
    /\ Free
    /\ removing' = removing \ {o}
    /\ UNCHANGED <<serverVars, holder, streams, connVars, phase, viewers>>

(* removeStream.                                                           *)
RemoveStream(o) ==
    /\ o \in removing
    /\ Free
    /\ removing' = removing \ {o}
    /\ streams' = IF streams = o THEN none ELSE streams
    /\ UNCHANGED <<serverVars, holder, connVars, phase, viewers>>

-----------------------------------------------------------------------------
(* The server.                                                             *)

(* cleanupInactiveStreams.  Its five minutes are longer than any retry     *)
(* delay and than the shutdown delay, so what it meets is idle, and the    *)
(* Stop of an idle object does nothing.                                    *)
Cleanup ==
    /\ server = "running"
    /\ Free
    /\ streams # none
    /\ phase[streams] = "idle" /\ viewers[streams] = {}
    /\ streams' = none
    /\ UNCHANGED <<serverVars, holder, connVars, objectVars>>

(* Stop: no connection is accepted any more, those in s.clients are closed.*)
StopServer ==
    /\ server = "running"
    /\ Free
    /\ server' = "stopping"
    /\ holder' = "stop"
    /\ closed' = {c \in Conns : conn[c] \in {"listed", "attached", "leaving"}}
    /\ sweep' = UNION {viewers[o] : o \in {streams} \cap Streams}
    /\ UNCHANGED <<streams, conn, at, objectVars>>

(* CameraStream.Stop goes through its viewers and removes them one by one; *)
(* a viewer that comes meanwhile may be among them or not ...              *)
StopRemoves(c) ==
    /\ holder = "stop"
    /\ streams # none
    /\ c \in viewers[streams]
    /\ Unlocked(streams)
    /\ viewers' = [viewers EXCEPT ![streams] = @ \ {c}]
    /\ sweep' = sweep \ {c}
    /\ UNCHANGED <<server, holder, streams, connVars, phase, removing>>

(* Seeded fault: Stop leaves s.mutex locked.                               *)
StopKeepsLock ==
    /\ server = "stopping"
    /\ sweep = {}
    /\ \A o \in Streams : streams = o => Unlocked(o)
    /\ IF \E o \in Streams : streams = o /\ phase[o] # "idle"
       THEN StopStreamInternal(streams) /\ UNCHANGED viewers
       ELSE UNCHANGED objectVars
    /\ server' = "stopped"
    /\ UNCHANGED <<sweep, holder, streams, connVars>>

(* ... and then stops the session.  Other ids have nothing to do with it.  *)
StopFinishes ==
    /\ holder = "stop"
    /\ sweep = {}
    /\ IF streams = none
       THEN UNCHANGED objectVars
       ELSE /\ Unlocked(streams)
            /\ IF phase[streams] = "idle"
               THEN UNCHANGED objectVars
               ELSE StopStreamInternal(streams) /\ UNCHANGED viewers
    /\ server' = "stopped"
    /\ holder' = none
    /\ UNCHANGED <<sweep, streams, connVars>>

-----------------------------------------------------------------------------

ConnectionStep(c) ==
    \/ Accept(c) \/ GetStream(c) \/ ReadInactive(c) \/ NothingToReuse(c)
    \/ CreateFails(c) \/ \E o \in Streams : CreateStream(c, o)
    \/ ListClient(c) \/ AddClient(c)
    \/ Disconnect(c) \/ RemoveClient(c) \/ RemoveFromStream(c)

ObjectStep(o) ==
    \/ StartBegins(o) \/ StartReturns(o) \/ StartUnwatched(o) \/ RetryAborted(o)
    \/ Retire(o) \/ BridgeError(o) \/ BridgeReplaced(o) \/ RemoveStream(o)

ServerStep ==
    \/ Cleanup
    \/ StopServer
    \/ \E c \in Conns : StopRemoves(c)
    \/ StopFinishes

Next ==
    \/ \E c \in Conns : ConnectionStep(c)
    \/ \E o \in Streams : ObjectStep(o)
    \/ ServerStep

Spec == Init /\ [][Next]_vars

(* What the goroutine of connection c does by itself: it may wait for the  *)
(* peer only while it is attached and open.                                *)
Advance(c) ==
    \/ GetStream(c) \/ ReadInactive(c) \/ NothingToReuse(c)
    \/ CreateFails(c) \/ \E o \in Streams : CreateStream(c, o)
    \/ ListClient(c) \/ AddClient(c)
    \/ c \in closed /\ Disconnect(c)
    \/ RemoveClient(c) \/ RemoveFromStream(c)

(* What the goroutines and timers of object o do by themselves.            *)
Work(o) ==
    \/ StartBegins(o) \/ StartReturns(o) \/ StartUnwatched(o) \/ RetryAborted(o)
    \/ Retire(o) \/ BridgeReplaced(o)

(* Goroutines that wait for a mutex get it in the end (sync.Mutex serves   *)
(* its oldest waiter), and the calls inside a critical section return,     *)
(* WebRTCBridge.Start among them.                                          *)
Fairness ==
    /\ \A c \in Conns : SF_vars(Advance(c))
    /\ \A o \in Streams : WF_vars(Work(o))
    /\ SF_vars((\E c \in Conns : StopRemoves(c)) \/ StopFinishes)

FairSpec == Spec /\ Fairness

-----------------------------------------------------------------------------
(* Properties.                                                             *)

(* Every variable ranges over what its Go type and its use allow.          *)
TypeOK ==
    /\ server \in {"running", "stopping", "stopped"}
    /\ holder \in Conns \cup {none, "stop"}
    /\ streams \in Streams \cup {none}
    /\ conn \in [Conns -> Stages]
    /\ at \in [Conns -> Streams \cup {none}]
    /\ \A c \in Conns : at[c] = none <=> conn[c] \in NoStream
    /\ closed \subseteq Conns /\ sweep \subseteq Conns
    /\ phase \in [Streams -> Phases]
    /\ viewers \in [Streams -> SUBSET Conns]
    /\ removing \subseteq Streams

(* Whoever counts as a viewer of an object is a connection that is attached*)
(* to this object: no session is kept up for a connection that is gone or  *)
(* that watches another object (AddClient, removeClient).                  *)
ViewersAreHere ==
    \A o \in Streams : \A c \in viewers[o] :
        at[c] = o /\ conn[c] \in {"attached", "leaving"}

(* An idle object stays in the registry only while something is on its way *)
(* to it: its removal, or a connection that will start it.  The registry   *)
(* does not fill up with dead entries (getOrCreateStream, removeStream).   *)
IdleEntryHasOwner ==
    streams # none =>
        \/ phase[streams] # "idle"
        \/ streams \in removing
        \/ \E c \in Conns : at[c] = streams /\ conn[c] \in {"fetched", "listed"}

(* The entry of a session that is up or coming up is deleted only by the   *)
(* session's own late cleanup, never by that of another object             *)
(* (removeStream).  A new connection may take the entry away from it:      *)
(* getOrCreateStream does not keep the session idle that it has found idle.*)
(* But then the session has viewers of its own.  One that is unwatched and *)
(* waits for its shutdown delay keeps its entry, so that the next viewer   *)
(* finds it and no second session is opened beside it.                     *)
LiveEntryNotLost ==
    [][streams # none /\ phase[streams] # "idle" /\ streams' # streams
         => IF streams' = none
            THEN streams \in removing
            ELSE viewers[streams] # {}]_vars

(* A connection that has been given an object becomes its viewer, however  *)
(* often the two mutexes are taken by others: no order of the locks makes  *)
(* everyone wait.                                                          *)
JoinCompletes == \A c \in Conns : conn[c] = "fetched" ~> conn[c] = "attached"

(* Stop returns, also when it meets a stream in the middle of its start and*)
(* connections that leave, and those it has closed are gone in the end.    *)
StopCompletes == server = "stopping" ~> server = "stopped" /\ closed = {}

(* Who keeps s.mutex: getOrCreateStream, removeClient or Stop.             *)
HolderInv ==
    /\ \A c \in Conns : holder = c => conn[c] \in {"checking", "creating", "leaving"}
    /\ \A c \in Conns : conn[c] \in {"checking", "creating"} => holder = c
    /\ holder = "stop" <=> server = "stopping"

(* While getOrCreateStream has s.mutex nobody leaves an object, so one that*)
(* it has found idle is up again only with the viewer that started it.     *)
HiddenIsWatched ==
    \A c \in Conns :
        /\ conn[c] = "checking" =>
             streams # none /\ (phase[streams] = "live" => viewers[streams] # {})
        /\ conn[c] = "creating" /\ streams # none /\ phase[streams] # "idle" =>
             viewers[streams] # {}

(* The inductive invariant behind the safety properties.                   *)
IInv ==
    /\ TypeOK
    /\ ViewersAreHere
    /\ IdleEntryHasOwner
    /\ HolderInv
    /\ HiddenIsWatched
    /\ \A o \in Streams : ~Unlocked(o) => viewers[o] # {}

-----------------------------------------------------------------------------
(* The abstract session each object implements.                            *)

Session(o) == INSTANCE StreamLifecycle WITH
    Viewers <- Conns,
    viewers <- viewers[o],
    phase   <- IF phase[o] \in Connecting THEN "connecting" ELSE phase[o],
    down    <- server # "running"

SessionStep(o) == Session(o)!Next \/ UNCHANGED Session(o)!vars

(* Each object is a StreamLifecycle, as CameraStream is: the registry asks *)
(* nothing else of it.                                                     *)
ObjectsAreSessions ==
    /\ \A o \in Streams : Session(o)!Init
    /\ [][\A o \in Streams : SessionStep(o)]_vars

=============================================================================
