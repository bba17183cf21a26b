----------------------------- MODULE MQTTManager -----------------------------
(***************************************************************************)
(* The MQTT connections of the bridge (bridge/pkg/rtsp/mqtt_manager.go,    *)
(* bridge/pkg/tuya/mqtt.go): the manager's client per camera, the clients  *)
(* that a bridge makes for itself, their handshakes, and the broker, which *)
(* keeps one connection per client id.                                     *)
(*                                                                         *)
(* With a MobileClient every connection has the same client id             *)
(* (DeriveMQTTClientID: account and installation, not the camera), so each *)
(* new one makes the broker drop the one before it; its owner hears of that*)
(* later.  Without one (web portal) there is no manager and each Start     *)
(* connects for itself.                                                    *)
(*                                                                         *)
(* What a stream does is reduced to what touches its MQTT client: it is    *)
(* created, asks the manager, starts a bridge, loses it, replaces it, is   *)
(* stopped.  CameraStream and WebRTCBridge have the rest.                  *)
(***************************************************************************)
EXTENDS Naturals

CONSTANTS
    Devices,     (* cameras                                                 *)
    Streams,     (* camera streams: hd and sd of a camera are two (bound)   *)
    DeviceOf,    (* the camera of a stream                                  *)
    Clients,     (* MQTTClient objects; one that nothing refers to is used  *)
                 (* again (bound)                                           *)
    MaxAttempts, (* len(mqttBackoffDelays)                                  *)
    none         (* no client, no stream                                    *)

ASSUME StreamsAssumption == DeviceOf \in [Streams -> Devices]
ASSUME AttemptsAssumption == MaxAttempts \in Nat \ {0}
ASSUME NoneAssumption ==
    /\ none \notin Clients \cup Streams \cup {"stopped"}
    /\ "stopped" \notin Streams

VARIABLES
    mode,      (* "mobile": s.MobileClient and a manager; "web": neither    *)
    running,   (* the server has not stopped                                *)
    lock,      (* the stream in connect, which holds m.mutex                *)
    clients,   (* m.clients                                                 *)
    stage,     (* per stream: where it stands                               *)
    replacing, (* replaceBridge asks the manager, not getOrCreateStream     *)
    attempt,   (* attempts of connect so far                                *)
    using,     (* the client in connect, then wb.mqttClient                 *)
    owns,      (* wb.ownsClient                                             *)
    link,      (* per client: up, subscribed, cut (not noticed yet), lost   *)
               (* (onDisconnect is due), closed                             *)
    shake,     (* client.Connected                                          *)
    cameras,   (* client.cameras, by stream                                 *)
    routing    (* the stream that consume has looked up for a message it is *)
               (* about to deliver, "stopped" once its bridge has stopped   *)

streamVars == <<stage, replacing, attempt, using, owns>>
clientVars == <<link, shake, cameras, routing>>
vars == <<mode, running, lock, clients, streamVars, clientVars>>

(* ready: the bridge is wired; registered: in client.cameras; offered: the *)
(* offer is out; failed: Start or the session failed, a retry is due.      *)
Stages == {"none", "asking", "connecting", "handshake", "ready",
           "ownHandshake", "registered", "offered", "live", "failed"}

Links == {"up", "subscribed", "cut", "lost", "closed"}

(* A Waiter (WebRTCBridge has it in detail): nobody waits yet, one waits,  *)
(* it is woken before the error is stored, and the two outcomes.           *)
Shakes == {"fresh", "waiting", "failing", "ok", "failed"}

(* MQTTClient.IsConnected.  A cut connection still looks connected.        *)
IsConnected(c) == link[c] \in {"up", "subscribed", "cut"}

(* The broker has the connection.                                          *)
Online(c) == link[c] \in {"up", "subscribed"}

Unused(c) ==
    /\ link[c] = "closed"
    /\ shake[c] # "failing"
    /\ routing[c] = none
    /\ \A d \in Devices : clients[d] # c
    /\ \A s \in Streams : using[s] # c

Init ==
    /\ mode \in {"mobile", "web"}
    /\ running = TRUE
    /\ lock = none
    /\ clients = [d \in Devices |-> none]
    /\ stage = [s \in Streams |-> "none"]
    /\ replacing = [s \in Streams |-> FALSE]
    /\ attempt = [s \in Streams |-> 0]
    /\ using = [s \in Streams |-> none]
    /\ owns = [s \in Streams |-> FALSE]
    /\ link = [c \in Clients |-> "closed"]
    /\ shake = [c \in Clients |-> "fresh"]
    /\ cameras = [c \in Clients |-> {}]
    /\ routing = [c \in Clients |-> none]

-----------------------------------------------------------------------------
(* Clients and the broker.                                                 *)

(* DeriveMQTTConfig, DeriveMQTTUsername, DeriveMQTTClientID: who a mobile  *)
(* connection says it is depends on account and installation only.         *)
OneClientId == mode = "mobile"

(* NewMobileMqttClient, NewMqttClient: a connection is accepted.  If its   *)
(* id is that of the others the broker cuts those.                         *)
Connected(c) ==
    /\ Unused(c)
    /\ link' = [x \in Clients |->
                  CASE x = c -> "up"
                    [] x # c /\ Online(x) /\ OneClientId -> "cut"
                    [] OTHER -> link[x]]
    /\ shake' = [shake EXCEPT ![c] = "fresh"]
    /\ cameras' = [cameras EXCEPT ![c] = {}]
    /\ UNCHANGED routing

(* Waiter.Done(err) of client.Connected.                                   *)
DoneWithError(c) ==
    shake' = [shake EXCEPT ![c] = CASE @ = "waiting" -> "failing"
                                    [] @ = "fresh" -> "failed"
                                    [] OTHER -> @]

(* onConnect: the topic is subscribed.                                     *)
Subscribe(c) ==
    /\ link[c] = "up"
    /\ shake[c] \in {"fresh", "waiting"}
    /\ link' = [link EXCEPT ![c] = "subscribed"]
    /\ shake' = [shake EXCEPT ![c] = "ok"]
    /\ UNCHANGED <<mode, running, lock, clients, streamVars, cameras, routing>>

(* onConnect: the broker refuses the subscription.                         *)
SubscribeFails(c) ==
    /\ link[c] = "up"
    /\ shake[c] \in {"fresh", "waiting"}
    /\ DoneWithError(c)
    /\ UNCHANGED <<mode, running, lock, clients, streamVars, link, cameras, routing>>

(* Done stores its error after it has woken the waiter.                    *)
ErrorStored(c) ==
    /\ shake[c] = "failing"
    /\ shake' = [shake EXCEPT ![c] = "failed"]
    /\ UNCHANGED <<mode, running, lock, clients, streamVars, link, cameras, routing>>

(* The network goes.                                                       *)
Cut(c) ==
    /\ Online(c)
    /\ link' = [link EXCEPT ![c] = "cut"]
    /\ UNCHANGED <<mode, running, lock, clients, streamVars, shake, cameras, routing>>

(* The library notices, at the latest by its keep-alive ...                *)
LossNoticed(c) ==
    /\ link[c] = "cut"
    /\ link' = [link EXCEPT ![c] = "lost"]
    /\ UNCHANGED <<mode, running, lock, clients, streamVars, shake, cameras, routing>>

(* ... and calls onDisconnect.  AutoReconnect is off.                      *)
OnDisconnect(c) ==
    /\ link[c] = "lost"
    /\ link' = [link EXCEPT ![c] = "closed"]
    /\ DoneWithError(c)
    /\ UNCHANGED <<mode, running, lock, clients, streamVars, cameras, routing>>

-----------------------------------------------------------------------------
(* The manager.                                                            *)

(* getOrCreateStream makes a stream.  In web mode there is no manager.     *)
CreateStream(s) ==
    /\ stage[s] = "none"
    /\ stage' = [stage EXCEPT ![s] = IF mode = "mobile" THEN "asking" ELSE "ready"]
    /\ using' = [using EXCEPT ![s] = none]
    /\ owns' = [owns EXCEPT ![s] = FALSE]
    /\ UNCHANGED <<mode, running, lock, clients, replacing, attempt, clientVars>>

(* GetClient gets the mutex: a connected client is handed out again.       *)
ReuseClient(s) ==
    /\ stage[s] = "asking"
    /\ lock = none
    /\ clients[DeviceOf[s]] # none
    /\ IsConnected(clients[DeviceOf[s]])
    /\ using' = [using EXCEPT ![s] = clients[DeviceOf[s]]]
    /\ stage' = [stage EXCEPT ![s] = "ready"]
    /\ replacing' = [replacing EXCEPT ![s] = FALSE]
    /\ UNCHANGED <<mode, running, lock, clients, attempt, owns, clientVars>>

(* GetClient gets the mutex and keeps it: connect.                         *)
ConnectBegins(s) ==
    /\ stage[s] = "asking"
    /\ lock = none
    /\ clients[DeviceOf[s]] # none => ~ IsConnected(clients[DeviceOf[s]])
    /\ lock' = s
    /\ stage' = [stage EXCEPT ![s] = "connecting"]
    /\ UNCHANGED <<mode, running, clients, replacing, attempt, using, owns, clientVars>>

(* Seeded fault: the error return of GetClient forgets the mutex.          *)
GetClientFailsLocked(s) ==
    /\ stage' = [stage EXCEPT ![s] = IF replacing[s] THEN "ready" ELSE "none"]
    /\ using' = [using EXCEPT ![s] = none]
    /\ attempt' = [attempt EXCEPT ![s] = 0]
    /\ replacing' = [replacing EXCEPT ![s] = FALSE]
    /\ UNCHANGED <<mode, running, lock, clients, owns>>

(* GetClient returns an error.  getOrCreateStream gives up; replaceBridge  *)
(* leaves the bridge without a client.                                     *)
GetClientFails(s) ==
    /\ lock' = none
    /\ stage' = [stage EXCEPT ![s] = IF replacing[s] THEN "ready" ELSE "none"]
    /\ using' = [using EXCEPT ![s] = none]
    /\ attempt' = [attempt EXCEPT ![s] = 0]
    /\ replacing' = [replacing EXCEPT ![s] = FALSE]
    /\ UNCHANGED <<mode, running, clients, owns>>

(* GetUserInfo fails.                                                      *)
UserInfoFails(s) ==
    /\ stage[s] = "connecting"
    /\ attempt[s] = 0
    /\ GetClientFails(s)
    /\ UNCHANGED clientVars

(* Seeded fault: one attempt more than there are back-off delays.          *)
RetryOnceMore(s) ==
    /\ attempt' = [attempt EXCEPT ![s] = @ + 1]
    /\ stage' = [stage EXCEPT ![s] = "connecting"]
    /\ using' = [using EXCEPT ![s] = none]
    /\ UNCHANGED <<mode, running, lock, clients, replacing, owns>>

(* connect has failed once more and tries again after its back-off.        *)
Retry(s) ==
    /\ attempt[s] + 1 < MaxAttempts
    /\ attempt' = [attempt EXCEPT ![s] = @ + 1]
    /\ stage' = [stage EXCEPT ![s] = "connecting"]
    /\ using' = [using EXCEPT ![s] = none]
    /\ UNCHANGED <<mode, running, lock, clients, replacing, owns>>

GiveUp(s) ==
    /\ attempt[s] + 1 = MaxAttempts
    /\ GetClientFails(s)

AttemptConnects(s, c) ==
    /\ stage[s] = "connecting"
    /\ Connected(c)
    /\ using' = [using EXCEPT ![s] = c]
    /\ stage' = [stage EXCEPT ![s] = "handshake"]
    /\ UNCHANGED <<mode, running, lock, clients, replacing, attempt, owns>>

AttemptFails(s) ==
    /\ stage[s] = "connecting"
    /\ Retry(s) \/ GiveUp(s)
    /\ UNCHANGED clientVars

(* client.Connected.Wait(), by connect or by Start.                        *)
WaitBegins(s) ==
    /\ stage[s] \in {"handshake", "ownHandshake"}
    /\ shake[using[s]] = "fresh"
    /\ shake' = [shake EXCEPT ![using[s]] = "waiting"]
    /\ UNCHANGED <<mode, running, lock, clients, streamVars, link, cameras, routing>>

(* Wait returns nil: also for an error that is not stored yet.             *)
HandshakeDone(s) ==
    /\ stage[s] = "handshake"
    /\ shake[using[s]] \in {"ok", "failing"}
    /\ clients' = [clients EXCEPT ![DeviceOf[s]] = using[s]]
    /\ lock' = none
    /\ stage' = [stage EXCEPT ![s] = "ready"]
    /\ attempt' = [attempt EXCEPT ![s] = 0]
    /\ replacing' = [replacing EXCEPT ![s] = FALSE]
    /\ UNCHANGED <<mode, running, using, owns, clientVars>>

(* Seeded fault: the client of a failed handshake is not stopped.          *)
HandshakeFailsLeaks(s) ==
    /\ stage[s] = "handshake"
    /\ shake[using[s]] = "failed"
    /\ Retry(s) \/ GiveUp(s)
    /\ UNCHANGED clientVars

(* Wait returns the error: client.Stop() and the next attempt.             *)
HandshakeFails(s) ==
    /\ stage[s] = "handshake"
    /\ shake[using[s]] = "failed"
    /\ link' = [link EXCEPT ![using[s]] = "closed"]
    /\ Retry(s) \/ GiveUp(s)
    /\ UNCHANGED <<shake, cameras, routing>>

(* MQTTManager.Stop, in RTSPServer.Stop.                                   *)
ManagerStop ==
    /\ running
    /\ lock = none
    /\ running' = FALSE
    /\ link' = [c \in Clients |->
                  IF \E d \in Devices : clients[d] = c THEN "closed" ELSE link[c]]
    /\ clients' = [d \in Devices |-> none]
    /\ UNCHANGED <<mode, lock, streamVars, shake, cameras, routing>>

-----------------------------------------------------------------------------
(* The bridge of a stream.                                                 *)

(* Start without a client makes one.                                       *)
StartConnects(s, c) ==
    /\ stage[s] = "ready"
    /\ using[s] = none
    /\ Connected(c)
    /\ using' = [using EXCEPT ![s] = c]
    /\ stage' = [stage EXCEPT ![s] = "ownHandshake"]
    /\ UNCHANGED <<mode, running, lock, clients, replacing, attempt, owns>>

(* setupMQTTCameraClient, at once with a client of the manager ...         *)
Register(s) ==
    /\ stage' = [stage EXCEPT ![s] = "registered"]
    /\ cameras' = [cameras EXCEPT ![using[s]] = @ \cup {s}]

StartWithClient(s) ==
    /\ stage[s] = "ready"
    /\ using[s] # none
    /\ Register(s)
    /\ UNCHANGED <<mode, running, lock, clients, replacing, attempt, using, owns,
                   link, shake, routing>>

(* ... or after the handshake of its own, which it owns on the mobile path *)
(* only.                                                                   *)
StartHandshakeDone(s) ==
    /\ stage[s] = "ownHandshake"
    /\ shake[using[s]] \in {"ok", "failing"}
    /\ owns' = [owns EXCEPT ![s] = mode = "mobile"]
    /\ Register(s)
    /\ UNCHANGED <<mode, running, lock, clients, replacing, attempt, using,
                   link, shake, routing>>

(* Start returns an error before it has a session: a call to the cloud     *)
(* fails, no connection can be made, or what follows with the manager's    *)
(* client, the encoder or the peer connection.  A refused pre-link is no   *)
(* error.                                                                  *)
PrepareFails(s) ==
    /\ stage[s] = "ready"
    /\ stage' = [stage EXCEPT ![s] = "failed"]
    /\ UNCHANGED <<mode, running, lock, clients, replacing, attempt, using, owns, clientVars>>

(* The same after the handshake of its own.                                *)
SetupFails(s) ==
    /\ stage[s] = "ownHandshake"
    /\ shake[using[s]] \in {"ok", "failing"}
    /\ owns' = [owns EXCEPT ![s] = mode = "mobile"]
    /\ stage' = [stage EXCEPT ![s] = "failed"]
    /\ UNCHANGED <<mode, running, lock, clients, replacing, attempt, using, clientVars>>

(* Start returns an error: its handshake fails, the offer cannot be        *)
(* published; or the session fails later.                                  *)
StartFails(s) ==
    /\ \/ stage[s] \in {"offered", "live"}
       \/ stage[s] = "ownHandshake" /\ shake[using[s]] = "failed"
       \/ stage[s] = "registered" /\ link[using[s]] \in {"lost", "closed"}
    /\ stage' = [stage EXCEPT ![s] = "failed"]
    /\ UNCHANGED <<mode, running, lock, clients, replacing, attempt, using, owns, clientVars>>

(* The offer is published; over a cut connection the call waits.           *)
SendOffer(s) ==
    /\ stage[s] = "registered"
    /\ Online(using[s])
    /\ stage' = [stage EXCEPT ![s] = "offered"]
    /\ UNCHANGED <<mode, running, lock, clients, replacing, attempt, using, owns, clientVars>>

(* consume finds the camera client of a message ...                        *)
LookUp(c, s) ==
    /\ link[c] = "subscribed"
    /\ routing[c] = none
    /\ s \in cameras[c]
    /\ routing' = [routing EXCEPT ![c] = s]
    /\ UNCHANGED <<mode, running, lock, clients, streamVars, link, shake, cameras>>

(* ... and calls its handler, without a lock and whatever has happened     *)
(* since.  An answer brings the session up, other messages and those for a *)
(* stopped bridge change nothing here.                                     *)
Deliver(c) ==
    /\ routing[c] # none
    /\ routing' = [routing EXCEPT ![c] = none]
    /\ \/ UNCHANGED stage
       \/ /\ routing[c] \in Streams
          /\ stage[routing[c]] = "offered"
          /\ stage' = [stage EXCEPT ![routing[c]] = "live"]
    /\ UNCHANGED <<mode, running, lock, clients, replacing, attempt, using, owns,
                   link, shake, cameras>>

(* Seeded fault: stop forgets to take the camera client out.               *)
StopBridgeStillRouted(s) ==
    /\ link' = [c \in Clients |-> IF c = using[s] /\ owns[s] THEN "closed" ELSE link[c]]
    /\ routing' = [c \in Clients |-> IF routing[c] = s THEN "stopped" ELSE routing[c]]
    /\ UNCHANGED <<shake, cameras>>

(* WebRTCBridge.stop: out of client.cameras, and an owned client is closed.*)
(* A message that consume has in hand still reaches the stopped bridge.    *)
StopBridge(s) ==
    /\ cameras' = [c \in Clients |-> IF c = using[s] THEN cameras[c] \ {s} ELSE cameras[c]]
    /\ link' = [c \in Clients |-> IF c = using[s] /\ owns[s] THEN "closed" ELSE link[c]]
    /\ routing' = [c \in Clients |-> IF routing[c] = s THEN "stopped" ELSE routing[c]]
    /\ UNCHANGED shake

(* replaceBridge: the old bridge stops, a new one asks for a client.       *)
ReplaceBridge(s) ==
    /\ stage[s] = "failed"
    /\ StopBridge(s)
    /\ stage' = [stage EXCEPT ![s] = IF mode = "mobile" THEN "asking" ELSE "ready"]
    /\ replacing' = [replacing EXCEPT ![s] = mode = "mobile"]
    /\ using' = [using EXCEPT ![s] = none]
    /\ owns' = [owns EXCEPT ![s] = FALSE]
    /\ UNCHANGED <<mode, running, lock, clients, attempt>>

(* stopStreamInternal: the stream ends, the manager's client stays.  It    *)
(* needs cs.mutex, which a running Start has.                              *)
StopStream(s) ==
    /\ stage[s] \in {"ready", "live", "failed"}
    /\ StopBridge(s)
    /\ stage' = [stage EXCEPT ![s] = "none"]
    /\ using' = [using EXCEPT ![s] = none]
    /\ owns' = [owns EXCEPT ![s] = FALSE]
    /\ UNCHANGED <<mode, running, lock, clients, replacing, attempt>>

-----------------------------------------------------------------------------
(* One step of the connection of a stream, or of GetClient on its behalf.  *)
Asks(s) == ReuseClient(s) \/ ConnectBegins(s)

Connects(s) ==
    \/ UserInfoFails(s) \/ AttemptFails(s)
    \/ \E c \in Clients : AttemptConnects(s, c)
    \/ WaitBegins(s) \/ HandshakeDone(s) \/ HandshakeFails(s)

BridgeStep(s) ==
    \/ \E c \in Clients : StartConnects(s, c)
    \/ StartWithClient(s) \/ StartHandshakeDone(s)
    \/ PrepareFails(s) \/ SetupFails(s) \/ StartFails(s)
    \/ SendOffer(s)
    \/ ReplaceBridge(s) \/ StopStream(s)

RouterStep(c) == Deliver(c) \/ \E s \in Streams : LookUp(c, s)

HandshakeStep(c) == Subscribe(c) \/ SubscribeFails(c)

LossStep(c) == LossNoticed(c) \/ OnDisconnect(c) \/ ErrorStored(c)

Next ==
    \/ \E s \in Streams : CreateStream(s) \/ Asks(s) \/ Connects(s) \/ BridgeStep(s)
    \/ \E c \in Clients : HandshakeStep(c) \/ RouterStep(c) \/ Cut(c) \/ LossStep(c)
    \/ ManagerStop

Spec == Init /\ [][Next]_vars

(* m.mutex goes to whoever waits long enough; connect, with its timeout of *)
(* ten seconds, its back-off and its handshake, goes on; a handshake is    *)
(* answered or its connection is lost.                                     *)
Fairness ==
    /\ \A s \in Streams : SF_vars(Asks(s)) /\ WF_vars(Connects(s))
    /\ \A c \in Clients : WF_vars(HandshakeStep(c)) /\ WF_vars(LossStep(c))

FairSpec == Spec /\ Fairness

-----------------------------------------------------------------------------
(* Properties.                                                             *)

(* Every variable ranges over what its Go type and its use allow.          *)
TypeOK ==
    /\ mode \in {"mobile", "web"}
    /\ running \in BOOLEAN
    /\ lock \in Streams \cup {none}
    /\ clients \in [Devices -> Clients \cup {none}]
    /\ stage \in [Streams -> Stages]
    /\ replacing \in [Streams -> BOOLEAN]
    /\ attempt \in [Streams -> 0..(MaxAttempts - 1)]
    /\ using \in [Streams -> Clients \cup {none}]
    /\ owns \in [Streams -> BOOLEAN]
    /\ link \in [Clients -> Links]
    /\ shake \in [Clients -> Shakes]
    /\ cameras \in [Clients -> SUBSET Streams]
    /\ routing \in [Clients -> Streams \cup {none, "stopped"}]

(* The client is in m.clients, or connect is making it.                    *)
Held(c) ==
    \/ \E d \in Devices : clients[d] = c
    \/ \E s \in Streams : lock = s /\ using[s] = c

(* The manager loses no connection: one that it has made stays in its map, *)
(* from where the next stream takes it and Stop closes it, for as long as  *)
(* it is connected.  A failed handshake, a second GetClient for the camera *)
(* and Stop leave no connection behind (GetClient, connect, Stop).         *)
ManagerKeepsConnections ==
    [][\A c \in Clients : Held(c) /\ IsConnected(c)' => Held(c)']_vars

(* A message that arrives is routed only to a bridge that uses the client  *)
(* and has not been stopped or replaced, whatever way the bridge went:     *)
(* nothing is left behind in client.cameras by a failed or stopped Start.  *)
(* It may be stopped between the lookup and the call of its handler: then  *)
(* that one message still reaches it, no later one (AddCameraClient,       *)
(* RemoveCameraClient, consume).                                           *)
RoutesAreCurrent ==
    \A c \in Clients :
        \A s \in cameras[c] \cup ({routing[c]} \cap Streams) :
            using[s] = c /\ stage[s] \in {"registered", "offered", "live", "failed"}

(* What a bridge closes when it stops is its own: the manager does not hand*)
(* that client out, and no other stream uses it (StartContext's ownsClient,*)
(* WebRTCBridge.stop).                                                     *)
OwnedIsPrivate ==
    \A s \in Streams : owns[s] =>
        /\ using[s] \in Clients
        /\ \A d \in Devices : clients[d] # using[s]
        /\ \A t \in Streams \ {s} : using[t] # using[s]

(* Cameras do not get into each other's connections: a client is in the    *)
(* manager's map for one camera only, is used by streams of that camera    *)
(* only, and streams that share one are of the same camera (GetClient).    *)
ClientsPerCamera ==
    /\ \A d, e \in Devices : clients[d] = clients[e] /\ clients[d] # none => d = e
    /\ \A s \in Streams, d \in Devices :
           using[s] = clients[d] /\ using[s] # none => DeviceOf[s] = d
    /\ \A s, t \in Streams :
           using[s] = using[t] /\ using[s] # none => DeviceOf[s] = DeviceOf[t]

(* Whoever asks the manager for a client is served, or refused, however    *)
(* long others hold its mutex through their back-off (GetClient).          *)
AskersServed == \A s \in Streams : stage[s] = "asking" ~> stage[s] # "asking"

=============================================================================
