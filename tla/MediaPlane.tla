----------------------------- MODULE MediaPlane ------------------------------
(***************************************************************************)
(* The transports of the viewers of one stream: the RTSP requests that set *)
(* them up (bridge/pkg/rtsp/protocol.go, access.go), the RTPForwarder that *)
(* keeps them (forwarder.go), and the CameraStream that replaces its bridge*)
(* and hands the forwarder on (server.go).                                 *)
(*                                                                         *)
(* SETUP and PLAY read client.stream.webrtcBridge.rtpForwarder without     *)
(* cs.mutex.  replaceBridge, which has it, first installs a bridge with a  *)
(* forwarder of its own and then gives it the retained one: a request that *)
(* reads in between works on a forwarder that nobody will feed.  Only the  *)
(* retained forwarder has state here: nobody looks at the other one again. *)
(*                                                                         *)
(* A SETUP is answered 200 in more cases than make a transport: see told,  *)
(* SetupDone and SetupBare.                                                *)
(*                                                                         *)
(* The mutex of the forwarder is held for one operation, bounded by the    *)
(* write deadline of one second: each is one action.                       *)
(***************************************************************************)
EXTENDS FiniteSets

CONSTANTS
    Conns,     (* RTSP connections, each with its session (bound)           *)
    Loopback   (* s.ListenHost is empty or a loopback address: UDP allowed  *)

ASSUME LoopbackAssumption == Loopback \in BOOLEAN

VARIABLES
    running,   (* s.running                                                 *)
    phase,     (* of the stream and its replaceBridge                       *)
    resume,    (* where replaceBridge returns to                            *)
    started,   (* cs.bridgeStarted                                          *)
    viewers,   (* cs.clients                                                *)
    conn,      (* per connection: away, connected, watching, leaving        *)
    open,      (* connections whose socket is open                          *)
    request,   (* the request in progress, and the forwarder it has read    *)
    told,      (* what an open connection was answered: ready (SETUP),      *)
               (* promised (PLAY), misled (history: answered 200, or        *)
               (* promised before, without the transport it speaks of)      *)
    entry,     (* rf.clients: none, or the transport                        *)
    playing    (* rf.clients[...].playing                                   *)

streamVars == <<running, phase, resume, started>>
connVars == <<viewers, conn, open, request, told>>
vars == <<streamVars, connVars, entry, playing>>

(* connecting: startStream is on its way, or between two attempts; swapped:*)
(* replaceBridge has installed a bridge with a forwarder of its own.       *)
Phases == {"idle", "connecting", "starting", "live", "swapped"}

(* cs.mutex is held across Start and replaceBridge.                        *)
Locked == phase \in {"starting", "swapped"}

Transports == {"tcp", "udp"}

(* The forwarder that cs.webrtcBridge.rtpForwarder is.                     *)
Forwarder == IF phase = "swapped" THEN "fresh" ELSE "retained"

Idle == [op |-> "idle"]
Requests ==
    {Idle} \cup [op : {"setup"}, transport : Transports, forwarder : {"retained", "fresh"}]
           \cup [op : {"play"}, forwarder : {"retained", "fresh"}]

Init ==
    /\ running = TRUE
    /\ phase = "idle" /\ resume = "connecting" /\ started = FALSE
    /\ viewers = {}
    /\ conn = [c \in Conns |-> "away"]
    /\ open = {}
    /\ request = [c \in Conns |-> Idle]
    /\ told = [c \in Conns |-> "nothing"]
    /\ entry = [c \in Conns |-> "none"]
    /\ playing = {}

-----------------------------------------------------------------------------
(* Connections and requests.                                               *)

(* acceptConnections, handleConnection: the first request is read.         *)
Accept(c) ==
    /\ running
    /\ conn[c] = "away"
    /\ conn' = [conn EXCEPT ![c] = "connected"]
    /\ open' = open \cup {c}
    /\ UNCHANGED <<streamVars, viewers, request, told, entry, playing>>

(* Three refusals, a bad path or camera, or no request: the socket closes. *)
Refuse(c) ==
    /\ conn[c] = "connected"
    /\ conn' = [conn EXCEPT ![c] = "away"]
    /\ open' = open \ {c}
    /\ UNCHANGED <<streamVars, viewers, request, told, entry, playing>>

(* CameraStream.AddClient, once a first request was authorized and names a *)
(* camera.                                                                 *)
AddClient(c) ==
    /\ conn[c] = "connected"
    /\ ~ Locked
    /\ conn' = [conn EXCEPT ![c] = "watching"]
    /\ viewers' = viewers \cup {c}
    /\ phase' = IF phase = "idle" THEN "connecting" ELSE phase
    /\ UNCHANGED <<running, resume, started, open, request, told, entry, playing>>

(* A request can be read: SetReadDeadline fails on a closed socket.        *)
Serves(c) == conn[c] = "watching" /\ request[c] = Idle /\ c \in open

(* A request is answered 200, if its socket is open; what that says is true*)
(* or not.                                                                 *)
Tell(c, true, answer) ==
    told' = [told EXCEPT ![c] =
        CASE c \notin open -> @
          [] c \in open /\ true /\ @ # "misled" -> answer
          [] OTHER -> "misled"]

(* A SETUP does not take back what PLAY was answered.                      *)
ReadyAgain(c) == IF told[c] = "promised" THEN "promised" ELSE "ready"

(* The request works on the forwarder that will be fed.                    *)
Retained(c) == request[c].forwarder = "retained"

(* handleSetup reads the forwarder of the current bridge.  UDP is refused  *)
(* (461) unless the server listens on a loopback address.                  *)
Setup(c, t) ==
    /\ Serves(c)
    /\ t = "udp" => Loopback
    /\ request' = [request EXCEPT ![c] =
           [op |-> "setup", transport |-> t, forwarder |-> Forwarder]]
    /\ UNCHANGED <<streamVars, viewers, conn, open, told, entry, playing>>

(* AddTCPClient, AddUDPClient, and the answer, which is 200 with a Session *)
(* also when the entry keeps another transport, and when AddUDPClient could*)
(* not dial another port of an entry (the error is ignored).               *)
SetupDone(c) ==
    LET asked == request[c].transport IN
    /\ request[c].op = "setup"
    /\ entry' = [entry EXCEPT ![c] = IF Retained(c) /\ @ = "none" THEN asked ELSE @]
    /\ \E dialled \in BOOLEAN :
           /\ ~ dialled => asked = "udp" /\ entry[c] = "udp"
           /\ Tell(c, Retained(c) /\ dialled /\ entry'[c] = asked, ReadyAgain(c))
    /\ request' = [request EXCEPT ![c] = Idle]
    /\ UNCHANGED <<streamVars, viewers, conn, open, playing>>

(* A UDP SETUP of a track that is neither video nor audio adds nothing, and*)
(* is answered 200 all the same.  (Of the backchannel only with a UDP      *)
(* entry, whose ports it sets.)                                            *)
SetupBare(c) ==
    /\ Serves(c)
    /\ Loopback
    /\ Tell(c, entry[c] = "udp", ReadyAgain(c))
    /\ UNCHANGED <<streamVars, viewers, conn, open, request, entry, playing>>

(* AddUDPClient cannot open its sockets: 500.                              *)
SetupFails(c) ==
    /\ request[c].op = "setup"
    /\ request[c].transport = "udp"
    /\ request' = [request EXCEPT ![c] = Idle]
    /\ UNCHANGED <<streamVars, viewers, conn, open, told, entry, playing>>

(* handlePlay answers and then reads the forwarder.  The Session header it *)
(* asks for is what SETUP has answered.                                    *)
Play(c) ==
    /\ Serves(c)
    /\ told[c] # "nothing"
    /\ request' = [request EXCEPT ![c] = [op |-> "play", forwarder |-> Forwarder]]
    /\ UNCHANGED <<streamVars, viewers, conn, open, told, entry, playing>>

(* Seeded fault: PlayClient makes an entry of a session it does not have.  *)
PlayDoneBlind(c) ==
    /\ request[c].op = "play"
    /\ playing' = playing \cup {c}
    /\ Tell(c, Retained(c), "promised")
    /\ request' = [request EXCEPT ![c] = Idle]
    /\ UNCHANGED <<streamVars, viewers, conn, open, entry>>

(* PlayClient: only a client that it has, and it says nothing of others.   *)
PlayDone(c) ==
    /\ request[c].op = "play"
    /\ playing' = IF Retained(c) /\ entry[c] # "none"
                  THEN playing \cup {c} ELSE playing
    /\ Tell(c, Retained(c), "promised")
    /\ request' = [request EXCEPT ![c] = Idle]
    /\ UNCHANGED <<streamVars, viewers, conn, open, entry>>

(* handleRTSPProtocol ends: TEARDOWN, sixty seconds of silence, malformed  *)
(* input, or a socket that is closed.                                      *)
Disconnect(c) ==
    /\ conn[c] = "watching"
    /\ request[c] = Idle
    /\ conn' = [conn EXCEPT ![c] = "leaving"]
    /\ told' = [told EXCEPT ![c] = "nothing"]
    /\ UNCHANGED <<streamVars, viewers, open, request, entry, playing>>

(* The transport of a connection is forgotten.                             *)
DropEntry(c) ==
    /\ entry' = [entry EXCEPT ![c] = "none"]
    /\ playing' = playing \ {c}

(* Seeded fault: the forwarder is not told that a client has gone.         *)
RemoveClientKeepsEntry(c) ==
    /\ conn[c] = "leaving"
    /\ ~ Locked
    /\ viewers' = viewers \ {c}
    /\ conn' = [conn EXCEPT ![c] = "away"]
    /\ open' = open \ {c}
    /\ UNCHANGED <<streamVars, request, told, entry, playing>>

(* Seeded fault: the client is not taken out of cs.clients.                *)
RemoveClientKeepsViewer(c) ==
    /\ conn[c] = "leaving"
    /\ ~ Locked
    /\ DropEntry(c)
    /\ conn' = [conn EXCEPT ![c] = "away"]
    /\ open' = open \ {c}
    /\ UNCHANGED <<streamVars, viewers, request, told>>

(* removeClient, CameraStream.RemoveClient: out of the forwarder, out of   *)
(* the clients, and the socket is closed.                                  *)
RemoveClient(c) ==
    /\ conn[c] = "leaving"
    /\ ~ Locked
    /\ DropEntry(c)
    /\ viewers' = viewers \ {c}
    /\ conn' = [conn EXCEPT ![c] = "away"]
    /\ open' = open \ {c}
    /\ UNCHANGED <<streamVars, request, told>>

(* forwardVideoData, forwardAudioPacket: the write to a TCP viewer fails or*)
(* takes more than a second.  Its socket is closed and it is dropped.  A   *)
(* packet of a session that has ended may still be in hand.                *)
WriteFails(c) ==
    /\ entry[c] = "tcp" /\ c \in playing
    /\ open' = open \ {c}
    /\ told' = [told EXCEPT ![c] = "nothing"]
    /\ DropEntry(c)
    /\ UNCHANGED <<streamVars, viewers, conn, request>>

(* The same for a write to a UDP viewer, but the socket of its RTSP        *)
(* connection stays open: the viewer is not told.                          *)
WriteFailsUDP(c) ==
    /\ entry[c] = "udp" /\ c \in playing
    /\ DropEntry(c)
    /\ told' = [told EXCEPT ![c] = IF @ = "nothing" THEN @ ELSE "misled"]
    /\ UNCHANGED <<streamVars, viewers, conn, open, request>>

-----------------------------------------------------------------------------
(* The stream.                                                             *)

(* startStream: the first attempt on a bridge, in Start.                   *)
AttemptStart ==
    /\ phase = "connecting"
    /\ viewers # {}
    /\ ~ started
    /\ phase' = "starting"
    /\ started' = TRUE
    /\ UNCHANGED <<running, resume, connVars, entry, playing>>

StartReturns ==
    /\ phase = "starting"
    /\ phase' \in {"live", "connecting"}
    /\ UNCHANGED <<running, resume, started, connVars, entry, playing>>

(* RTPForwarder.Stop: the entries go one after the other; nobody but a     *)
(* request that is in progress can add one meanwhile.                      *)
StopForwarder ==
    /\ entry' = [c \in Conns |-> "none"]
    /\ playing' = {}

(* Nobody watches: an attempt, the shutdown timer or an error stops the    *)
(* stream and its forwarder.                                               *)
StopUnwatched ==
    /\ phase \in {"connecting", "live"}
    /\ viewers = {}
    /\ StopForwarder
    /\ phase' = "idle"
    /\ UNCHANGED <<running, resume, started, connVars>>

(* Seeded fault: the old bridge stops without preserving its clients.      *)
ResetMediaStops == StopForwarder

(* ResetMedia of the retained forwarder touches no client.                 *)
ResetMedia == UNCHANGED <<entry, playing>>

(* replaceBridge, for an error of a live session with viewers or for an    *)
(* attempt on a bridge that has run: stopPreservingClients and             *)
(* cs.webrtcBridge = NewWebRTCBridge(...).                                 *)
SwapBridge ==
    /\ phase = "live" \/ (phase = "connecting" /\ started)
    /\ viewers # {}
    /\ ResetMedia
    /\ resume' = IF phase = "live" THEN "connecting" ELSE "starting"
    /\ started' = (phase # "live")
    /\ phase' = "swapped"
    /\ UNCHANGED <<running, connVars>>

(* cs.webrtcBridge.rtpForwarder = forwarder                                *)
RestoreForwarder ==
    /\ phase = "swapped"
    /\ phase' = resume
    /\ resume' = "connecting"
    /\ UNCHANGED <<running, started, connVars, entry, playing>>

-----------------------------------------------------------------------------
(* RTSPServer.Stop closes the connections ...                              *)
StopServer ==
    /\ running
    /\ running' = FALSE
    /\ open' = open \ viewers
    /\ told' = [c \in Conns |-> IF c \in viewers THEN "nothing" ELSE told[c]]
    /\ UNCHANGED <<phase, resume, started, viewers, conn, request, entry, playing>>

(* ... and CameraStream.Stop removes the clients one after the other, while*)
(* their connections may be in a request, ...                              *)
StopRemovesClient(c) ==
    /\ ~ running
    /\ ~ Locked
    /\ c \in viewers
    /\ viewers' = viewers \ {c}
    /\ DropEntry(c)
    /\ UNCHANGED <<streamVars, conn, open, request, told>>

(* ... and stops the stream.                                               *)
StopStream ==
    /\ ~ running
    /\ ~ Locked
    /\ phase # "idle"
    /\ StopForwarder
    /\ phase' = "idle"
    /\ UNCHANGED <<running, resume, started, connVars>>

-----------------------------------------------------------------------------
RequestStep(c) == SetupDone(c) \/ SetupFails(c) \/ PlayDone(c)

ConnStep(c) ==
    \/ Accept(c) \/ Refuse(c) \/ AddClient(c)
    \/ SetupBare(c) \/ \E t \in Transports : Setup(c, t)
    \/ Play(c) \/ RequestStep(c)
    \/ Disconnect(c) \/ RemoveClient(c) \/ WriteFails(c) \/ WriteFailsUDP(c)

StreamStep ==
    \/ AttemptStart \/ StartReturns \/ StopUnwatched
    \/ SwapBridge \/ RestoreForwarder

StopStep == StopServer \/ StopStream \/ \E c \in Conns : StopRemovesClient(c)

Next == (\E c \in Conns : ConnStep(c)) \/ StreamStep \/ StopStep

Spec == Init /\ [][Next]_vars

(* A connection reads on: a closed socket ends it.  Its removal gets       *)
(* cs.mutex in the end; replaceBridge and a Start (of a camera that can be *)
(* reached) come to their end.                                             *)
Fairness ==
    /\ \A c \in Conns :
           /\ WF_vars(RequestStep(c))
           /\ WF_vars(c \notin open /\ Disconnect(c))
           /\ SF_vars(RemoveClient(c))
    /\ WF_vars(StartReturns)
    /\ WF_vars(RestoreForwarder)

FairSpec == Spec /\ Fairness

-----------------------------------------------------------------------------
(* Properties.                                                             *)

(* Every variable ranges over what its Go type and its use allow.          *)
TypeOK ==
    /\ running \in BOOLEAN
    /\ phase \in Phases
    /\ resume \in {"connecting", "starting"}
    /\ started \in BOOLEAN
    /\ viewers \subseteq Conns
    /\ conn \in [Conns -> {"away", "connected", "watching", "leaving"}]
    /\ open \subseteq Conns
    /\ request \in [Conns -> Requests]
    /\ told \in [Conns -> {"nothing", "ready", "promised", "misled"}]
    /\ entry \in [Conns -> {"none"} \cup Transports]
    /\ playing \subseteq {c \in Conns : entry[c] # "none"}

(* The forwarder sends to nobody else than connections that were let in    *)
(* and whose own end will take them out again, also if Stop took them out  *)
(* before and a request in progress put them back (RemoveClient, AddTCP-   *)
(* Client, AddUDPClient, Stop).                                            *)
TransportsBelongToViewers ==
    \A c \in Conns : entry[c] # "none" =>
        conn[c] \in {"watching", "leaving"}

(* A viewer that the forwarder gave up, or whose socket failed, does not   *)
(* keep the session: it stops to count as a viewer (forwardVideoData,      *)
(* handleRTSPProtocol, removeClient).                                      *)
DeadViewerLeaves == \A c \in Conns : c \in viewers /\ c \notin open ~> c \notin viewers

(* server.go:700, "The RTSP clients and transports remain live": a viewer  *)
(* whose SETUP and PLAY were answered 200 is one that the forwarder plays  *)
(* to, through every replaced bridge, until its socket is closed or it     *)
(* leaves, but for the viewers that are misled: one of its requests met a  *)
(* half replaced bridge; its only SETUP was UDP for a track that is neither*)
(* video nor audio, or asked for another transport than its entry has; a   *)
(* port of its entry could not be dialled; or it was a UDP viewer whom a   *)
(* failed write dropped.  There is no other way to a viewer who waits for  *)
(* ever for a picture (handleSetup, handlePlay, AddTCPClient, AddUDPClient,*)
(* forwardVideoData, replaceBridge, ResetMedia).                           *)
PromiseKept ==
    running => \A c \in Conns :
        told[c] = "promised" /\ c \in open => c \in playing

-----------------------------------------------------------------------------
(* The abstract session.                                                   *)

Session == CASE phase \in {"connecting", "starting", "swapped"} -> "connecting"
             [] OTHER -> phase

Lifecycle == INSTANCE StreamLifecycle WITH
    Viewers <- Conns,
    viewers <- viewers,
    phase   <- Session,
    down    <- ~ running

(* The stream that the transports belong to is the one of CameraStream and *)
(* RTSPServer: see StreamLifecycle.                                        *)
ImplementsLifecycle == Lifecycle!Spec

=============================================================================
