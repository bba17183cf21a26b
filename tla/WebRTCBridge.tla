---------------------------- MODULE WebRTCBridge ----------------------------
(***************************************************************************)
(* One WebRTCBridge (bridge/pkg/rtsp/bridge.go) between its owner, the     *)
(* CameraStream, and the camera: Start negotiates over MQTT and waits on a *)
(* Waiter (bridge/pkg/utils/waiter.go) until pion's callbacks report a     *)
(* session or an error; handleError ends the wait and tells the owner.     *)
(*                                                                         *)
(* Three kinds of goroutines meet here: the owner, which holds cs.mutex    *)
(* all through Start and stop; the MQTT router, which runs `consume' for   *)
(* one message at a time and is blocked while a handler is; and any number *)
(* of pion and encoder goroutines.                                         *)
(***************************************************************************)
EXTENDS Integers, Sequences

CONSTANTS
    Candidates,   (* the ICE candidates the camera may trickle              *)
    MaxInbox,     (* MQTT messages in flight (bound)                        *)
    MaxErrors     (* pion and encoder goroutines in handleError (bound)     *)

ASSUME BridgeBounds == MaxInbox \in Nat /\ MaxErrors \in Nat

VARIABLES
    mode,            (* HEVC over a data channel, or H.264 hd or sd         *)
    start,           (* where Start stands                                  *)
    waiter,          (* [state, err]: the fields of wb.waiter               *)
    ending,          (* the Done between WaitGroup.Done and `w.err = err'   *)
    handler,         (* wb.OnError is set                                   *)
    stopped,         (* stop has run                                        *)
    registered,      (* the camera client is in MQTTClient.cameras          *)
    mqttClosed,      (* MQTTClient.closed                                   *)
    inbox,           (* messages of the camera on their way                 *)
    answered,        (* the camera has answered the offer                   *)
    answerReceived,  (* wb.answerReceived                                   *)
    arrived,         (* candidates `consume' has handed over                *)
    pending,         (* wb.pendingCandidates                                *)
    added,           (* candidates handed to the peer connection            *)
    pc,              (* state of the peer connection                        *)
    channel,         (* HEVC: progress of the fmp4Stream data channel       *)
    encoder,         (* the AAC encoder: off, running, or broken, when its  *)
                     (* failure is still to be reported                     *)
    checked,         (* goroutines in handleError past the nil check        *)
    calling,         (* goroutines past waiter.Done, about to call OnError  *)
    router,          (* the MQTT router: free, routed when `consume' has    *)
                     (* found this bridge for the first message, or in      *)
                     (* handleError                                         *)
    panicked         (* OnError was nil when it was called                  *)

signalVars == <<mqttClosed, inbox, answered>>
iceVars    == <<answerReceived, arrived, pending, added>>
mediaVars  == <<pc, channel, encoder>>
errorVars  == <<checked, calling, router>>
waitVars   == <<waiter, ending>>
ownerVars  == <<handler, stopped, registered>>
vars == <<mode, start, waitVars, ownerVars, signalVars, iceVars, mediaVars,
          errorVars, panicked>>

MessageTypes == {"candidate", "answer", "malformed", "disconnect"}

Messages == [type : {"candidate"}, candidate : Candidates]
              \cup [type : MessageTypes \ {"candidate"}]

InStart == start \in {"preparing", "offered", "waiting"}

Init ==
    /\ mode \in {"hevc", "hd", "sd"}
    /\ start = "none"
    /\ waiter = [state |-> 0, err |-> "nil"]
    /\ ending = "none"
    /\ handler = TRUE /\ stopped = FALSE /\ registered = FALSE
    /\ mqttClosed = FALSE /\ inbox = <<>> /\ answered = FALSE
    /\ answerReceived = FALSE
    /\ arrived = {} /\ pending = {} /\ added = {}
    /\ pc = "none" /\ channel = "none" /\ encoder = "off"
    /\ checked = 0 /\ calling = 0 /\ router = "free"
    /\ panicked = FALSE

-----------------------------------------------------------------------------
(* utils.Waiter.  Done wakes the waiting goroutine first and stores the    *)
(* error afterwards; Wait reads it without the waiter's mutex.             *)

(* Seeded fault: Done counts down without asking for a pending task.       *)
WaiterDoneUnguarded(err) ==
    /\ ending = "none"
    /\ ending' = err
    /\ waiter' = [waiter EXCEPT !.state = @ - 1]

(* Done(err) up to WaitGroup.Done; without a waiter it runs to its end.    *)
WaiterDone(err) ==
    /\ ending = "none"
    /\ IF waiter.state = 1
       THEN /\ ending' = err
            /\ waiter' = [waiter EXCEPT !.state = 0]
       ELSE /\ waiter' = IF waiter.state = 0
                         THEN [state |-> -1, err |-> err]
                         ELSE waiter
            /\ UNCHANGED ending

(* The rest of Done.                                                       *)
WaiterEnds ==
    /\ ~panicked
    /\ ending # "none"
    /\ waiter' = [state |-> -1, err |-> ending]
    /\ ending' = "none"
    /\ UNCHANGED <<mode, start, ownerVars, signalVars, iceVars, mediaVars, errorVars,
                   panicked>>

-----------------------------------------------------------------------------
(* Start, and the owner that stops the bridge.                             *)

(* Start takes wb.mutex; the owner holds cs.mutex.  With AudioFormat "aac" *)
(* an encoder is started.  Nothing keeps Start from a stopped bridge.      *)
StartBegins ==
    /\ ~panicked
    /\ start = "none"
    /\ start' = "preparing"
    /\ encoder' \in {"off", "running"}
    /\ UNCHANGED <<mode, waitVars, ownerVars, signalVars, iceVars, pc, channel,
                   errorVars, panicked>>

(* stopAudioEncoder: a failure that came first is still reported.          *)
CloseEncoder == encoder' = IF encoder = "running" THEN "off" ELSE encoder

(* Account, MQTT, encoder or peer connection: something cannot be had.     *)
PrepareFails ==
    /\ ~panicked
    /\ start = "preparing" /\ pc = "none"
    /\ start' = "failed"
    /\ CloseEncoder
    /\ UNCHANGED <<mode, waitVars, ownerVars, signalVars, iceVars, pc, channel,
                   errorVars, panicked>>

(* setupPeerConnection and setupMQTTCameraClient.                          *)
SetupSession ==
    /\ ~panicked
    /\ start = "preparing" /\ pc = "none"
    /\ pc' = "new"
    /\ registered' = TRUE
    /\ answerReceived' = FALSE
    /\ pending' = {}
    /\ UNCHANGED <<mode, start, waitVars, handler, stopped, signalVars, arrived,
                   added, channel, encoder, errorVars, panicked>>

(* createAndSendOffer: sendMqttMessage refuses on a closed client, and the *)
(* publication may fail.  A Start that fails stops its encoder.            *)
SendOffer ==
    /\ ~panicked
    /\ start = "preparing" /\ pc # "none"
    /\ \/ /\ ~mqttClosed
          /\ start' = "offered"
          /\ UNCHANGED encoder
       \/ /\ start' = "failed"
          /\ CloseEncoder
    /\ UNCHANGED <<mode, waitVars, ownerVars, signalVars, iceVars, pc, channel,
                   errorVars, panicked>>

(* waiter.Wait: the first wait starts the waiter, unless Done was faster.  *)
WaitBegins ==
    /\ ~panicked
    /\ start = "offered" /\ ending = "none"
    /\ start' = "waiting"
    /\ waiter' = IF waiter.state = 0 THEN [waiter EXCEPT !.state = 1] ELSE waiter
    /\ UNCHANGED <<mode, ending, ownerVars, signalVars, iceVars, mediaVars,
                   errorVars, panicked>>

(* waiter.Wait returns with whatever w.err holds at that moment.           *)
StartReturns ==
    /\ ~panicked
    /\ start = "waiting"
    /\ waiter.state # 1
    /\ IF waiter.err = "error"
       THEN start' = "failed" /\ CloseEncoder
       ELSE start' = "ok" /\ UNCHANGED encoder
    /\ UNCHANGED <<mode, waitVars, ownerVars, signalVars, iceVars, pc, channel,
                   errorVars, panicked>>

(* OnError is cleared; stop closes the peer connection, deregisters the    *)
(* camera client and stops the encoder.                                    *)
TearDown ==
    /\ handler' = FALSE
    /\ stopped' = TRUE
    /\ registered' = FALSE
    /\ pc' = IF pc = "none" THEN pc ELSE "closed"
    /\ CloseEncoder

(* replaceBridge or stopStreamInternal, under cs.mutex.                    *)
Stop ==
    /\ ~panicked
    /\ ~InStart
    /\ TearDown
    /\ UNCHANGED <<mode, start, waitVars, signalVars, iceVars, channel, errorVars,
                   panicked>>

(* OnError is read again and called.  The owner then waits for cs.mutex,   *)
(* which Start holds, and tears the bridge down if its Start had succeeded.*)
CallOwner ==
    /\ ~handler \/ ~InStart
    /\ panicked' = ~handler
    /\ IF handler /\ start = "ok"
       THEN TearDown
       ELSE UNCHANGED <<ownerVars, pc, encoder>>
    /\ UNCHANGED <<mode, start, waitVars, signalVars, iceVars, channel, checked>>

-----------------------------------------------------------------------------
(* handleError.                                                            *)

(* A pion or encoder goroutine finds OnError set, or leaves.               *)
Raise ==
    /\ checked + calling < MaxErrors
    /\ checked' = IF handler THEN checked + 1 ELSE checked

(* Seeded fault: the wait is ended and the owner is not told.              *)
ErrorEndsWaitOnly ==
    /\ ~panicked
    /\ checked > 0
    /\ WaiterDone("error")
    /\ checked' = checked - 1
    /\ UNCHANGED <<mode, start, ownerVars, signalVars, iceVars, mediaVars, calling,
                   router, panicked>>

(* Seeded fault: the owner is told and the wait goes on.                   *)
ErrorSparesWait ==
    /\ ~panicked
    /\ checked > 0
    /\ checked' = checked - 1
    /\ calling' = calling + 1
    /\ UNCHANGED <<mode, start, waitVars, ownerVars, signalVars, iceVars, mediaVars,
                   router, panicked>>

(* waiter.Done(err); OnError is called later.                              *)
ErrorEndsWait ==
    /\ ~panicked
    /\ checked > 0
    /\ WaiterDone("error")
    /\ checked' = checked - 1
    /\ calling' = calling + 1
    /\ UNCHANGED <<mode, start, ownerVars, signalVars, iceVars, mediaVars, router,
                   panicked>>

ErrorReported ==
    /\ ~panicked
    /\ calling > 0
    /\ calling' = calling - 1
    /\ CallOwner
    /\ UNCHANGED router

(* The same for the router.                                                *)
RouterEndsWait ==
    /\ ~panicked
    /\ router = "checked"
    /\ WaiterDone("error")
    /\ router' = "calling"
    /\ UNCHANGED <<mode, start, ownerVars, signalVars, iceVars, mediaVars, checked,
                   calling, panicked>>

RouterReported ==
    /\ ~panicked
    /\ router = "calling"
    /\ router' = "free"
    /\ CallOwner
    /\ UNCHANGED calling

-----------------------------------------------------------------------------
(* The camera and the MQTT connection.                                     *)

Offered == start \in {"offered", "waiting", "ok"}

(* The camera publishes something, or the broker repeats it (QoS 1).       *)
CameraSends(m) ==
    /\ ~panicked
    /\ Offered /\ ~mqttClosed
    /\ Len(inbox) < MaxInbox
    /\ inbox' = Append(inbox, m)
    /\ answered' = (answered \/ m.type = "answer")
    /\ UNCHANGED <<mode, start, waitVars, ownerVars, mqttClosed, iceVars, mediaVars,
                   errorVars, panicked>>

(* The connection is lost: onDisconnect marks the client closed and tells  *)
(* no camera client.  A message that consume has in hand is still handled. *)
MqttLost ==
    /\ ~panicked
    /\ ~mqttClosed
    /\ mqttClosed' = TRUE
    /\ inbox' = IF router = "routed" THEN <<Head(inbox)>> ELSE <<>>
    /\ UNCHANGED <<mode, start, waitVars, ownerVars, answered, iceVars, mediaVars,
                   errorVars, panicked>>

(* consume looks for a camera client of the session.  It takes no lock:    *)
(* the bridge may be stopped before the message is handed over.            *)
LookUp ==
    /\ ~panicked
    /\ router = "free"
    /\ inbox # <<>>
    /\ IF registered
       THEN router' = "routed" /\ UNCHANGED inbox
       ELSE inbox' = Tail(inbox) /\ UNCHANGED router
    /\ UNCHANGED <<mode, start, waitVars, ownerVars, mqttClosed, answered, iceVars,
                   mediaVars, checked, calling, panicked>>

(* The bridge that consume has found gets the message.                     *)
NextMessage(type) ==
    /\ ~panicked
    /\ router = "routed"
    /\ Head(inbox).type = type
    /\ inbox' = Tail(inbox)
    /\ UNCHANGED <<mode, start, waitVars, ownerVars, mqttClosed, answered, mediaVars,
                   checked, calling, panicked>>

(* The router enters handleError.                                          *)
RouterRaises == router' = IF handler THEN "checked" ELSE "free"

(* HandleAnswer: a first good answer is set and flushes the candidates     *)
(* that came before it; pion refuses a second one, and any on a peer       *)
(* connection that is closed.                                              *)
HandleAnswer ==
    /\ NextMessage("answer")
    /\ IF answerReceived \/ pc = "closed"
       THEN RouterRaises /\ UNCHANGED iceVars
       ELSE /\ answerReceived' = TRUE
            /\ added' = added \cup pending
            /\ pending' = {}
            /\ router' = "free"
            /\ UNCHANGED arrived

(* A message that cannot be decoded, or an answer pion refuses.            *)
HandleMalformed ==
    /\ NextMessage("malformed")
    /\ RouterRaises
    /\ UNCHANGED iceVars

(* Seeded fault: every candidate is buffered, also after the answer.       *)
HandleCandidateBuffers ==
    /\ NextMessage("candidate")
    /\ arrived' = arrived \cup {Head(inbox).candidate}
    /\ pending' = pending \cup {Head(inbox).candidate}
    /\ router' = "free"
    /\ UNCHANGED <<answerReceived, added>>

(* HandleCandidate: buffered until the answer is set.                      *)
HandleCandidate ==
    /\ NextMessage("candidate")
    /\ arrived' = arrived \cup {Head(inbox).candidate}
    /\ IF answerReceived
       THEN added' = added \cup {Head(inbox).candidate} /\ UNCHANGED pending
       ELSE pending' = pending \cup {Head(inbox).candidate} /\ UNCHANGED added
    /\ router' = "free"
    /\ UNCHANGED answerReceived

(* HandleDisconnect.  It also clears wb.connected, which nobody reads      *)
(* before the bridge is stopped.                                           *)
HandleDisconnect ==
    /\ NextMessage("disconnect")
    /\ RouterRaises
    /\ UNCHANGED iceVars

-----------------------------------------------------------------------------
(* pion's callbacks.                                                       *)

(* Seeded fault: a connected peer completes Start also for HEVC.           *)
PeerConnectedCompletes ==
    /\ ~panicked
    /\ pc = "new" /\ answerReceived
    /\ pc' = "connected"
    /\ IF mode # "sd" THEN WaiterDone("nil") ELSE UNCHANGED waitVars
    /\ UNCHANGED <<mode, start, ownerVars, signalVars, iceVars, channel, encoder,
                   errorVars, panicked>>

(* The peer connection connects.  For H.264 in hd that completes Start.    *)
PeerConnected ==
    /\ ~panicked
    /\ pc = "new" /\ answerReceived
    /\ pc' = "connected"
    /\ IF mode = "hd" THEN WaiterDone("nil") ELSE UNCHANGED waitVars
    /\ UNCHANGED <<mode, start, ownerVars, signalVars, iceVars, channel, encoder,
                   errorVars, panicked>>

(* OnConnectionStateChange: failed or closed.                              *)
PeerFails ==
    /\ ~panicked
    /\ pc \in {"new", "connected"}
    /\ pc' = "failed"
    /\ Raise
    /\ UNCHANGED <<mode, start, waitVars, ownerVars, signalVars, iceVars, channel,
                   encoder, calling, router, panicked>>

(* Seeded fault: the last request does not complete Start.                 *)
ChannelAdvancesSilently ==
    /\ ~panicked
    /\ mode = "hevc" /\ pc = "connected"
    /\ \/ channel = "none" /\ channel' = "codec"
       \/ channel = "codec" /\ channel' = "start"
       \/ channel \in {"codec", "start"} /\ channel' = "complete"
    /\ UNCHANGED <<mode, start, waitVars, ownerVars, signalVars, iceVars, pc, encoder,
                   errorVars, panicked>>

(* HEVC: OnOpen asks for the codec, and each message of the camera leads to*)
(* the next request.  "recv" completes Start, also one that comes out of   *)
(* turn: probe does not ask what it has sent.                              *)
ChannelAdvances ==
    /\ ~panicked
    /\ mode = "hevc" /\ pc = "connected"
    /\ \/ channel = "none" /\ channel' = "codec" /\ UNCHANGED waitVars
       \/ channel = "codec" /\ channel' = "start" /\ UNCHANGED waitVars
       \/ /\ channel \in {"codec", "start"}
          /\ channel' = "complete"
          /\ WaiterDone("nil")
    /\ UNCHANGED <<mode, start, ownerVars, signalVars, iceVars, pc, encoder,
                   errorVars, panicked>>

(* The data channel closes, or an error leaves it open: OnError, a reply   *)
(* that cannot be sent, or a malformed message.                            *)
ChannelFails ==
    /\ ~panicked
    /\ mode = "hevc" /\ pc # "none" /\ channel # "closed"
    /\ channel' = "closed" \/ (channel # "none" /\ UNCHANGED channel)
    /\ Raise
    /\ UNCHANGED <<mode, start, waitVars, ownerVars, signalVars, iceVars, pc,
                   encoder, calling, router, panicked>>

(* The encoder stops with an error: see AudioEncoder.                      *)
EncoderBreaks ==
    /\ ~panicked
    /\ encoder = "running"
    /\ encoder' = "broken"
    /\ UNCHANGED <<mode, start, waitVars, ownerVars, signalVars, iceVars, pc,
                   channel, errorVars, panicked>>

(* The goroutine that waits for the encoder's end finds the error.         *)
EncoderReports ==
    /\ ~panicked
    /\ encoder = "broken"
    /\ encoder' = "off"
    /\ Raise
    /\ UNCHANGED <<mode, start, waitVars, ownerVars, signalVars, iceVars, pc,
                   channel, calling, router, panicked>>

-----------------------------------------------------------------------------

OwnerStep ==
    \/ StartBegins \/ PrepareFails \/ SetupSession \/ SendOffer
    \/ WaitBegins \/ StartReturns \/ Stop

ErrorStep ==
    \/ ErrorEndsWait \/ ErrorReported
    \/ RouterEndsWait \/ RouterReported
    \/ WaiterEnds

RouterStep ==
    \/ LookUp
    \/ HandleAnswer \/ HandleMalformed \/ HandleCandidate \/ HandleDisconnect

MediaStep ==
    \/ PeerConnected \/ PeerFails \/ ChannelAdvances \/ ChannelFails
    \/ EncoderBreaks \/ EncoderReports

Next ==
    \/ OwnerStep
    \/ ErrorStep
    \/ RouterStep
    \/ MediaStep
    \/ \E m \in Messages : CameraSends(m)
    \/ MqttLost

Spec == Init /\ [][Next]_vars

(* The bridge's own goroutines run on.                                     *)
Progress ==
    /\ WF_vars(SetupSession \/ PrepareFails) /\ WF_vars(SendOffer)
    /\ WF_vars(WaitBegins) /\ WF_vars(StartReturns)
    /\ SF_vars(ErrorEndsWait) /\ WF_vars(ErrorReported)
    /\ SF_vars(RouterEndsWait) /\ WF_vars(RouterReported)
    /\ WF_vars(WaiterEnds)
    /\ WF_vars(RouterStep)

(* A willing camera on a working network: it answers an offer, and ICE and *)
(* the data channel get through.                                           *)
WillingCamera ==
    /\ SF_vars(~answered /\ CameraSends([type |-> "answer"]))
    /\ WF_vars(PeerConnected)
    /\ WF_vars(ChannelAdvances)

FairSpec == Spec /\ Progress /\ WillingCamera

-----------------------------------------------------------------------------
(* Properties.                                                             *)

InboxOK == inbox \in Seq(Messages) /\ Len(inbox) <= MaxInbox

(* Every field has a value its Go type and its use allow.                  *)
TypeOK ==
    /\ mode \in {"hevc", "hd", "sd"}
    /\ start \in {"none", "preparing", "offered", "waiting", "ok", "failed"}
    /\ waiter \in [state : {-1, 0, 1}, err : {"nil", "error"}]
    /\ ending \in {"none", "nil", "error"}
    /\ handler \in BOOLEAN /\ stopped \in BOOLEAN /\ registered \in BOOLEAN
    /\ mqttClosed \in BOOLEAN /\ answered \in BOOLEAN
    /\ InboxOK
    /\ answerReceived \in BOOLEAN
    /\ arrived \subseteq Candidates
    /\ pending \subseteq Candidates /\ added \subseteq Candidates
    /\ pc \in {"none", "new", "connected", "failed", "closed"}
    /\ channel \in {"none", "codec", "start", "complete", "closed"}
    /\ encoder \in {"off", "running", "broken"}
    /\ checked \in Nat /\ calling \in Nat
    /\ router \in {"free", "routed", "checked", "calling"}
    /\ router = "routed" => inbox # <<>>
    /\ panicked \in BOOLEAN

(* No ICE candidate is lost, whichever side of the answer it arrives on:   *)
(* before the answer it is kept, after it all of them are with the peer    *)
(* connection (HandleCandidate, HandleAnswer).                             *)
CandidatesKept ==
    /\ arrived = pending \cup added
    /\ answerReceived => pending = {}

(* Start may return nil although the session has failed, because Done wakes*)
(* it before it stores the error.  The owner then still hears of it: the   *)
(* goroutine that ended the wait has yet to call OnError.                  *)
FalseSuccessReported ==
    start = "ok" /\ ~stopped /\ (ending = "error" \/ waiter.err = "error")
        => calling > 0 \/ router = "calling"

(* Start only reports success for a session that came up, or one whose     *)
(* failure is being reported.                                              *)
SuccessMeansSession ==
    start = "ok" /\ ~stopped /\ calling = 0 /\ router # "calling" =>
        \/ mode = "hd" /\ pc \in {"connected", "failed"}
        \/ mode = "hevc" /\ channel \in {"complete", "closed"}

(* An error that handleError has taken up ends a running Start.            *)
ErrorEndsStart ==
    (checked > 0 \/ router = "checked") ~> ~InStart \/ panicked

(* With a willing camera Start comes to an end, for the streams that can   *)
(* complete it, unless signalling is lost or errors have no handler.       *)
StartCompletes ==
    start = "waiting" /\ mode # "sd"
        ~> start # "waiting" \/ mqttClosed \/ ~handler \/ panicked

-----------------------------------------------------------------------------
(* The inductive invariant behind the safety properties.                   *)

(* Nothing of the session exists before its Start, and no message reaches  *)
(* a bridge without a peer connection.                                     *)
QuietBeforeStart ==
    /\ start = "none" => /\ waiter = [state |-> 0, err |-> "nil"]
                         /\ ending = "none" /\ encoder = "off" /\ pc = "none"
                         /\ checked = 0 /\ calling = 0
    /\ pc = "none" => /\ ~registered /\ arrived = {} /\ added = {}
                      /\ router = "free"
                      /\ start \in {"none", "preparing", "failed"}

(* OnError is set exactly until the bridge is stopped.                     *)
HandlerUntilStopped == handler <=> ~stopped

(* Until the owner hears of it, the goroutine that ended the wait with an  *)
(* error is on its way to OnError.                                         *)
ErrorOnItsWay ==
    start # "failed" /\ ~stopped /\ (ending = "error" \/ waiter.err = "error")
        => calling > 0 \/ router = "calling"

(* A Done without an error came with the session.                          *)
DoneMeansSession ==
    /\ waiter.state \in {0, 1} => waiter.err = "nil"
    /\ ending # "none" => waiter.state = 0
    /\ start \in {"waiting", "ok"} => waiter.state # 0 \/ ending # "none"
    /\ start = "ok" => waiter.state # 1
    /\ ~stopped /\ waiter.err = "nil" /\ (waiter.state = -1 \/ ending = "nil") =>
          \/ mode = "hd" /\ pc \in {"connected", "failed"}
          \/ mode = "hevc" /\ channel \in {"complete", "closed"}

IInv ==
    /\ TypeOK /\ CandidatesKept
    /\ QuietBeforeStart /\ HandlerUntilStopped
    /\ ErrorOnItsWay /\ DoneMeansSession

-----------------------------------------------------------------------------
(* The interfaces this bridge implements.                                  *)

InError == router \in {"checked", "calling"}

Phase == CASE start = "none" -> "idle"
           [] InStart -> "starting"
           [] start = "ok" /\ ~stopped -> "up"
           [] OTHER -> "over"

Interface == INSTANCE BridgeInterface WITH
    phase   <- Phase,
    handler <- handler,
    raised  <- checked + calling + (IF InError THEN 1 ELSE 0)

(* What the owner relies on: see BridgeInterface.                          *)
ImplementsInterface == Interface!Spec

Encoder == INSTANCE EncoderInterface

(* What the bridge relies on from its encoder: see EncoderInterface.       *)
UsesEncoder == Encoder!Spec

-----------------------------------------------------------------------------
(* A statement of the repository that the code does not keep.              *)

(* "While a replacement is connecting, Start handles its own failure and   *)
(* retry" (server.go, handleBridgeError): a Start that waits returns.      *)
StartHandlesFailure == start = "waiting" ~> start # "waiting" \/ panicked

=============================================================================
