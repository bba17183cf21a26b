# A TLA+ model of the Momcozy bridge

This directory models the program in `bridge/` (Go) and the part of `client/`
(Python) that publishes the files it reads.  The program gives a baby camera,
which speaks Tuya's cloud signalling and WebRTC, the face of an RTSP server.
Line numbers below are those of the repository at the modelled commit;
`PROJECT.json` maps every definition to them.

## 1. Inventory

| Component | State | Operations | Talks to | What must hold |
|---|---|---|---|---|
| RTSP server (`rtsp/server.go`) | `streams`, `clients`, `running`, one mutex | accept, look up or create a stream, list and remove a client, remove a stream, cleanup, Stop | connections, streams, MQTT manager | no dead entries, no late removal of a live session's entry, no lock order in which everyone waits |
| CameraStream (`rtsp/server.go`) | `clients`, `active`, `connecting`, `bridgeStarted`, `shutdownTimer`, current bridge, one mutex | AddClient, RemoveClient, startStream, scheduleShutdown, handleBridgeError, replaceBridge, Stop | the bridge (calls, OnError), the server | nobody is stranded, nothing runs for nobody, one starter, restarts on a fresh bridge |
| WebRTCBridge (`rtsp/bridge.go`) | waiter, `OnError`, `answerReceived`, `pendingCandidates`, `connected`, peer connection, data channel | Start, stop, answer, candidate, disconnect, data channel probe, handleError | MQTT client, pion, encoder, its stream | no candidate lost, success means a session, errors end Start and reach the owner |
| Waiter (`utils/waiter.go`) | `state`, `err` | Wait, Done | bridge, MQTT client | a first Done ends the wait |
| MQTT client and manager (`tuya/mqtt*.go`, `rtsp/mqtt_manager.go`) | `cameras`, `closed`, clients per device | GetClient with back-off, handshake, route a message, lose the connection, Stop | broker, bridges | no connection is forgotten, messages are routed to bridges in use only, whoever asks for a client is answered |
| RTP forwarder (`rtsp/forwarder.go`) | clients, playing, SPS/PPS, encoder, SSRCs | add, play, remove, reset, forward | bridge, RTSP protocol | a viewer that was promised a picture keeps playing through a replacement, except in known cases; a dead one leaves |
| RTSP protocol (`rtsp/protocol.go`, `access.go`) | per connection transport | OPTIONS, DESCRIBE, SETUP, PLAY, TEARDOWN, interleaved frames | server, forwarder | only after access is granted; session of its own |
| Audio encoder (`rtsp/audio_encoder.go`) | queue, done, first time stamp, sub-process | Write, stop, Close, write loop, read loop | forwarder, ffmpeg | never blocks the media path, keeps its clock, reports its first cause, Close joins everything |
| App server (`cmd/setupwizard`) | running operation, bridge supervisor, ready directory | configure, regenerate, launch, cancel, status, shutdown | browser, helper process, supervisor | operations end, one supervisor per process, what runs is what the files say |
| Setup helper (`client/setup_wizard.py`, `app_cache.py`) | files of the private directory, app cache | stage, publish, replace, promote, restore | app server, desktop | readers never see a partial setup (they may: `partial_setup`) |
| Desktop supervisor (`cmd/desktop`) | children | start in order, wait until ready, stop all | bridges as processes | no child outlives it, one that dies takes the others down |
| Storage and CLI (`pkg/storage`, `cmd/*`) | user files, camera registry | read, merge, write | server | updates are not lost, paths are unique |
| HA integration (`custom_components`) | config entries | configure, reconfigure | Home Assistant, RTSP | no two entries for one endpoint |

How the core interacts: a connection goroutine calls into the server and then
into its stream; the stream starts one goroutine that runs `Start` of the
current bridge **with the stream's mutex held**; pion, MQTT and encoder
goroutines call `handleError`, which ends the bridge's waiter and calls
`OnError`, that is, the stream's `handleBridgeError`, which needs the stream's
mutex; a stopped stream removes itself from the server in another goroutine,
which needs the server's mutex; and `removeClient` and `Stop` of the server
wait for streams while they hold the server's mutex.  Those loops, and the
windows between two critical sections, are what the modules are about.

The hard behaviours are listed with their lines under `hazards` in
`PROJECT.json`.  In short: late callbacks of timers and of replaced bridges,
state read in one critical section and used in the next, a call without a
timeout under a mutex, asynchronous removals, nil checks without a lock, the
waiter's error that is stored after the wake-up, and signalling messages that
are early, repeated or lost.

## 2. Modules

| Module | Models | Run by | Proofs |
|---|---|---|---|
| `StreamLifecycle` | the abstract session: viewers, idle/connecting/live | as a property of `CameraStream` and `RTSPServer` | |
| `BridgeInterface` | what a stream and its bridge rely on from each other | as a property of `CameraStream` | |
| `EncoderInterface` | what a session and its encoder rely on from each other | | |
| `Supervision` | what the app promises about the camera processes | | |
| `CameraStream` | one CameraStream object and everything that touches it | `MCCameraStream` | `CameraStreamProofs` |
| `RTSPServer` | the registry: objects of one stream id, connections, both mutexes | `MCRTSPServer` | `RTSPServerProofs` |
| `WebRTCBridge` | one bridge from Start to stop, waiter, MQTT router, pion | `MCWebRTCBridge` | `WebRTCBridgeProofs` |
| `MQTTManager` | the MQTT clients of all cameras, their handshakes, the broker, the manager and its mutex | `MCMQTTManager` | `MQTTManagerProofs` |
| `MediaPlane` | the transports of the viewers of one stream: RTSP requests, forwarder, replaced bridges | `MCMediaPlane` | `MediaPlaneProofs` |
| `AudioEncoder` | the AAC encoder of a session, its loops and its clock | `MCAudioEncoder` | `AudioEncoderProofs` |
| `AppServer` | the Home Assistant app: operations, publication of the configurations, supervisor, camera processes | `MCAppServer` | `AppServerProofs` |

`CameraStream` looks at one object under a microscope (timers, starters,
errors, the bridge's handler) and sees the bridge as a Start that succeeds or
fails and as errors that arrive.  `WebRTCBridge` is that bridge, and sees its
stream as the owner that holds a mutex and clears `OnError`.  `RTSPServer` has
several objects and all their connections, and sees each object as a session
of `StreamLifecycle` with the one detail that matters to the locks: whether a
Start is running.  `MQTTManager` is what stands behind the one MQTT connection
that `WebRTCBridge` sees, and composes the bridges of several streams with the
broker.  `MediaPlane` composes the protocol handlers and the forwarder with the
part of the stream that replaces bridges.  `AudioEncoder` is the encoder that
`WebRTCBridge` sees only as running, broken or off.  `AppServer` stands
apart: the bridge is a process to it.

Where two modules look at the same thing from two sides, an abstract module
says what they agree on, and both are proved to implement it:

| Abstract | One side | The other side |
|---|---|---|
| `StreamLifecycle` | `CameraStream` (the object) | `RTSPServer` (every object of the registry), `MediaPlane` (the stream behind the transports) |
| `BridgeInterface` | `CameraStream` (starts, stops and replaces bridges, takes their errors) | `WebRTCBridge` (is started and stopped, raises errors) |
| `EncoderInterface` | `WebRTCBridge` (starts and closes its encoder, hears of a failure) | `AudioEncoder` (breaks, reports, is closed) |

So what `CameraStream` lets its environment do as "a bridge" contains what
`WebRTCBridge` does, and what `WebRTCBridge` lets its owner do is what
`CameraStream` does: for example that an owner neither stops nor replaces a
bridge during its Start and takes no error then, which is `cs.mutex`, and that
a bridge raises no error before its Start.  The interfaces are about the order
of these steps; they say nothing of how long a step takes, so that the hanging
Start of `start_hangs` is one of theirs.  `Supervision` has one implementation:
it is what remains of `AppServer` for somebody who only sees processes.

### CameraStream

`active`, `connecting`, `bridgeStarted`, `clients` are the fields of the
struct; `timer` is `shutdownTimer` (nil, armed, or fired with its callback
still waiting) and `expired` counts callbacks that wait for the mutex.
`starter[g]` is where a `startStream` goroutine stands; `starting` means that it
is inside `WebRTCBridge.Start` and holds `cs.mutex`.  `ran`, `handler` and
`cancelled` describe the current bridge; goroutines of `handleError` are counted
in `checked` (past the nil check) and `callers` (in `handleBridgeError`, waiting),
for the current bridge and for all retired ones together.  Each critical section
is one action.  `handlingError` is not a variable: it is set and cleared within
one critical section, so it is FALSE whenever anyone else looks.  `Overwritten`
is the registry's side as far as this object meets it: a new object may take
its entry at any moment at which `RTSPServer` lets it.  Retry and shutdown delays
take any time.  The test hook `startStreamOverride` is left out.

### RTSPServer

`streams` is the entry of one id in `s.streams`; `at[c]` is the object a
connection was given; `holder` is who keeps `s.mutex` over more than one action
(`getOrCreateStream`, a leaving connection or Stop).  `getOrCreateStream` is four
steps: it reads `active` (`ReadInactive`), reads `connecting` (`NothingToReuse`),
makes an object and waits for its MQTT client, and overwrites the entry
(`CreateStream`).  It has `s.mutex` all the while but not `cs.mutex`, so that the
object which it has found idle may be started by a connection that was given it
before, and then lose its entry while it is live.  `handleBridgeError` sets
`active` and `connecting` one after the other (`failing` is in between), and a
lookup may see both as FALSE.  `sweep` is what the loop of `CameraStream.Stop` has
still to visit; a viewer that joins meanwhile may stay.  Other ids only compete for `s.mutex`, which
every action here may also be kept from.  An object nobody refers to stands for
a new one (`Unused`).  The cleanup's `Stop` is not an action: its five minutes
without activity exceed all delays after which an unwatched session is torn
down, so what it meets is idle.

### WebRTCBridge

`start` is the position in `Start`; `waiter` holds `state` and `err` of the
`Waiter`, and `ending` is a `Done` that has woken the waiter and not stored its
error.  `inbox` is the MQTT traffic of the camera, in any order the camera or
the broker produce, with repetitions; the router takes one message at a time,
looks up its bridge (`LookUp`), hands it over in a later step, when the bridge
may have been stopped, and is itself blocked while a handler is in `OnError`.
The data channel's dialogue completes with the camera's `recv`, also when that
comes out of turn, because `probe` does not ask what was sent before; an error or
a malformed message leaves the channel open.  `mode` tells HEVC, which
is complete when the data channel's dialogue is, from H.264 in `hd` and `sd`.
The HTTP calls that prepare a session fail or succeed as a whole
(`PrepareFails`).  `encoder` is broken between the failure of an encoder and the
moment its watcher finds the error: a Close in between does not take the report
back.  Connections are made with `SetAutoReconnect(false)`
(`tuya/mqtt.go`), so a lost one stays lost.

### MQTTManager

`stage[s]` is where a stream stands: asking the manager, in `connect` (whose
caller holds `m.mutex`: `lock`), waiting for a handshake, or with a bridge that
is wired, registered in `client.cameras`, has sent its offer, is live, or has
failed.  `replacing` says that `replaceBridge` asked and not
`getOrCreateStream`, because an error of GetClient means something else to each.
`routing[c]` is the bridge that `consume` has looked up for a message: it calls
the handler in a later step (`Deliver`), without a lock, whatever has become of
the bridge.  `link[c]` is the connection
of a client between the broker and the code: the broker may have dropped it
(`cut`) before the library notices (`lost`) and before `onDisconnect` has run
(`closed`).  `OneClientId` is the fact about DeriveMQTTClientID that matters: on
the mobile path all connections of an account have the same id, so each new
one makes the broker cut the others.  `shake` is `client.Connected`, a `Waiter`
with its window before the error is stored.  A client that nothing refers to is
used again for the next connection.

### MediaPlane

`entry` and `playing` are `rf.clients` of the forwarder that a stream keeps
through all its bridges.  `request[c]` is a request in progress and says which
forwarder it has read: between `cs.webrtcBridge = NewWebRTCBridge(...)` and
`cs.webrtcBridge.rtpForwarder = forwarder` (`phase = "swapped"`) that is one
that nobody feeds.  `told[c]` is what the open connection was answered and the
only history: an answer 200 that is not true makes it `misled` (see
`PromiseKept` below).  `SetupBare` is a UDP SETUP of a track that is neither video
nor audio, which adds no transport.  `open` is the socket, which the forwarder,
Stop and the connection itself may close; a failed write to a UDP viewer
(`WriteFailsUDP`) takes its transport and leaves its RTSP socket open.

### AudioEncoder

A packet is the true time of its first sample; its stamp is that time modulo
`Wrap`, so the model can say what the clock should be.  `once` is who is inside
`a.once`; `CloseDone` and `Kill` are the two steps of `stop` that others can
see.  `writer`, `reader`, `owner`, `track`, `watcher` are the goroutines, and
`mutex` is the forwarder's, which the reader needs for `emit` and the owner to
take the encoder out.  The track may deliver packets before Start has returned
and after the session is over.  FFmpeg may take and give whatever it likes, also
nothing; it may end or close its input by itself, which a write can notice
first.

### AppServer

`op` and `step` are the operation that ServeHTTP let in; `awaited` is the done
channel it waits for.  `running`, `cancelOf` and `doneOf` are `bridgeRunning`,
`bridgeCancel` and `bridgeDone`; a bridge is one call of `startBridge`.
`sup[b]` is where the supervisor's `run` stands, `children[b]` what it has
started, `done[i]` the channel behind a child's process: a value that one of
the three receivers takes, and closed afterwards.  A configuration is reduced to
its version; `served` is the one a process has read.  `conf` and `manifest` are
the files, and they are all that survives `AppEnds`, which is a crash as well as
an orderly end.  `torn` remembers that a helper was broken off while it
published.

### Undefined behaviour and races

`OnError` is read twice by `handleError` without a lock: the model has an action
for each read.  `w.err` is read without the waiter's mutex: `StartReturns`
returns what it holds then.  `active` and `connecting` are read without the
stream's mutex by `getOrCreateStream`, in two reads between which, and between
the two writes of `handleBridgeError`, anything else may happen.  A nil `OnError` call ends the process (`panicked`): no action follows.
`stream.webrtcBridge` is read without a lock by SETUP and PLAY: `MediaPlane` lets
them read it at any moment.  Maps that are accessed concurrently (`cs.clients` in
`Stop`, `MQTTClient.cameras`) can abort a Go process; that is recorded under the
hazards and not modelled.

## 3. Runs

| Run | Bounds | States | Question |
|---|---|---|---|
| `camera_stream` | 2 connections, 2 starter slots, 1 error, 2 expired timers | 56,000 | safety of one session, that it implements `StreamLifecycle` and keeps to `BridgeInterface`, that it ends unwatched and serves whoever stays |
| `webrtc_bridge` | 1 ICE candidate, 2 messages in flight, 2 errors | 349,000 | safety and termination of one session |
| `rtsp_server` | 2 connections, 2 objects | 212,000 | registry and locks; each object implements `StreamLifecycle`; joins and Stop complete |
| `mqtt_manager` | 2 cameras with a stream each, 2 clients, 2 attempts | 617,000 | connections kept, routes current, askers served |
| `media_plane` | 2 connections, UDP allowed | 438,000 | promises to viewers, transports, dead viewers |
| `audio_encoder` | stamps modulo 6, gaps up to 1, queue of 1, window of 1, outage of 3, times 4 to 11 | 944,000 | clock, first cause, Close |
| `app_server` | 2 cameras, 2 bridges, 2 versions | 416,000 | one supervisor, current credentials, operations end, a death ends the bridge |
| `dead_bridge`, `late_callback`, `nil_handler`, `start_hangs`, `partial_setup` | as the run they belong to | | statements of the repository that the code does not keep |

Why the bounds are enough.  Two connections make "the last one leaves while
another joins"; two starter slots let a second starter appear if the code
allowed it (`SingleStarter` says it does not until the server stops; after a
stop an abandoned retry and a new start can coexist); with one error a bridge
fails before, while and after it is replaced, and two expired callbacks make one
stale and one valid.  In the registry a second object is what a replacement
needs, and one connection can hold the mutex while the other arrives.  Two
cameras are what it takes for one connection to cut another; two attempts make a
failed handshake that is tried again and one that is given up.  In the encoder
the clock starts at 4 of 6 and passes the wrap, and the first stamp once more, while packets are late, repeated
and missing: an outage of 3 is longer than the allowed gap, and half the range
is more than the network's delays, as 2^31 is in the code.  Two cameras are one
that has died while the other boots or is stopped, and a set of files that is
half renamed; two versions are a setup that replaces another; two bridges are
one that ends while the next one may start.  The safety theorems below hold for
every value of the constants, so the bounds only matter for liveness, and for
finding out cheaply what is not worth proving.

`CHECK_DEADLOCK FALSE` is set throughout: a stopped server, a dead process, a
closed encoder and a finished bridge have nothing left to do, and an app may
stay down.

### What the failing statements show

* `dead_bridge`: the bridge is replaced only when the attempt is not the first
  one or the bridge *was started*.  A first start that is given up for lack of
  viewers stops the bridge without having started it; a connection that fetched
  the stream earlier then starts a stopped bridge without an error handler,
  exactly what `stream_error_test.go` says must not happen.
* `late_callback`: an error of the old bridge that is waiting for the mutex
  while the replacement starts is not ignored once the replacement is live.
* `nil_handler`: between the nil check and the call in `handleError` the owner
  may clear the handler.
* `start_hangs`: `Start` has no timeout; with the MQTT connection lost after the
  offer, or for H.264 in `sd`, nothing ends the wait, and the caller holds
  `cs.mutex`.  This is also the assumption under which the liveness of the
  streams holds: they assume that `Start` returns.
* `partial_setup`: "Publish manifest last: the desktop launcher cannot observe
  partial setup" holds when a manifest exists.  In a first setup there is none,
  the launcher falls back to the camera files it finds, and one of them is
  enough for the app to start the bridge after a crash: it serves a part of the
  cameras.

### What the passing runs say beside it

* `PromiseKept`: a viewer whose SETUP and PLAY were answered is played to
  through every replaced bridge, unless it was misled.  The property is that
  there is no way of being misled but these, in which the code answers 200, or has
  answered it before, and the viewer is not played to:
  - a request reads the bridge between the two assignments of `replaceBridge`
    and is served by a forwarder that nobody feeds;
  - the only SETUP was one over UDP of a track that is neither video nor audio
    (`protocol.go:448`), so that PLAY finds no transport;
  - a SETUP asked for another transport than the one the viewer already has,
    which is kept;
  - a port of an existing UDP transport could not be dialled, an error that
    `AddUDPClient` ignores;
  - a write to a UDP viewer failed: the forwarder drops it without closing its
    RTSP connection.
* `LiveEntryNotLost`: a late removal never deletes the entry of another session.
  It does not say that a live session keeps its entry: its own removal, sent when
  it was stopped, may land after it was started again, and `getOrCreateStream`
  may overwrite the entry when a connection has started the object since it was
  found idle.  A session hidden by a new object has
  viewers of its own, keeps all its promises to them (`ObjectsAreSessions`,
  `ViewersAreHere`) and ends with the last; a session that waits unwatched for
  its shutdown delay is never hidden, so its next viewer finds it.
* `RoutesAreCurrent`: `client.cameras` holds bridges in use only.  `consume` takes
  no lock between the lookup and the call, so one message that was looked up
  before still reaches a bridge that has stopped; that message changes nothing beyond it
  (`WebRTCBridge` has the same window, and its properties hold in it).
* `BridgeIsCurrent`: after a regeneration that fails half way the processes are
  started on the files as they are, so what the status shows is what runs.  Only
  a helper that is killed while it moves files can leave old credentials in use.
* `ManagerKeepsConnections` and `AskersServed` hold although a client of a failed
  handshake may be handed out (the waiter's window): such a client receives
  nothing, and the Start that uses it is a case of `start_hangs`.

## 4. Fairness

* Goroutines waiting for a mutex: strong fairness of the action that takes it.
  `sync.Mutex` hands the lock to its oldest waiter in starvation mode, so a
  goroutine that waits cannot be overtaken for ever even though the mutex is
  taken again and again.
* Everything a goroutine does without waiting, and timers: weak fairness.
* Connections may stay for ever, except those whose socket is closed; errors need
  not happen; nobody has to stop the server, to cancel an operation or to close
  an encoder: no fairness.
* `CameraReachable` (in `CameraStream`): every Start returns and one that is
  tried again and again succeeds some day.  `WillingCamera` (in `WebRTCBridge`):
  the camera answers, ICE and the data channel get through.  Both are
  assumptions about the world, stated with the specification, and `start_hangs`
  shows that the code alone does not guarantee the first.
* `RTSPServer` assumes that Start returns, as part of `Work`; so does
  `MediaPlane`, where a leaving viewer waits for the mutex that Start holds.
* `MQTTManager`: `connect` goes on (its connection attempt has a time-out of ten
  seconds, its back-off is a sleep), and a handshake is answered or the library
  notices that the connection is gone (keep-alive).
* `AudioEncoder`: nothing is assumed of FFmpeg until it is killed; reading from
  a killed one fails, and a write to it, its input being closed, fails.  That a
  write fails before is possible and not assumed.
* `AppServer`: the helper ends or is killed (`exec.CommandContext` and the
  twenty minutes of an operation), waiting for a child has 45 seconds, stopping
  one has three.

## 5. Proofs

All proofs are for arbitrary sets of connections, objects, clients, cameras and
candidates and arbitrary bounds.  The only assumptions are the named ones of the
modules: bounds are natural numbers, `none` and `"stop"` are no connection,
client, bridge or operation, `DeviceOf` gives every stream a camera, and half the
range of the encoder's time stamps is more than the network's delays (2^31
ticks of 8 kHz are three days).

* `CameraStreamProofs`: `IInv` is inductive.  The property that needs it is
  `NoStrandedViewer`: it is only preserved because a connecting stream has a
  starter (`ConnectingHasStarter`), viewers or not, because no starter survives
  a stopped session while the server runs (`SingleStarter`), and because nobody
  gets the mutex while Start runs (`StartUnderMutex`).  A live unwatched session
  has its teardown pending only because a fired timer has its callback queued
  (`timer = "fired" => expired > 0`).  `RestartGetsFreshBridge` follows from
  `RunIsRecorded`.  The refinement of `StreamLifecycle` is proved step by step;
  an attempt that establishes needs a viewer, which is `StartUnderMutex` again.
  The owner's side of `BridgeInterface` (`UsesBridge`) needs that a stream that
  is live, or inside Start, has a bridge that was started (`StartIsRun`).  An
  error of a retired bridge is a stutter of that interface: it is none of the
  current bridge, which is why `late_callback` can hurt it.
* `WebRTCBridgeProofs`: `IInv` says where an error is between the end of the
  wait and the call of the owner (`ErrorOnItsWay`) and that a wait that ends
  well came from the session (`DoneMeansSession`), which need
  `QuietBeforeStart` and `HandlerUntilStopped`.  Sequences stay behind
  `InboxOK` and three lemmas.  `IsABridge` maps Start, stop, and every goroutine
  that is between its nil check and the owner to `BridgeInterface`;
  `TreatsEncoder` is the session's side of `EncoderInterface`.
* `RTSPServerProofs`: `IInv` ties who holds `s.mutex` to where that connection
  or Stop stands (`HolderInv`), and a running Start to a viewer.
  `LiveEntriesNotLost` is an action property from the same invariant; it needs
  `HiddenIsWatched`: viewers leave under `s.mutex`, so while `getOrCreateStream`
  has it, an object that it found idle can only have come up with a viewer that
  is still there.  `ObjectsImplement` is the refinement of `StreamLifecycle` by
  every object.
* `MQTTManagerProofs`: `RoutesAreCurrent` is inductive with the types.
  `ConnectionsKept` needs `LockInv`: whoever holds the mutex is in `connect`,
  for a camera whose client is not connected (else storing the new client would
  forget one), and a stream that asks has no client yet.  `OwnedPrivate` and
  `CamerasApart` rest on `OwnInv`: until its first handshake is over a client
  belongs to one stream, and a bridge that owns one keeps it so.
* `MediaPlaneProofs`: `PromiseKept` needs that an open connection that was
  answered truly still counts as a viewer while the server runs (`RequestInv`), or a teardown for
  lack of viewers could take its transport, and that a ready one has an entry
  (`EntryInv`), or PLAY would find none.  `Implements` needs that a session which
  comes up or is replaced still has a viewer (`HeldForViewers`), unless the
  server stops.
* `AudioEncoderProofs`: types are inductive only with `SilenceInv`, which says
  that the length of a silence is never negative: the late packets are
  dropped before.  `StopInv` says how far `stop` is: that Close is quiet, that
  the first cause is reported and that the encoder keeps to `EncoderInterface`
  follow from it.  `ClockKept` needs a view of the clock in true time
  (`ClockInv`): `Settled` is the time up to which everything is written or
  replaced by silence; `Arrivals` says how the packets of the queue follow it,
  none earlier than the network's window allows and none behind a longer
  outage; and `expected` is the stamp of the next tick to be written.  A packet
  is then never half the range away from `expected`, so the signed difference
  is the true one (`SignedIsDifference`) and decides between late, silence and
  gap as the true times would.  The proof found that packets must not be older
  than the session's first one, `Start`: an earlier bound on the times had kept
  TLC from reaching such a packet, which the model let through, and now `Write`
  says so.  What the theorem claims is therefore about packets of the session.
* `AppServerProofs`: `SupInv` says that at most one supervisor is active and that
  `bridgeCancel` and `bridgeDone` are its own, `ChildInv` that every process
  belongs to it, `VersionInv` where an operation may make a version.
  `CurrentInv` is `BridgeIsCurrent` in the middle of an operation: files and
  processes may differ only while files are moved and until the bridge is told
  to stop; while an operation waits, and when it renames, every bridge that
  still runs has been cancelled.  `LeastIsIn` is the least-number principle for
  `child.stop`'s order.  `RestInv` says that the bridge which is awaited is the
  only one that can still run, from which `MovedAtRest` follows.  `Supervises`
  maps supervisors and processes to `Supervision`; it needs `DoneInv`, that a
  child's channel can be received from exactly when its process has ended: that
  is what lets `child.stop` return for a child whose result somebody else has
  already received, and for no other.

Every invariant and every action property of the runs is a theorem.  Only
model-checked are the liveness properties, which are beyond the prover.

Only proved, and part of no run's configuration: `ImplementsInterface` and
`UsesEncoder` of `WebRTCBridge`, `ImplementsEncoder` of `AudioEncoder`,
`ImplementsLifecycle` of `MediaPlane`, `RestartGetsFreshBridge` of
`CameraStream`, `OwnedIsPrivate` and `ClientsPerCamera` of `MQTTManager`, and
`CredentialsMovedAtRest`, `SupervisorStartsAtRest` and `ImplementsSupervision`
of `AppServer`.  TLC accepts each of them on the instance of its module's run,
and `ClientsPerCamera` also with two streams of one camera beside one of another.

## 6. Not modelled

* The account and camera registry (`pkg/storage`) and the command line:
  sequential reads, changes and writes of one file.  That two processes lose an
  update is a hazard; nothing in the repository promises otherwise.
* The add-on command, the setup's device plumbing, logging: conversions and
  process launching without shared state.
* The cloud calls (`pkg/tuya/api.go`): they succeed or fail where `WebRTCBridge`
  and `MQTTManager` make them; signing and JSON are data.
* SDP, codecs and WebRTC helpers, RTP packetization, the SPS and PPS cache and
  the backchannel: conversions of data that no modelled decision depends on.
* The stand-alone `setup` command: the same operations without a bridge.
* The app cache, removal of cameras that an account has lost, and importConfig
  in the setup helper.
* The Home Assistant integration and the Python account clients: forms and
  scripts in frameworks that are not in this repository.
* Concurrent access to Go maps, which may abort the process.

The reasons per component are under `components` in `PROJECT.json`, and those of
each hazard without a property under `hazards`.
