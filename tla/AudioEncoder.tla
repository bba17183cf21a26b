----------------------------- MODULE AudioEncoder -----------------------------
(***************************************************************************)
(* The AAC encoder of a session (bridge/pkg/rtsp/audio_encoder.go): Write, *)
(* called with the RTP packets of the camera's audio track, the two loops  *)
(* that feed FFmpeg and read its frames, stop and Close; and what starts,  *)
(* watches and closes it (forwarder.go, bridge.go).                        *)
(*                                                                         *)
(* Goroutines: the track (Write), the writer, the reader, the watcher that *)
(* Start leaves behind, and the owner of the session, which closes the     *)
(* encoder when Start fails or when the session ends.  The forwarder's     *)
(* mutex is taken by the reader, in emit, and by stopAudioEncoder.         *)
(*                                                                         *)
(* A packet is the true time of its first sample; it carries that time     *)
(* modulo Wrap.  All payloads are one tick long.                           *)
(***************************************************************************)
EXTENDS Integers, Sequences

CONSTANTS
    Wrap,        (* 2^32: where RTP time stamps wrap                        *)
    MaxGap,      (* 8000: a longer gap is a discontinuity                   *)
    QueueSize,   (* audioQueueSize                                          *)
    Window,      (* how late the network delivers a packet (bound)          *)
    MaxOutage,   (* ticks without any packet (bound)                        *)
    Start,       (* the camera's clock at the start of the session          *)
    MaxTime      (* and at its end (bound)                                  *)

ASSUME BoundsAssumption ==
    /\ {Wrap, MaxGap, QueueSize, Window, MaxOutage, MaxTime} \subseteq Nat \ {0}
    /\ Start \in 0..MaxTime

(* Half of the range of the time stamps is more than the network delays.   *)
ASSUME WrapAssumption == 2 * MaxOutage <= Wrap /\ 2 * (Window + 1) < Wrap

VARIABLES
    session,   (* open (from Start on), ending, over                        *)
    sent,      (* the camera's clock                                        *)
    latest,    (* the newest packet that came                               *)
    queue,     (* a.queue                                                   *)
    once,      (* a.once: unused, the goroutine in it, or over              *)
    err,       (* a.err: none, nil of Close, failure                        *)
    done,      (* a.done is closed                                          *)
    alive,     (* nobody has killed FFmpeg and closed a.input               *)
    track,     (* the goroutine of the track: idle, or in stop              *)
    writer,    (* writeLoop: its packet's stage                             *)
    current,   (* the packet in hand                                        *)
    expected,  (* writeLoop: started and expected                           *)
    written,   (* ticks written to FFmpeg                                   *)
    origin,    (* true time of the first packet written (history)           *)
    reader,    (* readLoop                                                  *)
    mutex,     (* rf.mutex: free, reader or owner                           *)
    owner,     (* the closing goroutine, in stopAudioEncoder                *)
    watcher    (* waiting, reported (handleError), quiet                    *)

clockVars == <<current, expected, written, origin>>
stopVars == <<once, err, done, alive>>
ownerVars == <<session, mutex, owner>>
vars == <<sent, latest, queue, stopVars, track, writer, clockVars, reader,
          ownerVars, watcher>>

Goroutines == {"track", "writer", "reader", "owner"}
Times == 0..MaxTime
NoPacket == Start

Stamp(p) == p % Wrap

(* int32(a - b): the representative of a - b nearest to zero.              *)
Signed(a, b) ==
    LET d == (a - b) % Wrap IN IF 2 * d >= Wrap THEN d - Wrap ELSE d

(* NewAudioEncoderAtRate in Start: the process runs, both loops run, the   *)
(* forwarder has the encoder and the watcher waits.  (If it cannot start,  *)
(* Start fails and there is nothing to close.)                             *)
Init ==
    /\ session = "open"
    /\ sent = Start /\ latest = Start /\ queue = <<>>
    /\ once = "unused" /\ err = "none" /\ done = FALSE /\ alive = TRUE
    /\ track = "idle"
    /\ writer = "idle" /\ current = NoPacket
    /\ expected = <<>> /\ written = 0 /\ origin = Start
    /\ reader = "reading"
    /\ mutex = "free" /\ owner = "idle"
    /\ watcher = "waiting"

-----------------------------------------------------------------------------
(* a.stop(e), called by goroutine g: the error is stored, done is closed,  *)
(* FFmpeg is killed and its input closed.  Others wait for the first.      *)

(* Seeded fault: every call stores its error.                              *)
StopBeginsAgain(g, e) ==
    /\ once' = IF once = "unused" THEN g ELSE once
    /\ err' = e

StopBegins(g, e) ==
    /\ once = "unused"
    /\ once' = g
    /\ err' = e

CloseDone(g) ==
    /\ once = g
    /\ ~ done
    /\ done' = TRUE
    /\ UNCHANGED <<sent, latest, queue, once, err, alive, track, writer, clockVars,
                   reader, ownerVars, watcher>>

(* The process is killed and what it left unread of its output is gone.    *)
Kill(g) ==
    /\ once = g
    /\ done
    /\ alive' = FALSE
    /\ once' = "over"
    /\ UNCHANGED <<sent, latest, queue, err, done, track, writer, clockVars, reader,
                   ownerVars, watcher>>

(* once.Do returns.                                                        *)
Stopped == once = "over"

-----------------------------------------------------------------------------
(* The track: ForwardAudioPacket and Write.                                *)

Tick ==
    /\ ~ done
    /\ sent < MaxTime
    /\ sent < latest + MaxOutage
    /\ sent' = sent + 1
    /\ UNCHANGED <<latest, queue, stopVars, track, writer, clockVars, reader,
                   ownerVars, watcher>>

(* The track, or the HEVC data channel, may be there before Start returns, *)
(* and its goroutine may outlive the session.                              *)
Calls == track = "idle" /\ ~ done

(* A packet is queued; nobody waits for FFmpeg.  The network loses, repeats*)
(* and reorders the packets of the session, inside its window.             *)
Write(p) ==
    /\ Calls
    /\ p \in Start..sent /\ sent <= p + Window
    /\ Len(queue) < QueueSize
    /\ queue' = Append(queue, p)
    /\ latest' = IF p > latest THEN p ELSE latest
    /\ UNCHANGED <<sent, stopVars, track, writer, clockVars, reader, ownerVars, watcher>>

(* A packet is too large, or the queue is full: the encoder stops.         *)
WriteStops ==
    /\ Calls
    /\ track' = "stop"
    /\ UNCHANGED <<sent, latest, queue, stopVars, writer, clockVars, reader,
                   ownerVars, watcher>>

TrackStops ==
    /\ track = "stop"
    /\ \/ StopBegins("track", "failure") /\ track' = track
       \/ Stopped /\ track' = "idle" /\ UNCHANGED <<once, err>>
    /\ UNCHANGED <<sent, latest, queue, done, alive, writer, clockVars, reader,
                   ownerVars, watcher>>

-----------------------------------------------------------------------------
(* writeLoop.                                                              *)

(* Seeded fault: unsigned subtraction.                                     *)
LateUnsigned(delta) == FALSE

(* A late or repeated packet.                                              *)
Late(delta) == delta < 0

(* A packet is taken and placed on the clock of the first one.             *)
Take ==
    /\ writer = "idle"
    /\ queue # <<>>
    /\ queue' = Tail(queue)
    /\ LET p == Head(queue)
           due == IF expected = <<>> THEN Stamp(p) ELSE expected[1]
           delta == Signed(Stamp(p), due)
           fits == ~ Late(delta) /\ delta <= MaxGap
       IN  /\ writer' = CASE fits -> "silence"
                           [] Late(delta) -> "idle"
                           [] OTHER -> "stop"
           /\ current' = IF fits THEN p ELSE current
           /\ expected' = <<due>>
           /\ origin' = IF expected = <<>> THEN p ELSE origin
    /\ UNCHANGED <<sent, latest, stopVars, track, written, reader, ownerVars, watcher>>

(* Its payload is not a whole number of ticks.                             *)
TakeIncomplete ==
    /\ writer = "idle"
    /\ queue # <<>>
    /\ queue' = Tail(queue)
    /\ writer' = "stop"
    /\ UNCHANGED <<sent, latest, stopVars, track, clockVars, reader, ownerVars, watcher>>

(* FFmpeg takes the silence that fills the gap, if there is one ...        *)
WriteSilence ==
    /\ writer = "silence"
    /\ alive
    /\ written' = written + Signed(Stamp(current), expected[1])
    /\ writer' = "payload"
    /\ UNCHANGED <<sent, latest, queue, stopVars, track, current, expected, origin,
                   reader, ownerVars, watcher>>

(* Seeded fault: the clock goes on by what was written, not by the stamps. *)
WritePayloadOnly ==
    /\ writer = "payload"
    /\ alive
    /\ written' = written + 1
    /\ expected' = <<(expected[1] + 1) % Wrap>>
    /\ writer' = "idle"
    /\ current' = NoPacket
    /\ UNCHANGED <<sent, latest, queue, stopVars, track, origin, reader,
                   ownerVars, watcher>>

(* ... and the payload.                                                    *)
WritePayload ==
    /\ writer = "payload"
    /\ alive
    /\ written' = written + 1
    /\ expected' = <<(Stamp(current) + 1) % Wrap>>
    /\ writer' = "idle"
    /\ current' = NoPacket
    /\ UNCHANGED <<sent, latest, queue, stopVars, track, origin, reader,
                   ownerVars, watcher>>

(* The write fails: the pipe is closed, or FFmpeg has ended by itself or   *)
(* closed its input.                                                       *)
WriteFails ==
    /\ writer \in {"silence", "payload"}
    /\ writer' = "stop"
    /\ UNCHANGED <<sent, latest, queue, stopVars, track, clockVars, reader,
                   ownerVars, watcher>>

WriterStops ==
    /\ writer = "stop"
    /\ \/ StopBegins("writer", "failure") /\ writer' = writer
       \/ Stopped /\ writer' = "ended" /\ UNCHANGED <<once, err>>
    /\ UNCHANGED <<sent, latest, queue, done, alive, track, clockVars, reader,
                   ownerVars, watcher>>

WriterDone ==
    /\ writer = "idle"
    /\ done
    /\ writer' = "ended"
    /\ UNCHANGED <<sent, latest, queue, stopVars, track, clockVars, reader,
                   ownerVars, watcher>>

-----------------------------------------------------------------------------
(* readLoop.                                                               *)

(* A frame is read and done is not closed: emit.                           *)
Frame ==
    /\ reader = "reading"
    /\ alive
    /\ written > 0
    /\ reader' = IF done THEN "stop" ELSE "emit"
    /\ UNCHANGED <<sent, latest, queue, stopVars, track, writer, clockVars,
                   ownerVars, watcher>>

(* forwardAudioPacket, which writes to the viewers under rf.mutex.         *)
EmitLocks ==
    /\ reader = "emit"
    /\ mutex = "free"
    /\ mutex' = "reader"
    /\ reader' = "emitting"
    /\ UNCHANGED <<sent, latest, queue, stopVars, track, writer, clockVars,
                   session, owner, watcher>>

Emitted ==
    /\ reader = "emitting"
    /\ mutex' = "free"
    /\ reader' = "reading"
    /\ UNCHANGED <<sent, latest, queue, stopVars, track, writer, clockVars,
                   session, owner, watcher>>

(* readADTSFrame fails: the process has ended or sends something else.     *)
ReadFails ==
    /\ reader = "reading"
    /\ reader' = "stop"
    /\ UNCHANGED <<sent, latest, queue, stopVars, track, writer, clockVars,
                   ownerVars, watcher>>

(* stop, and cmd.Wait for the process it has killed.                       *)
ReaderStops ==
    /\ reader = "stop"
    /\ \/ StopBegins("reader", "failure") /\ reader' = reader
       \/ Stopped /\ reader' = "ended" /\ UNCHANGED <<once, err>>
    /\ UNCHANGED <<sent, latest, queue, done, alive, track, writer, clockVars,
                   ownerVars, watcher>>

-----------------------------------------------------------------------------
(* The session.                                                            *)

(* Start's failure is deferred to, or the session ends (Stop, ResetMedia): *)
(* stopAudioEncoder takes the encoder out under the mutex ...              *)
TakeOut ==
    /\ session = "open"
    /\ mutex = "free"
    /\ session' = "ending"
    /\ mutex' = "owner"
    /\ owner' = "took"
    /\ UNCHANGED <<sent, latest, queue, stopVars, track, writer, clockVars, reader, watcher>>

(* Seeded fault: Close under the mutex.                                    *)
LeaveMutexLater ==
    /\ owner = "took"
    /\ owner' = "close"
    /\ UNCHANGED <<session, mutex, sent, latest, queue, stopVars, track, writer,
                   clockVars, reader, watcher>>

(* ... which it leaves before Close.                                       *)
LeaveMutex ==
    /\ owner = "took"
    /\ mutex' = "free"
    /\ owner' = "close"
    /\ UNCHANGED <<session, sent, latest, queue, stopVars, track, writer, clockVars,
                   reader, watcher>>

OwnerStops ==
    /\ owner = "close"
    /\ \/ StopBegins("owner", "nil") /\ owner' = owner
       \/ Stopped /\ owner' = "join" /\ UNCHANGED <<once, err>>
    /\ UNCHANGED <<sent, latest, queue, done, alive, track, writer, clockVars, reader,
                   session, mutex, watcher>>

(* Seeded fault: only one of the loops is waited for.                      *)
JoinedWriter == writer = "ended"

(* wg.Wait().                                                              *)
Joined == writer = "ended" /\ reader = "ended"

CloseReturns ==
    /\ owner = "join"
    /\ Joined
    /\ owner' = "closed"
    /\ session' = "over"
    /\ UNCHANGED <<sent, latest, queue, stopVars, track, writer, clockVars, reader,
                   mutex, watcher>>

(* The watcher: done is closed, and Err says why.                          *)
Watch ==
    /\ watcher = "waiting"
    /\ done
    /\ watcher' = IF err = "failure" THEN "reported" ELSE "quiet"
    /\ UNCHANGED <<sent, latest, queue, stopVars, track, writer, clockVars, reader,
                   ownerVars>>

-----------------------------------------------------------------------------
StopStep(g) == CloseDone(g) \/ Kill(g)
TrackStep == (\E p \in Times : Write(p)) \/ WriteStops
WriterStep == Take \/ TakeIncomplete \/ WriteSilence \/ WritePayload
WriterEnds == WriteFails \/ WriterStops \/ WriterDone
EmitStep == EmitLocks \/ Emitted
OwnerStep == LeaveMutex \/ OwnerStops \/ CloseReturns

Next ==
    \/ \E g \in Goroutines : StopStep(g)
    \/ Tick \/ TrackStep \/ TrackStops
    \/ WriterStep \/ WriterEnds
    \/ Frame \/ EmitStep \/ ReadFails \/ ReaderStops
    \/ TakeOut \/ OwnerStep
    \/ Watch

Spec == Init /\ [][Next]_vars

(* Every goroutine that can go on does, and the mutex goes to whoever waits*)
(* long enough.  Nothing is assumed of FFmpeg while it lives; reading from *)
(* a killed one fails, and so does writing to it.                          *)
Fairness ==
    /\ \A g \in Goroutines : WF_vars(StopStep(g))
    /\ WF_vars(TrackStops)
    /\ WF_vars(WriterStops \/ WriterDone \/ (~ alive /\ WriteFails))
    /\ SF_vars(EmitLocks) /\ WF_vars(Emitted)
    /\ WF_vars(~ alive /\ ReadFails) /\ WF_vars(ReaderStops)
    /\ WF_vars(OwnerStep) /\ WF_vars(Watch)

FairSpec == Spec /\ Fairness

-----------------------------------------------------------------------------
(* Properties.                                                             *)

(* Every variable ranges over what its Go type and its use allow.          *)
TypeOK ==
    /\ session \in {"open", "ending", "over"}
    /\ sent \in Times /\ latest \in Times
    /\ queue \in Seq(Times) /\ Len(queue) <= QueueSize
    /\ once \in Goroutines \cup {"unused", "over"}
    /\ err \in {"none", "nil", "failure"}
    /\ done \in BOOLEAN /\ alive \in BOOLEAN
    /\ track \in {"idle", "stop"}
    /\ writer \in {"idle", "silence", "payload", "stop", "ended"}
    /\ current \in Times
    /\ expected \in {<<>>} \cup {<<t>> : t \in 0..(Wrap - 1)}
    /\ written \in Nat
    /\ origin \in Times
    /\ reader \in {"reading", "emit", "emitting", "stop", "ended"}
    /\ mutex \in {"free", "reader", "owner"}
    /\ owner \in {"idle", "took", "close", "join", "closed"}
    /\ watcher \in {"waiting", "reported", "quiet"}

(* A payload is given to FFmpeg at its true time after the first one:      *)
(* losses, late and repeated packets and the wrap of the time stamps do not*)
(* let the sound drift (writeLoop; "Late/duplicate packets have already    *)
(* been replaced by silence and cannot be appended to the clock").         *)
ClockKept == writer = "payload" => written = current - origin

(* Close "joins both workers": after it neither loop runs, FFmpeg is gone, *)
(* and no frame reaches a viewer, whoever stopped the encoder first        *)
(* (Close, stop, readLoop, writeLoop).                                     *)
NothingAfterClose ==
    owner = "closed" => /\ writer = "ended" /\ reader = "ended"
                        /\ done /\ ~ alive

(* A session is told of a failure of its encoder and never of its own      *)
(* closing it, although killing FFmpeg makes both loops fail: the watcher  *)
(* reports exactly what stopped the encoder first (stop, bridge.go:246).   *)
ReportsFirstCause ==
    [][err # "none" => err' = err /\ (watcher' = "reported" => err = "failure")]_vars

(* Closing an encoder ends, also while FFmpeg reads nothing and a frame is *)
(* on its way to the viewers (stopAudioEncoder, Close).                    *)
CloseEnds == session = "ending" ~> session = "over"

-----------------------------------------------------------------------------
(* The encoder as its session sees it.                                     *)

State == CASE err = "none" -> "running"
           [] err = "failure" /\ watcher = "waiting" -> "broken"
           [] OTHER -> "off"

Interface == INSTANCE EncoderInterface WITH encoder <- State

(* What the session relies on: see EncoderInterface.                       *)
ImplementsEncoder == Interface!Spec

=============================================================================
