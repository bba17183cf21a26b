--------------------------- MODULE AudioEncoderProofs -------------------------
(***************************************************************************)
(* Proofs about AudioEncoder, for any size of its queue, of the time stamps*)
(* and of the delays of the network.                                       *)
(***************************************************************************)
EXTENDS AudioEncoder, TLAPS

(* A time stamp is a residue of Wrap.                                      *)
LEMMA Residue ==
    ASSUME NEW x \in Int
    PROVE  x % Wrap \in 0..(Wrap - 1)
<1>1. Wrap \in Nat \ {0}
  BY BoundsAssumption
<1>2. QED
  BY <1>1

(* The signed difference of two time stamps is an integer.                 *)
LEMMA SignedType ==
    ASSUME NEW a \in Int, NEW b \in Int
    PROVE  Signed(a, b) \in Int
<1>1. a - b \in Int /\ Wrap \in Int
  BY BoundsAssumption
<1>2. (a - b) % Wrap \in Int
  BY <1>1, Residue
<1>3. QED
  BY <1>1, <1>2 DEF Signed

(* The silence before a packet is never of a negative length: its due time *)
(* is set, and the packet was not late.                                    *)
SilenceInv ==
    writer = "silence" =>
        /\ expected # <<>>
        /\ Signed(Stamp(current), expected[1]) >= 0

(* A packet is taken: what it does to the loop and its clock.              *)
LEMMA TakeStep ==
    ASSUME TypeOK, Take
    PROVE  /\ queue' \in Seq(Times) /\ Len(queue') <= QueueSize
           /\ writer' \in {"silence", "idle", "stop"}
           /\ current' \in Times /\ origin' \in Times
           /\ \E t \in 0..(Wrap - 1) :
                 /\ expected' = <<t>>
                 /\ writer' = "silence" => Signed(Stamp(current'), t) >= 0
<1> DEFINE p == Head(queue)
           due == IF expected = <<>> THEN Stamp(p) ELSE expected[1]
           delta == Signed(Stamp(p), due)
<1>1. p \in Times /\ queue' \in Seq(Times) /\ Len(queue') <= QueueSize
  BY BoundsAssumption DEF TypeOK, Take
<1>2. Times \subseteq Int
  BY BoundsAssumption DEF Times
<1>3. Stamp(p) \in 0..(Wrap - 1)
  BY <1>1, <1>2, Residue DEF Stamp
<1>4. due \in 0..(Wrap - 1)
  BY <1>3 DEF TypeOK
<1>5. delta \in Int
  <2>1. 0..(Wrap - 1) \subseteq Int
    BY BoundsAssumption
  <2>2. QED
    BY <1>3, <1>4, <2>1, SignedType
<1>6. /\ expected' = <<due>>
      /\ origin' = IF expected = <<>> THEN p ELSE origin
      /\ current' = IF ~ Late(delta) /\ delta <= MaxGap THEN p ELSE current
  BY DEF Take
<1>7. writer' = CASE ~ Late(delta) /\ delta <= MaxGap -> "silence"
                  [] Late(delta) -> "idle"
                  [] OTHER -> "stop"
  BY DEF Take
<1> HIDE DEF p, due, delta
<1>8. /\ writer' \in {"silence", "idle", "stop"}
      /\ writer' = "silence" => ~ Late(delta) /\ delta <= MaxGap
  <2>1. CASE ~ Late(delta) /\ delta <= MaxGap
    BY <1>7, <2>1
  <2>2. CASE Late(delta)
    BY <1>7, <2>2
  <2>3. CASE ~ Late(delta) /\ ~ (delta <= MaxGap)
    BY <1>7, <2>3
  <2>4. QED
    BY <2>1, <2>2, <2>3
<1>9. writer' = "silence" => Signed(Stamp(current'), due) >= 0
  BY <1>5, <1>6, <1>8 DEF delta, Late
<1>10. QED
  BY <1>1, <1>4, <1>6, <1>8, <1>9 DEF TypeOK

(* No step takes a variable out of its range.                              *)
LEMMA TypeStep ==
    TypeOK /\ SilenceInv /\ [Next]_vars => TypeOK' /\ SilenceInv'
<1> SUFFICES ASSUME TypeOK, SilenceInv, [Next]_vars
             PROVE  TypeOK' /\ SilenceInv'
  OBVIOUS
<1> USE BoundsAssumption
    DEF TypeOK, SilenceInv, clockVars, stopVars, ownerVars, Goroutines, Times
<1>1. ASSUME NEW g \in Goroutines, CloseDone(g) PROVE TypeOK' /\ SilenceInv'
  BY <1>1 DEF CloseDone
<1>2. ASSUME NEW g \in Goroutines, Kill(g) PROVE TypeOK' /\ SilenceInv'
  <2>1. UNCHANGED <<sent, latest, queue, err, done, track, writer, clockVars,
                    reader, ownerVars, watcher>>
    BY <1>2 DEF Kill
  <2>2. alive' = FALSE /\ once' = "over"
    BY <1>2 DEF Kill
  <2>3. TypeOK'
    <3>1. alive' \in BOOLEAN
      BY <2>2
    <3>2. once' \in Goroutines \cup {"unused", "over"}
      BY <2>2
    <3>3. QED
      BY <2>1, <3>1, <3>2
  <2>4. SilenceInv'
    BY <2>1
  <2>5. QED
    BY <2>3, <2>4
<1>3. ASSUME Tick PROVE TypeOK' /\ SilenceInv'
  BY <1>3 DEF Tick
<1>4. ASSUME NEW p \in Times, Write(p) PROVE TypeOK' /\ SilenceInv'
  BY <1>4 DEF Write
<1>5. ASSUME WriteStops PROVE TypeOK' /\ SilenceInv'
  BY <1>5 DEF WriteStops
<1>6. ASSUME TrackStops PROVE TypeOK' /\ SilenceInv'
  BY <1>6 DEF TrackStops, StopBegins, Stopped
<1>7. ASSUME Take PROVE TypeOK' /\ SilenceInv'
  <2>1. UNCHANGED <<sent, latest, stopVars, track, written, reader, ownerVars,
                    watcher>>
    BY <1>7 DEF Take
  <2>2. /\ queue' \in Seq(Times) /\ Len(queue') <= QueueSize
        /\ writer' \in {"silence", "idle", "stop"}
        /\ current' \in Times /\ origin' \in Times
    BY <1>7, TakeStep
  <2>3. PICK t \in 0..(Wrap - 1) :
           /\ expected' = <<t>>
           /\ writer' = "silence" => Signed(Stamp(current'), t) >= 0
    BY <1>7, TakeStep
  <2>4. TypeOK'
    BY <2>1, <2>2, <2>3
  <2>5. SilenceInv'
    BY <2>3
  <2>6. QED
    BY <2>4, <2>5
<1>8. ASSUME TakeIncomplete PROVE TypeOK' /\ SilenceInv'
  BY <1>8 DEF TakeIncomplete
<1>9. ASSUME WriteSilence PROVE TypeOK' /\ SilenceInv'
  <2>1. /\ written' = written + Signed(Stamp(current), expected[1])
        /\ writer' = "payload"
        /\ UNCHANGED <<sent, latest, queue, stopVars, track, current, expected,
                       origin, reader, ownerVars, watcher>>
    BY <1>9 DEF WriteSilence
  <2>2. Signed(Stamp(current), expected[1]) >= 0
    BY <1>9 DEF WriteSilence
  <2>3. Signed(Stamp(current), expected[1]) \in Int
    <3>1. Stamp(current) \in Int
      BY Residue DEF Stamp
    <3>2. expected[1] \in Int
      BY <1>9 DEF WriteSilence
    <3>3. QED
      BY <3>1, <3>2, SignedType
  <2>4. written' \in Nat
    BY <2>1, <2>2, <2>3
  <2>5. TypeOK'
    BY <2>1, <2>4
  <2>6. QED
    BY <2>1, <2>5
<1>10. ASSUME WritePayload PROVE TypeOK' /\ SilenceInv'
  <2>1. /\ written' = written + 1
        /\ expected' = <<(Stamp(current) + 1) % Wrap>>
        /\ writer' = "idle"
        /\ current' = NoPacket
        /\ UNCHANGED <<sent, latest, queue, stopVars, track, origin, reader,
                       ownerVars, watcher>>
    BY <1>10 DEF WritePayload
  <2>2. (Stamp(current) + 1) % Wrap \in 0..(Wrap - 1)
    <3>1. Stamp(current) \in Int
      BY Residue DEF Stamp
    <3>2. Stamp(current) + 1 \in Int
      BY <3>1
    <3>3. QED
      BY <3>2, Residue
  <2>3. TypeOK'
    BY <2>1, <2>2 DEF NoPacket
  <2>4. QED
    BY <2>1, <2>3
<1>11. ASSUME WriteFails PROVE TypeOK' /\ SilenceInv'
  BY <1>11 DEF WriteFails
<1>12. ASSUME WriterStops PROVE TypeOK' /\ SilenceInv'
  BY <1>12 DEF WriterStops, StopBegins, Stopped
<1>13. ASSUME WriterDone PROVE TypeOK' /\ SilenceInv'
  BY <1>13 DEF WriterDone
<1>14. ASSUME Frame PROVE TypeOK' /\ SilenceInv'
  BY <1>14 DEF Frame
<1>15. ASSUME EmitLocks PROVE TypeOK' /\ SilenceInv'
  BY <1>15 DEF EmitLocks
<1>16. ASSUME Emitted PROVE TypeOK' /\ SilenceInv'
  BY <1>16 DEF Emitted
<1>17. ASSUME ReadFails PROVE TypeOK' /\ SilenceInv'
  BY <1>17 DEF ReadFails
<1>18. ASSUME ReaderStops PROVE TypeOK' /\ SilenceInv'
  BY <1>18 DEF ReaderStops, StopBegins, Stopped
<1>19. ASSUME TakeOut PROVE TypeOK' /\ SilenceInv'
  BY <1>19 DEF TakeOut
<1>20. ASSUME LeaveMutex PROVE TypeOK' /\ SilenceInv'
  BY <1>20 DEF LeaveMutex
<1>21. ASSUME OwnerStops PROVE TypeOK' /\ SilenceInv'
  BY <1>21 DEF OwnerStops, StopBegins, Stopped
<1>22. ASSUME CloseReturns PROVE TypeOK' /\ SilenceInv'
  BY <1>22 DEF CloseReturns, Joined
<1>23. ASSUME Watch PROVE TypeOK' /\ SilenceInv'
  BY <1>23 DEF Watch
<1>24. CASE UNCHANGED vars
  BY <1>24 DEF vars
<1>25. QED
  BY <1>1, <1>2, <1>3, <1>4, <1>5, <1>6, <1>7, <1>8, <1>9, <1>10, <1>11,
     <1>12, <1>13, <1>14, <1>15, <1>16, <1>17, <1>18, <1>19, <1>20,
     <1>21, <1>22, <1>23, <1>24
     DEF Next, StopStep, TrackStep, WriterStep, WriterEnds, EmitStep, OwnerStep

(* A new encoder is in range.                                              *)
LEMMA InitType == Init => TypeOK /\ SilenceInv
<1> SUFFICES ASSUME Init
             PROVE  TypeOK /\ SilenceInv
  OBVIOUS
<1>1. sent \in Times /\ latest \in Times /\ current \in Times /\ origin \in Times
  BY BoundsAssumption DEF Init, Times, NoPacket
<1>2. queue \in Seq(Times) /\ Len(queue) <= QueueSize
  BY BoundsAssumption DEF Init
<1>3. QED
  BY <1>1, <1>2 DEF Init, TypeOK, SilenceInv, Goroutines

(* Type correctness of every behaviour of the encoder.                     *)
THEOREM TypeCorrect == Spec => []TypeOK
<1>1. Init => TypeOK /\ SilenceInv
  BY InitType
<1>2. QED
  BY <1>1, TypeStep, PTL DEF Spec

-----------------------------------------------------------------------------
(* once tells how far stop is: nothing is stored or closed before a caller *)
(* is in it, and when it is over done is closed and FFmpeg is gone.        *)
StopInv ==
    /\ err = "none" <=> once = "unused"
    /\ done => once # "unused"
    /\ once = "over" => done /\ ~ alive
    /\ owner \in {"join", "closed"} => once = "over"
    /\ watcher # "waiting" => done
    /\ watcher = "reported" => err = "failure"

IInv == TypeOK /\ SilenceInv /\ StopInv /\ NothingAfterClose

(* The invariant holds of a new encoder and every step keeps it.           *)
LEMMA Inductive == Spec => []IInv
<1>1. Init => IInv
  BY InitType DEF Init, IInv, StopInv, NothingAfterClose
<1>2. IInv /\ [Next]_vars => IInv'
  <2> SUFFICES ASSUME IInv, [Next]_vars
               PROVE  IInv'
    OBVIOUS
  <2>0. TypeOK' /\ SilenceInv'
    BY TypeStep DEF IInv
  <2> USE DEF StopInv, NothingAfterClose, clockVars, stopVars, ownerVars,
              Goroutines
  <2>1. ASSUME NEW g \in Goroutines, CloseDone(g) PROVE IInv'
    BY <2>1, <2>0 DEF CloseDone, IInv
  <2>2. ASSUME NEW g \in Goroutines, Kill(g) PROVE IInv'
    BY <2>2, <2>0 DEF Kill, IInv
  <2>3. ASSUME Tick PROVE IInv'
    BY <2>3, <2>0 DEF Tick, IInv
  <2>4. ASSUME NEW p \in Times, Write(p) PROVE IInv'
    BY <2>4, <2>0 DEF Write, IInv
  <2>5. ASSUME WriteStops PROVE IInv'
    BY <2>5, <2>0 DEF WriteStops, IInv
  <2>6. ASSUME TrackStops PROVE IInv'
    BY <2>6, <2>0 DEF TrackStops, StopBegins, Stopped, IInv
  <2>7. ASSUME Take PROVE IInv'
    BY <2>7, <2>0 DEF Take, IInv
  <2>8. ASSUME TakeIncomplete PROVE IInv'
    BY <2>8, <2>0 DEF TakeIncomplete, IInv
  <2>9. ASSUME WriteSilence PROVE IInv'
    BY <2>9, <2>0 DEF WriteSilence, IInv
  <2>10. ASSUME WritePayload PROVE IInv'
    BY <2>10, <2>0 DEF WritePayload, IInv
  <2>11. ASSUME WriteFails PROVE IInv'
    BY <2>11, <2>0 DEF WriteFails, IInv
  <2>12. ASSUME WriterStops PROVE IInv'
    BY <2>12, <2>0 DEF WriterStops, StopBegins, Stopped, IInv
  <2>13. ASSUME WriterDone PROVE IInv'
    BY <2>13, <2>0 DEF WriterDone, IInv
  <2>14. ASSUME Frame PROVE IInv'
    BY <2>14, <2>0 DEF Frame, IInv
  <2>15. ASSUME EmitLocks PROVE IInv'
    BY <2>15, <2>0 DEF EmitLocks, IInv
  <2>16. ASSUME Emitted PROVE IInv'
    BY <2>16, <2>0 DEF Emitted, IInv
  <2>17. ASSUME ReadFails PROVE IInv'
    BY <2>17, <2>0 DEF ReadFails, IInv
  <2>18. ASSUME ReaderStops PROVE IInv'
    BY <2>18, <2>0 DEF ReaderStops, StopBegins, Stopped, IInv
  <2>19. ASSUME TakeOut PROVE IInv'
    BY <2>19, <2>0 DEF TakeOut, IInv
  <2>20. ASSUME LeaveMutex PROVE IInv'
    BY <2>20, <2>0 DEF LeaveMutex, IInv
  <2>21. ASSUME OwnerStops PROVE IInv'
    BY <2>21, <2>0 DEF OwnerStops, StopBegins, Stopped, IInv
  <2>22. ASSUME CloseReturns PROVE IInv'
    BY <2>22, <2>0 DEF CloseReturns, Joined, IInv
  <2>23. ASSUME Watch PROVE IInv'
    BY <2>23, <2>0 DEF Watch, IInv
  <2>24. CASE UNCHANGED vars
    BY <2>24, <2>0 DEF vars, IInv
  <2>25. QED
    BY <2>1, <2>2, <2>3, <2>4, <2>5, <2>6, <2>7, <2>8, <2>9, <2>10, <2>11,
       <2>12, <2>13, <2>14, <2>15, <2>16, <2>17, <2>18, <2>19, <2>20,
       <2>21, <2>22, <2>23, <2>24
       DEF Next, StopStep, TrackStep, WriterStep, WriterEnds, EmitStep, OwnerStep
<1>3. QED
  BY <1>1, <1>2, PTL DEF Spec

(* After Close neither loop runs and FFmpeg is gone.                       *)
THEOREM ClosedIsQuiet == Spec => []NothingAfterClose
  BY Inductive, PTL DEF IInv

(* The first cause stays the cause, and only a failure is reported.        *)
THEOREM FirstCauseReported == Spec => ReportsFirstCause
<1>1. IInv /\ [Next]_vars
        => [err # "none" => err' = err /\ (watcher' = "reported" => err = "failure")]_vars
  <2> DEFINE Kept ==
        err # "none" => err' = err /\ (watcher' = "reported" => err = "failure")
  <2> SUFFICES ASSUME IInv, [Next]_vars
               PROVE  Kept
    OBVIOUS
  <2> USE DEF IInv, StopInv, clockVars, stopVars, ownerVars
  <2>1. ASSUME NEW g \in Goroutines, CloseDone(g) PROVE Kept
    BY <2>1 DEF CloseDone
  <2>2. ASSUME NEW g \in Goroutines, Kill(g) PROVE Kept
    BY <2>2 DEF Kill
  <2>3. ASSUME Tick PROVE Kept
    BY <2>3 DEF Tick
  <2>4. ASSUME NEW p \in Times, Write(p) PROVE Kept
    BY <2>4 DEF Write
  <2>5. ASSUME WriteStops PROVE Kept
    BY <2>5 DEF WriteStops
  <2>6. ASSUME TrackStops PROVE Kept
    BY <2>6 DEF TrackStops, StopBegins, Stopped
  <2>7. ASSUME Take PROVE Kept
    BY <2>7 DEF Take
  <2>8. ASSUME TakeIncomplete PROVE Kept
    BY <2>8 DEF TakeIncomplete
  <2>9. ASSUME WriteSilence PROVE Kept
    BY <2>9 DEF WriteSilence
  <2>10. ASSUME WritePayload PROVE Kept
    BY <2>10 DEF WritePayload
  <2>11. ASSUME WriteFails PROVE Kept
    BY <2>11 DEF WriteFails
  <2>12. ASSUME WriterStops PROVE Kept
    BY <2>12 DEF WriterStops, StopBegins, Stopped
  <2>13. ASSUME WriterDone PROVE Kept
    BY <2>13 DEF WriterDone
  <2>14. ASSUME Frame PROVE Kept
    BY <2>14 DEF Frame
  <2>15. ASSUME EmitLocks PROVE Kept
    BY <2>15 DEF EmitLocks
  <2>16. ASSUME Emitted PROVE Kept
    BY <2>16 DEF Emitted
  <2>17. ASSUME ReadFails PROVE Kept
    BY <2>17 DEF ReadFails
  <2>18. ASSUME ReaderStops PROVE Kept
    BY <2>18 DEF ReaderStops, StopBegins, Stopped
  <2>19. ASSUME TakeOut PROVE Kept
    BY <2>19 DEF TakeOut
  <2>20. ASSUME LeaveMutex PROVE Kept
    BY <2>20 DEF LeaveMutex
  <2>21. ASSUME OwnerStops PROVE Kept
    BY <2>21 DEF OwnerStops, StopBegins, Stopped
  <2>22. ASSUME CloseReturns PROVE Kept
    BY <2>22 DEF CloseReturns, Joined
  <2>23. ASSUME Watch PROVE Kept
    BY <2>23 DEF Watch
  <2>24. CASE UNCHANGED vars
    BY <2>24 DEF vars
  <2>25. QED
    BY <2>1, <2>2, <2>3, <2>4, <2>5, <2>6, <2>7, <2>8, <2>9, <2>10, <2>11,
       <2>12, <2>13, <2>14, <2>15, <2>16, <2>17, <2>18, <2>19, <2>20,
       <2>21, <2>22, <2>23, <2>24
       DEF Next, StopStep, TrackStep, WriterStep, WriterEnds, EmitStep, OwnerStep
<1>2. QED
  BY <1>1, Inductive, PTL DEF Spec, ReportsFirstCause

(* A failure that stops the encoder is reported unless a Close came first: *)
(* the encoder is what EncoderInterface says (stop, Close, Start's watcher,*)
(* which reads Err only after Done).                                       *)
THEOREM IsAnEncoder == Spec => ImplementsEncoder
<1>1. Init => Interface!Init
  BY DEF Init, Interface!Init, State
<1>2. IInv /\ [Next]_vars => [Interface!Next]_State
  <2> SUFFICES ASSUME IInv, [Next]_vars
               PROVE  [Interface!Next]_State
    OBVIOUS
  <2> USE DEF clockVars, stopVars, ownerVars
  <2> DEFINE Abs == [Interface!Next]_State
  <2>0. /\ err \in {"none", "nil", "failure"}
        /\ watcher \in {"waiting", "reported", "quiet"}
        /\ once = "unused" => err = "none"
        /\ done => err # "none"
    BY DEF IInv, TypeOK, StopInv
  <2>a. ASSUME NEW g \in Goroutines, StopBegins(g, "failure"), UNCHANGED watcher
        PROVE  Abs
    <3>1. watcher = "waiting" => Interface!Break
      BY <2>a, <2>0 DEF StopBegins, State, Interface!Break
    <3>2. watcher # "waiting" => FALSE
      BY <2>a DEF StopBegins, IInv, StopInv
    <3>3. QED
      BY <3>1, <3>2 DEF Interface!Next
  <2>b. ASSUME UNCHANGED <<err, watcher>> PROVE Abs
    BY <2>b DEF State
  <2> HIDE DEF Abs
  <2>1. ASSUME NEW g \in Goroutines, StopStep(g) PROVE Abs
    BY <2>1, <2>b DEF StopStep, CloseDone, Kill
  <2>2. ASSUME Tick \/ TrackStep \/ WriterStep PROVE Abs
    BY <2>2, <2>b
       DEF Tick, TrackStep, Write, WriteStops, WriterStep, Take, TakeIncomplete,
           WriteSilence, WritePayload
  <2>3. ASSUME TrackStops PROVE Abs
    BY <2>3, <2>a, <2>b DEF TrackStops, Goroutines
  <2>4. ASSUME WriterEnds PROVE Abs
    BY <2>4, <2>a, <2>b
       DEF WriterEnds, WriteFails, WriterStops, WriterDone, Goroutines
  <2>5. ASSUME Frame \/ EmitStep \/ ReadFails PROVE Abs
    BY <2>5, <2>b DEF Frame, EmitStep, EmitLocks, Emitted, ReadFails
  <2>6. ASSUME ReaderStops PROVE Abs
    BY <2>6, <2>a, <2>b DEF ReaderStops, Goroutines
  <2>7. ASSUME TakeOut \/ LeaveMutex \/ CloseReturns PROVE Abs
    BY <2>7, <2>b DEF TakeOut, LeaveMutex, CloseReturns
  <2>8. ASSUME OwnerStops PROVE Abs
    <3>1. CASE StopBegins("owner", "nil")
      <4>1. Interface!Close
        BY <2>0, <3>1 DEF StopBegins, State, Interface!Close
      <4>2. QED
        BY <4>1 DEF Abs, Interface!Next
    <3>2. CASE ~StopBegins("owner", "nil")
      BY <2>8, <2>b, <3>2 DEF OwnerStops
    <3>3. QED
      BY <3>1, <3>2
  <2>9. ASSUME Watch PROVE Abs
    <3>1. CASE err = "failure"
      <4>1. Interface!Report
        BY <2>9, <3>1 DEF Watch, State, Interface!Report
      <4>2. QED
        BY <4>1 DEF Abs, Interface!Next
    <3>2. CASE err # "failure"
      <4>1. UNCHANGED State
        BY <2>9, <2>0, <3>2 DEF Watch, State
      <4>2. QED
        BY <4>1 DEF Abs
    <3>3. QED
      BY <3>1, <3>2
  <2>10. ASSUME UNCHANGED vars PROVE Abs
    BY <2>10, <2>b DEF vars
  <2>11. Abs
    BY <2>1, <2>2, <2>3, <2>4, <2>5, <2>6, <2>7, <2>8, <2>9, <2>10
       DEF Next, OwnerStep
  <2>12. QED
    BY <2>11 DEF Abs
<1>3. QED
  BY <1>1, <1>2, Inductive, PTL DEF Spec, ImplementsEncoder, Interface!Spec

-----------------------------------------------------------------------------
(* The clock of writeLoop in true time.                                    *)

(* The time up to which the packets are settled: written or replaced by    *)
(* silence, the one in hand included.                                      *)
Settled ==
    CASE expected = <<>> -> Start
      [] expected # <<>> /\ writer \in {"silence", "payload"} -> current
      [] OTHER -> origin + written - 1

(* How the packets of a queue follow what is settled: none is later than   *)
(* the network's window allows, and none comes after a longer outage.      *)
Arrivals(q, settled, newest, now) ==
    /\ \A i \in 1..Len(q) :
           /\ Start <= q[i] /\ q[i] <= now
           /\ settled <= q[i] + Window
           /\ \A j \in 1..(i - 1) : q[j] <= q[i] + Window
           /\ \/ q[i] <= settled + MaxOutage
              \/ \E j \in 1..(i - 1) : q[i] <= q[j] + MaxOutage
    /\ newest <= settled \/ \E i \in 1..Len(q) : newest <= q[i]

(* While writeLoop runs, expected is the stamp of the time that the next   *)
(* tick written has, and the silence before a packet is as long as it      *)
(* really is.                                                              *)
ClockInv ==
    /\ latest <= sent /\ sent <= latest + MaxOutage
    /\ Start <= sent
    /\ writer \in {"idle", "silence", "payload"} =>
           /\ Arrivals(queue, Settled, latest, sent)
           /\ Settled <= sent
           /\ expected = <<>> => written = 0 /\ writer = "idle"
           /\ expected # <<>> /\ writer # "payload" =>
                  expected[1] = Stamp(origin + written)
           /\ writer = "silence" =>
                  Signed(Stamp(current), expected[1]) = current - (origin + written)
           /\ writer = "payload" => written = current - origin

(* Division with remainder: the remainder is the only one in its range.    *)
LEMMA DivMod ==
    ASSUME NEW x \in Int
    PROVE  x \div Wrap \in Int /\ x = Wrap * (x \div Wrap) + (x % Wrap)
<1>1. Wrap \in Nat \ {0}
  BY BoundsAssumption
<1>2. QED
  BY <1>1

LEMMA ModUnique ==
    ASSUME NEW q \in Int, NEW r \in 0..(Wrap - 1), NEW x \in Int, x = Wrap * q + r
    PROVE  x % Wrap = r
<1>1. Wrap \in Nat \ {0}
  BY BoundsAssumption
<1>2. QED
  BY <1>1

(* int32(a - b) is the true difference of two times that are less than half*)
(* of the range of the time stamps apart, wherever the stamps wrap.        *)
LEMMA SignedIsDifference ==
    ASSUME NEW a \in Int, NEW b \in Int,
           -Wrap <= 2 * (a - b), 2 * (a - b) < Wrap
    PROVE  Signed(Stamp(a), Stamp(b)) = a - b
<1> DEFINE qa == a \div Wrap
           qb == b \div Wrap
           ra == a % Wrap
           rb == b % Wrap
<1>1. Wrap \in Nat \ {0}
  BY BoundsAssumption
<1>2. /\ qa \in Int /\ qb \in Int
      /\ ra \in 0..(Wrap - 1) /\ rb \in 0..(Wrap - 1)
  BY DivMod, Residue
<1>3. a = Wrap * qa + ra /\ b = Wrap * qb + rb
  BY DivMod
<1> HIDE DEF qa, qb, ra, rb
<1>4. ra - rb = a - b + Wrap * (qb - qa)
  BY <1>1, <1>2, <1>3
<1>5. CASE a - b >= 0
  <2>1. ra - rb = Wrap * (qb - qa) + (a - b)
    BY <1>1, <1>2, <1>4
  <2>2. a - b \in 0..(Wrap - 1) /\ qb - qa \in Int /\ ra - rb \in Int
    BY <1>1, <1>2, <1>5
  <2>3. (ra - rb) % Wrap = a - b
    BY <2>1, <2>2, ModUnique
  <2>4. Signed(ra, rb) = a - b
    BY <1>1, <1>5, <2>3 DEF Signed
  <2>5. QED
    BY <2>4 DEF ra, rb, Stamp
<1>6. CASE a - b < 0
  <2>1. ra - rb = Wrap * (qb - qa - 1) + (a - b + Wrap)
    BY <1>1, <1>2, <1>4
  <2>2. a - b + Wrap \in 0..(Wrap - 1) /\ qb - qa - 1 \in Int /\ ra - rb \in Int
    BY <1>1, <1>2, <1>6
  <2>3. (ra - rb) % Wrap = a - b + Wrap
    BY <2>1, <2>2, ModUnique
  <2>4. Signed(ra, rb) = a - b
    BY <1>1, <1>6, <2>3 DEF Signed
  <2>5. QED
    BY <2>4 DEF ra, rb, Stamp
<1>7. QED
  BY <1>5, <1>6

(* The stamp of the next tick.                                             *)
LEMMA NextStamp ==
    ASSUME NEW a \in Int
    PROVE  (Stamp(a) + 1) % Wrap = Stamp(a + 1)
<1> DEFINE q == a \div Wrap
           r == a % Wrap
<1>1. Wrap \in Nat \ {0}
  BY BoundsAssumption
<1>2. q \in Int /\ r \in 0..(Wrap - 1)
  BY DivMod, Residue
<1>3. a = Wrap * q + r
  BY DivMod
<1> HIDE DEF q, r
<1>4. CASE r + 1 < Wrap
  <2>1. a + 1 = Wrap * q + (r + 1) /\ r + 1 \in 0..(Wrap - 1)
    BY <1>1, <1>2, <1>3, <1>4
  <2>2. (a + 1) % Wrap = r + 1
    BY <1>2, <2>1, ModUnique
  <2>3. r + 1 = Wrap * 0 + (r + 1) /\ 0 \in Int /\ r + 1 \in Int
    BY <1>1, <1>2
  <2>4. (r + 1) % Wrap = r + 1
    BY <2>1, <2>3, ModUnique
  <2>5. QED
    BY <2>2, <2>4 DEF r, Stamp
<1>5. CASE r + 1 = Wrap
  <2>1. a + 1 = Wrap * (q + 1) + 0 /\ q + 1 \in Int /\ 0 \in 0..(Wrap - 1)
    BY <1>1, <1>2, <1>3, <1>5
  <2>2. (a + 1) % Wrap = 0
    BY <2>1, ModUnique
  <2>3. r + 1 = Wrap * 1 + 0 /\ 1 \in Int /\ r + 1 \in Int
    BY <1>1, <1>2, <1>5
  <2>4. (r + 1) % Wrap = 0
    BY <2>1, <2>3, ModUnique
  <2>5. QED
    BY <2>2, <2>4 DEF r, Stamp
<1>6. QED
  BY <1>1, <1>2, <1>4, <1>5

(* Arrivals is kept while time passes, ...                                 *)
LEMMA TimePasses ==
    ASSUME NEW q \in Seq(Times), NEW s \in Int, NEW n \in Int, NEW t \in Int,
           Arrivals(q, s, n, t)
    PROVE  Arrivals(q, s, n, t + 1)
<1>1. \A i \in 1..Len(q) : q[i] \in Int
  BY BoundsAssumption DEF Times
<1>2. QED
  BY <1>1 DEF Arrivals

(* ... when a packet comes ...                                             *)
LEMMA PacketArrives ==
    ASSUME NEW q \in Seq(Times), NEW s \in Int, NEW n \in Int, NEW t \in Int,
           NEW p \in Times,
           Arrivals(q, s, n, t),
           Start <= p, p <= t, t <= p + Window, t <= n + MaxOutage, s <= t
    PROVE  Arrivals(Append(q, p), s, IF p > n THEN p ELSE n, t)
<1> DEFINE r == Append(q, p)
           l == Len(q)
<1>1. l \in Nat /\ Len(r) = l + 1 /\ r[l + 1] = p /\ \A i \in 1..l : r[i] = q[i]
  OBVIOUS
<1>2. /\ \A i \in 1..l : q[i] \in Int
      /\ p \in Int /\ Start \in Int /\ Window \in Int /\ MaxOutage \in Int
  BY BoundsAssumption DEF Times
<1>3. /\ \A i \in 1..l :
             /\ Start <= q[i] /\ q[i] <= t /\ s <= q[i] + Window
             /\ \A j \in 1..(i - 1) : q[j] <= q[i] + Window
             /\ \/ q[i] <= s + MaxOutage
                \/ \E j \in 1..(i - 1) : q[i] <= q[j] + MaxOutage
      /\ n <= s \/ \E i \in 1..l : n <= q[i]
  BY DEF Arrivals
<1> HIDE DEF r, l
<1>4. ASSUME NEW i \in 1..Len(r)
      PROVE  /\ Start <= r[i] /\ r[i] <= t /\ s <= r[i] + Window
             /\ \A j \in 1..(i - 1) : r[j] <= r[i] + Window
             /\ \/ r[i] <= s + MaxOutage
                \/ \E j \in 1..(i - 1) : r[i] <= r[j] + MaxOutage
  <2>1. CASE i \in 1..l
    <3>1. r[i] = q[i] /\ \A j \in 1..(i - 1) : j \in 1..l /\ r[j] = q[j]
      BY <1>1, <2>1
    <3>2. QED
      BY <1>3, <2>1, <3>1
  <2>2. CASE i = l + 1
    <3>1. r[i] = p /\ \A j \in 1..(i - 1) : j \in 1..l /\ r[j] = q[j]
      BY <1>1, <2>2
    <3>2. Start <= p /\ p <= t /\ s <= p + Window
      BY <1>2
    <3>3. \A j \in 1..l : q[j] <= p + Window
      BY <1>2, <1>3
    <3>4. CASE n <= s
      <4>1. p <= s + MaxOutage
        BY <1>2, <3>4
      <4>2. QED
        BY <3>1, <3>2, <3>3, <4>1
    <3>5. CASE \E j \in 1..l : n <= q[j]
      <4>1. PICK j \in 1..l : n <= q[j]
        BY <3>5
      <4>2. p <= q[j] + MaxOutage /\ j \in 1..(i - 1)
        BY <1>1, <1>2, <2>2, <4>1
      <4>3. QED
        BY <3>1, <3>2, <3>3, <4>2
    <3>6. QED
      BY <1>3, <3>4, <3>5
  <2>3. QED
    BY <1>1, <2>1, <2>2
<1>5. LET m == IF p > n THEN p ELSE n
      IN  m <= s \/ \E i \in 1..Len(r) : m <= r[i]
  <2>1. CASE p > n
    BY <1>1, <1>2, <2>1
  <2>2. CASE ~ (p > n)
    BY <1>1, <1>3, <2>2
  <2>3. QED
    BY <2>1, <2>2
<1>6. QED
  BY <1>4, <1>5 DEF r, Arrivals

(* ... and when one is taken and settled.                                  *)
LEMMA PacketTaken ==
    ASSUME NEW q \in Seq(Times), NEW s \in Int, NEW n \in Int, NEW t \in Int,
           NEW u \in Int,
           q # <<>>, Arrivals(q, s, n, t),
           u >= s, u >= Head(q), u = s \/ u = Head(q)
    PROVE  Arrivals(Tail(q), u, n, t)
<1> DEFINE r == Tail(q)
           l == Len(q)
<1>1. /\ l \in Nat \ {0} /\ Len(r) = l - 1 /\ Head(q) = q[1]
      /\ \A i \in 1..(l - 1) : r[i] = q[i + 1]
  OBVIOUS
<1>2. /\ \A i \in 1..l : q[i] \in Int
      /\ Start \in Int /\ Window \in Int /\ MaxOutage \in Int
  BY BoundsAssumption DEF Times
<1>3. /\ \A i \in 1..l :
             /\ Start <= q[i] /\ q[i] <= t /\ s <= q[i] + Window
             /\ \A j \in 1..(i - 1) : q[j] <= q[i] + Window
             /\ \/ q[i] <= s + MaxOutage
                \/ \E j \in 1..(i - 1) : q[i] <= q[j] + MaxOutage
      /\ n <= s \/ \E i \in 1..l : n <= q[i]
  BY DEF Arrivals
<1> HIDE DEF r, l
<1>4. ASSUME NEW i \in 1..Len(r)
      PROVE  /\ Start <= r[i] /\ r[i] <= t /\ u <= r[i] + Window
             /\ \A j \in 1..(i - 1) : r[j] <= r[i] + Window
             /\ \/ r[i] <= u + MaxOutage
                \/ \E j \in 1..(i - 1) : r[i] <= r[j] + MaxOutage
  <2>1. i + 1 \in 1..l /\ r[i] = q[i + 1] /\ 1 \in 1..i /\ (i + 1) - 1 = i
    BY <1>1
  <2>2. \A j \in 1..(i - 1) : j + 1 \in 1..i /\ r[j] = q[j + 1]
    BY <1>1
  <2>3. \A j \in 1..i : q[j] <= q[i + 1] + Window
    BY <1>3, <2>1
  <2>4. u <= q[i + 1] + Window
    BY <1>1, <1>3, <2>1, <2>3
  <2>5. \/ q[i + 1] <= u + MaxOutage
        \/ \E j \in 1..(i - 1) : q[i + 1] <= q[j + 1] + MaxOutage
    <3>1. CASE q[i + 1] <= s + MaxOutage
      BY <1>2, <2>1, <3>1
    <3>2. CASE \E j \in 1..i : q[i + 1] <= q[j] + MaxOutage
      <4>1. PICK j \in 1..i : q[i + 1] <= q[j] + MaxOutage
        BY <3>2
      <4>2. CASE j = 1
        BY <1>1, <1>2, <2>1, <4>1, <4>2
      <4>3. CASE j # 1
        <5>1. j - 1 \in 1..(i - 1) /\ (j - 1) + 1 = j
          BY <4>3
        <5>2. QED
          BY <4>1, <5>1
      <4>4. QED
        BY <4>2, <4>3
    <3>3. QED
      BY <1>3, <2>1, <3>1, <3>2
  <2>6. QED
    BY <1>3, <2>1, <2>2, <2>3, <2>4, <2>5
<1>5. n <= u \/ \E i \in 1..Len(r) : n <= r[i]
  <2>1. CASE n <= s
    BY <2>1
  <2>2. CASE \E i \in 1..l : n <= q[i]
    <3>1. PICK i \in 1..l : n <= q[i]
      BY <2>2
    <3>2. CASE i = 1
      BY <1>1, <1>2, <3>1, <3>2
    <3>3. CASE i # 1
      <4>1. i - 1 \in 1..Len(r) /\ r[i - 1] = q[i]
        BY <1>1, <3>3
      <4>2. QED
        BY <3>1, <4>1
    <3>4. QED
      BY <3>2, <3>3
  <2>3. QED
    BY <1>3, <2>1, <2>2
<1>6. QED
  BY <1>4, <1>5 DEF r, Arrivals

(* A step that leaves the packets and the clock alone, or ends the loop,   *)
(* keeps the clock.                                                        *)
LEMMA ClockUntouched ==
    ASSUME ClockInv, UNCHANGED <<sent, latest>>,
           \/ writer' \in {"stop", "ended"}
           \/ UNCHANGED <<queue, writer, clockVars>>
    PROVE  ClockInv'
<1>1. CASE writer' \in {"stop", "ended"}
  BY <1>1 DEF ClockInv
<1>2. CASE UNCHANGED <<queue, writer, clockVars>>
  BY <1>2 DEF ClockInv, Arrivals, Settled, clockVars
<1>3. QED
  BY <1>1, <1>2

(* The numbers of the clock are integers.                                  *)
LEMMA ClockTypes ==
    ASSUME TypeOK
    PROVE  /\ sent \in Int /\ latest \in Int /\ current \in Int
           /\ origin \in Int /\ written \in Int /\ Start \in Int
           /\ Settled \in Int /\ queue \in Seq(Times)
           /\ Window \in Nat /\ MaxOutage \in Nat \ {0} /\ MaxGap \in Nat
           /\ Wrap \in Nat
<1> USE BoundsAssumption
<1>1. /\ sent \in Int /\ latest \in Int /\ current \in Int
      /\ origin \in Int /\ written \in Int
  BY DEF TypeOK, Times
<1>2. /\ Start \in Int
      /\ Window \in Nat /\ MaxOutage \in Nat \ {0} /\ MaxGap \in Nat
      /\ Wrap \in Nat
  OBVIOUS
<1>3. Settled \in Int
  <2>1. CASE expected = <<>>
    BY <1>2, <2>1 DEF Settled
  <2>2. CASE expected # <<>> /\ writer \in {"silence", "payload"}
    BY <1>1, <2>2 DEF Settled
  <2>3. CASE expected # <<>> /\ writer \notin {"silence", "payload"}
    BY <1>1, <2>3 DEF Settled
  <2>4. QED
    BY <2>1, <2>2, <2>3
<1>4. QED
  BY <1>1, <1>2, <1>3 DEF TypeOK

(* A packet is taken: it is near enough to the clock for its signed        *)
(* distance to be the true one.                                            *)
LEMMA TakeKeepsClock ==
    ASSUME TypeOK, ClockInv, Take
    PROVE  ClockInv'
<1> DEFINE p == Head(queue)
           due == IF expected = <<>> THEN Stamp(p) ELSE expected[1]
           delta == Signed(Stamp(p), due)
           next == IF expected = <<>> THEN p ELSE origin + written
           fits == ~ Late(delta) /\ delta <= MaxGap
<1>1. /\ writer = "idle" /\ queue # <<>> /\ queue' = Tail(queue)
      /\ expected' = <<due>>
      /\ origin' = IF expected = <<>> THEN p ELSE origin
      /\ current' = IF fits THEN p ELSE current
      /\ written' = written /\ sent' = sent /\ latest' = latest
  BY DEF Take
<1>2. writer' = CASE fits -> "silence"
                  [] Late(delta) -> "idle"
                  [] OTHER -> "stop"
  BY DEF Take
<1>3. /\ sent \in Int /\ latest \in Int /\ current \in Int
      /\ origin \in Int /\ written \in Int /\ Start \in Int
      /\ Settled \in Int /\ queue \in Seq(Times)
      /\ Window \in Nat /\ MaxOutage \in Nat \ {0} /\ MaxGap \in Nat
      /\ Wrap \in Nat
  BY ClockTypes
<1>4. p \in Int
  BY <1>1, <1>3, BoundsAssumption DEF Times
<1>5. /\ latest <= sent /\ sent <= latest + MaxOutage /\ Start <= sent
      /\ Arrivals(queue, Settled, latest, sent) /\ Settled <= sent
      /\ expected = <<>> => written = 0
      /\ expected # <<>> => expected[1] = Stamp(origin + written)
  BY <1>1 DEF ClockInv
<1>6. /\ Start <= p /\ p <= sent /\ Settled <= p + Window
      /\ p <= Settled + MaxOutage
  <2>1. Len(queue) \in Nat /\ 1 \in 1..Len(queue) /\ p = queue[1] /\ 1..(1 - 1) = {}
    BY <1>1, <1>3
  <2>2. QED
    BY <1>5, <2>1 DEF Arrivals
<1>7. Settled = IF expected = <<>> THEN Start ELSE origin + written - 1
  BY <1>1 DEF Settled
<1>8. next \in Int /\ due = Stamp(next)
  BY <1>3, <1>4, <1>5
<1>9. -Wrap <= 2 * (p - next) /\ 2 * (p - next) < Wrap
  BY <1>3, <1>4, <1>6, <1>7, WrapAssumption
<1>10. delta = p - next
  BY <1>4, <1>8, <1>9, SignedIsDifference
<1>11. next = origin' + written'
  BY <1>1, <1>3, <1>4, <1>5
<1>12. expected' # <<>> /\ expected'[1] = due
  BY <1>1
<1> HIDE DEF p, due, delta, next, fits
<1>13. CASE fits
  <2>1. /\ writer' = "silence" /\ current' = p /\ p >= next
    BY <1>1, <1>2, <1>4, <1>8, <1>10, <1>13 DEF fits, Late
  <2>2. Settled' = p
    BY <1>12, <2>1 DEF Settled
  <2>3. p >= Settled
    BY <1>3, <1>4, <1>6, <1>7, <2>1 DEF next
  <2>4. Arrivals(queue', p, latest', sent')
    BY <1>1, <1>3, <1>4, <1>5, <2>3, PacketTaken DEF p
  <2>5. Signed(Stamp(current'), expected'[1]) = current' - (origin' + written')
    BY <1>10, <1>11, <1>12, <2>1 DEF delta
  <2>6. QED
    BY <1>1, <1>5, <1>6, <1>8, <1>11, <1>12, <2>1, <2>2, <2>4, <2>5 DEF ClockInv
<1>14. CASE ~ fits /\ Late(delta)
  <2>1. writer' = "idle" /\ p < next
    BY <1>2, <1>4, <1>8, <1>10, <1>14 DEF Late
  <2>2. expected # <<>>
    BY <1>4, <2>1 DEF next
  <2>3. Settled' = Settled /\ p <= Settled
    <3>1. Settled' = origin' + written' - 1
      BY <1>12, <2>1 DEF Settled
    <3>2. QED
      BY <1>1, <1>3, <1>4, <1>7, <2>1, <2>2, <3>1 DEF next
  <2>4. Arrivals(queue', Settled, latest', sent')
    BY <1>1, <1>3, <1>4, <1>5, <2>3, PacketTaken DEF p
  <2>5. QED
    BY <1>1, <1>5, <1>8, <1>11, <1>12, <2>1, <2>3, <2>4 DEF ClockInv
<1>15. CASE ~ fits /\ ~ Late(delta)
  <2>1. writer' = "stop"
    BY <1>2, <1>15
  <2>2. QED
    BY <1>1, <2>1, ClockUntouched
<1>16. QED
  BY <1>13, <1>14, <1>15

(* Every step keeps the clock.                                             *)
LEMMA ClockStep == TypeOK /\ ClockInv /\ [Next]_vars => ClockInv'
<1> SUFFICES ASSUME TypeOK, ClockInv, [Next]_vars
             PROVE  ClockInv'
  OBVIOUS
<1>0. /\ sent \in Int /\ latest \in Int /\ current \in Int
      /\ origin \in Int /\ written \in Int /\ Start \in Int
      /\ Settled \in Int /\ queue \in Seq(Times)
      /\ Window \in Nat /\ MaxOutage \in Nat \ {0} /\ MaxGap \in Nat
      /\ Wrap \in Nat
  BY ClockTypes
<1> USE DEF clockVars, stopVars, ownerVars
<1>1. ASSUME NEW g \in Goroutines, StopStep(g) PROVE ClockInv'
  BY <1>1, ClockUntouched DEF StopStep, CloseDone, Kill
<1>2. ASSUME Tick PROVE ClockInv'
  <2>1. /\ sent' = sent + 1 /\ sent < latest + MaxOutage
        /\ UNCHANGED <<latest, queue, writer, clockVars>>
    BY <1>2 DEF Tick
  <2>2. Settled' = Settled
    BY <2>1 DEF Settled
  <2>3. Arrivals(queue, Settled, latest, sent)
           => Arrivals(queue, Settled, latest, sent + 1)
    BY <1>0, TimePasses
  <2>4. QED
    BY <1>0, <2>1, <2>2, <2>3 DEF ClockInv
<1>3. ASSUME NEW p \in Times, Write(p) PROVE ClockInv'
  <2>1. /\ Start <= p /\ p <= sent /\ sent <= p + Window
        /\ queue' = Append(queue, p)
        /\ latest' = IF p > latest THEN p ELSE latest
        /\ UNCHANGED <<sent, writer, clockVars>>
    BY <1>3, <1>0, BoundsAssumption DEF Write, Times
  <2>2. Settled' = Settled
    BY <2>1 DEF Settled
  <2>3. p \in Int
    BY BoundsAssumption DEF Times
  <2>4. latest' <= sent /\ sent <= latest' + MaxOutage
    BY <1>0, <2>1, <2>3 DEF ClockInv
  <2>5. ASSUME Arrivals(queue, Settled, latest, sent), Settled <= sent
        PROVE  Arrivals(queue', Settled, latest', sent)
    <3>1. sent <= latest + MaxOutage
      BY DEF ClockInv
    <3>2. QED
      BY <1>0, <2>1, <2>5, <3>1, PacketArrives
  <2>6. QED
    BY <2>1, <2>2, <2>4, <2>5 DEF ClockInv
<1>4. ASSUME WriteStops \/ TrackStops PROVE ClockInv'
  BY <1>4, ClockUntouched DEF WriteStops, TrackStops
<1>5. ASSUME Take PROVE ClockInv'
  BY <1>5, TakeKeepsClock
<1>6. ASSUME TakeIncomplete PROVE ClockInv'
  BY <1>6, ClockUntouched DEF TakeIncomplete
<1>7. ASSUME WriteSilence PROVE ClockInv'
  <2>1. /\ writer = "silence" /\ writer' = "payload"
        /\ written' = written + Signed(Stamp(current), expected[1])
        /\ UNCHANGED <<sent, latest, queue, current, expected, origin>>
    BY <1>7 DEF WriteSilence
  <2>2. /\ Arrivals(queue, Settled, latest, sent) /\ Settled <= sent
        /\ expected # <<>>
        /\ Signed(Stamp(current), expected[1]) = current - (origin + written)
    BY <2>1 DEF ClockInv
  <2>3. written' = current - origin
    BY <1>0, <2>1, <2>2
  <2>4. Settled' = Settled
    BY <2>1, <2>2 DEF Settled
  <2>5. QED
    BY <2>1, <2>2, <2>3, <2>4 DEF ClockInv
<1>8. ASSUME WritePayload PROVE ClockInv'
  <2>1. /\ writer = "payload" /\ writer' = "idle"
        /\ written' = written + 1
        /\ expected' = <<(Stamp(current) + 1) % Wrap>>
        /\ UNCHANGED <<sent, latest, queue, origin>>
    BY <1>8 DEF WritePayload
  <2>2. /\ Arrivals(queue, Settled, latest, sent) /\ Settled <= sent
        /\ expected # <<>> /\ written = current - origin
    BY <2>1 DEF ClockInv
  <2>3. origin + written' = current + 1
    BY <1>0, <2>1, <2>2
  <2>4. expected' # <<>> /\ expected'[1] = Stamp(origin + written')
    <3>1. expected'[1] = Stamp(current + 1)
      BY <1>0, <2>1, NextStamp
    <3>2. QED
      BY <2>1, <2>3, <3>1
  <2>5. Settled' = Settled
    <3>1. Settled = current
      BY <2>1, <2>2 DEF Settled
    <3>2. Settled' = origin' + written' - 1
      BY <2>1, <2>4 DEF Settled
    <3>3. origin' + written' - 1 = current
      <4>1. written' = current - origin + 1 /\ origin' = origin
        BY <1>0, <2>1, <2>2
      <4>2. origin \in Int /\ current \in Int
        BY <1>0
      <4>3. QED
        BY <4>1, <4>2
    <3>4. QED
      BY <3>1, <3>2, <3>3
  <2>6. QED
    BY <2>1, <2>2, <2>4, <2>5 DEF ClockInv
<1>9. ASSUME WriterEnds PROVE ClockInv'
  BY <1>9, ClockUntouched DEF WriterEnds, WriteFails, WriterStops, WriterDone
<1>10. ASSUME Frame \/ EmitStep \/ ReadFails \/ ReaderStops PROVE ClockInv'
  BY <1>10, ClockUntouched DEF Frame, EmitStep, EmitLocks, Emitted, ReadFails,
                               ReaderStops
<1>11. ASSUME TakeOut \/ OwnerStep \/ Watch PROVE ClockInv'
  BY <1>11, ClockUntouched DEF TakeOut, OwnerStep, LeaveMutex, OwnerStops,
                               CloseReturns, Watch
<1>12. CASE UNCHANGED vars
  BY <1>12, ClockUntouched DEF vars
<1>13. QED
  BY <1>1, <1>2, <1>3, <1>4, <1>5, <1>6, <1>7, <1>8, <1>9, <1>10, <1>11, <1>12
     DEF Next, TrackStep, WriterStep

(* The sound does not drift: whatever the network loses, delays, repeats   *)
(* and reorders, a payload that FFmpeg is given has its true time.         *)
THEOREM ClockIsKept == Spec => []ClockKept
<1>1. Init => ClockInv
  <2> SUFFICES ASSUME Init
               PROVE  ClockInv
    OBVIOUS
  <2>1. Start \in Int /\ MaxOutage \in Nat
    BY BoundsAssumption
  <2>2. Settled = Start /\ Len(queue) = 0
    BY DEF Init, Settled
  <2>3. Arrivals(queue, Settled, latest, sent)
    BY <2>1, <2>2 DEF Init, Arrivals
  <2>4. QED
    BY <2>1, <2>2, <2>3 DEF Init, ClockInv
<1>2. ClockInv => ClockKept
  BY DEF ClockInv, ClockKept
<1>3. QED
  BY <1>1, <1>2, TypeCorrect, ClockStep, PTL DEF Spec

=============================================================================
