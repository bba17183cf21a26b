------------------------- MODULE WebRTCBridgeProofs -------------------------
(***************************************************************************)
(* Proofs about WebRTCBridge, for any set of ICE candidates and any bounds *)
(* on the messages and the errors in flight.                               *)
(***************************************************************************)
EXTENDS WebRTCBridge, SequenceTheorems, TLAPS

(* Taking the first message keeps the inbox in range.                      *)
LEMMA MessageTaken == InboxOK /\ inbox # <<>> /\ inbox' = Tail(inbox) => InboxOK'
<1> SUFFICES ASSUME InboxOK, inbox # <<>>, inbox' = Tail(inbox)
             PROVE  InboxOK'
  OBVIOUS
<1>1. Tail(inbox) \in Seq(Messages) /\ Len(Tail(inbox)) = Len(inbox) - 1
  BY HeadTailProperties DEF InboxOK
<1>2. Len(inbox) \in Nat
  BY LenProperties DEF InboxOK
<1>3. QED
  BY <1>1, <1>2, BridgeBounds DEF InboxOK

(* So does sending one.                                                    *)
LEMMA MessageSent ==
    ASSUME InboxOK, NEW m \in Messages, CameraSends(m)
    PROVE  InboxOK'
<1>1. /\ Append(inbox, m) \in Seq(Messages)
      /\ Len(Append(inbox, m)) = Len(inbox) + 1
  BY AppendProperties DEF InboxOK
<1>2. Len(inbox) \in Nat /\ Len(inbox) < MaxInbox
  BY LenProperties DEF InboxOK, CameraSends
<1>3. QED
  BY <1>1, <1>2, BridgeBounds DEF InboxOK, CameraSends

(* A candidate message carries a candidate of the camera.                  *)
LEMMA CandidateTaken ==
    TypeOK /\ NextMessage("candidate") => Head(inbox).candidate \in Candidates
<1> SUFFICES ASSUME TypeOK, NextMessage("candidate")
             PROVE  Head(inbox).candidate \in Candidates
  OBVIOUS
<1>1. Head(inbox) \in Messages
  BY HeadTailProperties DEF TypeOK, InboxOK, NextMessage
<1>2. QED
  BY <1>1 DEF NextMessage, Messages, MessageTypes

(* The inbox stays in range.                                               *)
LEMMA InboxStep == TypeOK /\ [Next]_vars => InboxOK'
<1> SUFFICES ASSUME TypeOK, [Next]_vars
             PROVE  InboxOK'
  OBVIOUS
<1>0. InboxOK /\ (router = "routed" => inbox # <<>>)
  BY DEF TypeOK
<1>1. CASE \E m \in Messages : CameraSends(m)
  BY <1>0, <1>1, MessageSent
<1>2. CASE MqttLost
  <2>1. CASE router = "routed"
    <3>1. inbox' = <<Head(inbox)>> /\ inbox # <<>>
      BY <1>0, <1>2, <2>1 DEF MqttLost
    <3>2. Head(inbox) \in Messages /\ Len(inbox) >= 1 /\ Len(inbox) <= MaxInbox
      BY <1>0, <3>1, HeadTailProperties, LenProperties, EmptySeq DEF InboxOK
    <3>3. /\ <<Head(inbox)>> \in Seq(Messages)
          /\ Len(<<Head(inbox)>>) = 1
      BY <3>2
    <3>4. QED
      BY <3>1, <3>2, <3>3, BridgeBounds, LenProperties DEF InboxOK
  <2>2. CASE router # "routed"
    BY <1>2, <2>2, EmptySeq, BridgeBounds DEF MqttLost, InboxOK
  <2>3. QED
    BY <2>1, <2>2
<1>3. CASE RouterStep
  BY <1>0, <1>3, MessageTaken
     DEF RouterStep, HandleAnswer, HandleMalformed, HandleCandidate,
         HandleDisconnect, LookUp, NextMessage, InboxOK
<1>4. CASE OwnerStep \/ ErrorStep \/ MediaStep \/ UNCHANGED vars
  <2>1. inbox' = inbox
    BY <1>4
       DEF OwnerStep, ErrorStep, MediaStep, vars, signalVars, StartBegins,
           PrepareFails, SetupSession, SendOffer, WaitBegins, StartReturns, Stop,
           ErrorEndsWait, ErrorReported, RouterEndsWait, RouterReported,
           CallOwner, WaiterEnds, PeerConnected, PeerFails, ChannelAdvances,
           ChannelFails, EncoderBreaks, EncoderReports
  <2>2. QED
    BY <1>0, <2>1 DEF InboxOK
<1>5. QED
  BY <1>1, <1>2, <1>3, <1>4 DEF Next

(* No step takes a variable out of its range.                              *)
LEMMA TypeStep == TypeOK /\ [Next]_vars => TypeOK'
<1> SUFFICES ASSUME TypeOK, [Next]_vars
             PROVE  TypeOK'
  OBVIOUS
<1> USE DEF waitVars, ownerVars, signalVars, iceVars, mediaVars, errorVars
<1>0. InboxOK'
  BY InboxStep
<1>1. ASSUME StartBegins PROVE TypeOK'
  BY <1>1, <1>0 DEF StartBegins, TypeOK
<1>2. ASSUME PrepareFails PROVE TypeOK'
  BY <1>2, <1>0 DEF PrepareFails, CloseEncoder, TypeOK
<1>3. ASSUME SetupSession PROVE TypeOK'
  <2>1. registered' \in BOOLEAN /\ answerReceived' \in BOOLEAN
    BY <1>3 DEF SetupSession
  <2>2. /\ pc' \in {"none", "new", "connected", "failed", "closed"}
        /\ pending' \subseteq Candidates
    BY <1>3 DEF SetupSession
  <2>3. UNCHANGED <<mode, start, waiter, ending, handler, stopped, mqttClosed,
                    inbox, answered, arrived, added, channel, encoder, checked, calling,
                    router, panicked>>
    BY <1>3 DEF SetupSession
  <2>4. QED
    BY <1>0, <2>1, <2>2, <2>3 DEF TypeOK
<1>4. ASSUME SendOffer PROVE TypeOK'
  BY <1>4, <1>0 DEF SendOffer, CloseEncoder, TypeOK
<1>5. ASSUME WaitBegins PROVE TypeOK'
  BY <1>5, <1>0 DEF WaitBegins, TypeOK
<1>6. ASSUME StartReturns PROVE TypeOK'
  BY <1>6, <1>0 DEF StartReturns, CloseEncoder, TypeOK
<1>7. ASSUME Stop PROVE TypeOK'
  <2>1. /\ pc' \in {"none", "new", "connected", "failed", "closed"}
        /\ encoder' \in {"off", "running", "broken"}
    BY <1>7 DEF Stop, TearDown, CloseEncoder, TypeOK
  <2>2. handler' \in BOOLEAN /\ stopped' \in BOOLEAN /\ registered' \in BOOLEAN
    BY <1>7 DEF Stop, TearDown
  <2>3. UNCHANGED <<mode, start, waiter, ending, mqttClosed, inbox, answered,
                    answerReceived, arrived, pending, added, channel, checked,
                    calling, router, panicked>>
    BY <1>7 DEF Stop
  <2>4. QED
    BY <1>0, <2>1, <2>2, <2>3 DEF TypeOK
<1>8. ASSUME ErrorEndsWait PROVE TypeOK'
  BY <1>8, <1>0 DEF ErrorEndsWait, WaiterDone, TypeOK
<1>9. ASSUME ErrorReported PROVE TypeOK'
  <2>1. CASE handler /\ start = "ok"
    <3>1. /\ pc' \in {"none", "new", "connected", "failed", "closed"}
          /\ encoder' \in {"off", "running", "broken"}
      BY <1>9, <2>1 DEF ErrorReported, CallOwner, TearDown, CloseEncoder, TypeOK
    <3>2. handler' \in BOOLEAN /\ stopped' \in BOOLEAN /\ registered' \in BOOLEAN
      BY <1>9, <2>1 DEF ErrorReported, CallOwner, TearDown
    <3>3. /\ calling' \in Nat /\ router' \in {"free", "routed", "checked", "calling"}
          /\ router' = "routed" => router = "routed"
          /\ panicked' \in BOOLEAN
      BY <1>9 DEF ErrorReported, CallOwner, TypeOK
    <3>4. UNCHANGED <<mode, start, waiter, ending, mqttClosed, inbox, answered,
                      answerReceived, arrived, pending, added, channel, checked>>
      BY <1>9 DEF ErrorReported, CallOwner
    <3>5. QED
      BY <1>0, <3>1, <3>2, <3>3, <3>4 DEF TypeOK
  <2>2. CASE ~(handler /\ start = "ok")
    BY <1>9, <1>0, <2>2 DEF ErrorReported, CallOwner, TypeOK
  <2>3. QED
    BY <2>1, <2>2
<1>10. ASSUME RouterEndsWait PROVE TypeOK'
  BY <1>10, <1>0 DEF RouterEndsWait, WaiterDone, TypeOK
<1>11. ASSUME RouterReported PROVE TypeOK'
  <2>1. CASE handler /\ start = "ok"
    <3>1. /\ pc' \in {"none", "new", "connected", "failed", "closed"}
          /\ encoder' \in {"off", "running", "broken"}
      BY <1>11, <2>1 DEF RouterReported, CallOwner, TearDown, CloseEncoder, TypeOK
    <3>2. handler' \in BOOLEAN /\ stopped' \in BOOLEAN /\ registered' \in BOOLEAN
      BY <1>11, <2>1 DEF RouterReported, CallOwner, TearDown
    <3>3. /\ calling' \in Nat /\ router' \in {"free", "routed", "checked", "calling"}
          /\ router' = "routed" => router = "routed"
          /\ panicked' \in BOOLEAN
      BY <1>11 DEF RouterReported, CallOwner, TypeOK
    <3>4. UNCHANGED <<mode, start, waiter, ending, mqttClosed, inbox, answered,
                      answerReceived, arrived, pending, added, channel, checked>>
      BY <1>11 DEF RouterReported, CallOwner
    <3>5. QED
      BY <1>0, <3>1, <3>2, <3>3, <3>4 DEF TypeOK
  <2>2. CASE ~(handler /\ start = "ok")
    BY <1>11, <1>0, <2>2 DEF RouterReported, CallOwner, TypeOK
  <2>3. QED
    BY <2>1, <2>2
<1>12. ASSUME WaiterEnds PROVE TypeOK'
  BY <1>12, <1>0 DEF WaiterEnds, TypeOK
<1>13. ASSUME HandleAnswer PROVE TypeOK'
  <2>1. CASE answerReceived \/ pc = "closed"
    BY <1>13, <1>0, <2>1 DEF HandleAnswer, NextMessage, RouterRaises, TypeOK
  <2>2. CASE ~ (answerReceived \/ pc = "closed")
    BY <1>13, <1>0, <2>2 DEF HandleAnswer, NextMessage, TypeOK
  <2>3. QED
    BY <2>1, <2>2
<1>14. ASSUME HandleMalformed PROVE TypeOK'
  BY <1>14, <1>0 DEF HandleMalformed, NextMessage, RouterRaises, TypeOK
<1>15. ASSUME HandleCandidate PROVE TypeOK'
  BY <1>15, <1>0, CandidateTaken DEF HandleCandidate, NextMessage, TypeOK
<1>16. ASSUME HandleDisconnect PROVE TypeOK'
  BY <1>16, <1>0 DEF HandleDisconnect, NextMessage, RouterRaises, TypeOK
<1>17. ASSUME LookUp PROVE TypeOK'
  BY <1>17, <1>0 DEF LookUp, TypeOK
<1>18. ASSUME PeerConnected PROVE TypeOK'
  BY <1>18, <1>0 DEF PeerConnected, WaiterDone, TypeOK
<1>19. ASSUME PeerFails PROVE TypeOK'
  BY <1>19, <1>0 DEF PeerFails, Raise, TypeOK
<1>20. ASSUME ChannelAdvances PROVE TypeOK'
  BY <1>20, <1>0 DEF ChannelAdvances, WaiterDone, TypeOK
<1>21. ASSUME ChannelFails PROVE TypeOK'
  BY <1>21, <1>0 DEF ChannelFails, Raise, TypeOK
<1>22. ASSUME EncoderBreaks \/ EncoderReports PROVE TypeOK'
  BY <1>22, <1>0 DEF EncoderBreaks, EncoderReports, Raise, TypeOK
<1>23. ASSUME NEW m \in Messages, CameraSends(m) PROVE TypeOK'
  BY <1>23, <1>0 DEF CameraSends, Offered, TypeOK
<1>24. ASSUME MqttLost PROVE TypeOK'
  BY <1>24, <1>0 DEF MqttLost, TypeOK
<1>25. CASE UNCHANGED vars
  BY <1>25, <1>0 DEF vars, TypeOK
<1>26. QED
  BY <1>1, <1>2, <1>3, <1>4, <1>5, <1>6, <1>7, <1>8, <1>9, <1>10, <1>11,
     <1>12, <1>13, <1>14, <1>15, <1>16, <1>17, <1>18, <1>19, <1>20, <1>21,
     <1>22, <1>23, <1>24, <1>25
     DEF Next, OwnerStep, ErrorStep, RouterStep, MediaStep

(* A new bridge is in range.                                               *)
LEMMA TypeInit == Init => TypeOK
<1> SUFFICES ASSUME Init PROVE TypeOK
  OBVIOUS
<1>1. InboxOK
  BY EmptySeq, BridgeBounds DEF Init, InboxOK
<1>2. QED
  BY <1>1 DEF Init, TypeOK

(* Type correctness of every behaviour of the bridge.                      *)
THEOREM TypeCorrect == Spec => []TypeOK
  BY TypeInit, TypeStep, PTL DEF Spec

(* The invariant holds of a new bridge and every step keeps it.            *)
LEMMA Inductive == Spec => []IInv
<1> USE DEF waitVars, ownerVars, signalVars, iceVars, mediaVars, errorVars
<1>1. Init => IInv
  BY TypeInit DEF Init, IInv, CandidatesKept, QuietBeforeStart, HandlerUntilStopped,
     ErrorOnItsWay, DoneMeansSession
<1>2. IInv /\ [Next]_vars => IInv'
  <2> SUFFICES ASSUME IInv, [Next]_vars
               PROVE  IInv'
    OBVIOUS
  <2> USE DEF IInv, CandidatesKept, QuietBeforeStart, HandlerUntilStopped,
              ErrorOnItsWay, DoneMeansSession
  <2>0. TypeOK /\ TypeOK'
    BY TypeStep
  <2>1. ASSUME StartBegins PROVE IInv'
    BY <2>1, <2>0 DEF StartBegins, TypeOK
  <2>2. ASSUME PrepareFails PROVE IInv'
    BY <2>2, <2>0 DEF PrepareFails, CloseEncoder, TypeOK
  <2>3. ASSUME SetupSession PROVE IInv'
    BY <2>3, <2>0 DEF SetupSession, TypeOK
  <2>4. ASSUME SendOffer PROVE IInv'
    BY <2>4, <2>0 DEF SendOffer, CloseEncoder, TypeOK
  <2>5. ASSUME WaitBegins PROVE IInv'
    BY <2>5, <2>0 DEF WaitBegins, TypeOK
  <2>6. ASSUME StartReturns PROVE IInv'
    BY <2>6, <2>0 DEF StartReturns, CloseEncoder, TypeOK
  <2>7. ASSUME Stop PROVE IInv'
    BY <2>7, <2>0 DEF Stop, TearDown, CloseEncoder, InStart, TypeOK
  <2>8. ASSUME ErrorEndsWait PROVE IInv'
    BY <2>8, <2>0 DEF ErrorEndsWait, WaiterDone, TypeOK
  <2>9. ASSUME ErrorReported PROVE IInv'
    BY <2>9, <2>0 DEF ErrorReported, CallOwner, TearDown, CloseEncoder, InStart, TypeOK
  <2>10. ASSUME RouterEndsWait PROVE IInv'
    BY <2>10, <2>0 DEF RouterEndsWait, WaiterDone, TypeOK
  <2>11. ASSUME RouterReported PROVE IInv'
    BY <2>11, <2>0 DEF RouterReported, CallOwner, TearDown, CloseEncoder, InStart, TypeOK
  <2>12. ASSUME WaiterEnds PROVE IInv'
    BY <2>12, <2>0 DEF WaiterEnds, TypeOK
  <2>13. ASSUME HandleAnswer PROVE IInv'
    BY <2>13, <2>0 DEF HandleAnswer, NextMessage, RouterRaises, TypeOK
  <2>14. ASSUME HandleMalformed PROVE IInv'
    BY <2>14, <2>0 DEF HandleMalformed, NextMessage, RouterRaises, TypeOK
  <2>15. ASSUME HandleCandidate PROVE IInv'
    BY <2>15, <2>0 DEF HandleCandidate, NextMessage, TypeOK
  <2>16. ASSUME HandleDisconnect PROVE IInv'
    BY <2>16, <2>0 DEF HandleDisconnect, NextMessage, RouterRaises, TypeOK
  <2>17. ASSUME LookUp PROVE IInv'
    BY <2>17, <2>0 DEF LookUp, TypeOK
  <2>18. ASSUME PeerConnected PROVE IInv'
    BY <2>18, <2>0 DEF PeerConnected, WaiterDone, TypeOK
  <2>19. ASSUME PeerFails PROVE IInv'
    BY <2>19, <2>0 DEF PeerFails, Raise, TypeOK
  <2>20. ASSUME ChannelAdvances PROVE IInv'
    BY <2>20, <2>0 DEF ChannelAdvances, WaiterDone, TypeOK
  <2>21. ASSUME ChannelFails PROVE IInv'
    BY <2>21, <2>0 DEF ChannelFails, Raise, TypeOK
  <2>22. ASSUME EncoderBreaks \/ EncoderReports PROVE IInv'
    BY <2>22, <2>0 DEF EncoderBreaks, EncoderReports, Raise, TypeOK
  <2>23. ASSUME NEW m \in Messages, CameraSends(m) PROVE IInv'
    BY <2>23, <2>0 DEF CameraSends, Offered, TypeOK
  <2>24. ASSUME MqttLost PROVE IInv'
    BY <2>24, <2>0 DEF MqttLost, TypeOK
  <2>25. CASE UNCHANGED vars
    BY <2>25, <2>0 DEF vars, TypeOK
  <2>26. QED
    BY <2>1, <2>2, <2>3, <2>4, <2>5, <2>6, <2>7, <2>8, <2>9, <2>10, <2>11,
       <2>12, <2>13, <2>14, <2>15, <2>16, <2>17, <2>18, <2>19, <2>20, <2>21,
       <2>22, <2>23, <2>24, <2>25
       DEF Next, OwnerStep, ErrorStep, RouterStep, MediaStep
<1>3. QED
  BY <1>1, <1>2, PTL DEF Spec

(* No ICE candidate is lost on either side of the answer.                  *)
THEOREM NoCandidateLost == Spec => []CandidatesKept
  BY Inductive, PTL DEF IInv

(* When Start returns nil for a session that has failed, the goroutine     *)
(* that ended its wait still has to tell the owner.                        *)
THEOREM FalseSuccessIsReported == Spec => []FalseSuccessReported
<1>1. IInv => FalseSuccessReported
  BY DEF IInv, ErrorOnItsWay, FalseSuccessReported
<1>2. QED
  BY <1>1, Inductive, PTL

(* Start only reports success for a session that came up, or one whose     *)
(* failure is being reported.                                              *)
THEOREM SuccessIsASession == Spec => []SuccessMeansSession
<1>1. IInv => SuccessMeansSession
  BY DEF IInv, ErrorOnItsWay, DoneMeansSession, SuccessMeansSession, TypeOK
<1>2. QED
  BY <1>1, Inductive, PTL

-----------------------------------------------------------------------------
(* The bridge as its owner has it, and the encoder as the bridge has it.   *)

(* Errors on their way to the owner.                                       *)
Raised == checked + calling + (IF InError THEN 1 ELSE 0)

(* A step that leaves Start, OnError, and the errors on their way alone is *)
(* a stutter of the interface.                                             *)
LEMMA OwnerUntouched ==
    ASSUME UNCHANGED <<start, handler, stopped>>, Raised' = Raised
    PROVE  UNCHANGED Interface!vars
  BY DEF Interface!vars, Raised, InError, Phase, InStart

(* handleError takes up an error, or finds OnError cleared.                *)
LEMMA RaiseEffect ==
    ASSUME IInv, Raise, start # "none",
           UNCHANGED <<start, handler, stopped, calling, router>>
    PROVE  [Interface!Next]_(Interface!vars)
<1>1. CASE handler
  <2>1. Raised' = Raised + 1
    BY <1>1 DEF Raise, Raised, InError, IInv, TypeOK
  <2>2. Phase' = Phase /\ Phase # "idle"
    BY DEF Phase, InStart
  <2>3. Interface!Raise
    BY <1>1, <2>1, <2>2 DEF Interface!Raise, Raised, InError
  <2>4. QED
    BY <2>3 DEF Interface!Next
<1>2. CASE ~handler
  BY <1>2, OwnerUntouched DEF Raise, Raised, InError
<1>3. QED
  BY <1>1, <1>2

(* OnError is called: the owner is told, and a session that is up ends.    *)
LEMMA DeliverEffect ==
    ASSUME IInv, CallOwner, start # "none", Raised > 0, Raised' = Raised - 1
    PROVE  [Interface!Next]_(Interface!vars)
<1>1. handler => ~InStart
  BY DEF CallOwner
<1>2. UNCHANGED start
  BY DEF CallOwner
<1>3. CASE handler /\ start = "ok"
  <2>1. Phase = "up" /\ Phase' = "over" /\ handler' = FALSE
    BY <1>2, <1>3 DEF CallOwner, TearDown, Phase, InStart, IInv, HandlerUntilStopped
  <2>2. Interface!Deliver
    BY <2>1 DEF Interface!Deliver, Interface!Finish, Raised, InError
  <2>3. QED
    BY <2>2 DEF Interface!Next
<1>4. CASE ~(handler /\ start = "ok")
  <2>1. UNCHANGED <<handler, stopped>>
    BY <1>4 DEF CallOwner, ownerVars
  <2>2. Phase' = Phase /\ Phase # "up" /\ (handler => Phase # "starting")
    BY <1>1, <1>2, <1>4, <2>1 DEF Phase, InStart, IInv, HandlerUntilStopped
  <2>3. Interface!Deliver
    BY <2>1, <2>2
       DEF Interface!Deliver, Interface!Finish, Raised, InError, IInv, TypeOK
  <2>4. QED
    BY <2>3 DEF Interface!Next
<1>5. QED
  BY <1>3, <1>4

(* The router enters handleError: it raises an error or finds OnError      *)
(* cleared.                                                                *)
LEMMA RouterRaisesEffect ==
    ASSUME IInv, RouterRaises, start # "none", router = "routed",
           UNCHANGED <<start, handler, stopped, checked, calling>>
    PROVE  [Interface!Next]_(Interface!vars)
<1>1. CASE handler
  <2>1. Raised' = Raised + 1
    BY <1>1 DEF RouterRaises, Raised, InError, IInv, TypeOK
  <2>2. Phase' = Phase /\ Phase # "idle"
    BY DEF Phase, InStart
  <2>3. Interface!Raise
    BY <1>1, <2>1, <2>2 DEF Interface!Raise, Raised, InError
  <2>4. QED
    BY <2>3 DEF Interface!Next
<1>2. CASE ~handler
  BY <1>2, OwnerUntouched DEF RouterRaises, Raised, InError
<1>3. QED
  BY <1>1, <1>2

(* The bridge is what BridgeInterface says: it raises no error before its  *)
(* Start or after its stop, delivers every error it raised, to an owner    *)
(* that is not in Start, and is never up once it was stopped (Start, stop, *)
(* handleError).                                                           *)
THEOREM IsABridge == Spec => ImplementsInterface
<1> USE DEF waitVars, ownerVars, signalVars, iceVars, mediaVars, errorVars
<1>1. Init => Interface!Init
  <2> SUFFICES ASSUME Init PROVE Interface!Init
    OBVIOUS
  <2>1. Phase = "idle" /\ handler = TRUE
    BY DEF Init, Phase, InStart
  <2>2. Raised = 0
    BY DEF Init, Raised, InError
  <2>3. QED
    BY <2>1, <2>2 DEF Interface!Init, Raised, InError
<1>2. IInv /\ [Next]_vars => [Interface!Next]_(Interface!vars)
  <2> SUFFICES ASSUME IInv, [Next]_vars
               PROVE  [Interface!Next]_(Interface!vars)
    OBVIOUS
  <2> DEFINE Abs == [Interface!Next]_(Interface!vars)
  <2>0. TypeOK /\ QuietBeforeStart /\ HandlerUntilStopped
    BY DEF IInv
  <2>c. ASSUME UNCHANGED Interface!vars PROVE Abs
    BY <2>c
  <2> HIDE DEF Abs
  <2>1. ASSUME StartBegins PROVE Abs
    <3>1. Interface!Begin
      BY <2>1 DEF StartBegins, Interface!Begin, Phase, InError, InStart
    <3>2. QED
      BY <3>1 DEF Abs, Interface!Next
  <2>2. ASSUME PrepareFails \/ (SendOffer /\ start' = "failed") PROVE Abs
    <3>1. Interface!Return
      BY <2>2 DEF PrepareFails, SendOffer, Interface!Return, Phase, InError, InStart
    <3>2. QED
      BY <3>1 DEF Abs, Interface!Next
  <2>3. ASSUME SetupSession PROVE Abs
    BY <2>3, <2>c, OwnerUntouched DEF SetupSession, Raised, InError
  <2>4. ASSUME WaitBegins \/ (SendOffer /\ start' # "failed") PROVE Abs
    BY <2>4, <2>c DEF WaitBegins, SendOffer, Interface!vars, Phase, InError, InStart
  <2>5. ASSUME StartReturns PROVE Abs
    <3>1. Interface!Return
      BY <2>5, <2>0
         DEF StartReturns, Interface!Return, Phase, InStart, InError,
             HandlerUntilStopped, TypeOK
    <3>2. QED
      BY <3>1 DEF Abs, Interface!Next
  <2>6. ASSUME Stop PROVE Abs
    <3>1. Interface!Stop
      BY <2>6 DEF Stop, TearDown, Interface!Stop, Interface!Finish, Phase, InError, InStart
    <3>2. QED
      BY <3>1 DEF Abs, Interface!Next
  <2>7. ASSUME ErrorEndsWait PROVE Abs
    <3>1. Raised' = Raised
      BY <2>7, <2>0 DEF ErrorEndsWait, Raised, InError, TypeOK
    <3>2. QED
      BY <2>7, <2>c, <3>1, OwnerUntouched DEF ErrorEndsWait
  <2>8. ASSUME ErrorReported PROVE Abs
    <3>1. Raised > 0 /\ Raised' = Raised - 1
      BY <2>8, <2>0 DEF ErrorReported, CallOwner, Raised, InError, TypeOK
    <3>2. CallOwner /\ start # "none"
      BY <2>8, <2>0 DEF ErrorReported, QuietBeforeStart
    <3>3. QED
      BY <3>1, <3>2, DeliverEffect DEF Abs
  <2>9. ASSUME RouterEndsWait PROVE Abs
    <3>1. Raised' = Raised
      BY <2>9, <2>0 DEF RouterEndsWait, Raised, InError, TypeOK
    <3>2. QED
      BY <2>9, <2>c, <3>1, OwnerUntouched DEF RouterEndsWait
  <2>10. ASSUME RouterReported PROVE Abs
    <3>1. Raised > 0 /\ Raised' = Raised - 1
      BY <2>10, <2>0 DEF RouterReported, CallOwner, Raised, InError, TypeOK
    <3>2. CallOwner /\ start # "none"
      BY <2>10, <2>0 DEF RouterReported, QuietBeforeStart
    <3>3. QED
      BY <3>1, <3>2, DeliverEffect DEF Abs
  <2>11. ASSUME WaiterEnds PROVE Abs
    BY <2>11, <2>c, OwnerUntouched DEF WaiterEnds, Raised, InError
  <2>12. ASSUME NEW type \in MessageTypes, NextMessage(type), router' = "free"
         PROVE  Abs
    BY <2>12, <2>c, OwnerUntouched DEF NextMessage, Raised, InError
  <2>13. ASSUME NEW type \in MessageTypes, NextMessage(type), RouterRaises
         PROVE  Abs
    <3>1. start # "none" /\ router = "routed"
      BY <2>13, <2>0 DEF NextMessage, QuietBeforeStart
    <3>2. QED
      BY <2>13, <3>1, RouterRaisesEffect DEF NextMessage, Abs
  <2>14. ASSUME RouterStep PROVE Abs
    <3>1. CASE LookUp
      BY <2>c, <3>1, OwnerUntouched DEF LookUp, Raised, InError
    <3>2. CASE HandleAnswer \/ HandleMalformed \/ HandleCandidate \/ HandleDisconnect
      BY <2>12, <2>13, <3>2
         DEF HandleAnswer, HandleMalformed, HandleCandidate, HandleDisconnect,
             MessageTypes
    <3>3. QED
      BY <2>14, <3>1, <3>2 DEF RouterStep
  <2>15. ASSUME PeerConnected \/ ChannelAdvances \/ EncoderBreaks PROVE Abs
    BY <2>15, <2>c, OwnerUntouched
       DEF PeerConnected, ChannelAdvances, EncoderBreaks, Raised, InError
  <2>16. ASSUME PeerFails \/ ChannelFails \/ EncoderReports PROVE Abs
    <3>1. start # "none"
      BY <2>16, <2>0 DEF PeerFails, ChannelFails, EncoderReports, QuietBeforeStart
    <3>2. Raise /\ UNCHANGED <<start, handler, stopped, calling, router>>
      BY <2>16 DEF PeerFails, ChannelFails, EncoderReports
    <3>3. QED
      BY <3>1, <3>2, RaiseEffect DEF Abs
  <2>17. ASSUME NEW m \in Messages, CameraSends(m) PROVE Abs
    BY <2>17, <2>c, OwnerUntouched DEF CameraSends, Raised, InError
  <2>18. ASSUME MqttLost PROVE Abs
    BY <2>18, <2>c, OwnerUntouched DEF MqttLost, Raised, InError
  <2>19. ASSUME UNCHANGED vars PROVE Abs
    BY <2>19, <2>c, OwnerUntouched DEF vars, Raised, InError
  <2>20. ASSUME OwnerStep PROVE Abs
    BY <2>1, <2>2, <2>3, <2>4, <2>5, <2>6, <2>20 DEF OwnerStep
  <2>21. ASSUME ErrorStep PROVE Abs
    BY <2>7, <2>8, <2>9, <2>10, <2>11, <2>21 DEF ErrorStep
  <2>22. ASSUME MediaStep PROVE Abs
    BY <2>15, <2>16, <2>22 DEF MediaStep
  <2>23. Abs
    BY <2>14, <2>17, <2>18, <2>19, <2>20, <2>21, <2>22 DEF Next
  <2>24. QED
    BY <2>23 DEF Abs
<1>3. QED
  BY <1>1, <1>2, Inductive, PTL DEF Spec, ImplementsInterface, Interface!Spec

(* The bridge treats its encoder as EncoderInterface says: a failure that  *)
(* came before the encoder was closed is reported, and no other (Start's   *)
(* goroutine, stopAudioEncoder).                                           *)
THEOREM TreatsEncoder == Spec => UsesEncoder
<1> USE DEF waitVars, ownerVars, signalVars, iceVars, mediaVars, errorVars
<1>1. Init => Encoder!Init
  BY DEF Init, Encoder!Init
<1>2. IInv /\ [Next]_vars => [Encoder!Next]_encoder
  <2> SUFFICES ASSUME IInv, [Next]_vars
               PROVE  [Encoder!Next]_encoder
    OBVIOUS
  <2> USE DEF Encoder!Next, Encoder!Run, Encoder!Close, Encoder!Break,
              Encoder!Report
  <2>1. CASE OwnerStep
    BY <2>1
       DEF IInv, QuietBeforeStart, OwnerStep, StartBegins, PrepareFails,
           SetupSession, SendOffer, WaitBegins, StartReturns, Stop, TearDown,
           CloseEncoder
  <2>2. CASE ErrorStep
    BY <2>2
       DEF ErrorStep, ErrorEndsWait, ErrorReported, RouterEndsWait, RouterReported,
           WaiterEnds, CallOwner, TearDown, CloseEncoder
  <2>3. CASE RouterStep
    BY <2>3
       DEF RouterStep, HandleAnswer, HandleMalformed, HandleCandidate,
           HandleDisconnect, LookUp, NextMessage
  <2>4. CASE MediaStep
    BY <2>4
       DEF MediaStep, PeerConnected, PeerFails, ChannelAdvances, ChannelFails,
           EncoderBreaks, EncoderReports
  <2>5. CASE (\E m \in Messages : CameraSends(m)) \/ MqttLost \/ UNCHANGED vars
    BY <2>5 DEF CameraSends, MqttLost, vars
  <2>6. QED
    BY <2>1, <2>2, <2>3, <2>4, <2>5 DEF Next
<1>3. QED
  BY <1>1, <1>2, Inductive, PTL DEF Spec, UsesEncoder, Encoder!Spec

=============================================================================
