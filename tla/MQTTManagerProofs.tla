-------------------------- MODULE MQTTManagerProofs --------------------------
(***************************************************************************)
(* Proofs about MQTTManager, for any number of cameras, streams, clients   *)
(* and attempts.                                                           *)
(***************************************************************************)
EXTENDS MQTTManager, TLAPS

(* No step takes a variable out of its range.                              *)
LEMMA TypeStep == TypeOK /\ [Next]_vars => TypeOK'
<1> SUFFICES ASSUME TypeOK, [Next]_vars
             PROVE  TypeOK'
  OBVIOUS
<1> USE StreamsAssumption, AttemptsAssumption, NoneAssumption
    DEF TypeOK, streamVars, clientVars, Stages, Links, Shakes
<1>1. ASSUME NEW s \in Streams, CreateStream(s) PROVE TypeOK'
  BY <1>1 DEF CreateStream
<1>2. ASSUME NEW s \in Streams, ReuseClient(s) PROVE TypeOK'
  BY <1>2 DEF ReuseClient
<1>3. ASSUME NEW s \in Streams, ConnectBegins(s) PROVE TypeOK'
  BY <1>3 DEF ConnectBegins
<1>4. ASSUME NEW s \in Streams, UserInfoFails(s) PROVE TypeOK'
  BY <1>4 DEF UserInfoFails, GetClientFails
<1>5. ASSUME NEW s \in Streams, AttemptFails(s) PROVE TypeOK'
  <2>1. CASE Retry(s)
    BY <1>5, <2>1 DEF AttemptFails, Retry
  <2>2. CASE GiveUp(s)
    BY <1>5, <2>2 DEF AttemptFails, GiveUp, GetClientFails
  <2>3. QED
    BY <1>5, <2>1, <2>2 DEF AttemptFails
<1>6. ASSUME NEW s \in Streams, NEW c \in Clients, AttemptConnects(s, c)
      PROVE  TypeOK'
  BY <1>6 DEF AttemptConnects, Connected
<1>7. ASSUME NEW s \in Streams, WaitBegins(s) PROVE TypeOK'
  BY <1>7 DEF WaitBegins
<1>8. ASSUME NEW s \in Streams, HandshakeDone(s) PROVE TypeOK'
  BY <1>8 DEF HandshakeDone
<1>9. ASSUME NEW s \in Streams, HandshakeFails(s) PROVE TypeOK'
  <2>0. /\ link' \in [Clients -> Links]
        /\ shake' = shake /\ cameras' = cameras /\ routing' = routing
    BY <1>9 DEF HandshakeFails
  <2>1. CASE Retry(s)
    BY <2>0, <2>1 DEF Retry
  <2>2. CASE GiveUp(s)
    BY <2>0, <2>2 DEF GiveUp, GetClientFails
  <2>3. QED
    BY <1>9, <2>1, <2>2 DEF HandshakeFails
<1>10. ASSUME NEW s \in Streams, NEW c \in Clients, StartConnects(s, c)
       PROVE  TypeOK'
  BY <1>10 DEF StartConnects, Connected
<1>11. ASSUME NEW s \in Streams, StartWithClient(s) PROVE TypeOK'
  BY <1>11 DEF StartWithClient, Register
<1>12. ASSUME NEW s \in Streams, StartHandshakeDone(s) PROVE TypeOK'
  BY <1>12 DEF StartHandshakeDone, Register
<1>13. ASSUME NEW s \in Streams, PrepareFails(s) PROVE TypeOK'
  BY <1>13 DEF PrepareFails
<1>14. ASSUME NEW s \in Streams, StartFails(s) PROVE TypeOK'
  BY <1>14 DEF StartFails
<1>15. ASSUME NEW s \in Streams, SendOffer(s) PROVE TypeOK'
  BY <1>15 DEF SendOffer
<1>16. ASSUME NEW s \in Streams, SetupFails(s) PROVE TypeOK'
  BY <1>16 DEF SetupFails
<1>17. ASSUME NEW s \in Streams, ReplaceBridge(s) PROVE TypeOK'
  BY <1>17 DEF ReplaceBridge, StopBridge
<1>18. ASSUME NEW s \in Streams, StopStream(s) PROVE TypeOK'
  BY <1>18 DEF StopStream, StopBridge
<1>19. ASSUME NEW c \in Clients, Subscribe(c) PROVE TypeOK'
  BY <1>19 DEF Subscribe
<1>20. ASSUME NEW c \in Clients, SubscribeFails(c) PROVE TypeOK'
  BY <1>20 DEF SubscribeFails, DoneWithError
<1>21. ASSUME NEW c \in Clients, Cut(c) PROVE TypeOK'
  BY <1>21 DEF Cut
<1>22. ASSUME NEW c \in Clients, LossStep(c) PROVE TypeOK'
  BY <1>22 DEF LossStep, LossNoticed, OnDisconnect, ErrorStored, DoneWithError
<1>23. ASSUME ManagerStop PROVE TypeOK'
  BY <1>23 DEF ManagerStop
<1>24. ASSUME NEW c \in Clients, NEW s \in Streams, LookUp(c, s)
       PROVE  TypeOK'
  BY <1>24 DEF LookUp
<1>25. ASSUME NEW c \in Clients, Deliver(c) PROVE TypeOK'
  BY <1>25 DEF Deliver
<1>26. CASE UNCHANGED vars
  BY <1>26 DEF vars
<1>27. QED
  BY <1>1, <1>2, <1>3, <1>4, <1>5, <1>6, <1>7, <1>8, <1>9, <1>10, <1>11,
     <1>12, <1>13, <1>14, <1>15, <1>16, <1>17, <1>18, <1>19, <1>20,
     <1>21, <1>22, <1>23, <1>24, <1>25, <1>26
     DEF Next, Asks, Connects, BridgeStep, RouterStep, HandshakeStep

(* Type correctness of every behaviour of the manager and its clients.     *)
THEOREM TypeCorrect == Spec => []TypeOK
<1>1. Init => TypeOK
  BY AttemptsAssumption, NoneAssumption
     DEF Init, TypeOK, Stages, Links, Shakes
<1>2. QED
  BY <1>1, TypeStep, PTL DEF Spec

-----------------------------------------------------------------------------
(* A stream is routed by the client that its bridge uses, and by no other: *)
(* one step.                                                               *)
LEMMA RoutesStep == TypeOK /\ RoutesAreCurrent /\ [Next]_vars => RoutesAreCurrent'
<1> SUFFICES ASSUME TypeOK, RoutesAreCurrent, [Next]_vars
             PROVE  RoutesAreCurrent'
  OBVIOUS
<1> USE NoneAssumption DEF TypeOK, RoutesAreCurrent, streamVars, clientVars
<1>1. ASSUME NEW s \in Streams, CreateStream(s) PROVE RoutesAreCurrent'
  BY <1>1 DEF CreateStream
<1>2. ASSUME NEW s \in Streams, ReuseClient(s) PROVE RoutesAreCurrent'
  BY <1>2 DEF ReuseClient
<1>3. ASSUME NEW s \in Streams, ConnectBegins(s) PROVE RoutesAreCurrent'
  BY <1>3 DEF ConnectBegins
<1>4. ASSUME NEW s \in Streams, UserInfoFails(s) PROVE RoutesAreCurrent'
  BY <1>4 DEF UserInfoFails, GetClientFails
<1>5. ASSUME NEW s \in Streams, AttemptFails(s) PROVE RoutesAreCurrent'
  BY <1>5 DEF AttemptFails, Retry, GiveUp, GetClientFails
<1>6. ASSUME NEW s \in Streams, NEW c \in Clients, AttemptConnects(s, c)
      PROVE  RoutesAreCurrent'
  BY <1>6 DEF AttemptConnects, Connected
<1>7. ASSUME NEW s \in Streams, WaitBegins(s) PROVE RoutesAreCurrent'
  BY <1>7 DEF WaitBegins
<1>8. ASSUME NEW s \in Streams, HandshakeDone(s) PROVE RoutesAreCurrent'
  BY <1>8 DEF HandshakeDone
<1>9. ASSUME NEW s \in Streams, HandshakeFails(s) PROVE RoutesAreCurrent'
  BY <1>9 DEF HandshakeFails, Retry, GiveUp, GetClientFails
<1>10. ASSUME NEW s \in Streams, NEW c \in Clients, StartConnects(s, c)
       PROVE  RoutesAreCurrent'
  BY <1>10 DEF StartConnects, Connected
<1>11. ASSUME NEW s \in Streams, StartWithClient(s) PROVE RoutesAreCurrent'
  BY <1>11 DEF StartWithClient, Register
<1>12. ASSUME NEW s \in Streams, StartHandshakeDone(s) PROVE RoutesAreCurrent'
  BY <1>12 DEF StartHandshakeDone, Register
<1>13. ASSUME NEW s \in Streams, PrepareFails(s) PROVE RoutesAreCurrent'
  BY <1>13 DEF PrepareFails
<1>14. ASSUME NEW s \in Streams, StartFails(s) PROVE RoutesAreCurrent'
  BY <1>14 DEF StartFails
<1>15. ASSUME NEW s \in Streams, SendOffer(s) PROVE RoutesAreCurrent'
  BY <1>15 DEF SendOffer
<1>16. ASSUME NEW s \in Streams, SetupFails(s) PROVE RoutesAreCurrent'
  BY <1>16 DEF SetupFails
<1>17. ASSUME NEW s \in Streams, ReplaceBridge(s) PROVE RoutesAreCurrent'
  BY <1>17 DEF ReplaceBridge, StopBridge
<1>18. ASSUME NEW s \in Streams, StopStream(s) PROVE RoutesAreCurrent'
  BY <1>18 DEF StopStream, StopBridge
<1>19. ASSUME NEW c \in Clients, HandshakeStep(c) \/ Cut(c) \/ LossStep(c)
       PROVE  RoutesAreCurrent'
  BY <1>19 DEF HandshakeStep, Subscribe, SubscribeFails, Cut, LossStep,
               LossNoticed, OnDisconnect, ErrorStored
<1>20. ASSUME ManagerStop PROVE RoutesAreCurrent'
  BY <1>20 DEF ManagerStop
<1>21. ASSUME NEW c \in Clients, NEW s \in Streams, LookUp(c, s)
       PROVE  RoutesAreCurrent'
  BY <1>21 DEF LookUp
<1>22. ASSUME NEW c \in Clients, Deliver(c) PROVE RoutesAreCurrent'
  BY <1>22 DEF Deliver
<1>23. CASE UNCHANGED vars
  BY <1>23 DEF vars
<1>24. QED
  BY <1>1, <1>2, <1>3, <1>4, <1>5, <1>6, <1>7, <1>8, <1>9, <1>10, <1>11,
     <1>12, <1>13, <1>14, <1>15, <1>16, <1>17, <1>18, <1>19, <1>20, <1>21,
     <1>22, <1>23
     DEF Next, Asks, Connects, BridgeStep, RouterStep

(* A message that arrives is routed to a bridge that has not been stopped  *)
(* or replaced; the one that was looked up before the stop is the only one *)
(* that still reaches it.                                                  *)
THEOREM RoutesCurrent == Spec => []RoutesAreCurrent
<1>1. Init => RoutesAreCurrent
  BY NoneAssumption DEF Init, RoutesAreCurrent
<1>2. QED
  BY <1>1, RoutesStep, TypeCorrect, PTL DEF Spec
-----------------------------------------------------------------------------
(* Who has the manager's mutex is in connect, for a camera whose client is *)
(* not connected; and whoever asks has no client yet, so that none is lost *)
(* when one is assigned.                                                   *)
LockInv ==
    \A s \in Streams :
        /\ lock = s <=> stage[s] \in {"connecting", "handshake"}
        /\ stage[s] \in {"asking", "connecting"} => using[s] = none
        /\ lock = s /\ clients[DeviceOf[s]] # none
               => ~ IsConnected(clients[DeviceOf[s]])

LEMMA LockStep == TypeOK /\ LockInv /\ [Next]_vars => LockInv'
<1> SUFFICES ASSUME TypeOK, LockInv, [Next]_vars
             PROVE  LockInv'
  OBVIOUS
<1> USE StreamsAssumption, NoneAssumption
    DEF TypeOK, LockInv, IsConnected, streamVars, clientVars, Links
<1>1. ASSUME NEW s \in Streams, CreateStream(s) PROVE LockInv'
  BY <1>1 DEF CreateStream
<1>2. ASSUME NEW s \in Streams, ReuseClient(s) PROVE LockInv'
  BY <1>2 DEF ReuseClient
<1>3. ASSUME NEW s \in Streams, ConnectBegins(s) PROVE LockInv'
  BY <1>3 DEF ConnectBegins
<1>4. ASSUME NEW s \in Streams, UserInfoFails(s) PROVE LockInv'
  BY <1>4 DEF UserInfoFails, GetClientFails
<1>5. ASSUME NEW s \in Streams, AttemptFails(s) PROVE LockInv'
  BY <1>5 DEF AttemptFails, Retry, GiveUp, GetClientFails
<1>6. ASSUME NEW s \in Streams, NEW c \in Clients, AttemptConnects(s, c)
      PROVE  LockInv'
  BY <1>6 DEF AttemptConnects, Connected, Unused, Online
<1>7. ASSUME NEW s \in Streams, WaitBegins(s) PROVE LockInv'
  BY <1>7 DEF WaitBegins
<1>8. ASSUME NEW s \in Streams, HandshakeDone(s) PROVE LockInv'
  BY <1>8 DEF HandshakeDone
<1>9. ASSUME NEW s \in Streams, HandshakeFails(s) PROVE LockInv'
  BY <1>9 DEF HandshakeFails, Retry, GiveUp, GetClientFails
<1>10. ASSUME NEW s \in Streams, NEW c \in Clients, StartConnects(s, c)
       PROVE  LockInv'
  BY <1>10 DEF StartConnects, Connected, Unused, Online
<1>11. ASSUME NEW s \in Streams, StartWithClient(s) PROVE LockInv'
  BY <1>11 DEF StartWithClient, Register
<1>12. ASSUME NEW s \in Streams, StartHandshakeDone(s) PROVE LockInv'
  BY <1>12 DEF StartHandshakeDone, Register
<1>13. ASSUME NEW s \in Streams, PrepareFails(s) PROVE LockInv'
  BY <1>13 DEF PrepareFails
<1>14. ASSUME NEW s \in Streams, StartFails(s) PROVE LockInv'
  BY <1>14 DEF StartFails
<1>15. ASSUME NEW s \in Streams, SendOffer(s) PROVE LockInv'
  BY <1>15 DEF SendOffer
<1>16. ASSUME NEW s \in Streams, SetupFails(s) PROVE LockInv'
  BY <1>16 DEF SetupFails
<1>17. ASSUME NEW s \in Streams, ReplaceBridge(s) PROVE LockInv'
  BY <1>17 DEF ReplaceBridge, StopBridge
<1>18. ASSUME NEW s \in Streams, StopStream(s) PROVE LockInv'
  BY <1>18 DEF StopStream, StopBridge
<1>19. ASSUME NEW c \in Clients, HandshakeStep(c) PROVE LockInv'
  BY <1>19 DEF HandshakeStep, Subscribe, SubscribeFails, DoneWithError
<1>20. ASSUME NEW c \in Clients, Cut(c) PROVE LockInv'
  BY <1>20 DEF Cut, Online
<1>21. ASSUME NEW c \in Clients, LossStep(c) PROVE LockInv'
  BY <1>21 DEF LossStep, LossNoticed, OnDisconnect, ErrorStored, DoneWithError
<1>22. ASSUME ManagerStop PROVE LockInv'
  BY <1>22 DEF ManagerStop
<1>23. ASSUME NEW c \in Clients, NEW s \in Streams, LookUp(c, s)
       PROVE  LockInv'
  BY <1>23 DEF LookUp
<1>24. ASSUME NEW c \in Clients, Deliver(c) PROVE LockInv'
  BY <1>24 DEF Deliver
<1>25. CASE UNCHANGED vars
  BY <1>25 DEF vars
<1>26. QED
  BY <1>1, <1>2, <1>3, <1>4, <1>5, <1>6, <1>7, <1>8, <1>9, <1>10, <1>11,
     <1>12, <1>13, <1>14, <1>15, <1>16, <1>17, <1>18, <1>19, <1>20,
     <1>21, <1>22, <1>23, <1>24, <1>25
     DEF Next, Asks, Connects, BridgeStep, RouterStep

LEMMA LockHolds == Spec => [](TypeOK /\ LockInv)
<1>1. Init => LockInv
  BY NoneAssumption DEF Init, LockInv
<1>2. QED
  BY <1>1, LockStep, TypeCorrect, PTL DEF Spec

(* No connection that the manager made leaves its map while it is up.      *)
THEOREM ConnectionsKept == Spec => ManagerKeepsConnections
<1>1. TypeOK /\ LockInv /\ [Next]_vars
        => [\A c \in Clients : Held(c) /\ IsConnected(c)' => Held(c)']_vars
  <2> DEFINE Kept ==
        \A c \in Clients : Held(c) /\ IsConnected(c)' => Held(c)'
  <2> SUFFICES ASSUME TypeOK, LockInv, [Next]_vars
               PROVE  Kept
    OBVIOUS
  <2> USE StreamsAssumption, NoneAssumption
      DEF TypeOK, LockInv, Held, IsConnected, streamVars, clientVars, Links
  <2>1. ASSUME NEW s \in Streams, CreateStream(s) PROVE Kept
    BY <2>1 DEF CreateStream
  <2>2. ASSUME NEW s \in Streams, ReuseClient(s) PROVE Kept
    BY <2>2 DEF ReuseClient
  <2>3. ASSUME NEW s \in Streams, ConnectBegins(s) PROVE Kept
    BY <2>3 DEF ConnectBegins
  <2>4. ASSUME NEW s \in Streams, UserInfoFails(s) PROVE Kept
    BY <2>4 DEF UserInfoFails, GetClientFails
  <2>5. ASSUME NEW s \in Streams, AttemptFails(s) PROVE Kept
    BY <2>5 DEF AttemptFails, Retry, GiveUp, GetClientFails
  <2>6. ASSUME NEW s \in Streams, NEW c \in Clients, AttemptConnects(s, c)
        PROVE  Kept
    BY <2>6 DEF AttemptConnects, Connected, Unused, Online
  <2>7. ASSUME NEW s \in Streams, WaitBegins(s) PROVE Kept
    BY <2>7 DEF WaitBegins
  <2>8. ASSUME NEW s \in Streams, HandshakeDone(s) PROVE Kept
    BY <2>8 DEF HandshakeDone
  <2>9. ASSUME NEW s \in Streams, HandshakeFails(s) PROVE Kept
    BY <2>9 DEF HandshakeFails, Retry, GiveUp, GetClientFails
  <2>10. ASSUME NEW s \in Streams, NEW c \in Clients, StartConnects(s, c)
         PROVE  Kept
    BY <2>10 DEF StartConnects, Connected, Unused, Online
  <2>11. ASSUME NEW s \in Streams, StartWithClient(s) PROVE Kept
    BY <2>11 DEF StartWithClient, Register
  <2>12. ASSUME NEW s \in Streams, StartHandshakeDone(s) PROVE Kept
    BY <2>12 DEF StartHandshakeDone, Register
  <2>13. ASSUME NEW s \in Streams, PrepareFails(s) PROVE Kept
    BY <2>13 DEF PrepareFails
  <2>14. ASSUME NEW s \in Streams, StartFails(s) PROVE Kept
    BY <2>14 DEF StartFails
  <2>15. ASSUME NEW s \in Streams, SendOffer(s) PROVE Kept
    BY <2>15 DEF SendOffer
  <2>16. ASSUME NEW s \in Streams, SetupFails(s) PROVE Kept
    BY <2>16 DEF SetupFails
  <2>17. ASSUME NEW s \in Streams, ReplaceBridge(s) PROVE Kept
    BY <2>17 DEF ReplaceBridge, StopBridge
  <2>18. ASSUME NEW s \in Streams, StopStream(s) PROVE Kept
    BY <2>18 DEF StopStream, StopBridge
  <2>19. ASSUME NEW c \in Clients, HandshakeStep(c) PROVE Kept
    BY <2>19 DEF HandshakeStep, Subscribe, SubscribeFails, DoneWithError
  <2>20. ASSUME NEW c \in Clients, Cut(c) PROVE Kept
    BY <2>20 DEF Cut, Online
  <2>21. ASSUME NEW c \in Clients, LossStep(c) PROVE Kept
    BY <2>21 DEF LossStep, LossNoticed, OnDisconnect, ErrorStored, DoneWithError
  <2>22. ASSUME ManagerStop PROVE Kept
    BY <2>22 DEF ManagerStop
  <2>23. ASSUME NEW c \in Clients, NEW s \in Streams, LookUp(c, s)
         PROVE  Kept
    BY <2>23 DEF LookUp
  <2>24. ASSUME NEW c \in Clients, Deliver(c) PROVE Kept
    BY <2>24 DEF Deliver
  <2>25. CASE UNCHANGED vars
    BY <2>25 DEF vars
  <2>26. QED
    BY <2>1, <2>2, <2>3, <2>4, <2>5, <2>6, <2>7, <2>8, <2>9, <2>10,
       <2>11, <2>12, <2>13, <2>14, <2>15, <2>16, <2>17, <2>18, <2>19,
       <2>20, <2>21, <2>22, <2>23, <2>24, <2>25
       DEF Next, Asks, Connects, BridgeStep, RouterStep
<1>2. QED
  BY <1>1, LockHolds, PTL DEF Spec, ManagerKeepsConnections

-----------------------------------------------------------------------------
(* A client in its first handshake belongs to one stream only: the object  *)
(* is new.  The manager shares it after that; a bridge keeps it to itself. *)
Private(s) ==
    /\ using[s] \in Clients
    /\ \A d \in Devices : clients[d] # using[s]
    /\ \A t \in Streams \ {s} : using[t] # using[s]

OwnInv ==
    \A s \in Streams :
        /\ owns[s] \/ stage[s] \in {"handshake", "ownHandshake"} => Private(s)
        /\ owns[s] => stage[s] \notin {"none", "asking", "connecting", "handshake",
                                      "ready", "ownHandshake"}

LEMMA OwnStep == TypeOK /\ OwnInv /\ [Next]_vars => OwnInv'
<1> SUFFICES ASSUME TypeOK, OwnInv, [Next]_vars
             PROVE  OwnInv'
  OBVIOUS
<1> USE StreamsAssumption, NoneAssumption
    DEF TypeOK, OwnInv, Private, streamVars, clientVars
<1>1. ASSUME NEW s \in Streams, CreateStream(s) PROVE OwnInv'
  BY <1>1 DEF CreateStream
<1>2. ASSUME NEW s \in Streams, ReuseClient(s) PROVE OwnInv'
  BY <1>2 DEF ReuseClient
<1>3. ASSUME NEW s \in Streams, ConnectBegins(s) PROVE OwnInv'
  BY <1>3 DEF ConnectBegins
<1>4. ASSUME NEW s \in Streams, UserInfoFails(s) PROVE OwnInv'
  BY <1>4 DEF UserInfoFails, GetClientFails
<1>5. ASSUME NEW s \in Streams, AttemptFails(s) PROVE OwnInv'
  BY <1>5 DEF AttemptFails, Retry, GiveUp, GetClientFails
<1>6. ASSUME NEW s \in Streams, NEW c \in Clients, AttemptConnects(s, c)
      PROVE  OwnInv'
  BY <1>6 DEF AttemptConnects, Connected, Unused
<1>7. ASSUME NEW s \in Streams, WaitBegins(s) PROVE OwnInv'
  BY <1>7 DEF WaitBegins
<1>8. ASSUME NEW s \in Streams, HandshakeDone(s) PROVE OwnInv'
  BY <1>8 DEF HandshakeDone
<1>9. ASSUME NEW s \in Streams, HandshakeFails(s) PROVE OwnInv'
  BY <1>9 DEF HandshakeFails, Retry, GiveUp, GetClientFails
<1>10. ASSUME NEW s \in Streams, NEW c \in Clients, StartConnects(s, c)
       PROVE  OwnInv'
  BY <1>10 DEF StartConnects, Connected, Unused
<1>11. ASSUME NEW s \in Streams, StartWithClient(s) PROVE OwnInv'
  BY <1>11 DEF StartWithClient, Register
<1>12. ASSUME NEW s \in Streams, StartHandshakeDone(s) PROVE OwnInv'
  BY <1>12 DEF StartHandshakeDone, Register
<1>13. ASSUME NEW s \in Streams, PrepareFails(s) PROVE OwnInv'
  BY <1>13 DEF PrepareFails
<1>14. ASSUME NEW s \in Streams, StartFails(s) PROVE OwnInv'
  BY <1>14 DEF StartFails
<1>15. ASSUME NEW s \in Streams, SendOffer(s) PROVE OwnInv'
  BY <1>15 DEF SendOffer
<1>16. ASSUME NEW s \in Streams, SetupFails(s) PROVE OwnInv'
  BY <1>16 DEF SetupFails
<1>17. ASSUME NEW s \in Streams, ReplaceBridge(s) PROVE OwnInv'
  BY <1>17 DEF ReplaceBridge, StopBridge
<1>18. ASSUME NEW s \in Streams, StopStream(s) PROVE OwnInv'
  BY <1>18 DEF StopStream, StopBridge
<1>19. ASSUME NEW c \in Clients, HandshakeStep(c) PROVE OwnInv'
  BY <1>19 DEF HandshakeStep, Subscribe, SubscribeFails, DoneWithError
<1>20. ASSUME NEW c \in Clients, Cut(c) PROVE OwnInv'
  BY <1>20 DEF Cut
<1>21. ASSUME NEW c \in Clients, LossStep(c) PROVE OwnInv'
  BY <1>21 DEF LossStep, LossNoticed, OnDisconnect, ErrorStored, DoneWithError
<1>22. ASSUME ManagerStop PROVE OwnInv'
  BY <1>22 DEF ManagerStop
<1>23. ASSUME NEW c \in Clients, NEW s \in Streams, LookUp(c, s)
       PROVE  OwnInv'
  BY <1>23 DEF LookUp
<1>24. ASSUME NEW c \in Clients, Deliver(c) PROVE OwnInv'
  BY <1>24 DEF Deliver
<1>25. CASE UNCHANGED vars
  BY <1>25 DEF vars
<1>26. QED
  BY <1>1, <1>2, <1>3, <1>4, <1>5, <1>6, <1>7, <1>8, <1>9, <1>10, <1>11,
     <1>12, <1>13, <1>14, <1>15, <1>16, <1>17, <1>18, <1>19, <1>20,
     <1>21, <1>22, <1>23, <1>24, <1>25
     DEF Next, Asks, Connects, BridgeStep, RouterStep

(* A bridge that stops closes no connection of the manager or of another.  *)
THEOREM OwnedPrivate == Spec => []OwnedIsPrivate
<1>1. Init => OwnInv
  BY DEF Init, OwnInv
<1>2. OwnInv => OwnedIsPrivate
  BY DEF OwnInv, Private, OwnedIsPrivate
<1>3. QED
  BY <1>1, <1>2, OwnStep, TypeCorrect, PTL DEF Spec

-----------------------------------------------------------------------------
(* A client gets to the manager's map by the end of its first handshake,   *)
(* when only the stream that asked for it has it: one step.                *)
LEMMA CameraStep ==
    TypeOK /\ OwnInv /\ ClientsPerCamera /\ [Next]_vars => ClientsPerCamera'
<1> SUFFICES ASSUME TypeOK, OwnInv, ClientsPerCamera, [Next]_vars
             PROVE  ClientsPerCamera'
  OBVIOUS
<1> USE StreamsAssumption, NoneAssumption
    DEF TypeOK, ClientsPerCamera, streamVars, clientVars
<1>1. ASSUME NEW s \in Streams, CreateStream(s) PROVE ClientsPerCamera'
  BY <1>1 DEF CreateStream
<1>2. ASSUME NEW s \in Streams, ReuseClient(s) PROVE ClientsPerCamera'
  BY <1>2 DEF ReuseClient
<1>3. ASSUME NEW s \in Streams, ConnectBegins(s) PROVE ClientsPerCamera'
  BY <1>3 DEF ConnectBegins
<1>4. ASSUME NEW s \in Streams, UserInfoFails(s) PROVE ClientsPerCamera'
  BY <1>4 DEF UserInfoFails, GetClientFails
<1>5. ASSUME NEW s \in Streams, AttemptFails(s) PROVE ClientsPerCamera'
  BY <1>5 DEF AttemptFails, Retry, GiveUp, GetClientFails
<1>6. ASSUME NEW s \in Streams, NEW c \in Clients, AttemptConnects(s, c)
      PROVE  ClientsPerCamera'
  BY <1>6 DEF AttemptConnects, Connected, Unused
<1>7. ASSUME NEW s \in Streams, WaitBegins(s) PROVE ClientsPerCamera'
  BY <1>7 DEF WaitBegins
<1>8. ASSUME NEW s \in Streams, HandshakeDone(s) PROVE ClientsPerCamera'
  BY <1>8 DEF HandshakeDone, OwnInv, Private
<1>9. ASSUME NEW s \in Streams, HandshakeFails(s) PROVE ClientsPerCamera'
  BY <1>9 DEF HandshakeFails, Retry, GiveUp, GetClientFails
<1>10. ASSUME NEW s \in Streams, NEW c \in Clients, StartConnects(s, c)
       PROVE  ClientsPerCamera'
  BY <1>10 DEF StartConnects, Connected, Unused
<1>11. ASSUME NEW s \in Streams, StartWithClient(s) PROVE ClientsPerCamera'
  BY <1>11 DEF StartWithClient, Register
<1>12. ASSUME NEW s \in Streams, StartHandshakeDone(s) PROVE ClientsPerCamera'
  BY <1>12 DEF StartHandshakeDone, Register
<1>13. ASSUME NEW s \in Streams, PrepareFails(s) PROVE ClientsPerCamera'
  BY <1>13 DEF PrepareFails
<1>14. ASSUME NEW s \in Streams, StartFails(s) PROVE ClientsPerCamera'
  BY <1>14 DEF StartFails
<1>15. ASSUME NEW s \in Streams, SendOffer(s) PROVE ClientsPerCamera'
  BY <1>15 DEF SendOffer
<1>16. ASSUME NEW s \in Streams, SetupFails(s) PROVE ClientsPerCamera'
  BY <1>16 DEF SetupFails
<1>17. ASSUME NEW s \in Streams, ReplaceBridge(s) PROVE ClientsPerCamera'
  BY <1>17 DEF ReplaceBridge, StopBridge
<1>18. ASSUME NEW s \in Streams, StopStream(s) PROVE ClientsPerCamera'
  BY <1>18 DEF StopStream, StopBridge
<1>19. ASSUME NEW c \in Clients, HandshakeStep(c) PROVE ClientsPerCamera'
  BY <1>19 DEF HandshakeStep, Subscribe, SubscribeFails, DoneWithError
<1>20. ASSUME NEW c \in Clients, Cut(c) PROVE ClientsPerCamera'
  BY <1>20 DEF Cut
<1>21. ASSUME NEW c \in Clients, LossStep(c) PROVE ClientsPerCamera'
  BY <1>21 DEF LossStep, LossNoticed, OnDisconnect, ErrorStored, DoneWithError
<1>22. ASSUME ManagerStop PROVE ClientsPerCamera'
  BY <1>22 DEF ManagerStop
<1>23. ASSUME NEW c \in Clients, NEW s \in Streams, LookUp(c, s)
       PROVE  ClientsPerCamera'
  BY <1>23 DEF LookUp
<1>24. ASSUME NEW c \in Clients, Deliver(c) PROVE ClientsPerCamera'
  BY <1>24 DEF Deliver
<1>25. CASE UNCHANGED vars
  BY <1>25 DEF vars
<1>26. QED
  BY <1>1, <1>2, <1>3, <1>4, <1>5, <1>6, <1>7, <1>8, <1>9, <1>10, <1>11,
     <1>12, <1>13, <1>14, <1>15, <1>16, <1>17, <1>18, <1>19, <1>20,
     <1>21, <1>22, <1>23, <1>24, <1>25
     DEF Next, Asks, Connects, BridgeStep, RouterStep

LEMMA OwnHolds == Spec => [](TypeOK /\ OwnInv)
<1>1. Init => OwnInv
  BY DEF Init, OwnInv
<1>2. QED
  BY <1>1, OwnStep, TypeCorrect, PTL DEF Spec

(* The connections of one camera are not those of another.                 *)
THEOREM CamerasApart == Spec => []ClientsPerCamera
<1>1. Init => ClientsPerCamera
  BY DEF Init, ClientsPerCamera
<1>2. QED
  BY <1>1, CameraStep, OwnHolds, PTL DEF Spec

=============================================================================
