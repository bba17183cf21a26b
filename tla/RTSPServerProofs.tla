-------------------------- MODULE RTSPServerProofs --------------------------
(***************************************************************************)
(* Proofs about RTSPServer, for any number of connections and of           *)
(* CameraStream objects.                                                   *)
(***************************************************************************)
EXTENDS RTSPServer, TLAPS

(* No step takes a variable out of its range.                              *)
LEMMA TypeStep == TypeOK /\ [Next]_vars => TypeOK'
<1> SUFFICES ASSUME TypeOK, [Next]_vars
             PROVE  TypeOK'
  OBVIOUS
<1> USE NoneAssumption
    DEF TypeOK, serverVars, connVars, objectVars, Phases, FlagConnecting,
        Connecting, Stages, NoStream
<1>1. ASSUME NEW c \in Conns, Accept(c) PROVE TypeOK'
  BY <1>1 DEF Accept
<1>2. ASSUME NEW c \in Conns, GetStream(c) PROVE TypeOK'
  BY <1>2 DEF GetStream, Free
<1>3. ASSUME NEW c \in Conns, ReadInactive(c) PROVE TypeOK'
  BY <1>3 DEF ReadInactive, Free
<1>4. ASSUME NEW c \in Conns, NothingToReuse(c) PROVE TypeOK'
  BY <1>4 DEF NothingToReuse, Free
<1>5. ASSUME NEW c \in Conns, NEW o \in Streams, CreateStream(c, o)
       PROVE  TypeOK'
  BY <1>5 DEF CreateStream, Unused
<1>6. ASSUME NEW c \in Conns, CreateFails(c) PROVE TypeOK'
  BY <1>6 DEF CreateFails
<1>7. ASSUME NEW c \in Conns, ListClient(c) PROVE TypeOK'
  BY <1>7 DEF ListClient
<1>8. ASSUME NEW c \in Conns, AddClient(c) PROVE TypeOK'
  BY <1>8 DEF AddClient, Unlocked
<1>9. ASSUME NEW c \in Conns, Disconnect(c) PROVE TypeOK'
  BY <1>9 DEF Disconnect
<1>10. ASSUME NEW c \in Conns, RemoveClient(c) PROVE TypeOK'
  BY <1>10 DEF RemoveClient, Free
<1>11. ASSUME NEW c \in Conns, RemoveFromStream(c) PROVE TypeOK'
  BY <1>11 DEF RemoveFromStream, Unlocked
<1>12. ASSUME NEW o \in Streams, StartBegins(o) PROVE TypeOK'
  BY <1>12 DEF StartBegins
<1>13. ASSUME NEW o \in Streams, StartReturns(o) PROVE TypeOK'
  BY <1>13 DEF StartReturns
<1>14. ASSUME NEW o \in Streams, StartUnwatched(o) PROVE TypeOK'
  BY <1>14 DEF StartUnwatched, StopStreamInternal
<1>15. ASSUME NEW o \in Streams, RetryAborted(o) PROVE TypeOK'
  BY <1>15 DEF RetryAborted
<1>16. ASSUME NEW o \in Streams, Retire(o) PROVE TypeOK'
  BY <1>16 DEF Retire, StopStreamInternal
<1>17. ASSUME NEW o \in Streams, BridgeError(o) PROVE TypeOK'
  BY <1>17 DEF BridgeError
<1>18. ASSUME NEW o \in Streams, BridgeReplaced(o) PROVE TypeOK'
  BY <1>18 DEF BridgeReplaced
<1>19. ASSUME NEW o \in Streams, RemoveStream(o) PROVE TypeOK'
  BY <1>19 DEF RemoveStream, Free
<1>20. ASSUME Cleanup PROVE TypeOK'
  BY <1>20 DEF Cleanup, Free
<1>21. ASSUME StopServer PROVE TypeOK'
  BY <1>21 DEF StopServer, Free
<1>22. ASSUME NEW c \in Conns, StopRemoves(c) PROVE TypeOK'
  BY <1>22 DEF StopRemoves, Unlocked
<1>23. ASSUME StopFinishes PROVE TypeOK'
  BY <1>23 DEF StopFinishes, StopStreamInternal, Unlocked
<1>24. CASE UNCHANGED vars
  BY <1>24 DEF vars
<1>25. QED
  BY <1>1, <1>2, <1>3, <1>4, <1>5, <1>6, <1>7, <1>8, <1>9, <1>10, <1>11,
     <1>12, <1>13, <1>14, <1>15, <1>16, <1>17, <1>18, <1>19, <1>20, <1>21,
     <1>22, <1>23, <1>24
     DEF Next, ConnectionStep, ObjectStep, ServerStep

(* Type correctness of every behaviour of the server.                      *)
THEOREM TypeCorrect == Spec => []TypeOK
<1>1. Init => TypeOK
  BY NoneAssumption DEF Init, TypeOK, Phases, Stages, NoStream
<1>2. QED
  BY <1>1, TypeStep, PTL DEF Spec

(* The invariant holds of a new server and every step keeps it.            *)
LEMMA Inductive == Spec => []IInv
<1> USE NoneAssumption DEF serverVars, connVars, objectVars
<1>1. Init => IInv
  BY DEF Init, IInv, TypeOK, ViewersAreHere, IdleEntryHasOwner, HolderInv,
         HiddenIsWatched, Unlocked, Phases, Stages, NoStream
<1>2. IInv /\ [Next]_vars => IInv'
  <2> SUFFICES ASSUME IInv, [Next]_vars
               PROVE  IInv'
    OBVIOUS
  <2>0. TypeOK /\ TypeOK'
    BY TypeStep DEF IInv
  <2> USE DEF IInv, ViewersAreHere, IdleEntryHasOwner, HolderInv,
              HiddenIsWatched, Unlocked
  <2>1. ASSUME NEW c \in Conns, Accept(c) PROVE IInv'
    BY <2>1, <2>0 DEF Accept, TypeOK
  <2>2. ASSUME NEW c \in Conns, GetStream(c) PROVE IInv'
    BY <2>2, <2>0 DEF GetStream, Free, TypeOK
  <2>3. ASSUME NEW c \in Conns, ReadInactive(c) PROVE IInv'
    BY <2>3, <2>0 DEF ReadInactive, Free, TypeOK
  <2>4. ASSUME NEW c \in Conns, NothingToReuse(c) PROVE IInv'
    BY <2>4, <2>0
       DEF NothingToReuse, Free, TypeOK, FlagConnecting, Connecting, Phases
  <2>5. ASSUME NEW c \in Conns, NEW o \in Streams, CreateStream(c, o)
         PROVE  IInv'
    BY <2>5, <2>0 DEF CreateStream, Unused, TypeOK
  <2>6. ASSUME NEW c \in Conns, CreateFails(c) PROVE IInv'
    BY <2>6, <2>0 DEF CreateFails, TypeOK
  <2>7. ASSUME NEW c \in Conns, ListClient(c) PROVE IInv'
    BY <2>7, <2>0 DEF ListClient, TypeOK
  <2>8. ASSUME NEW c \in Conns, AddClient(c) PROVE IInv'
    BY <2>8, <2>0 DEF AddClient, TypeOK
  <2>9. ASSUME NEW c \in Conns, Disconnect(c) PROVE IInv'
    BY <2>9, <2>0 DEF Disconnect, TypeOK
  <2>10. ASSUME NEW c \in Conns, RemoveClient(c) PROVE IInv'
    BY <2>10, <2>0 DEF RemoveClient, Free, TypeOK
  <2>11. ASSUME NEW c \in Conns, RemoveFromStream(c) PROVE IInv'
    BY <2>11, <2>0 DEF RemoveFromStream, TypeOK
  <2>12. ASSUME NEW o \in Streams, StartBegins(o) PROVE IInv'
    BY <2>12, <2>0 DEF StartBegins, TypeOK
  <2>13. ASSUME NEW o \in Streams, StartReturns(o) PROVE IInv'
    BY <2>13, <2>0 DEF StartReturns, TypeOK
  <2>14. ASSUME NEW o \in Streams, StartUnwatched(o) PROVE IInv'
    BY <2>14, <2>0 DEF StartUnwatched, StopStreamInternal, TypeOK
  <2>15. ASSUME NEW o \in Streams, RetryAborted(o) PROVE IInv'
    BY <2>15, <2>0 DEF RetryAborted, TypeOK
  <2>16. ASSUME NEW o \in Streams, Retire(o) PROVE IInv'
    BY <2>16, <2>0 DEF Retire, StopStreamInternal, TypeOK
  <2>17. ASSUME NEW o \in Streams, BridgeError(o) PROVE IInv'
    BY <2>17, <2>0 DEF BridgeError, TypeOK
  <2>18. ASSUME NEW o \in Streams, BridgeReplaced(o) PROVE IInv'
    BY <2>18, <2>0 DEF BridgeReplaced, TypeOK
  <2>19. ASSUME NEW o \in Streams, RemoveStream(o) PROVE IInv'
    BY <2>19, <2>0 DEF RemoveStream, Free, TypeOK
  <2>20. ASSUME Cleanup PROVE IInv'
    BY <2>20, <2>0 DEF Cleanup, Free, TypeOK
  <2>21. ASSUME StopServer PROVE IInv'
    BY <2>21, <2>0 DEF StopServer, Free, TypeOK
  <2>22. ASSUME NEW c \in Conns, StopRemoves(c) PROVE IInv'
    BY <2>22, <2>0 DEF StopRemoves, TypeOK
  <2>23. ASSUME StopFinishes PROVE IInv'
    BY <2>23, <2>0 DEF StopFinishes, StopStreamInternal, TypeOK
  <2>24. CASE UNCHANGED vars
    BY <2>24, <2>0 DEF vars, TypeOK
  <2>25. QED
    BY <2>1, <2>2, <2>3, <2>4, <2>5, <2>6, <2>7, <2>8, <2>9, <2>10, <2>11,
       <2>12, <2>13, <2>14, <2>15, <2>16, <2>17, <2>18, <2>19, <2>20,
       <2>21, <2>22, <2>23, <2>24
       DEF Next, ConnectionStep, ObjectStep, ServerStep
<1>3. QED
  BY <1>1, <1>2, PTL DEF Spec

(* Only connections that are attached to an object count as its viewers.   *)
THEOREM ViewersAttached == Spec => []ViewersAreHere
  BY Inductive, PTL DEF IInv

(* A dead object in the registry has its removal or a connection coming.   *)
THEOREM NoDeadEntries == Spec => []IdleEntryHasOwner
  BY Inductive, PTL DEF IInv

(* The entry of a session that is up or coming up is deleted only by its   *)
(* own removal, and only one that is watched is hidden by a new object.    *)
THEOREM LiveEntriesNotLost == Spec => LiveEntryNotLost
<1> DEFINE Kept ==
      streams # none /\ phase[streams] # "idle" /\ streams' # streams
        => IF streams' = none
           THEN streams \in removing
           ELSE viewers[streams] # {}
<1>1. IInv /\ [Next]_vars => [Kept]_vars
  <2> SUFFICES ASSUME IInv, [Next]_vars
               PROVE  Kept
    OBVIOUS
  <2> USE NoneAssumption DEF IInv, TypeOK, serverVars, connVars, objectVars
  <2>1. ASSUME NEW c \in Conns, Accept(c) PROVE Kept
    BY <2>1 DEF Accept
  <2>2. ASSUME NEW c \in Conns, GetStream(c) PROVE Kept
    BY <2>2 DEF GetStream, Free
  <2>3. ASSUME NEW c \in Conns, ReadInactive(c) PROVE Kept
    BY <2>3 DEF ReadInactive, Free
  <2>4. ASSUME NEW c \in Conns, NothingToReuse(c) PROVE Kept
    BY <2>4 DEF NothingToReuse, Free
  <2>5. ASSUME NEW c \in Conns, NEW o \in Streams, CreateStream(c, o)
         PROVE  Kept
    BY <2>5 DEF CreateStream, Unused, HiddenIsWatched
  <2>6. ASSUME NEW c \in Conns, CreateFails(c) PROVE Kept
    BY <2>6 DEF CreateFails
  <2>7. ASSUME NEW c \in Conns, ListClient(c) PROVE Kept
    BY <2>7 DEF ListClient
  <2>8. ASSUME NEW c \in Conns, AddClient(c) PROVE Kept
    BY <2>8 DEF AddClient, Unlocked
  <2>9. ASSUME NEW c \in Conns, Disconnect(c) PROVE Kept
    BY <2>9 DEF Disconnect
  <2>10. ASSUME NEW c \in Conns, RemoveClient(c) PROVE Kept
    BY <2>10 DEF RemoveClient, Free
  <2>11. ASSUME NEW c \in Conns, RemoveFromStream(c) PROVE Kept
    BY <2>11 DEF RemoveFromStream, Unlocked
  <2>12. ASSUME NEW o \in Streams, StartBegins(o) PROVE Kept
    BY <2>12 DEF StartBegins
  <2>13. ASSUME NEW o \in Streams, StartReturns(o) PROVE Kept
    BY <2>13 DEF StartReturns
  <2>14. ASSUME NEW o \in Streams, StartUnwatched(o) PROVE Kept
    BY <2>14 DEF StartUnwatched, StopStreamInternal
  <2>15. ASSUME NEW o \in Streams, RetryAborted(o) PROVE Kept
    BY <2>15 DEF RetryAborted
  <2>16. ASSUME NEW o \in Streams, Retire(o) PROVE Kept
    BY <2>16 DEF Retire, StopStreamInternal
  <2>17. ASSUME NEW o \in Streams, BridgeError(o) PROVE Kept
    BY <2>17 DEF BridgeError
  <2>18. ASSUME NEW o \in Streams, BridgeReplaced(o) PROVE Kept
    BY <2>18 DEF BridgeReplaced
  <2>19. ASSUME NEW o \in Streams, RemoveStream(o) PROVE Kept
    BY <2>19 DEF RemoveStream
  <2>20. ASSUME Cleanup PROVE Kept
    BY <2>20 DEF Cleanup
  <2>21. ASSUME StopServer PROVE Kept
    BY <2>21 DEF StopServer, Free
  <2>22. ASSUME NEW c \in Conns, StopRemoves(c) PROVE Kept
    BY <2>22 DEF StopRemoves, Unlocked
  <2>23. ASSUME StopFinishes PROVE Kept
    BY <2>23 DEF StopFinishes, StopStreamInternal, Unlocked
  <2>24. CASE UNCHANGED vars
    BY <2>24 DEF vars
  <2>25. QED
    BY <2>1, <2>2, <2>3, <2>4, <2>5, <2>6, <2>7, <2>8, <2>9, <2>10, <2>11,
       <2>12, <2>13, <2>14, <2>15, <2>16, <2>17, <2>18, <2>19, <2>20,
       <2>21, <2>22, <2>23, <2>24
       DEF Next, ConnectionStep, ObjectStep, ServerStep
<1>2. QED
  BY <1>1, Inductive, PTL DEF Spec, LiveEntryNotLost

(* Every object of the registry implements StreamLifecycle.                *)
THEOREM ObjectsImplement == Spec => ObjectsAreSessions
<1>1. Init => \A o \in Streams : Session(o)!Init
  BY DEF Init, Session!Init, FlagConnecting, Connecting
<1>2. IInv /\ [Next]_vars => [\A o \in Streams : SessionStep(o)]_vars
  <2> SUFFICES ASSUME IInv, [Next]_vars, NEW p \in Streams
               PROVE  SessionStep(p)
    OBVIOUS
  <2> USE NoneAssumption
      DEF IInv, TypeOK, serverVars, connVars, objectVars, FlagConnecting,
          Connecting, Session!vars, SessionStep
  <2>1. ASSUME NEW c \in Conns, Accept(c) PROVE SessionStep(p)
    BY <2>1 DEF Accept
  <2>2. ASSUME NEW c \in Conns, GetStream(c) PROVE SessionStep(p)
    BY <2>2 DEF GetStream, Free
  <2>3. ASSUME NEW c \in Conns, ReadInactive(c) PROVE SessionStep(p)
    BY <2>3 DEF ReadInactive, Free
  <2>4. ASSUME NEW c \in Conns, NothingToReuse(c) PROVE SessionStep(p)
    BY <2>4 DEF NothingToReuse, Free
  <2>5. ASSUME NEW c \in Conns, NEW o \in Streams, CreateStream(c, o)
         PROVE  SessionStep(p)
    BY <2>5 DEF CreateStream, Unused
  <2>6. ASSUME NEW c \in Conns, CreateFails(c) PROVE SessionStep(p)
    BY <2>6 DEF CreateFails
  <2>7. ASSUME NEW c \in Conns, ListClient(c) PROVE SessionStep(p)
    BY <2>7 DEF ListClient
  <2>8. ASSUME NEW c \in Conns, AddClient(c) PROVE SessionStep(p)
    BY <2>8 DEF AddClient, Unlocked, Session!Next, Session!Join
  <2>9. ASSUME NEW c \in Conns, Disconnect(c) PROVE SessionStep(p)
    BY <2>9 DEF Disconnect
  <2>10. ASSUME NEW c \in Conns, RemoveClient(c) PROVE SessionStep(p)
    BY <2>10 DEF RemoveClient, Free
  <2>11. ASSUME NEW c \in Conns, RemoveFromStream(c) PROVE SessionStep(p)
    BY <2>11 DEF RemoveFromStream, Unlocked, Session!Next, Session!Leave
  <2>12. ASSUME NEW o \in Streams, StartBegins(o) PROVE SessionStep(p)
    BY <2>12 DEF StartBegins
  <2>13. ASSUME NEW o \in Streams, StartReturns(o) PROVE SessionStep(p)
    BY <2>13 DEF StartReturns, Session!Next, Session!Establish, Unlocked
  <2>14. ASSUME NEW o \in Streams, StartUnwatched(o) PROVE SessionStep(p)
    BY <2>14
       DEF StartUnwatched, StopStreamInternal, Session!Next, Session!Retire
  <2>15. ASSUME NEW o \in Streams, RetryAborted(o) PROVE SessionStep(p)
    BY <2>15 DEF RetryAborted
  <2>16. ASSUME NEW o \in Streams, Retire(o) PROVE SessionStep(p)
    BY <2>16 DEF Retire, StopStreamInternal, Session!Next, Session!Retire
  <2>17. ASSUME NEW o \in Streams, BridgeError(o) PROVE SessionStep(p)
    BY <2>17 DEF BridgeError, Session!Next, Session!Break
  <2>18. ASSUME NEW o \in Streams, BridgeReplaced(o) PROVE SessionStep(p)
    BY <2>18 DEF BridgeReplaced
  <2>19. ASSUME NEW o \in Streams, RemoveStream(o) PROVE SessionStep(p)
    BY <2>19 DEF RemoveStream
  <2>20. ASSUME Cleanup PROVE SessionStep(p)
    BY <2>20 DEF Cleanup
  <2>21. ASSUME StopServer PROVE SessionStep(p)
    BY <2>21 DEF StopServer, Free, Session!Next, Session!GoDown
  <2>22. ASSUME NEW c \in Conns, StopRemoves(c) PROVE SessionStep(p)
    BY <2>22 DEF StopRemoves, Unlocked, Session!Next, Session!Leave
  <2>23. ASSUME StopFinishes PROVE SessionStep(p)
    <3>1. CASE p = streams /\ phase[p] # "idle"
      BY <2>23, <3>1
         DEF StopFinishes, StopStreamInternal, HolderInv, Session!Next,
             Session!Retire
    <3>2. CASE ~(p = streams /\ phase[p] # "idle")
      <4>1. UNCHANGED <<phase[p], viewers[p]>>
        BY <2>23, <3>2 DEF StopFinishes, StopStreamInternal
      <4>2. server' # "running"
        BY <2>23 DEF StopFinishes
      <4>3. QED
        BY <4>1, <4>2 DEF Session!Next, Session!GoDown
    <3>3. QED
      BY <3>1, <3>2
  <2>24. CASE UNCHANGED vars
    BY <2>24 DEF vars
  <2>25. QED
    BY <2>1, <2>2, <2>3, <2>4, <2>5, <2>6, <2>7, <2>8, <2>9, <2>10, <2>11,
       <2>12, <2>13, <2>14, <2>15, <2>16, <2>17, <2>18, <2>19, <2>20,
       <2>21, <2>22, <2>23, <2>24
       DEF Next, ConnectionStep, ObjectStep, ServerStep
<1>3. QED
  BY <1>1, <1>2, Inductive, PTL DEF Spec, ObjectsAreSessions

=============================================================================
