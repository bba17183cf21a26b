--------------------------- MODULE MediaPlaneProofs ---------------------------
(***************************************************************************)
(* Proofs about MediaPlane, for any number of connections.                 *)
(***************************************************************************)
EXTENDS MediaPlane, TLAPS

(* No step takes a variable out of its range.                              *)
LEMMA TypeStep == TypeOK /\ [Next]_vars => TypeOK'
<1> SUFFICES ASSUME TypeOK, [Next]_vars
             PROVE  TypeOK'
  OBVIOUS
<1> USE DEF TypeOK, streamVars, connVars, Phases, Transports, Requests, Idle
<1>1. ASSUME NEW c \in Conns, Accept(c) PROVE TypeOK'
  BY <1>1 DEF Accept
<1>2. ASSUME NEW c \in Conns, Refuse(c) PROVE TypeOK'
  BY <1>2 DEF Refuse
<1>3. ASSUME NEW c \in Conns, AddClient(c) PROVE TypeOK'
  BY <1>3 DEF AddClient
<1>4. ASSUME NEW c \in Conns, NEW t \in Transports, Setup(c, t) PROVE TypeOK'
  BY <1>4 DEF Setup, Serves, Forwarder
<1>5. ASSUME NEW c \in Conns, SetupDone(c) PROVE TypeOK'
  BY <1>5 DEF SetupDone, Tell, ReadyAgain
<1>5a. ASSUME NEW c \in Conns, SetupBare(c) PROVE TypeOK'
  BY <1>5a DEF SetupBare, Tell, ReadyAgain
<1>6. ASSUME NEW c \in Conns, SetupFails(c) PROVE TypeOK'
  BY <1>6 DEF SetupFails
<1>7. ASSUME NEW c \in Conns, Play(c) PROVE TypeOK'
  BY <1>7 DEF Play, Serves, Forwarder
<1>8. ASSUME NEW c \in Conns, PlayDone(c) PROVE TypeOK'
  BY <1>8 DEF PlayDone, Tell
<1>9. ASSUME NEW c \in Conns, Disconnect(c) PROVE TypeOK'
  BY <1>9 DEF Disconnect
<1>10. ASSUME NEW c \in Conns, RemoveClient(c) PROVE TypeOK'
  BY <1>10 DEF RemoveClient, DropEntry
<1>11. ASSUME NEW c \in Conns, WriteFails(c) PROVE TypeOK'
  BY <1>11 DEF WriteFails, DropEntry
<1>11a. ASSUME NEW c \in Conns, WriteFailsUDP(c) PROVE TypeOK'
  BY <1>11a DEF WriteFailsUDP, DropEntry
<1>12. ASSUME AttemptStart PROVE TypeOK'
  BY <1>12 DEF AttemptStart
<1>13. ASSUME StartReturns PROVE TypeOK'
  BY <1>13 DEF StartReturns
<1>14. ASSUME StopUnwatched PROVE TypeOK'
  BY <1>14 DEF StopUnwatched, StopForwarder
<1>15. ASSUME SwapBridge PROVE TypeOK'
  BY <1>15 DEF SwapBridge, ResetMedia
<1>16. ASSUME RestoreForwarder PROVE TypeOK'
  BY <1>16 DEF RestoreForwarder
<1>17. ASSUME StopServer PROVE TypeOK'
  BY <1>17 DEF StopServer
<1>18. ASSUME NEW c \in Conns, StopRemovesClient(c) PROVE TypeOK'
  BY <1>18 DEF StopRemovesClient, DropEntry
<1>19. ASSUME StopStream PROVE TypeOK'
  BY <1>19 DEF StopStream, StopForwarder
<1>20. CASE UNCHANGED vars
  BY <1>20 DEF vars
<1>21. QED
  BY <1>1, <1>2, <1>3, <1>4, <1>5, <1>5a, <1>6, <1>7, <1>8, <1>9, <1>10,
     <1>11, <1>11a, <1>12, <1>13, <1>14, <1>15, <1>16, <1>17, <1>18, <1>19, <1>20
     DEF Next, ConnStep, RequestStep, StreamStep, StopStep

(* Type correctness of every behaviour of the viewers and the stream.      *)
THEOREM TypeCorrect == Spec => []TypeOK
<1>1. Init => TypeOK
  <2> SUFFICES ASSUME Init
               PROVE  TypeOK
    OBVIOUS
  <2>1. running \in BOOLEAN /\ phase \in Phases /\ started \in BOOLEAN
        /\ resume \in {"connecting", "starting"}
    BY DEF Init, Phases
  <2>2. viewers \subseteq Conns /\ open \subseteq Conns
        /\ conn \in [Conns -> {"away", "connected", "watching", "leaving"}]
    BY DEF Init
  <2>3. request \in [Conns -> Requests]
    BY DEF Init, Requests, Idle
  <2>4. told \in [Conns -> {"nothing", "ready", "promised", "misled"}]
    BY DEF Init
  <2>5. /\ entry \in [Conns -> {"none"} \cup Transports]
        /\ playing \subseteq {c \in Conns : entry[c] # "none"}
    BY DEF Init
  <2>6. QED
    BY <2>1, <2>2, <2>3, <2>4, <2>5 DEF TypeOK
<1>2. QED
  BY <1>1, TypeStep, PTL DEF Spec

-----------------------------------------------------------------------------
(* What a connection is doing agrees with what it was told: only one that  *)
(* watches is in a request or has been answered, and while the server runs *)
(* it counts as a viewer.                                                  *)
RequestInv ==
    \A c \in Conns :
        /\ request[c] # Idle => conn[c] = "watching"
        /\ request[c].op = "play" /\ c \in open => told[c] # "nothing"
        /\ told[c] # "nothing" => conn[c] = "watching"
        /\ running /\ conn[c] \in {"watching", "leaving"} => c \in viewers

(* A connection whose SETUP was answered by the retained forwarder has an  *)
(* entry in it.                                                            *)
EntryInv ==
    running => \A c \in Conns :
        told[c] \in {"ready", "promised"} /\ c \in open => entry[c] # "none"

IInv ==
    /\ TypeOK
    /\ RequestInv
    /\ EntryInv
    /\ TransportsBelongToViewers
    /\ PromiseKept

(* The invariant holds of a new server and every step keeps it.            *)
LEMMA Inductive == Spec => []IInv
<1>1. Init => IInv
  <2> SUFFICES ASSUME Init
               PROVE  IInv
    OBVIOUS
  <2>1. TypeOK
    BY DEF Init, TypeOK, Phases, Requests, Idle
  <2>2. \A c \in Conns : request[c] = Idle /\ request[c].op = "idle"
    BY DEF Init, Idle
  <2>3. RequestInv
    BY <2>2 DEF Init, RequestInv
  <2>4. EntryInv /\ TransportsBelongToViewers /\ PromiseKept
    BY DEF Init, EntryInv, TransportsBelongToViewers, PromiseKept
  <2>5. QED
    BY <2>1, <2>3, <2>4 DEF IInv
<1>2. IInv /\ [Next]_vars => IInv'
  <2> SUFFICES ASSUME IInv, [Next]_vars
               PROVE  IInv'
    OBVIOUS
  <2>0. TypeOK /\ TypeOK'
    BY TypeStep DEF IInv
  <2> USE DEF IInv, RequestInv, EntryInv, TransportsBelongToViewers,
              PromiseKept, streamVars, connVars, Idle
  <2>1. ASSUME NEW c \in Conns, Accept(c) PROVE IInv'
    BY <2>1, <2>0 DEF Accept, TypeOK
  <2>2. ASSUME NEW c \in Conns, Refuse(c) PROVE IInv'
    BY <2>2, <2>0 DEF Refuse, TypeOK
  <2>3. ASSUME NEW c \in Conns, AddClient(c) PROVE IInv'
    BY <2>3, <2>0 DEF AddClient, TypeOK
  <2>4. ASSUME NEW c \in Conns, NEW t \in Transports, Setup(c, t) PROVE IInv'
    <3>1. \A d \in Conns : d # c => request'[d] = request[d]
      BY <2>4 DEF Setup
    <3>2. request'[c].op = "setup"
      BY <2>4, <2>0 DEF Setup, TypeOK
    <3>3. conn[c] = "watching"
      BY <2>4 DEF Setup, Serves
    <3>4. UNCHANGED <<streamVars, viewers, conn, open, told, entry, playing>>
      BY <2>4 DEF Setup
    <3>5. RequestInv'
      BY <3>1, <3>2, <3>3, <3>4
    <3>6. QED
      BY <2>0, <3>4, <3>5
  <2>5. ASSUME NEW c \in Conns, SetupDone(c) PROVE IInv'
    <3>1. conn[c] = "watching" /\ request[c].transport # "none"
      BY <2>5, <2>0 DEF SetupDone, TypeOK, Requests, Transports
    <3>2. /\ \A d \in Conns : d # c => request'[d] = request[d]
          /\ request'[c] = Idle /\ request'[c].op = "idle"
      BY <2>5, <2>0 DEF SetupDone, TypeOK
    <3>3. UNCHANGED <<streamVars, viewers, conn, open, playing>>
      BY <2>5 DEF SetupDone
    <3>4. /\ \A d \in Conns : d # c => told'[d] = told[d] /\ entry'[d] = entry[d]
          /\ told'[c] \in {"ready", "promised"} /\ c \in open => entry'[c] # "none"
          /\ told'[c] = "promised" => told[c] = "promised"
          /\ entry[c] # "none" => entry'[c] # "none"
      <4>1. request[c].forwarder \in {"retained", "fresh"}
        BY <2>5, <2>0 DEF SetupDone, TypeOK, Requests
      <4>2. QED
        BY <2>5, <2>0, <3>1, <4>1 DEF SetupDone, Retained, Tell, ReadyAgain, TypeOK
    <3>5. RequestInv'
      BY <3>1, <3>2, <3>3, <3>4
    <3>6. EntryInv' /\ PromiseKept'
      BY <3>3, <3>4
    <3>7. TransportsBelongToViewers'
      BY <3>1, <3>3, <3>4
    <3>8. QED
      BY <2>0, <3>5, <3>6, <3>7
  <2>5a. ASSUME NEW c \in Conns, SetupBare(c) PROVE IInv'
    <3>1. conn[c] = "watching" /\ request[c] = Idle /\ request[c].op = "idle"
      BY <2>5a DEF SetupBare, Serves
    <3>2. UNCHANGED <<streamVars, viewers, conn, open, request, entry, playing>>
      BY <2>5a DEF SetupBare
    <3>3. /\ \A d \in Conns : d # c => told'[d] = told[d]
          /\ told'[c] \in {"ready", "promised"} /\ c \in open => entry[c] = "udp"
          /\ told'[c] = "promised" => told[c] = "promised"
      BY <2>5a, <2>0 DEF SetupBare, Tell, ReadyAgain, TypeOK
    <3>4. RequestInv'
      BY <3>1, <3>2, <3>3
    <3>5. EntryInv' /\ PromiseKept' /\ TransportsBelongToViewers'
      BY <3>2, <3>3
    <3>6. QED
      BY <2>0, <3>4, <3>5
  <2>6. ASSUME NEW c \in Conns, SetupFails(c) PROVE IInv'
    BY <2>6, <2>0 DEF SetupFails, TypeOK
  <2>7. ASSUME NEW c \in Conns, Play(c) PROVE IInv'
    <3>1. \A d \in Conns : d # c => request'[d] = request[d]
      BY <2>7 DEF Play
    <3>2. conn[c] = "watching" /\ told[c] # "nothing"
      BY <2>7 DEF Play, Serves
    <3>3. UNCHANGED <<streamVars, viewers, conn, open, told, entry, playing>>
      BY <2>7 DEF Play
    <3>4. RequestInv'
      BY <3>1, <3>2, <3>3
    <3>5. QED
      BY <2>0, <3>3, <3>4
  <2>8. ASSUME NEW c \in Conns, PlayDone(c) PROVE IInv'
    <3>1. conn[c] = "watching" /\ (c \in open => told[c] # "nothing")
      BY <2>8, <2>0 DEF PlayDone, TypeOK
    <3>2. /\ \A d \in Conns : d # c => request'[d] = request[d]
          /\ request'[c] = Idle /\ request'[c].op = "idle"
      BY <2>8, <2>0 DEF PlayDone, TypeOK
    <3>3. UNCHANGED <<streamVars, viewers, conn, open, entry>>
      BY <2>8 DEF PlayDone
    <3>4. /\ \A d \in Conns : d # c => told'[d] = told[d]
          /\ \A d \in Conns : d \in playing => d \in playing'
          /\ told'[c] \in {"ready", "promised"} => told[c] \in {"ready", "promised"}
          /\ told'[c] = "promised" /\ entry[c] # "none" /\ c \in open => c \in playing'
      <4>1. request[c].forwarder \in {"retained", "fresh"}
        BY <2>8, <2>0 DEF PlayDone, TypeOK, Requests
      <4>2. QED
        BY <2>8, <2>0, <3>1, <4>1 DEF PlayDone, Retained, Tell, TypeOK
    <3>5. RequestInv'
      BY <3>1, <3>2, <3>3, <3>4
    <3>6. EntryInv' /\ PromiseKept' /\ TransportsBelongToViewers'
      BY <3>3, <3>4
    <3>7. QED
      BY <2>0, <3>5, <3>6
  <2>9. ASSUME NEW c \in Conns, Disconnect(c) PROVE IInv'
    BY <2>9, <2>0 DEF Disconnect, TypeOK
  <2>10. ASSUME NEW c \in Conns, RemoveClient(c) PROVE IInv'
    BY <2>10, <2>0 DEF RemoveClient, DropEntry, TypeOK
  <2>11. ASSUME NEW c \in Conns, WriteFails(c) PROVE IInv'
    BY <2>11, <2>0 DEF WriteFails, DropEntry, TypeOK
  <2>11a. ASSUME NEW c \in Conns, WriteFailsUDP(c) PROVE IInv'
    BY <2>11a, <2>0 DEF WriteFailsUDP, DropEntry, TypeOK
  <2>12. ASSUME AttemptStart PROVE IInv'
    BY <2>12, <2>0 DEF AttemptStart, TypeOK
  <2>13. ASSUME StartReturns PROVE IInv'
    BY <2>13, <2>0 DEF StartReturns, TypeOK
  <2>14. ASSUME StopUnwatched PROVE IInv'
    BY <2>14, <2>0 DEF StopUnwatched, StopForwarder, TypeOK
  <2>15. ASSUME SwapBridge PROVE IInv'
    BY <2>15, <2>0 DEF SwapBridge, ResetMedia, TypeOK
  <2>16. ASSUME RestoreForwarder PROVE IInv'
    BY <2>16, <2>0 DEF RestoreForwarder, TypeOK
  <2>17. ASSUME StopServer PROVE IInv'
    BY <2>17, <2>0 DEF StopServer, TypeOK
  <2>18. ASSUME NEW c \in Conns, StopRemovesClient(c) PROVE IInv'
    BY <2>18, <2>0 DEF StopRemovesClient, DropEntry, TypeOK
  <2>19. ASSUME StopStream PROVE IInv'
    BY <2>19, <2>0 DEF StopStream, StopForwarder, TypeOK
  <2>20. CASE UNCHANGED vars
    BY <2>20, <2>0 DEF vars, TypeOK
  <2>21. QED
    BY <2>1, <2>2, <2>3, <2>4, <2>5, <2>5a, <2>6, <2>7, <2>8, <2>9, <2>10,
       <2>11, <2>11a, <2>12, <2>13, <2>14, <2>15, <2>16, <2>17, <2>18, <2>19, <2>20
       DEF Next, ConnStep, RequestStep, StreamStep, StopStep
<1>3. QED
  BY <1>1, <1>2, PTL DEF Spec

(* The forwarder sends to connections that were let in and will leave.     *)
THEOREM TransportsOwned == Spec => []TransportsBelongToViewers
  BY Inductive, PTL DEF IInv

(* Whoever was promised a picture is played to, through every replaced     *)
(* bridge, and nobody is misled but in the ways that PromiseKept lists:    *)
(* what the server has answered comes from a transport in the forwarder    *)
(* that is fed, and no step but a failed write takes it out while its      *)
(* connection stays (handleSetup, handlePlay, replaceBridge, forwarder.go).*)
THEOREM PromisesKept == Spec => []PromiseKept
  BY Inductive, PTL DEF IInv

-----------------------------------------------------------------------------
(* A Start, and a bridge that is replaced, have a viewer, whom cs.mutex    *)
(* keeps from leaving.                                                     *)
HeldForViewers == Locked => viewers # {}

LEMMA StillWatched == Spec => []HeldForViewers
<1>1. Init => HeldForViewers
  BY DEF Init, HeldForViewers, Locked
<1>2. TypeOK /\ HeldForViewers /\ [Next]_vars => HeldForViewers'
  <2> SUFFICES ASSUME TypeOK, HeldForViewers, [Next]_vars
               PROVE  HeldForViewers'
    OBVIOUS
  <2> USE DEF HeldForViewers, Locked, streamVars, connVars
  <2>1. ASSUME NEW c \in Conns, ConnStep(c) PROVE HeldForViewers'
    BY <2>1
       DEF ConnStep, Accept, Refuse, AddClient, Setup, Play, RequestStep, SetupDone, SetupBare,
           SetupFails, PlayDone, Disconnect, RemoveClient, WriteFails, WriteFailsUDP
  <2>2. CASE StreamStep
    BY <2>2
       DEF TypeOK, StreamStep, AttemptStart, StartReturns, StopUnwatched, SwapBridge,
           RestoreForwarder
  <2>3. CASE StopStep
    BY <2>3 DEF StopStep, StopServer, StopStream, StopRemovesClient
  <2>4. CASE UNCHANGED vars
    BY <2>4 DEF vars
  <2>5. QED
    BY <2>1, <2>2, <2>3, <2>4 DEF Next
<1>3. QED
  BY <1>1, <1>2, TypeCorrect, PTL DEF Spec

(* Replacing a bridge in three steps, with requests in between, is for the *)
(* viewers what StreamLifecycle says: a live session breaks only while     *)
(* somebody watches, and comes back only for a viewer (replaceBridge,      *)
(* startStream, CameraStream.Stop).                                        *)
THEOREM Implements == Spec => ImplementsLifecycle
<1>1. Init => Lifecycle!Init
  BY DEF Init, Lifecycle!Init, Session
<1>2. TypeOK /\ HeldForViewers /\ [Next]_vars => [Lifecycle!Next]_(Lifecycle!vars)
  <2> SUFFICES ASSUME TypeOK, HeldForViewers, [Next]_vars
               PROVE  [Lifecycle!Next]_(Lifecycle!vars)
    OBVIOUS
  <2> USE DEF streamVars, connVars, Session, Locked, Lifecycle!vars
  <2> DEFINE Abs == [Lifecycle!Next]_(Lifecycle!vars)
  <2>1. ASSUME NEW c \in Conns, AddClient(c) PROVE Abs
    BY <2>1 DEF AddClient, Lifecycle!Next, Lifecycle!Join
  <2>2. ASSUME NEW c \in Conns, RemoveClient(c) \/ StopRemovesClient(c) PROVE Abs
    BY <2>2
       DEF RemoveClient, StopRemovesClient, Lifecycle!Next, Lifecycle!Leave
  <2>3. ASSUME NEW c \in Conns, ConnStep(c) PROVE Abs
    BY <2>1, <2>2, <2>3
       DEF ConnStep, Accept, Refuse, Setup, Play, RequestStep, SetupDone, SetupBare,
           SetupFails, PlayDone, Disconnect, WriteFails, WriteFailsUDP
  <2>4. ASSUME AttemptStart \/ RestoreForwarder PROVE Abs
    BY <2>4 DEF AttemptStart, RestoreForwarder, TypeOK
  <2>5. ASSUME StartReturns PROVE Abs
    BY <2>5 DEF StartReturns, HeldForViewers, Lifecycle!Next, Lifecycle!Establish
  <2>6. ASSUME StopUnwatched \/ StopStream PROVE Abs
    BY <2>6 DEF StopUnwatched, StopStream, TypeOK, Phases, Lifecycle!Next,
                Lifecycle!Retire
  <2>7. ASSUME SwapBridge PROVE Abs
    BY <2>7 DEF SwapBridge, Lifecycle!Next, Lifecycle!Break
  <2>8. ASSUME StopServer PROVE Abs
    BY <2>8 DEF StopServer, Lifecycle!Next, Lifecycle!GoDown
  <2>9. ASSUME UNCHANGED vars PROVE Abs
    BY <2>9 DEF vars
  <2>10. QED
    BY <2>2, <2>3, <2>4, <2>5, <2>6, <2>7, <2>8, <2>9
       DEF Next, StreamStep, StopStep
<1>3. QED
  BY <1>1, <1>2, TypeCorrect, StillWatched, PTL
     DEF Spec, ImplementsLifecycle, Lifecycle!Spec

=============================================================================
