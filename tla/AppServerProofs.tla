---------------------------- MODULE AppServerProofs ----------------------------
(***************************************************************************)
(* Proofs about AppServer, for any number of cameras, bridges, setups and  *)
(* regenerations of credentials.                                           *)
(***************************************************************************)
EXTENDS AppServer, WellFoundedInduction, TLAPS

(* A set of cameras that is not empty has a least member.                  *)
LEMMA LeastIsIn ==
    ASSUME NEW S \in SUBSET Cameras, S # {}
    PROVE  Least(S) \in S
<1> DEFINE R == {ss \in Nat \X Nat : ss[1] < ss[2]}
<1>1. S \subseteq Nat
  BY CamerasAssumption DEF Cameras
<1>2. IsWellFoundedOn(R, Nat)
  BY NatLessThanWellFounded DEF OpToRel
<1>3. PICK x \in S : \A y \in S : ~ (<<y, x>> \in R)
  <2> HIDE DEF R
  <2> QED
    BY <1>1, <1>2, WFMin
<1>4. \A y \in S : x <= y
  <2> TAKE y \in S
  <2>1. x \in Nat /\ y \in Nat
    BY <1>1
  <2>2. y < x => <<y, x>> \in R
    BY <2>1
  <2>3. QED
    BY <1>3, <2>1, <2>2
<1>5. QED
  BY <1>4 DEF Least

(* An operation that will make a new version was let in when there was one *)
(* left.                                                                   *)
VersionInv ==
    /\ step \in {"publish", "published"} => op = "configure"
    /\ \/ op = "configure" /\ step = "helper"
       \/ op = "regenerate" /\ step \in {"stop", "wait"}
       => version < MaxVersion

LEMMA VersionStep == TypeOK /\ VersionInv /\ [Next]_vars => VersionInv'
<1> SUFFICES ASSUME TypeOK, VersionInv, [Next]_vars
             PROVE  VersionInv'
  OBVIOUS
<1> USE NoneAssumption
    DEF TypeOK, VersionInv, opVars, bridgeVars, childVars, fileVars, Operations
<1>1. ASSUME AppStarts PROVE VersionInv'
  BY <1>1 DEF AppStarts, StartBridge, MayStart
<1>2. ASSUME Terminate PROVE VersionInv'
  BY <1>2 DEF Terminate
<1>3. ASSUME AppEnds PROVE VersionInv'
  BY <1>3 DEF AppEnds
<1>4. ASSUME NEW o \in Operations, Begin(o) PROVE VersionInv'
  BY <1>4 DEF Begin, FirstStep
<1>5. ASSUME Answer PROVE VersionInv'
  BY <1>5 DEF Answer, Finish
<1>6. ASSUME Upload PROVE VersionInv'
  BY <1>6 DEF Upload, Finish
<1>7. ASSUME HelperEnds PROVE VersionInv'
  BY <1>7 DEF HelperEnds, Finish
<1>8. ASSUME HelperPublishes PROVE VersionInv'
  BY <1>8 DEF HelperPublishes
<1>9. ASSUME MoveManifest PROVE VersionInv'
  BY <1>9 DEF MoveManifest
<1>10. ASSUME HelperBreaksOff PROVE VersionInv'
  BY <1>10 DEF HelperBreaksOff, Finish
<1>11. ASSUME HelperDone PROVE VersionInv'
  BY <1>11 DEF HelperDone, Finish
<1>12. ASSUME NothingToStop PROVE VersionInv'
  BY <1>12 DEF NothingToStop, AfterStop
<1>13. ASSUME StopBridge PROVE VersionInv'
  BY <1>13 DEF StopBridge
<1>14. ASSUME Waited PROVE VersionInv'
  BY <1>14 DEF Waited, AfterStop
<1>15. ASSUME RenamesDone PROVE VersionInv'
  BY <1>15 DEF RenamesDone
<1>16. ASSUME RenameFails PROVE VersionInv'
  BY <1>16 DEF RenameFails
<1>17. ASSUME OpStarts PROVE VersionInv'
  BY <1>17 DEF OpStarts, StartBridge, MayStart, Finish
<1>18. ASSUME NEW i \in Cameras, MoveFile(i) PROVE VersionInv'
  BY <1>18 DEF MoveFile
<1>19. ASSUME WaitCancelled PROVE VersionInv'
  BY <1>19 DEF WaitCancelled, Finish
<1>20. ASSUME NEW b \in Bridges, LoadCameras(b) PROVE VersionInv'
  BY <1>20 DEF LoadCameras, SupTo
<1>21. ASSUME NEW b \in Bridges, RunRefuses(b) PROVE VersionInv'
  BY <1>21 DEF RunRefuses, SupTo
<1>22. ASSUME NEW b \in Bridges, PortsFree(b) PROVE VersionInv'
  BY <1>22 DEF PortsFree, SupTo
<1>23. ASSUME NEW b \in Bridges, StartChild(b) PROVE VersionInv'
  BY <1>23 DEF StartChild, SupTo
<1>24. ASSUME NEW b \in Bridges, StartChildFails(b) PROVE VersionInv'
  BY <1>24 DEF StartChildFails, SupTo
<1>25. ASSUME NEW b \in Bridges, ChildReady(b) PROVE VersionInv'
  BY <1>25 DEF ChildReady, SupTo
<1>26. ASSUME NEW b \in Bridges, ChildFails(b) PROVE VersionInv'
  BY <1>26 DEF ChildFails, SupTo
<1>27. ASSUME NEW b \in Bridges, ChildTimesOut(b) PROVE VersionInv'
  BY <1>27 DEF ChildTimesOut, SupTo
<1>28. ASSUME NEW b \in Bridges, AllStarted(b) PROVE VersionInv'
  BY <1>28 DEF AllStarted, SupTo
<1>29. ASSUME NEW b \in Bridges, RunCancelled(b) PROVE VersionInv'
  BY <1>29 DEF RunCancelled, SupTo
<1>30. ASSUME NEW b \in Bridges, NEW i \in Cameras, ChildStopped(b, i)
       PROVE  VersionInv'
  BY <1>30 DEF ChildStopped, SupTo
<1>31. ASSUME NEW b \in Bridges, StopChild(b) PROVE VersionInv'
  BY <1>31 DEF StopChild, Exit, Alive
<1>32. ASSUME NEW b \in Bridges, ChildGone(b) PROVE VersionInv'
  BY <1>32 DEF ChildGone
<1>33. ASSUME NEW b \in Bridges, Stopped(b) PROVE VersionInv'
  BY <1>33 DEF Stopped, SupTo
<1>34. ASSUME NEW b \in Bridges, BridgeReturns(b) PROVE VersionInv'
  BY <1>34 DEF BridgeReturns
<1>35. ASSUME NEW b \in Bridges, BridgeCloses(b) PROVE VersionInv'
  BY <1>35 DEF BridgeCloses
<1>36. ASSUME NEW i \in Cameras, Boots(i) PROVE VersionInv'
  BY <1>36 DEF Boots
<1>37. ASSUME NEW i \in Cameras, Exit(i) PROVE VersionInv'
  BY <1>37 DEF Exit, Alive
<1>38. CASE UNCHANGED vars
  BY <1>38 DEF vars
<1>39. QED
  BY <1>1, <1>2, <1>3, <1>4, <1>5, <1>6, <1>7, <1>8, <1>9, <1>10, <1>11,
     <1>12, <1>13, <1>14, <1>15, <1>16, <1>17, <1>18, <1>19, <1>20, <1>21,
     <1>22, <1>23, <1>24, <1>25, <1>26, <1>27, <1>28, <1>29, <1>30, <1>31,
     <1>32, <1>33, <1>34, <1>35, <1>36, <1>37, <1>38
     DEF Next, AppStep, OpStep, SupStep

(* Version 0: no configuration.                                            *)
LEMMA ZeroVersion == 0 \in 0..MaxVersion
  BY VersionAssumption

(* A bridge is started, or one runs: the variables stay in range.          *)
LEMMA StartBridgeType ==
    ASSUME TypeOK, StartBridge
    PROVE  /\ running' \in BOOLEAN
           /\ cancelOf' \in Bridges \cup {none} /\ doneOf' \in Bridges \cup {none}
           /\ cancelled' \subseteq Bridges
           /\ sup' \in [Bridges -> SupStages]
<1>1. CASE running
  BY <1>1 DEF TypeOK, StartBridge, MayStart, bridgeVars
<1>2. CASE ~ running
  <2>1. PICK b \in Bridges :
           /\ sup' = [sup EXCEPT ![b] = "load"]
           /\ running' = TRUE /\ cancelOf' = b /\ doneOf' = b
           /\ UNCHANGED cancelled
    BY <1>2 DEF StartBridge, MayStart
  <2>2. QED
    BY <2>1 DEF TypeOK, SupStages
<1>3. QED
  BY <1>1, <1>2

(* No step takes a variable out of its range.                              *)
LEMMA TypeStep == TypeOK /\ VersionInv /\ [Next]_vars => TypeOK'
<1> SUFFICES ASSUME TypeOK, VersionInv, [Next]_vars
             PROVE  TypeOK'
  OBVIOUS
<1> USE CamerasAssumption, VersionAssumption, NoneAssumption
    DEF TypeOK, opVars, bridgeVars, childVars, fileVars, Operations, Steps,
        SupStages
<1>1. ASSUME AppStarts PROVE TypeOK'
  <2>1. UNCHANGED <<bridgeVars, sup>> \/ StartBridge
    BY <1>1 DEF AppStarts
  <2>2. UNCHANGED <<opVars, listed, children, childVars, fileVars>>
    BY <1>1 DEF AppStarts
  <2>3. app' \in {"down", "up", "terminating"} /\ ready' \in BOOLEAN
    BY <1>1 DEF AppStarts, Configured
  <2>4. QED
    BY <2>1, <2>2, <2>3, StartBridgeType
<1>2. ASSUME Terminate PROVE TypeOK'
  BY <1>2 DEF Terminate
<1>3. ASSUME AppEnds PROVE TypeOK'
  <2>1. op' = none /\ step' = "idle" /\ awaited' = none /\ pending' = {}
    BY <1>3 DEF AppEnds
  <2>2. /\ app' = "down" /\ ready' = FALSE /\ running' = FALSE /\ torn' = FALSE
        /\ cancelOf' = none /\ doneOf' = none /\ cancelled' = {}
    BY <1>3 DEF AppEnds
  <2>3. /\ sup' = [b \in Bridges |-> "none"]
        /\ listed' = [b \in Bridges |-> {}] /\ children' = [b \in Bridges |-> {}]
    BY <1>3 DEF AppEnds
  <2>4. /\ proc' = [i \in Cameras |-> "none"] /\ done' = [i \in Cameras |-> "empty"]
        /\ served' = [i \in Cameras |-> 0]
    BY <1>3 DEF AppEnds
  <2>5. UNCHANGED <<conf, manifest, version>>
    BY <1>3 DEF AppEnds
  <2>6. /\ proc' \in [Cameras -> {"none", "booting", "ready", "exited"}]
        /\ done' \in [Cameras -> {"empty", "value", "drained"}]
        /\ served' \in [Cameras -> 0..MaxVersion]
    BY <2>4
  <2>7. /\ sup' \in [Bridges -> SupStages]
        /\ listed' \in [Bridges -> SUBSET Cameras]
        /\ children' \in [Bridges -> SUBSET Cameras]
    BY <2>3
  <2>8. QED
    BY <2>1, <2>2, <2>5, <2>6, <2>7
<1>4. ASSUME NEW o \in Operations, Begin(o) PROVE TypeOK'
  BY <1>4 DEF Begin, FirstStep
<1>5. ASSUME Answer PROVE TypeOK'
  BY <1>5 DEF Answer, Finish
<1>6. ASSUME Upload PROVE TypeOK'
  BY <1>6 DEF Upload, Finish
<1>7. ASSUME HelperEnds PROVE TypeOK'
  BY <1>7 DEF HelperEnds, Finish
<1>8. ASSUME HelperPublishes PROVE TypeOK'
  <2>1. version' \in 0..MaxVersion
    BY <1>8 DEF HelperPublishes, VersionInv
  <2>2. op' = op /\ op # none /\ step' = "publish" /\ pending' = Cameras
    BY <1>8 DEF HelperPublishes
  <2>3. UNCHANGED <<app, ready, awaited, bridgeVars, sup, listed, children,
                    childVars, conf, manifest, torn>>
    BY <1>8 DEF HelperPublishes
  <2>4. QED
    BY <2>1, <2>2, <2>3
<1>9. ASSUME MoveManifest PROVE TypeOK'
  BY <1>9 DEF MoveManifest
<1>10. ASSUME HelperBreaksOff PROVE TypeOK'
  BY <1>10 DEF HelperBreaksOff, Finish
<1>11. ASSUME HelperDone PROVE TypeOK'
  BY <1>11 DEF HelperDone, Finish
<1>12. ASSUME NothingToStop PROVE TypeOK'
  <2>1. /\ version' \in 0..MaxVersion /\ pending' \subseteq Cameras
        /\ step' \in {"rename", "start"}
    BY <1>12 DEF NothingToStop, AfterStop, VersionInv
  <2>2. op' = op /\ op # none /\ awaited' = awaited
    BY <1>12 DEF NothingToStop
  <2>3. UNCHANGED <<app, ready, bridgeVars, sup, listed, children, childVars,
                    conf, manifest, torn>>
    BY <1>12 DEF NothingToStop
  <2>4. QED
    BY <2>1, <2>2, <2>3
<1>13. ASSUME StopBridge PROVE TypeOK'
  BY <1>13 DEF StopBridge
<1>14. ASSUME Waited PROVE TypeOK'
  <2>1. /\ version' \in 0..MaxVersion /\ pending' \subseteq Cameras
        /\ step' \in {"rename", "start"}
    BY <1>14 DEF Waited, AfterStop, VersionInv
  <2>2. op' = op /\ op # none /\ awaited' = none
    BY <1>14 DEF Waited
  <2>3. UNCHANGED <<app, ready, bridgeVars, sup, listed, children, childVars,
                    conf, manifest, torn>>
    BY <1>14 DEF Waited
  <2>4. QED
    BY <2>1, <2>2, <2>3
<1>15. ASSUME RenamesDone PROVE TypeOK'
  BY <1>15 DEF RenamesDone
<1>16. ASSUME RenameFails PROVE TypeOK'
  BY <1>16 DEF RenameFails
<1>17. ASSUME OpStarts PROVE TypeOK'
  <2>1. UNCHANGED <<bridgeVars, sup>> \/ StartBridge
    BY <1>17 DEF OpStarts
  <2>2. op' = none /\ step' = "idle" /\ awaited' = none /\ pending' = {}
    BY <1>17 DEF OpStarts, Finish
  <2>3. UNCHANGED <<app, ready, listed, children, childVars, fileVars>>
    BY <1>17 DEF OpStarts
  <2>4. QED
    BY <2>1, <2>2, <2>3, StartBridgeType
<1>18. ASSUME NEW i \in Cameras, MoveFile(i) PROVE TypeOK'
  BY <1>18 DEF MoveFile
<1>19. ASSUME WaitCancelled PROVE TypeOK'
  BY <1>19 DEF WaitCancelled, Finish
<1>20. ASSUME NEW b \in Bridges, LoadCameras(b) PROVE TypeOK'
  BY <1>20 DEF LoadCameras, SupTo
<1>21. ASSUME NEW b \in Bridges, RunRefuses(b) PROVE TypeOK'
  BY <1>21 DEF RunRefuses, SupTo
<1>22. ASSUME NEW b \in Bridges, PortsFree(b) PROVE TypeOK'
  BY <1>22 DEF PortsFree, SupTo
<1>23. ASSUME NEW b \in Bridges, StartChild(b) PROVE TypeOK'
  <2> DEFINE k == Least(listed[b] \ children[b])
  <2>1. k \in Cameras
    BY <1>23, LeastIsIn DEF StartChild
  <2>2. children' = [children EXCEPT ![b] = @ \cup {k}]
    BY <1>23 DEF StartChild
  <2>3. /\ proc' = [proc EXCEPT ![k] = "booting"]
        /\ done' = [done EXCEPT ![k] = "empty"]
        /\ served' = [served EXCEPT ![k] = 0]
    BY <1>23 DEF StartChild
  <2>4. sup' = [sup EXCEPT ![b] = "booting"]
    BY <1>23 DEF StartChild, SupTo
  <2>5. UNCHANGED <<app, ready, opVars, bridgeVars, listed, fileVars>>
    BY <1>23 DEF StartChild
  <2> HIDE DEF k
  <2>6. children' \in [Bridges -> SUBSET Cameras]
    BY <2>1, <2>2
  <2>7. proc' \in [Cameras -> {"none", "booting", "ready", "exited"}]
    BY <2>3
  <2>8. done' \in [Cameras -> {"empty", "value", "drained"}]
    BY <2>3
  <2>9. served' \in [Cameras -> 0..MaxVersion]
    BY <2>3, ZeroVersion
  <2>10. sup' \in [Bridges -> SupStages]
    BY <2>4
  <2>11. QED
    BY <2>5, <2>6, <2>7, <2>8, <2>9, <2>10
<1>24. ASSUME NEW b \in Bridges, StartChildFails(b) PROVE TypeOK'
  BY <1>24 DEF StartChildFails, SupTo
<1>25. ASSUME NEW b \in Bridges, ChildReady(b) PROVE TypeOK'
  BY <1>25 DEF ChildReady, SupTo
<1>26. ASSUME NEW b \in Bridges, ChildFails(b) PROVE TypeOK'
  <2>1. done' = [done EXCEPT ![Newest(b)] = "drained"]
    BY <1>26 DEF ChildFails
  <2>2. done' \in [Cameras -> {"empty", "value", "drained"}]
    BY <2>1
  <2>3. /\ sup' = [sup EXCEPT ![b] = "stopping"]
        /\ UNCHANGED <<app, ready, opVars, bridgeVars, listed, children, proc,
                       served, fileVars>>
    BY <1>26 DEF ChildFails, SupTo
  <2>4. QED
    BY <2>2, <2>3
<1>27. ASSUME NEW b \in Bridges, ChildTimesOut(b) PROVE TypeOK'
  BY <1>27 DEF ChildTimesOut, SupTo
<1>28. ASSUME NEW b \in Bridges, AllStarted(b) PROVE TypeOK'
  BY <1>28 DEF AllStarted, SupTo
<1>29. ASSUME NEW b \in Bridges, RunCancelled(b) PROVE TypeOK'
  BY <1>29 DEF RunCancelled, SupTo
<1>30. ASSUME NEW b \in Bridges, NEW i \in Cameras, ChildStopped(b, i)
       PROVE  TypeOK'
  BY <1>30 DEF ChildStopped, SupTo
<1>31. ASSUME NEW b \in Bridges, StopChild(b) PROVE TypeOK'
  <2> DEFINE k == Least(children[b])
  <2>1. /\ proc' = [proc EXCEPT ![k] = "exited"]
        /\ done' = [done EXCEPT ![k] = "value"]
        /\ UNCHANGED <<app, ready, opVars, bridgeVars, sup, listed, children,
                       served, fileVars>>
    BY <1>31 DEF StopChild, Exit
  <2> HIDE DEF k
  <2>2. proc' \in [Cameras -> {"none", "booting", "ready", "exited"}]
    BY <2>1
  <2>3. done' \in [Cameras -> {"empty", "value", "drained"}]
    BY <2>1
  <2>4. QED
    BY <2>1, <2>2, <2>3
<1>32. ASSUME NEW b \in Bridges, ChildGone(b) PROVE TypeOK'
  <2> DEFINE k == Least(children[b])
  <2>1. /\ done' = [done EXCEPT ![k] = "empty"]
        /\ proc' = [proc EXCEPT ![k] = "none"]
        /\ served' = [served EXCEPT ![k] = 0]
        /\ children' = [children EXCEPT ![b] = @ \ {k}]
        /\ UNCHANGED <<app, ready, opVars, bridgeVars, sup, listed, fileVars>>
    BY <1>32 DEF ChildGone
  <2> HIDE DEF k
  <2>2. children' \in [Bridges -> SUBSET Cameras]
    BY <2>1
  <2>3. proc' \in [Cameras -> {"none", "booting", "ready", "exited"}]
    BY <2>1
  <2>4. done' \in [Cameras -> {"empty", "value", "drained"}]
    BY <2>1
  <2>5. served' \in [Cameras -> 0..MaxVersion]
    BY <2>1, ZeroVersion
  <2>6. QED
    BY <2>1, <2>2, <2>3, <2>4, <2>5
<1>33. ASSUME NEW b \in Bridges, Stopped(b) PROVE TypeOK'
  BY <1>33 DEF Stopped, SupTo
<1>34. ASSUME NEW b \in Bridges, BridgeReturns(b) PROVE TypeOK'
  <2>1. sup' \in [Bridges -> SupStages]
    BY <1>34 DEF BridgeReturns
  <2>2. /\ running' \in BOOLEAN /\ cancelOf' \in Bridges \cup {none}
        /\ doneOf' \in Bridges \cup {none}
    BY <1>34 DEF BridgeReturns
  <2>3. UNCHANGED <<app, ready, opVars, cancelled, listed, children, childVars,
                    fileVars>>
    BY <1>34 DEF BridgeReturns
  <2>4. QED
    BY <2>1, <2>2, <2>3
<1>35. ASSUME NEW b \in Bridges, BridgeCloses(b) PROVE TypeOK'
  BY <1>35 DEF BridgeCloses
<1>36. ASSUME NEW i \in Cameras, Boots(i) PROVE TypeOK'
  BY <1>36 DEF Boots
<1>37. ASSUME NEW i \in Cameras, Exit(i) PROVE TypeOK'
  BY <1>37 DEF Exit, Alive
<1>38. CASE UNCHANGED vars
  BY <1>38 DEF vars
<1>39. QED
  BY <1>1, <1>2, <1>3, <1>4, <1>5, <1>6, <1>7, <1>8, <1>9, <1>10, <1>11,
     <1>12, <1>13, <1>14, <1>15, <1>16, <1>17, <1>18, <1>19, <1>20, <1>21,
     <1>22, <1>23, <1>24, <1>25, <1>26, <1>27, <1>28, <1>29, <1>30, <1>31,
     <1>32, <1>33, <1>34, <1>35, <1>36, <1>37, <1>38
     DEF Next, AppStep, OpStep, SupStep

(* The app is in range before it starts.                                   *)
LEMMA InitType == Init => TypeOK /\ VersionInv
<1> SUFFICES ASSUME Init
             PROVE  TypeOK /\ VersionInv
  OBVIOUS
<1>1. version \in 0..MaxVersion /\ manifest \in BOOLEAN
  BY VersionAssumption DEF Init
<1>2. conf \in [Cameras -> 0..MaxVersion] /\ served \in [Cameras -> 0..MaxVersion]
  BY <1>1, VersionAssumption DEF Init
<1>3. op = none /\ step = "idle" /\ none \notin Operations
  BY NoneAssumption DEF Init
<1>4. VersionInv
  BY <1>3 DEF VersionInv
<1>5. QED
  BY <1>1, <1>2, <1>3, <1>4 DEF Init, TypeOK, Steps, SupStages

(* Type correctness of every behaviour of the app.                         *)
THEOREM TypeCorrect == Spec => []TypeOK
  BY InitType, TypeStep, VersionStep, PTL DEF Spec

-----------------------------------------------------------------------------
(* Only one supervisor runs at a time: it is the one that s.bridgeCancel   *)
(* and s.bridgeDone are of, and there is a configuration for it.           *)
SupInv ==
    /\ \A b \in Bridges :
           Active(b) => running /\ ready /\ cancelOf = b /\ doneOf = b
    /\ app = "down" => step = "idle" /\ \A b \in Bridges : sup[b] = "none"

LEMMA SupInvStep == TypeOK /\ SupInv /\ [Next]_vars => SupInv'
<1> SUFFICES ASSUME TypeOK, SupInv, [Next]_vars
             PROVE  SupInv'
  OBVIOUS
<1> USE NoneAssumption
    DEF TypeOK, SupInv, Active, opVars, bridgeVars, childVars, fileVars,
        SupStages
<1>1. ASSUME AppStarts PROVE SupInv'
  BY <1>1 DEF AppStarts, StartBridge, MayStart
<1>2. ASSUME Terminate PROVE SupInv'
  BY <1>2 DEF Terminate
<1>3. ASSUME AppEnds PROVE SupInv'
  BY <1>3 DEF AppEnds
<1>4. ASSUME NEW o \in Operations, Begin(o) PROVE SupInv'
  BY <1>4 DEF Begin, FirstStep
<1>5. ASSUME Answer PROVE SupInv'
  BY <1>5 DEF Answer, Finish
<1>6. ASSUME Upload PROVE SupInv'
  BY <1>6 DEF Upload, Finish
<1>7. ASSUME HelperEnds PROVE SupInv'
  BY <1>7 DEF HelperEnds, Finish
<1>8. ASSUME HelperPublishes PROVE SupInv'
  BY <1>8 DEF HelperPublishes
<1>9. ASSUME MoveManifest PROVE SupInv'
  BY <1>9 DEF MoveManifest
<1>10. ASSUME HelperBreaksOff PROVE SupInv'
  BY <1>10 DEF HelperBreaksOff, Finish
<1>11. ASSUME HelperDone PROVE SupInv'
  BY <1>11 DEF HelperDone, Finish
<1>12. ASSUME NothingToStop PROVE SupInv'
  BY <1>12 DEF NothingToStop, AfterStop
<1>13. ASSUME StopBridge PROVE SupInv'
  BY <1>13 DEF StopBridge
<1>14. ASSUME Waited PROVE SupInv'
  BY <1>14 DEF Waited, AfterStop
<1>15. ASSUME RenamesDone PROVE SupInv'
  BY <1>15 DEF RenamesDone
<1>16. ASSUME RenameFails PROVE SupInv'
  BY <1>16 DEF RenameFails
<1>17. ASSUME OpStarts PROVE SupInv'
  <2>1. app' = app /\ app # "down" /\ ready' = ready
    BY <1>17 DEF OpStarts
  <2>2. CASE UNCHANGED <<bridgeVars, sup>>
    BY <2>1, <2>2
  <2>3. CASE ready /\ ~ running
    <3>1. PICK b \in Bridges :
             /\ sup' = [sup EXCEPT ![b] = "load"]
             /\ running' = TRUE /\ cancelOf' = b /\ doneOf' = b
      BY <1>17, <2>3 DEF OpStarts, StartBridge, MayStart
    <3>2. QED
      BY <2>1, <2>3, <3>1
  <2>4. QED
    BY <1>17, <2>2, <2>3 DEF OpStarts, StartBridge, MayStart
<1>18. ASSUME NEW i \in Cameras, MoveFile(i) PROVE SupInv'
  BY <1>18 DEF MoveFile
<1>19. ASSUME WaitCancelled PROVE SupInv'
  BY <1>19 DEF WaitCancelled, Finish
<1>20. ASSUME NEW b \in Bridges, LoadCameras(b) PROVE SupInv'
  BY <1>20 DEF LoadCameras, SupTo
<1>21. ASSUME NEW b \in Bridges, RunRefuses(b) PROVE SupInv'
  BY <1>21 DEF RunRefuses, SupTo
<1>22. ASSUME NEW b \in Bridges, PortsFree(b) PROVE SupInv'
  BY <1>22 DEF PortsFree, SupTo
<1>23. ASSUME NEW b \in Bridges, StartChild(b) PROVE SupInv'
  BY <1>23 DEF StartChild, SupTo
<1>24. ASSUME NEW b \in Bridges, StartChildFails(b) PROVE SupInv'
  BY <1>24 DEF StartChildFails, SupTo
<1>25. ASSUME NEW b \in Bridges, ChildReady(b) PROVE SupInv'
  BY <1>25 DEF ChildReady, SupTo
<1>26. ASSUME NEW b \in Bridges, ChildFails(b) PROVE SupInv'
  BY <1>26 DEF ChildFails, SupTo
<1>27. ASSUME NEW b \in Bridges, ChildTimesOut(b) PROVE SupInv'
  BY <1>27 DEF ChildTimesOut, SupTo
<1>28. ASSUME NEW b \in Bridges, AllStarted(b) PROVE SupInv'
  BY <1>28 DEF AllStarted, SupTo
<1>29. ASSUME NEW b \in Bridges, RunCancelled(b) PROVE SupInv'
  BY <1>29 DEF RunCancelled, SupTo
<1>30. ASSUME NEW b \in Bridges, NEW i \in Cameras, ChildStopped(b, i)
       PROVE  SupInv'
  BY <1>30 DEF ChildStopped, SupTo
<1>31. ASSUME NEW b \in Bridges, StopChild(b) PROVE SupInv'
  BY <1>31 DEF StopChild, Exit, Alive
<1>32. ASSUME NEW b \in Bridges, ChildGone(b) PROVE SupInv'
  BY <1>32 DEF ChildGone
<1>33. ASSUME NEW b \in Bridges, Stopped(b) PROVE SupInv'
  BY <1>33 DEF Stopped, SupTo
<1>34. ASSUME NEW b \in Bridges, BridgeReturns(b) PROVE SupInv'
  BY <1>34 DEF BridgeReturns
<1>35. ASSUME NEW b \in Bridges, BridgeCloses(b) PROVE SupInv'
  BY <1>35 DEF BridgeCloses
<1>36. ASSUME NEW i \in Cameras, Boots(i) PROVE SupInv'
  BY <1>36 DEF Boots
<1>37. ASSUME NEW i \in Cameras, Exit(i) PROVE SupInv'
  BY <1>37 DEF Exit, Alive
<1>38. CASE UNCHANGED vars
  BY <1>38 DEF vars
<1>39. QED
  BY <1>1, <1>2, <1>3, <1>4, <1>5, <1>6, <1>7, <1>8, <1>9, <1>10, <1>11,
     <1>12, <1>13, <1>14, <1>15, <1>16, <1>17, <1>18, <1>19, <1>20, <1>21,
     <1>22, <1>23, <1>24, <1>25, <1>26, <1>27, <1>28, <1>29, <1>30, <1>31,
     <1>32, <1>33, <1>34, <1>35, <1>36, <1>37, <1>38
     DEF Next, AppStep, OpStep, SupStep

-----------------------------------------------------------------------------
(* Camera processes belong to the supervisor that runs.                    *)
ChildInv ==
    /\ \A b \in Bridges : children[b] # {} =>
           sup[b] \in {"starting", "booting", "watching", "stopping"}
    /\ \A i \in Cameras : proc[i] # "none" => \E b \in Bridges : i \in children[b]

LEMMA ChildInvStep == TypeOK /\ SupInv /\ ChildInv /\ [Next]_vars => ChildInv'
<1> SUFFICES ASSUME TypeOK, SupInv, ChildInv, [Next]_vars
             PROVE  ChildInv'
  OBVIOUS
<1> USE NoneAssumption
    DEF TypeOK, ChildInv, opVars, bridgeVars, childVars, fileVars
<1>1. ASSUME AppStarts PROVE ChildInv'
  BY <1>1 DEF AppStarts, StartBridge, MayStart
<1>2. ASSUME Terminate PROVE ChildInv'
  BY <1>2 DEF Terminate
<1>3. ASSUME AppEnds PROVE ChildInv'
  BY <1>3 DEF AppEnds
<1>4. ASSUME NEW o \in Operations, Begin(o) PROVE ChildInv'
  BY <1>4 DEF Begin, FirstStep
<1>5. ASSUME Answer PROVE ChildInv'
  BY <1>5 DEF Answer, Finish
<1>6. ASSUME Upload PROVE ChildInv'
  BY <1>6 DEF Upload, Finish
<1>7. ASSUME HelperEnds PROVE ChildInv'
  BY <1>7 DEF HelperEnds, Finish
<1>8. ASSUME HelperPublishes PROVE ChildInv'
  BY <1>8 DEF HelperPublishes
<1>9. ASSUME MoveManifest PROVE ChildInv'
  BY <1>9 DEF MoveManifest
<1>10. ASSUME HelperBreaksOff PROVE ChildInv'
  BY <1>10 DEF HelperBreaksOff, Finish
<1>11. ASSUME HelperDone PROVE ChildInv'
  BY <1>11 DEF HelperDone, Finish
<1>12. ASSUME NothingToStop PROVE ChildInv'
  BY <1>12 DEF NothingToStop, AfterStop
<1>13. ASSUME StopBridge PROVE ChildInv'
  BY <1>13 DEF StopBridge
<1>14. ASSUME Waited PROVE ChildInv'
  BY <1>14 DEF Waited, AfterStop
<1>15. ASSUME RenamesDone PROVE ChildInv'
  BY <1>15 DEF RenamesDone
<1>16. ASSUME RenameFails PROVE ChildInv'
  BY <1>16 DEF RenameFails
<1>17. ASSUME OpStarts PROVE ChildInv'
  BY <1>17 DEF OpStarts, StartBridge, MayStart, Finish
<1>18. ASSUME NEW i \in Cameras, MoveFile(i) PROVE ChildInv'
  BY <1>18 DEF MoveFile
<1>19. ASSUME WaitCancelled PROVE ChildInv'
  BY <1>19 DEF WaitCancelled, Finish
<1>20. ASSUME NEW b \in Bridges, LoadCameras(b) PROVE ChildInv'
  BY <1>20 DEF LoadCameras, SupTo
<1>21. ASSUME NEW b \in Bridges, RunRefuses(b) PROVE ChildInv'
  BY <1>21 DEF RunRefuses, SupTo
<1>22. ASSUME NEW b \in Bridges, PortsFree(b) PROVE ChildInv'
  BY <1>22 DEF PortsFree, SupTo
<1>23. ASSUME NEW b \in Bridges, StartChild(b) PROVE ChildInv'
  BY <1>23 DEF StartChild, SupTo
<1>24. ASSUME NEW b \in Bridges, StartChildFails(b) PROVE ChildInv'
  BY <1>24 DEF StartChildFails, SupTo
<1>25. ASSUME NEW b \in Bridges, ChildReady(b) PROVE ChildInv'
  BY <1>25 DEF ChildReady, SupTo
<1>26. ASSUME NEW b \in Bridges, ChildFails(b) PROVE ChildInv'
  BY <1>26 DEF ChildFails, SupTo
<1>27. ASSUME NEW b \in Bridges, ChildTimesOut(b) PROVE ChildInv'
  BY <1>27 DEF ChildTimesOut, SupTo
<1>28. ASSUME NEW b \in Bridges, AllStarted(b) PROVE ChildInv'
  BY <1>28 DEF AllStarted, SupTo
<1>29. ASSUME NEW b \in Bridges, RunCancelled(b) PROVE ChildInv'
  BY <1>29 DEF RunCancelled, SupTo
<1>30. ASSUME NEW b \in Bridges, NEW i \in Cameras, ChildStopped(b, i)
       PROVE  ChildInv'
  BY <1>30 DEF ChildStopped, SupTo
<1>31. ASSUME NEW b \in Bridges, StopChild(b) PROVE ChildInv'
  BY <1>31 DEF StopChild, Exit, Alive
<1>32. ASSUME NEW b \in Bridges, ChildGone(b) PROVE ChildInv'
  BY <1>32 DEF ChildGone
<1>33. ASSUME NEW b \in Bridges, Stopped(b) PROVE ChildInv'
  BY <1>33 DEF Stopped, SupTo
<1>34. ASSUME NEW b \in Bridges, BridgeReturns(b) PROVE ChildInv'
  BY <1>34 DEF BridgeReturns
<1>35. ASSUME NEW b \in Bridges, BridgeCloses(b) PROVE ChildInv'
  BY <1>35 DEF BridgeCloses
<1>36. ASSUME NEW i \in Cameras, Boots(i) PROVE ChildInv'
  BY <1>36 DEF Boots
<1>37. ASSUME NEW i \in Cameras, Exit(i) PROVE ChildInv'
  BY <1>37 DEF Exit, Alive
<1>38. CASE UNCHANGED vars
  BY <1>38 DEF vars
<1>39. QED
  BY <1>1, <1>2, <1>3, <1>4, <1>5, <1>6, <1>7, <1>8, <1>9, <1>10, <1>11,
     <1>12, <1>13, <1>14, <1>15, <1>16, <1>17, <1>18, <1>19, <1>20, <1>21,
     <1>22, <1>23, <1>24, <1>25, <1>26, <1>27, <1>28, <1>29, <1>30, <1>31,
     <1>32, <1>33, <1>34, <1>35, <1>36, <1>37, <1>38
     DEF Next, AppStep, OpStep, SupStep

-----------------------------------------------------------------------------
(* What the processes of a bridge that is to go on serve is what the files *)
(* say, ...                                                                *)
Current ==
    \A b \in Bridges : ~ Cancelled(b) =>
        \A i \in children[b] : proc[i] = "ready" => served[i] = conf[i]

(* ... except while an operation changes the files and has not yet stopped *)
(* the bridge; while one waits for the end of a bridge, and after it, only *)
(* a bridge that is cancelled runs.                                        *)
CurrentInv ==
    /\ step \in {"wait", "rename"} =>
           \A b \in Bridges : Active(b) => Cancelled(b)
    /\ ~ torn /\ step \notin {"publish", "published", "stop"} => Current

LEMMA CurrentInvStep ==
    TypeOK /\ SupInv /\ ChildInv /\ CurrentInv /\ [Next]_vars => CurrentInv'
<1> SUFFICES ASSUME TypeOK, SupInv, ChildInv, CurrentInv, [Next]_vars
             PROVE  CurrentInv'
  OBVIOUS
<1> USE NoneAssumption
    DEF TypeOK, SupInv, ChildInv, CurrentInv, Current, Active, Cancelled,
        opVars, bridgeVars, childVars, fileVars
<1>1. ASSUME AppStarts PROVE CurrentInv'
  <2>1. step' = "idle" /\ children' = children
    BY <1>1 DEF AppStarts
  <2>2. \A b \in Bridges : children[b] = {}
    BY <1>1 DEF AppStarts
  <2>3. QED
    BY <2>1, <2>2
<1>2. ASSUME Terminate PROVE CurrentInv'
  BY <1>2 DEF Terminate
<1>3. ASSUME AppEnds PROVE CurrentInv'
  BY <1>3 DEF AppEnds
<1>4. ASSUME NEW o \in Operations, Begin(o) PROVE CurrentInv'
  BY <1>4 DEF Begin, FirstStep
<1>5. ASSUME Answer PROVE CurrentInv'
  BY <1>5 DEF Answer, Finish
<1>6. ASSUME Upload PROVE CurrentInv'
  BY <1>6 DEF Upload, Finish
<1>7. ASSUME HelperEnds PROVE CurrentInv'
  BY <1>7 DEF HelperEnds, Finish
<1>8. ASSUME HelperPublishes PROVE CurrentInv'
  BY <1>8 DEF HelperPublishes
<1>9. ASSUME MoveManifest PROVE CurrentInv'
  BY <1>9 DEF MoveManifest
<1>10. ASSUME HelperBreaksOff PROVE CurrentInv'
  BY <1>10 DEF HelperBreaksOff, Finish
<1>11. ASSUME HelperDone PROVE CurrentInv'
  BY <1>11 DEF HelperDone, Finish
<1>12. ASSUME NothingToStop PROVE CurrentInv'
  BY <1>12 DEF NothingToStop, AfterStop
<1>13. ASSUME StopBridge PROVE CurrentInv'
  BY <1>13 DEF StopBridge
<1>14. ASSUME Waited PROVE CurrentInv'
  BY <1>14 DEF Waited, AfterStop
<1>15. ASSUME RenamesDone PROVE CurrentInv'
  BY <1>15 DEF RenamesDone
<1>16. ASSUME RenameFails PROVE CurrentInv'
  BY <1>16 DEF RenameFails
<1>17. ASSUME OpStarts PROVE CurrentInv'
  BY <1>17 DEF OpStarts, StartBridge, MayStart, Finish
<1>18. ASSUME NEW i \in Cameras, MoveFile(i) PROVE CurrentInv'
  BY <1>18 DEF MoveFile
<1>19. ASSUME WaitCancelled PROVE CurrentInv'
  BY <1>19 DEF WaitCancelled, Finish
<1>20. ASSUME NEW b \in Bridges, LoadCameras(b) PROVE CurrentInv'
  BY <1>20 DEF LoadCameras, SupTo
<1>21. ASSUME NEW b \in Bridges, RunRefuses(b) PROVE CurrentInv'
  BY <1>21 DEF RunRefuses, SupTo
<1>22. ASSUME NEW b \in Bridges, PortsFree(b) PROVE CurrentInv'
  BY <1>22 DEF PortsFree, SupTo
<1>23. ASSUME NEW b \in Bridges, StartChild(b) PROVE CurrentInv'
  <2> DEFINE k == Least(listed[b] \ children[b])
  <2>1. /\ children' = [children EXCEPT ![b] = @ \cup {k}]
        /\ proc' = [proc EXCEPT ![k] = "booting"]
        /\ served' = [served EXCEPT ![k] = 0]
        /\ sup' = [sup EXCEPT ![b] = "booting"]
        /\ UNCHANGED <<app, ready, opVars, bridgeVars, listed, fileVars>>
    BY <1>23 DEF StartChild, SupTo
  <2>2. k \in Cameras
    <3>1. listed[b] \ children[b] \in SUBSET Cameras
      OBVIOUS
    <3>2. listed[b] \ children[b] # {}
      BY <1>23 DEF StartChild
    <3>3. QED
      BY <3>1, <3>2, LeastIsIn
  <2>3. sup[b] = "starting"
    BY <1>23 DEF StartChild
  <2> HIDE DEF k
  <2>4. step \in {"wait", "rename"} => \A c \in Bridges : Active(c)' => Cancelled(c)'
    BY <2>1, <2>3
  <2>5. Current => Current'
    <3> SUFFICES ASSUME Current, NEW c \in Bridges, ~ Cancelled(c),
                        NEW i \in children'[c], proc'[i] = "ready"
                 PROVE  served'[i] = conf[i]
      BY <2>1
    <3>1. i # k /\ i \in children[c]
      BY <2>1, <2>2
    <3>2. proc'[i] = proc[i] /\ served'[i] = served[i]
      BY <2>1, <3>1
    <3>3. QED
      BY <3>1, <3>2
  <2>6. QED
    BY <2>1, <2>4, <2>5
<1>24. ASSUME NEW b \in Bridges, StartChildFails(b) PROVE CurrentInv'
  BY <1>24 DEF StartChildFails, SupTo
<1>25. ASSUME NEW b \in Bridges, ChildReady(b) PROVE CurrentInv'
  BY <1>25 DEF ChildReady, SupTo
<1>26. ASSUME NEW b \in Bridges, ChildFails(b) PROVE CurrentInv'
  BY <1>26 DEF ChildFails, SupTo
<1>27. ASSUME NEW b \in Bridges, ChildTimesOut(b) PROVE CurrentInv'
  BY <1>27 DEF ChildTimesOut, SupTo
<1>28. ASSUME NEW b \in Bridges, AllStarted(b) PROVE CurrentInv'
  BY <1>28 DEF AllStarted, SupTo
<1>29. ASSUME NEW b \in Bridges, RunCancelled(b) PROVE CurrentInv'
  BY <1>29 DEF RunCancelled, SupTo
<1>30. ASSUME NEW b \in Bridges, NEW i \in Cameras, ChildStopped(b, i)
       PROVE  CurrentInv'
  BY <1>30 DEF ChildStopped, SupTo
<1>31. ASSUME NEW b \in Bridges, StopChild(b) PROVE CurrentInv'
  BY <1>31 DEF StopChild, Exit, Alive
<1>32. ASSUME NEW b \in Bridges, ChildGone(b) PROVE CurrentInv'
  BY <1>32 DEF ChildGone
<1>33. ASSUME NEW b \in Bridges, Stopped(b) PROVE CurrentInv'
  BY <1>33 DEF Stopped, SupTo
<1>34. ASSUME NEW b \in Bridges, BridgeReturns(b) PROVE CurrentInv'
  BY <1>34 DEF BridgeReturns
<1>35. ASSUME NEW b \in Bridges, BridgeCloses(b) PROVE CurrentInv'
  BY <1>35 DEF BridgeCloses
<1>36. ASSUME NEW i \in Cameras, Boots(i) PROVE CurrentInv'
  BY <1>36 DEF Boots
<1>37. ASSUME NEW i \in Cameras, Exit(i) PROVE CurrentInv'
  BY <1>37 DEF Exit, Alive
<1>38. CASE UNCHANGED vars
  BY <1>38 DEF vars
<1>39. QED
  BY <1>1, <1>2, <1>3, <1>4, <1>5, <1>6, <1>7, <1>8, <1>9, <1>10, <1>11,
     <1>12, <1>13, <1>14, <1>15, <1>16, <1>17, <1>18, <1>19, <1>20, <1>21,
     <1>22, <1>23, <1>24, <1>25, <1>26, <1>27, <1>28, <1>29, <1>30, <1>31,
     <1>32, <1>33, <1>34, <1>35, <1>36, <1>37, <1>38
     DEF Next, AppStep, OpStep, SupStep

-----------------------------------------------------------------------------
IInv == TypeOK /\ VersionInv /\ SupInv /\ ChildInv /\ CurrentInv

LEMMA Inductive == Spec => []IInv
<1>1. Init => IInv
  BY InitType DEF Init, IInv, SupInv, ChildInv, CurrentInv, Current, Active
<1>2. IInv /\ [Next]_vars => IInv'
  BY TypeStep, VersionStep, SupInvStep, ChildInvStep, CurrentInvStep DEF IInv
<1>3. QED
  BY <1>1, <1>2, PTL DEF Spec

(* Each camera process has one supervisor, which will stop it.             *)
THEOREM SupervisorUnique == Spec => []OneSupervisor
<1>1. IInv => OneSupervisor
  <2> SUFFICES ASSUME IInv, NEW i \in Cameras, proc[i] # "none"
               PROVE  \E b \in Bridges :
                         /\ sup[b] \in {"starting", "booting", "watching", "stopping"}
                         /\ {c \in Bridges : i \in children[c]} = {b}
    BY DEF OneSupervisor
  <2>1. PICK b \in Bridges : i \in children[b]
    BY DEF IInv, ChildInv
  <2>2. \A c \in Bridges : i \in children[c] =>
           /\ sup[c] \in {"starting", "booting", "watching", "stopping"}
           /\ cancelOf = c
    BY DEF IInv, ChildInv, SupInv, Active
  <2>3. {c \in Bridges : i \in children[c]} = {b}
    BY <2>1, <2>2
  <2>4. QED
    BY <2>1, <2>2, <2>3
<1>2. QED
  BY <1>1, Inductive, PTL

(* Between operations the processes serve what the files say.              *)
THEOREM ServedIsCurrent == Spec => []BridgeIsCurrent
<1>1. IInv => BridgeIsCurrent
  BY DEF IInv, CurrentInv, Current, BridgeIsCurrent, TypeOK
<1>2. QED
  BY <1>1, Inductive, PTL

-----------------------------------------------------------------------------
(* Only the bridge that an operation has cancelled and awaits can still    *)
(* run; behind the end of the wait none does until the operation starts    *)
(* one.                                                                    *)
RestInv ==
    /\ step = "wait" => \A b \in Bridges : Active(b) => b = awaited
    /\ step = "rename" => \A b \in Bridges : ~ Active(b)

LEMMA RestStep == TypeOK /\ SupInv /\ RestInv /\ [Next]_vars => RestInv'
<1> SUFFICES ASSUME TypeOK, SupInv, RestInv, [Next]_vars
             PROVE  RestInv'
  OBVIOUS
<1> USE NoneAssumption
    DEF TypeOK, SupInv, RestInv, Active, opVars, bridgeVars, childVars, fileVars
<1>1. ASSUME AppStarts PROVE RestInv'
  BY <1>1 DEF AppStarts, StartBridge, MayStart
<1>2. ASSUME Terminate PROVE RestInv'
  BY <1>2 DEF Terminate
<1>3. ASSUME AppEnds PROVE RestInv'
  BY <1>3 DEF AppEnds
<1>4. ASSUME NEW o \in Operations, Begin(o) PROVE RestInv'
  BY <1>4 DEF Begin, FirstStep
<1>5. ASSUME Answer PROVE RestInv'
  BY <1>5 DEF Answer, Finish
<1>6. ASSUME Upload PROVE RestInv'
  BY <1>6 DEF Upload, Finish
<1>7. ASSUME HelperEnds PROVE RestInv'
  BY <1>7 DEF HelperEnds, Finish
<1>8. ASSUME HelperPublishes PROVE RestInv'
  BY <1>8 DEF HelperPublishes
<1>9. ASSUME MoveManifest PROVE RestInv'
  BY <1>9 DEF MoveManifest
<1>10. ASSUME HelperBreaksOff PROVE RestInv'
  BY <1>10 DEF HelperBreaksOff, Finish
<1>11. ASSUME HelperDone PROVE RestInv'
  BY <1>11 DEF HelperDone, Finish
<1>12. ASSUME NothingToStop PROVE RestInv'
  BY <1>12 DEF NothingToStop, AfterStop
<1>13. ASSUME StopBridge PROVE RestInv'
  BY <1>13 DEF StopBridge
<1>14. ASSUME Waited PROVE RestInv'
  BY <1>14 DEF Waited, AfterStop
<1>15. ASSUME RenamesDone PROVE RestInv'
  BY <1>15 DEF RenamesDone
<1>16. ASSUME RenameFails PROVE RestInv'
  BY <1>16 DEF RenameFails
<1>17. ASSUME OpStarts PROVE RestInv'
  BY <1>17 DEF OpStarts, StartBridge, MayStart, Finish
<1>18. ASSUME NEW i \in Cameras, MoveFile(i) PROVE RestInv'
  BY <1>18 DEF MoveFile
<1>19. ASSUME WaitCancelled PROVE RestInv'
  BY <1>19 DEF WaitCancelled, Finish
<1>20. ASSUME NEW b \in Bridges, LoadCameras(b) PROVE RestInv'
  BY <1>20 DEF LoadCameras, SupTo
<1>21. ASSUME NEW b \in Bridges, RunRefuses(b) PROVE RestInv'
  BY <1>21 DEF RunRefuses, SupTo
<1>22. ASSUME NEW b \in Bridges, PortsFree(b) PROVE RestInv'
  BY <1>22 DEF PortsFree, SupTo
<1>23. ASSUME NEW b \in Bridges, StartChild(b) PROVE RestInv'
  BY <1>23 DEF StartChild, SupTo
<1>24. ASSUME NEW b \in Bridges, StartChildFails(b) PROVE RestInv'
  BY <1>24 DEF StartChildFails, SupTo
<1>25. ASSUME NEW b \in Bridges, ChildReady(b) PROVE RestInv'
  BY <1>25 DEF ChildReady, SupTo
<1>26. ASSUME NEW b \in Bridges, ChildFails(b) PROVE RestInv'
  BY <1>26 DEF ChildFails, SupTo
<1>27. ASSUME NEW b \in Bridges, ChildTimesOut(b) PROVE RestInv'
  BY <1>27 DEF ChildTimesOut, SupTo
<1>28. ASSUME NEW b \in Bridges, AllStarted(b) PROVE RestInv'
  BY <1>28 DEF AllStarted, SupTo
<1>29. ASSUME NEW b \in Bridges, RunCancelled(b) PROVE RestInv'
  BY <1>29 DEF RunCancelled, SupTo
<1>30. ASSUME NEW b \in Bridges, NEW i \in Cameras, ChildStopped(b, i)
       PROVE  RestInv'
  BY <1>30 DEF ChildStopped, SupTo
<1>31. ASSUME NEW b \in Bridges, StopChild(b) PROVE RestInv'
  BY <1>31 DEF StopChild, Exit, Alive
<1>32. ASSUME NEW b \in Bridges, ChildGone(b) PROVE RestInv'
  BY <1>32 DEF ChildGone
<1>33. ASSUME NEW b \in Bridges, Stopped(b) PROVE RestInv'
  BY <1>33 DEF Stopped, SupTo
<1>34. ASSUME NEW b \in Bridges, BridgeReturns(b) PROVE RestInv'
  BY <1>34 DEF BridgeReturns
<1>35. ASSUME NEW b \in Bridges, BridgeCloses(b) PROVE RestInv'
  BY <1>35 DEF BridgeCloses
<1>36. ASSUME NEW i \in Cameras, Boots(i) PROVE RestInv'
  BY <1>36 DEF Boots
<1>37. ASSUME NEW i \in Cameras, Exit(i) PROVE RestInv'
  BY <1>37 DEF Exit, Alive
<1>38. CASE UNCHANGED vars
  BY <1>38 DEF vars
<1>39. QED
  BY <1>1, <1>2, <1>3, <1>4, <1>5, <1>6, <1>7, <1>8, <1>9, <1>10, <1>11,
     <1>12, <1>13, <1>14, <1>15, <1>16, <1>17, <1>18, <1>19, <1>20, <1>21,
     <1>22, <1>23, <1>24, <1>25, <1>26, <1>27, <1>28, <1>29, <1>30, <1>31,
     <1>32, <1>33, <1>34, <1>35, <1>36, <1>37, <1>38
     DEF Next, AppStep, OpStep, SupStep

(* New credentials are moved into place while no camera process runs.      *)
THEOREM MovedAtRest == Spec => []CredentialsMovedAtRest
<1>1. Init => RestInv
  BY DEF Init, RestInv
<1>2. IInv /\ RestInv => CredentialsMovedAtRest
  BY DEF IInv, ChildInv, RestInv, Active, CredentialsMovedAtRest
<1>3. IInv /\ RestInv /\ [Next]_vars => RestInv'
  BY RestStep DEF IInv
<1>4. QED
  BY <1>1, <1>2, <1>3, Inductive, PTL DEF Spec

-----------------------------------------------------------------------------
(* Only the start of the app and the end of an operation start a           *)
(* supervisor, if none runs; and without one there are no camera processes.*)
THEOREM StartsAtRest == Spec => SupervisorStartsAtRest
<1> DEFINE Kept ==
      \A b \in Bridges : sup[b] = "none" /\ sup'[b] = "load"
          => \A i \in Cameras : proc[i] = "none"
<1>1. IInv /\ [Next]_vars => [Kept]_vars
  <2> SUFFICES ASSUME IInv, [Next]_vars
               PROVE  Kept
    OBVIOUS
  <2>0. ~ running => \A i \in Cameras : proc[i] = "none"
    BY DEF IInv, ChildInv, SupInv, Active, TypeOK
  <2> USE DEF IInv, TypeOK, opVars, bridgeVars, childVars, fileVars
  <2>1. ASSUME AppStarts PROVE Kept
    BY <2>0, <2>1 DEF AppStarts, StartBridge, MayStart
  <2>2. ASSUME Terminate PROVE Kept
    BY <2>2 DEF Terminate
  <2>3. ASSUME AppEnds PROVE Kept
    BY <2>3 DEF AppEnds
  <2>4. ASSUME NEW o \in Operations, Begin(o) PROVE Kept
    BY <2>4 DEF Begin, FirstStep
  <2>5. ASSUME Answer PROVE Kept
    BY <2>5 DEF Answer, Finish
  <2>6. ASSUME Upload PROVE Kept
    BY <2>6 DEF Upload, Finish
  <2>7. ASSUME HelperEnds PROVE Kept
    BY <2>7 DEF HelperEnds, Finish
  <2>8. ASSUME HelperPublishes PROVE Kept
    BY <2>8 DEF HelperPublishes
  <2>9. ASSUME MoveManifest PROVE Kept
    BY <2>9 DEF MoveManifest
  <2>10. ASSUME HelperBreaksOff PROVE Kept
    BY <2>10 DEF HelperBreaksOff, Finish
  <2>11. ASSUME HelperDone PROVE Kept
    BY <2>11 DEF HelperDone, Finish
  <2>12. ASSUME NothingToStop PROVE Kept
    BY <2>12 DEF NothingToStop, AfterStop
  <2>13. ASSUME StopBridge PROVE Kept
    BY <2>13 DEF StopBridge
  <2>14. ASSUME Waited PROVE Kept
    BY <2>14 DEF Waited, AfterStop
  <2>15. ASSUME RenamesDone PROVE Kept
    BY <2>15 DEF RenamesDone
  <2>16. ASSUME RenameFails PROVE Kept
    BY <2>16 DEF RenameFails
  <2>17. ASSUME OpStarts PROVE Kept
    BY <2>0, <2>17 DEF OpStarts, StartBridge, MayStart, Finish
  <2>18. ASSUME NEW i \in Cameras, MoveFile(i) PROVE Kept
    BY <2>18 DEF MoveFile
  <2>19. ASSUME WaitCancelled PROVE Kept
    BY <2>19 DEF WaitCancelled, Finish
  <2>20. ASSUME NEW b \in Bridges, LoadCameras(b) PROVE Kept
    BY <2>20 DEF LoadCameras, SupTo
  <2>21. ASSUME NEW b \in Bridges, RunRefuses(b) PROVE Kept
    BY <2>21 DEF RunRefuses, SupTo
  <2>22. ASSUME NEW b \in Bridges, PortsFree(b) PROVE Kept
    BY <2>22 DEF PortsFree, SupTo
  <2>23. ASSUME NEW b \in Bridges, StartChild(b) PROVE Kept
    BY <2>23 DEF StartChild, SupTo
  <2>24. ASSUME NEW b \in Bridges, StartChildFails(b) PROVE Kept
    BY <2>24 DEF StartChildFails, SupTo
  <2>25. ASSUME NEW b \in Bridges, ChildReady(b) PROVE Kept
    BY <2>25 DEF ChildReady, SupTo
  <2>26. ASSUME NEW b \in Bridges, ChildFails(b) PROVE Kept
    BY <2>26 DEF ChildFails, SupTo
  <2>27. ASSUME NEW b \in Bridges, ChildTimesOut(b) PROVE Kept
    BY <2>27 DEF ChildTimesOut, SupTo
  <2>28. ASSUME NEW b \in Bridges, AllStarted(b) PROVE Kept
    BY <2>28 DEF AllStarted, SupTo
  <2>29. ASSUME NEW b \in Bridges, RunCancelled(b) PROVE Kept
    BY <2>29 DEF RunCancelled, SupTo
  <2>30. ASSUME NEW b \in Bridges, NEW i \in Cameras, ChildStopped(b, i)
         PROVE  Kept
    BY <2>30 DEF ChildStopped, SupTo
  <2>31. ASSUME NEW b \in Bridges, StopChild(b) PROVE Kept
    BY <2>31 DEF StopChild, Exit, Alive
  <2>32. ASSUME NEW b \in Bridges, ChildGone(b) PROVE Kept
    BY <2>32 DEF ChildGone
  <2>33. ASSUME NEW b \in Bridges, Stopped(b) PROVE Kept
    BY <2>33 DEF Stopped, SupTo
  <2>34. ASSUME NEW b \in Bridges, BridgeReturns(b) PROVE Kept
    BY <2>34 DEF BridgeReturns
  <2>35. ASSUME NEW b \in Bridges, BridgeCloses(b) PROVE Kept
    BY <2>35 DEF BridgeCloses
  <2>36. ASSUME NEW i \in Cameras, Boots(i) PROVE Kept
    BY <2>36 DEF Boots
  <2>37. ASSUME NEW i \in Cameras, Exit(i) PROVE Kept
    BY <2>37 DEF Exit, Alive
  <2>38. CASE UNCHANGED vars
    BY <2>38 DEF vars
  <2>39. QED
    BY <2>1, <2>2, <2>3, <2>4, <2>5, <2>6, <2>7, <2>8, <2>9, <2>10, <2>11,
       <2>12, <2>13, <2>14, <2>15, <2>16, <2>17, <2>18, <2>19, <2>20, <2>21,
       <2>22, <2>23, <2>24, <2>25, <2>26, <2>27, <2>28, <2>29, <2>30, <2>31,
       <2>32, <2>33, <2>34, <2>35, <2>36, <2>37, <2>38
       DEF Next, AppStep, OpStep, SupStep
<1>2. QED
  BY <1>1, Inductive, PTL DEF Spec, SupervisorStartsAtRest

-----------------------------------------------------------------------------
(* The channel of a child can be received from as soon as its process has  *)
(* ended, and not before.                                                  *)
DoneInv == \A i \in Cameras : done[i] # "empty" <=> proc[i] = "exited"

LEMMA DoneStep == TypeOK /\ ChildInv /\ DoneInv /\ [Next]_vars => DoneInv'
<1> SUFFICES ASSUME TypeOK, ChildInv, DoneInv, [Next]_vars
             PROVE  DoneInv'
  OBVIOUS
<1> USE DEF TypeOK, DoneInv, opVars, bridgeVars, childVars, fileVars
<1>1. ASSUME AppStep \/ (\E o \in Operations : Begin(o)) \/ WaitCancelled
      PROVE  DoneInv'
  BY <1>1 DEF AppStep, AppStarts, Terminate, AppEnds, Begin, WaitCancelled
<1>2. ASSUME OpStep PROVE DoneInv'
  BY <1>2 DEF OpStep, Answer, Upload, HelperEnds, HelperPublishes, MoveManifest,
       HelperBreaksOff, HelperDone, NothingToStop, StopBridge, Waited,
       RenamesDone, RenameFails, OpStarts, MoveFile
<1>3. ASSUME NEW b \in Bridges,
             LoadCameras(b) \/ RunRefuses(b) \/ PortsFree(b)
             \/ StartChildFails(b) \/ ChildReady(b) \/ ChildTimesOut(b)
             \/ AllStarted(b) \/ RunCancelled(b) \/ Stopped(b)
             \/ BridgeReturns(b) \/ BridgeCloses(b)
      PROVE  DoneInv'
  BY <1>3 DEF LoadCameras, RunRefuses, PortsFree, StartChildFails, ChildReady,
       ChildTimesOut, AllStarted, RunCancelled, Stopped, BridgeReturns,
       BridgeCloses
<1>4. ASSUME NEW b \in Bridges, StartChild(b) PROVE DoneInv'
  BY <1>4 DEF StartChild
<1>5. ASSUME NEW b \in Bridges, ChildFails(b) PROVE DoneInv'
  BY <1>5 DEF ChildFails, Receivable
<1>6. ASSUME NEW b \in Bridges, NEW i \in Cameras, ChildStopped(b, i)
      PROVE  DoneInv'
  BY <1>6 DEF ChildStopped, Receivable
<1>7. ASSUME NEW b \in Bridges, StopChild(b) PROVE DoneInv'
  BY <1>7 DEF StopChild, Exit, Alive
<1>8. ASSUME NEW b \in Bridges, ChildGone(b) PROVE DoneInv'
  BY <1>8 DEF ChildGone
<1>9. ASSUME NEW i \in Cameras, Boots(i) \/ Exit(i) PROVE DoneInv'
  BY <1>9 DEF Boots, Exit, Alive
<1>10. CASE UNCHANGED vars
  BY <1>10 DEF vars
<1>11. QED
  BY <1>1, <1>2, <1>3, <1>4, <1>5, <1>6, <1>7, <1>8, <1>9, <1>10
     DEF Next, SupStep

(* The child that stop turns to next is one of the supervisor's.           *)
LEMMA NextToStop ==
    ASSUME TypeOK, NEW b \in Bridges, children[b] # {}
    PROVE  Least(children[b]) \in children[b] /\ Least(children[b]) \in Cameras
<1>1. children[b] \in SUBSET Cameras
  BY DEF TypeOK
<1>2. QED
  BY <1>1, LeastIsIn

(* No supervisor but the one that runs has children.                       *)
LEMMA AllGoneUnlessActive ==
    ASSUME IInv, \A b \in Bridges : Active(b) => children[b] = {}
    PROVE  Supervised!AllGone
  BY DEF IInv, ChildInv, Active, Supervised!AllGone

(* The app supervises its camera processes as Supervision says.            *)
THEOREM Supervises == Spec => ImplementsSupervision
<1>1. Init => Supervised!Init
  BY DEF Init, Supervised!Init, Active
<1>2. IInv /\ DoneInv /\ [Next]_vars => [Supervised!Next]_(Supervised!vars)
  <2> DEFINE Abs == Supervised!Next \/ UNCHANGED Supervised!vars
  <2> SUFFICES ASSUME IInv, DoneInv, [Next]_vars
               PROVE  Abs
    OBVIOUS
  <2>0. TypeOK
    BY DEF IInv
  <2>a. ASSUME UNCHANGED <<sup, proc>> PROVE Abs
    BY <2>a DEF Active, Supervised!vars
  <2>b. ASSUME UNCHANGED proc, ~ running,
               NEW b \in Bridges, sup' = [sup EXCEPT ![b] = "load"]
        PROVE  Abs
    <3>1. \A c \in Bridges : ~ Active(c)
      BY <2>b DEF IInv, SupInv
    <3>2. Supervised!AllGone
      BY <3>1, AllGoneUnlessActive
    <3>3. \E c \in Bridges : Active(c)'
      BY <2>b, <2>0 DEF Active, TypeOK
    <3>4. Supervised!TurnOn
      BY <2>b, <3>1, <3>2, <3>3 DEF Supervised!TurnOn
    <3>5. QED
      BY <3>4 DEF Supervised!Next
  <2>c. ASSUME NEW b \in Bridges, Active(b), UNCHANGED proc,
               NEW stage \in SupStages \ {"none", "cleared"},
               sup' = [sup EXCEPT ![b] = stage]
        PROVE  Abs
    BY <2>c, <2>0 DEF Active, TypeOK, Supervised!vars
  <2>1. ASSUME AppStarts \/ OpStarts PROVE Abs
    <3>1. UNCHANGED proc
      BY <2>1 DEF AppStarts, OpStarts, childVars
    <3>2. CASE UNCHANGED sup
      BY <3>1, <3>2, <2>a
    <3>3. CASE StartBridge /\ MayStart
      <4>1. PICK b \in Bridges : sup' = [sup EXCEPT ![b] = "load"]
        BY <3>3 DEF StartBridge
      <4>2. QED
        BY <3>1, <3>3, <4>1, <2>b DEF MayStart
    <3>4. QED
      BY <2>1, <3>2, <3>3 DEF AppStarts, OpStarts, StartBridge
  <2>2. ASSUME Terminate \/ (\E o \in Operations : Begin(o)) \/ WaitCancelled
        PROVE  Abs
    BY <2>2, <2>a DEF Terminate, Begin, WaitCancelled, childVars
  <2>3. ASSUME AppEnds PROVE Abs
    <3>1. Supervised!Crash
      BY <2>3 DEF AppEnds, Supervised!Crash, Active
    <3>2. QED
      BY <3>1 DEF Supervised!Next
  <2>4. ASSUME OpStep, ~ OpStarts PROVE Abs
    BY <2>4, <2>a DEF OpStep, Answer, Upload, HelperEnds, HelperPublishes,
         MoveManifest, HelperBreaksOff, HelperDone, NothingToStop, StopBridge,
         Waited, RenamesDone, RenameFails, MoveFile, childVars
  <2>5. ASSUME NEW b \in Bridges,
               RunRefuses(b) \/ PortsFree(b)
               \/ StartChildFails(b) \/ ChildReady(b) \/ ChildTimesOut(b)
               \/ AllStarted(b) \/ RunCancelled(b) \/ Stopped(b)
        PROVE  Abs
    BY <2>5, <2>c DEF RunRefuses, PortsFree, StartChildFails, ChildReady,
         ChildTimesOut, AllStarted, RunCancelled, Stopped, SupTo, childVars,
         SupStages, Active
  <2>6. ASSUME NEW b \in Bridges, LoadCameras(b) PROVE Abs
    <3>1. PICK stage \in {"returned", "ports"} : sup' = [sup EXCEPT ![b] = stage]
      BY <2>6 DEF LoadCameras, SupTo
    <3>2. QED
      BY <2>6, <3>1, <2>c DEF LoadCameras, childVars, SupStages, Active
  <2>7. ASSUME NEW b \in Bridges,
               ChildFails(b) \/ \E i \in Cameras : ChildStopped(b, i)
        PROVE  Abs
    BY <2>7, <2>c DEF ChildFails, ChildStopped, SupTo, SupStages, Active
  <2>8. ASSUME NEW b \in Bridges, StartChild(b) PROVE Abs
    <3> DEFINE k == Least(listed[b] \ children[b])
    <3>1. /\ proc' = [proc EXCEPT ![k] = "booting"]
          /\ sup' = [sup EXCEPT ![b] = "booting"]
          /\ sup[b] = "starting"
      BY <2>8 DEF StartChild, SupTo
    <3>2. k \in Cameras /\ k \notin children[b]
      <4>1. listed[b] \ children[b] \in SUBSET Cameras
        BY <2>0 DEF TypeOK
      <4>2. listed[b] \ children[b] # {}
        BY <2>8 DEF StartChild
      <4>3. k \in listed[b] \ children[b]
        BY <4>1, <4>2, LeastIsIn
      <4>4. QED
        BY <4>1, <4>3
    <3> HIDE DEF k
    <3>3. Active(b) /\ Active(b)'
      BY <3>1, <2>0 DEF Active, TypeOK
    <3>4. proc[k] = "none"
      <4>1. \A c \in Bridges : k \in children[c] => c = b
        BY <3>3 DEF IInv, ChildInv, SupInv, Active
      <4>2. QED
        BY <4>1, <3>2 DEF IInv, ChildInv
    <3>5. Supervised!Spawn(k)
      BY <3>1, <3>3, <3>4 DEF Supervised!Spawn
    <3>6. QED
      BY <3>2, <3>5 DEF Supervised!Next
  <2>9. ASSUME NEW i \in Cameras, Boots(i) PROVE Abs
    <3>1. \E b \in Bridges : Active(b) /\ Active(b)'
      BY <2>9 DEF Boots, IInv, ChildInv, Active
    <3>2. Supervised!Listen(i)
      BY <2>9, <3>1 DEF Boots, Supervised!Listen
    <3>3. QED
      BY <3>2 DEF Supervised!Next
  <2>10. ASSUME NEW i \in Cameras, Exit(i) PROVE Abs
    <3>1. \E b \in Bridges : Active(b) /\ Active(b)'
      BY <2>10 DEF Exit, Alive, IInv, ChildInv, Active
    <3>2. Supervised!Die(i)
      BY <2>10, <3>1 DEF Exit, Alive, Supervised!Die
    <3>3. QED
      BY <3>2 DEF Supervised!Next
  <2>11. ASSUME NEW b \in Bridges, StopChild(b) PROVE Abs
    BY <2>0, <2>10, <2>11, NextToStop DEF StopChild
  <2>12. ASSUME NEW b \in Bridges, ChildGone(b) PROVE Abs
    <3> DEFINE k == Least(children[b])
    <3>1. k \in Cameras
      BY <2>0, <2>12, NextToStop DEF ChildGone
    <3>2. /\ proc' = [proc EXCEPT ![k] = "none"]
          /\ sup' = sup /\ sup[b] = "stopping"
          /\ done[k] # "empty"
      BY <2>12 DEF ChildGone, Receivable
    <3> HIDE DEF k
    <3>3. Active(b) /\ Active(b)'
      BY <3>2 DEF Active
    <3>4. Supervised!Collect(k)
      BY <3>1, <3>2, <3>3 DEF Supervised!Collect, DoneInv
    <3>5. QED
      BY <3>1, <3>4 DEF Supervised!Next
  <2>13. ASSUME NEW b \in Bridges, BridgeReturns(b) PROVE Abs
    <3>1. /\ sup[b] = "returned" /\ sup' = [sup EXCEPT ![b] = "cleared"]
          /\ UNCHANGED proc
      BY <2>13 DEF BridgeReturns, childVars
    <3>2. Active(b)
      BY <3>1 DEF Active
    <3>3. \A c \in Bridges : Active(c) => c = b
      BY <3>2 DEF IInv, SupInv
    <3>4. \A c \in Bridges : ~ Active(c)'
      BY <3>1, <3>3, <2>0 DEF Active, TypeOK
    <3>5. children[b] = {}
      BY <3>1 DEF IInv, ChildInv
    <3>6. Supervised!AllGone
      BY <3>3, <3>5, AllGoneUnlessActive
    <3>7. Supervised!TurnOff
      BY <3>1, <3>2, <3>4, <3>6 DEF Supervised!TurnOff
    <3>8. QED
      BY <3>7 DEF Supervised!Next
  <2>14. ASSUME NEW b \in Bridges, BridgeCloses(b) PROVE Abs
    BY <2>0, <2>14 DEF BridgeCloses, childVars, TypeOK, Active, Supervised!vars
  <2>15. ASSUME UNCHANGED vars PROVE Abs
    BY <2>15, <2>a DEF vars, childVars
  <2> HIDE DEF Abs
  <2>16. Abs
    BY <2>1, <2>2, <2>3, <2>4, <2>5, <2>6, <2>7, <2>8, <2>9, <2>10, <2>11,
       <2>12, <2>13, <2>14, <2>15
       DEF Next, AppStep, OpStep, SupStep
  <2>17. QED
    BY <2>16 DEF Abs
<1>3. Init => DoneInv
  BY DEF Init, DoneInv
<1>4. IInv /\ DoneInv /\ [Next]_vars => DoneInv'
  BY DoneStep DEF IInv
<1>5. QED
  BY <1>1, <1>2, <1>3, <1>4, Inductive, PTL
     DEF Spec, ImplementsSupervision, Supervised!Spec

=============================================================================
