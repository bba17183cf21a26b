------------------------------ MODULE AppServer ------------------------------
(***************************************************************************)
(* The Home Assistant app: the setup server that Ingress talks to          *)
(* (bridge/cmd/setupwizard/server.go, app.go, default.go), the helper that *)
(* it runs and that publishes the camera configurations                    *)
(* (client/setup_wizard.py), and the supervisor that it starts as "the     *)
(* bridge" (bridge/cmd/desktop/desktop.go), with one bridge process per    *)
(* camera.                                                                 *)
(*                                                                         *)
(* A bridge here is one call of startBridge: a context, a done channel and *)
(* the goroutine that runs the supervisor.  The content of a configuration *)
(* is its version: every setup and every regeneration of credentials makes *)
(* the next.                                                               *)
(***************************************************************************)
EXTENDS Naturals, FiniteSets

CONSTANTS
    NumCameras,  (* cameras of the account; the configurations are numbered *)
    Bridges,     (* bridges; one that has ended is used again (bound)       *)
    MaxVersion,  (* setups and regenerations (bound)                        *)
    none

ASSUME CamerasAssumption == NumCameras \in Nat \ {0}
ASSUME VersionAssumption == MaxVersion \in Nat \ {0}

VARIABLES
    app,        (* the process: down, up, or terminating (its context)      *)
    ready,      (* s.readyDir # ""                                          *)
    op,         (* the operation in progress: operationDone # nil           *)
    step,       (* where it is                                              *)
    awaited,    (* the bridge it waits for                                  *)
    running,    (* s.bridgeRunning                                          *)
    cancelOf,   (* s.bridgeCancel: whose context it cancels                 *)
    doneOf,     (* s.bridgeDone                                             *)
    cancelled,  (* bridges whose context has been cancelled                 *)
    sup,        (* the supervisor of a bridge                               *)
    listed,     (* the cameras that loadCameras returned                    *)
    children,   (* the child processes of a supervisor                      *)
    proc,       (* per camera: its bridge process                           *)
    done,       (* its c.done channel: empty, value, or drained; closed     *)
                (* behind the value                                         *)
    served,     (* the version of its configuration that it has read        *)
    conf,       (* the files: version per camera, 0 if there is none        *)
    manifest,   (* cameras.private.json exists                              *)
    version,    (* the newest version                                       *)
    pending,    (* files still to be renamed by the operation               *)
    torn        (* a helper was broken off while it published (history)     *)

opVars == <<op, step, awaited, pending>>
bridgeVars == <<running, cancelOf, doneOf, cancelled>>
childVars == <<proc, done, served>>
fileVars == <<conf, manifest, version, torn>>
vars == <<app, ready, opVars, bridgeVars, sup, listed, children, childVars, fileVars>>

Cameras == 1..NumCameras

Operations == {"status", "launch", "regenerate", "configure", "prepare", "upload"}
Steps == {"idle", "answer", "upload", "helper", "publish", "published", "stop", "wait",
          "rename", "start"}
SupStages == {"none", "load", "ports", "starting", "booting", "watching",
              "stopping", "returned", "cleared"}

ASSUME NoneAssumption == none \notin Bridges \cup Operations

Alive(i) == proc[i] \in {"booting", "ready"}

(* The context of a bridge is a child of the app's.                        *)
Cancelled(b) == b \in cancelled \/ app # "up"

Least(S) == CHOOSE i \in S : \A j \in S : i <= j

(* commandForDir(dataDir) = "desktop".                                     *)
Configured == manifest \/ \E i \in Cameras : conf[i] > 0

(* Nothing runs.  There is no configuration yet, or a complete one.        *)
Init ==
    /\ app = "down"
    /\ ready = FALSE
    /\ op = none /\ step = "idle"
    /\ awaited = none /\ pending = {}
    /\ running = FALSE /\ cancelOf = none /\ doneOf = none /\ cancelled = {}
    /\ sup = [b \in Bridges |-> "none"]
    /\ listed = [b \in Bridges |-> {}]
    /\ children = [b \in Bridges |-> {}]
    /\ proc = [i \in Cameras |-> "none"]
    /\ done = [i \in Cameras |-> "empty"]
    /\ served = [i \in Cameras |-> 0]
    /\ manifest \in BOOLEAN
    /\ version = IF manifest THEN 1 ELSE 0
    /\ conf = [i \in Cameras |-> version]
    /\ torn = FALSE

-----------------------------------------------------------------------------
(* Starting and stopping the bridge.                                       *)

(* Seeded fault: the check is forgotten.                                   *)
MayStartTwice == TRUE

(* Only one bridge at a time.                                              *)
MayStart == ~ running

(* startBridge: a no-op while one runs.                                    *)
StartBridge ==
    IF MayStart
    THEN \E b \in Bridges :
            /\ sup[b] = "none"
            /\ sup' = [sup EXCEPT ![b] = "load"]
            /\ running' = TRUE
            /\ cancelOf' = b
            /\ doneOf' = b
            /\ UNCHANGED cancelled
    ELSE UNCHANGED <<bridgeVars, sup>>

(* The goroutine of startBridge: the supervisor has returned.  The state is*)
(* cleared ...                                                             *)
BridgeReturns(b) ==
    /\ sup[b] = "returned"
    /\ sup' = [sup EXCEPT ![b] = "cleared"]
    /\ running' = FALSE
    /\ cancelOf' = none
    /\ doneOf' = IF doneOf = b THEN none ELSE doneOf
    /\ UNCHANGED <<app, ready, opVars, cancelled, listed, children, childVars, fileVars>>

(* ... and done is closed.                                                 *)
BridgeCloses(b) ==
    /\ sup[b] = "cleared"
    /\ sup' = [sup EXCEPT ![b] = "none"]
    /\ listed' = [listed EXCEPT ![b] = {}]
    /\ cancelled' = cancelled \ {b}
    /\ UNCHANGED <<app, ready, opVars, running, cancelOf, doneOf, children, childVars,
                   fileVars>>

-----------------------------------------------------------------------------
(* The app.                                                                *)

(* runApp: a configuration, complete or not, is served at once.            *)
AppStarts ==
    /\ app = "down"
    /\ app' = "up"
    /\ ready' = Configured
    /\ IF Configured THEN StartBridge ELSE UNCHANGED <<bridgeVars, sup>>
    /\ UNCHANGED <<opVars, listed, children, childVars, fileVars>>

(* SIGTERM: ctx, and with it every request and the bridge, is cancelled.   *)
Terminate ==
    /\ app = "up"
    /\ app' = "terminating"
    /\ UNCHANGED <<ready, opVars, bridgeVars, sup, listed,
                   children, childVars, fileVars>>

(* The process ends, after Shutdown's three seconds or in a crash, and its *)
(* container with it: only the files remain.                               *)
AppEnds ==
    /\ app # "down"
    /\ app' = "down"
    /\ ready' = FALSE
    /\ op' = none /\ step' = "idle"
    /\ awaited' = none /\ pending' = {}
    /\ running' = FALSE /\ cancelOf' = none /\ doneOf' = none /\ cancelled' = {}
    /\ sup' = [b \in Bridges |-> "none"]
    /\ listed' = [b \in Bridges |-> {}]
    /\ children' = [b \in Bridges |-> {}]
    /\ proc' = [i \in Cameras |-> "none"]
    /\ done' = [i \in Cameras |-> "empty"]
    /\ served' = [i \in Cameras |-> 0]
    /\ torn' = FALSE
    /\ UNCHANGED <<conf, manifest, version>>

-----------------------------------------------------------------------------
(* Operations: ServeHTTP lets one in at a time and refuses others (409).   *)

FirstStep(o) == CASE o = "status" -> "answer"
                  [] o = "launch" -> "start"
                  [] o = "regenerate" -> "stop"
                  [] o = "upload" -> "upload"
                  [] OTHER -> "helper"

Begin(o) ==
    /\ app = "up"
    /\ op = none
    /\ o = "launch" => ready
    /\ o \in {"regenerate", "configure"} => version < MaxVersion
    /\ op' = o
    /\ step' = FirstStep(o)
    /\ UNCHANGED <<app, ready, awaited, pending, bridgeVars, sup, listed,
                   children, childVars, fileVars>>

(* finish, and the answer.                                                 *)
Finish ==
    /\ op' = none /\ step' = "idle"
    /\ awaited' = none /\ pending' = {}

(* cameraStatus answers, or that there is no configuration it can read.    *)
Answer ==
    /\ step = "answer"
    /\ Finish
    /\ UNCHANGED <<app, ready, bridgeVars, sup, listed, children, childVars, fileVars>>

(* handleAPKUpload: the files are complete and the helper prepares them, or*)
(* the upload is refused, broken off or cancelled.                         *)
Upload ==
    /\ step = "upload"
    /\ \/ step' = "helper" /\ op' = "prepare" /\ UNCHANGED <<awaited, pending>>
       \/ Finish
    /\ UNCHANGED <<app, ready, bridgeVars, sup, listed, children, childVars, fileVars>>

(* invokeHelper without a change of the cameras: preparePlay, prepareApks, *)
(* a setup that fails or is refused, a helper that is killed in time.      *)
HelperEnds ==
    /\ step = "helper"
    /\ Finish
    /\ UNCHANGED <<app, ready, bridgeVars, sup, listed, children, childVars, fileVars>>

(* configure: the camera files are ready to be moved into place.           *)
HelperPublishes ==
    /\ op = "configure" /\ step = "helper"
    /\ step' = "publish"
    /\ pending' = Cameras
    /\ version' = version + 1
    /\ UNCHANGED <<app, ready, op, awaited, bridgeVars, sup, listed,
                   children, childVars, conf, manifest, torn>>

(* os.replace of one file; regenerateRTSPCredentials: os.Rename.           *)
MoveFile(i) ==
    /\ step \in {"publish", "rename"}
    /\ i \in pending
    /\ conf' = [conf EXCEPT ![i] = version]
    /\ pending' = pending \ {i}
    /\ UNCHANGED <<app, ready, op, step, awaited, bridgeVars, sup,
                   listed, children, childVars, manifest, version, torn>>

(* "Publish manifest last".                                                *)
MoveManifest ==
    /\ step = "publish"
    /\ pending = {}
    /\ manifest' = TRUE
    /\ step' = "published"
    /\ UNCHANGED <<app, ready, op, awaited, pending, bridgeVars, sup,
                   listed, children, childVars, conf, version, torn>>

(* The helper is killed, or fails, while it publishes or before it answers.*)
HelperBreaksOff ==
    /\ step \in {"publish", "published"}
    /\ torn' = TRUE
    /\ Finish
    /\ UNCHANGED <<app, ready, bridgeVars, sup, listed, children, childVars,
                   conf, manifest, version>>

(* Seeded fault: the bridge is not restarted after a new setup.            *)
HelperDoneNoRestart ==
    /\ step = "published"
    /\ ready' = TRUE
    /\ torn' = FALSE
    /\ Finish
    /\ UNCHANGED <<app, bridgeVars, sup, listed, children, childVars,
                   conf, manifest, version>>

(* Seeded fault: the operation is finished before the bridge is restarted. *)
HelperDoneEarly ==
    /\ step = "published"
    /\ ready' = TRUE
    /\ torn' = FALSE
    /\ op' = none /\ step' = "stop"
    /\ UNCHANGED <<app, awaited, pending, bridgeVars, sup, listed, children, childVars,
                   conf, manifest, version>>

(* Its answer is ok.  If there was a configuration (hadConfiguration: no   *)
(* other operation has changed that since) the bridge is stopped, to start *)
(* again.                                                                  *)
HelperDone ==
    /\ step = "published"
    /\ ready' = TRUE
    /\ torn' = FALSE
    /\ IF ready
       THEN step' = "stop" /\ UNCHANGED <<op, awaited, pending>>
       ELSE Finish
    /\ UNCHANGED <<app, bridgeVars, sup, listed, children, childVars,
                   conf, manifest, version>>

(* What follows the end of the old bridge.  New credentials are staged if  *)
(* the configuration can be read, else the bridge just starts again.       *)
AfterStop ==
    \/ /\ op = "regenerate" /\ manifest
       /\ step' = "rename"
       /\ pending' = Cameras
       /\ version' = version + 1
    \/ step' = "start" /\ UNCHANGED <<pending, version>>

(* stopBridgeAndWait: nothing to stop, ...                                 *)
NothingToStop ==
    /\ step = "stop"
    /\ cancelOf = none \/ doneOf = none
    /\ AfterStop
    /\ UNCHANGED <<app, ready, op, awaited, bridgeVars, sup, listed,
                   children, childVars, conf, manifest, torn>>

(* ... or the bridge is cancelled ...                                      *)
StopBridge ==
    /\ step = "stop"
    /\ cancelOf # none /\ doneOf # none
    /\ cancelled' = cancelled \cup {cancelOf}
    /\ awaited' = doneOf
    /\ step' = "wait"
    /\ UNCHANGED <<app, ready, op, pending, running, cancelOf, doneOf,
                   sup, listed, children, childVars, fileVars>>

(* ... and its done channel awaited.                                       *)
Waited ==
    /\ step = "wait"
    /\ sup[awaited] = "none"
    /\ awaited' = none
    /\ AfterStop
    /\ UNCHANGED <<app, ready, op, bridgeVars, sup, listed,
                   children, childVars, conf, manifest, torn>>

(* Its context is done first (cancelOperation, a client that goes away, the*)
(* end of the app, twenty minutes): the bridge stays down.                 *)
WaitCancelled ==
    /\ step = "wait"
    /\ Finish
    /\ UNCHANGED <<app, ready, bridgeVars, sup, listed, children, childVars, fileVars>>

RenamesDone ==
    /\ step = "rename"
    /\ pending = {}
    /\ step' = "start"
    /\ torn' = FALSE
    /\ UNCHANGED <<app, ready, op, awaited, pending, bridgeVars, sup,
                   listed, children, childVars, conf, manifest, version>>

(* os.Rename fails: some cameras have new credentials, and the bridge      *)
(* starts again.                                                           *)
RenameFails ==
    /\ step = "rename"
    /\ pending # {}
    /\ step' = "start"
    /\ pending' = {}
    /\ UNCHANGED <<app, ready, op, awaited, bridgeVars, sup, listed,
                   children, childVars, fileVars>>

(* startBridge at the end of an operation.                                 *)
OpStarts ==
    /\ step = "start"
    /\ IF ready THEN StartBridge ELSE UNCHANGED <<bridgeVars, sup>>
    /\ Finish
    /\ UNCHANGED <<app, ready, listed, children, childVars, fileVars>>

-----------------------------------------------------------------------------
(* The supervisor: desktop.run.                                            *)

SupTo(b, stage) == sup' = [sup EXCEPT ![b] = stage]

(* loadCameras: the manifest's cameras or, if there is none, those of the  *)
(* bridge-*.private.json files.                                            *)
LoadCameras(b) ==
    /\ sup[b] = "load"
    /\ LET found == IF manifest THEN Cameras ELSE {i \in Cameras : conf[i] > 0}
       IN  /\ listed' = [listed EXCEPT ![b] = found]
           /\ SupTo(b, IF found = {} THEN "returned" ELSE "ports")
    /\ UNCHANGED <<app, ready, opVars, bridgeVars, children, childVars, fileVars>>

(* A configuration is invalid, or somebody else listens on a port.         *)
RunRefuses(b) ==
    /\ sup[b] \in {"load", "ports"}
    /\ SupTo(b, "returned")
    /\ UNCHANGED <<app, ready, opVars, bridgeVars, listed, children, childVars, fileVars>>

PortsFree(b) ==
    /\ sup[b] = "ports"
    /\ \A i \in listed[b] : proc[i] # "ready"
    /\ SupTo(b, "starting")
    /\ UNCHANGED <<app, ready, opVars, bridgeVars, listed, children, childVars, fileVars>>

(* startChild: one camera after the other.                                 *)
StartChild(b) ==
    /\ sup[b] = "starting"
    /\ listed[b] \ children[b] # {}
    /\ LET i == Least(listed[b] \ children[b])
       IN  /\ children' = [children EXCEPT ![b] = @ \cup {i}]
           /\ proc' = [proc EXCEPT ![i] = "booting"]
           /\ done' = [done EXCEPT ![i] = "empty"]
           /\ served' = [served EXCEPT ![i] = 0]
    /\ SupTo(b, "booting")
    /\ UNCHANGED <<app, ready, opVars, bridgeVars, listed, fileVars>>

(* It cannot create a directory, a log or the process.                     *)
StartChildFails(b) ==
    /\ sup[b] = "starting"
    /\ listed[b] \ children[b] # {}
    /\ SupTo(b, "stopping")
    /\ UNCHANGED <<app, ready, opVars, bridgeVars, listed, children, childVars, fileVars>>

(* A process reads its configuration and listens on its port.              *)
Boots(i) ==
    /\ proc[i] = "booting"
    /\ proc' = [proc EXCEPT ![i] = "ready"]
    /\ served' = [served EXCEPT ![i] = conf[i]]
    /\ UNCHANGED <<app, ready, opVars, bridgeVars, sup, listed, children, done, fileVars>>

(* A process ends; the goroutine of startChild sends the result on c.done  *)
(* and closes it.                                                          *)
Exit(i) ==
    /\ Alive(i)
    /\ proc' = [proc EXCEPT ![i] = "exited"]
    /\ done' = [done EXCEPT ![i] = "value"]
    /\ UNCHANGED <<app, ready, opVars, bridgeVars, sup, listed, children, served, fileVars>>

(* Seeded fault: the channel is not closed behind the value.               *)
ReceivableOnce(i) == done[i] = "value"

(* c.done can be received from: the value, then the closed channel.        *)
Receivable(i) == done[i] # "empty"

(* The child that was started last.                                        *)
Newest(b) == CHOOSE i \in children[b] : \A j \in children[b] : j <= i

(* waitReady: the port answers, ...                                        *)
ChildReady(b) ==
    /\ sup[b] = "booting"
    /\ proc[Newest(b)] = "ready"
    /\ SupTo(b, "starting")
    /\ UNCHANGED <<app, ready, opVars, bridgeVars, listed, children, childVars, fileVars>>

(* ... or the child exits, which takes the value from its channel, ...     *)
ChildFails(b) ==
    /\ sup[b] = "booting"
    /\ Receivable(Newest(b))
    /\ done' = [done EXCEPT ![Newest(b)] = "drained"]
    /\ SupTo(b, "stopping")
    /\ UNCHANGED <<app, ready, opVars, bridgeVars, listed, children, proc, served, fileVars>>

(* ... or 45 seconds are over.                                             *)
ChildTimesOut(b) ==
    /\ sup[b] = "booting"
    /\ proc[Newest(b)] = "booting"
    /\ SupTo(b, "stopping")
    /\ UNCHANGED <<app, ready, opVars, bridgeVars, listed, children, childVars, fileVars>>

AllStarted(b) ==
    /\ sup[b] = "starting"
    /\ listed[b] \subseteq children[b]
    /\ SupTo(b, "watching")
    /\ UNCHANGED <<app, ready, opVars, bridgeVars, listed, children, childVars, fileVars>>

(* The context is done.                                                    *)
RunCancelled(b) ==
    /\ sup[b] \in {"booting", "watching"}
    /\ Cancelled(b)
    /\ SupTo(b, "stopping")
    /\ UNCHANGED <<app, ready, opVars, bridgeVars, listed, children, childVars, fileVars>>

(* Seeded fault: only the end of all of them counts.                       *)
ChildStoppedAll(b, i) ==
    /\ sup[b] = "watching"
    /\ i \in children[b]
    /\ \A j \in children[b] : Receivable(j)
    /\ SupTo(b, "stopping")
    /\ UNCHANGED <<app, ready, opVars, bridgeVars, listed, children, childVars, fileVars>>

(* Twice a second: has a child stopped?                                    *)
ChildStopped(b, i) ==
    /\ sup[b] = "watching"
    /\ i \in children[b]
    /\ Receivable(i)
    /\ done' = [done EXCEPT ![i] = "drained"]
    /\ SupTo(b, "stopping")
    /\ UNCHANGED <<app, ready, opVars, bridgeVars, listed, children, proc, served, fileVars>>

(* child.stop, one child after the other: interrupt, and kill it after     *)
(* three seconds ...                                                       *)
StopChild(b) ==
    /\ sup[b] = "stopping"
    /\ children[b] # {}
    /\ Exit(Least(children[b]))

(* ... and it is gone.                                                     *)
ChildGone(b) ==
    /\ sup[b] = "stopping"
    /\ children[b] # {}
    /\ LET i == Least(children[b])
       IN  /\ Receivable(i)
           /\ done' = [done EXCEPT ![i] = "empty"]
           /\ proc' = [proc EXCEPT ![i] = "none"]
           /\ served' = [served EXCEPT ![i] = 0]
           /\ children' = [children EXCEPT ![b] = @ \ {i}]
    /\ UNCHANGED <<app, ready, opVars, bridgeVars, sup, listed, fileVars>>

Stopped(b) ==
    /\ sup[b] = "stopping"
    /\ children[b] = {}
    /\ SupTo(b, "returned")
    /\ UNCHANGED <<app, ready, opVars, bridgeVars, listed, children, childVars, fileVars>>

-----------------------------------------------------------------------------
OpStep ==
    \/ Answer \/ Upload \/ HelperEnds
    \/ HelperPublishes \/ MoveManifest \/ HelperBreaksOff \/ HelperDone
    \/ NothingToStop \/ StopBridge \/ Waited
    \/ RenamesDone \/ RenameFails \/ OpStarts
    \/ \E i \in Cameras : MoveFile(i)

SupStep(b) ==
    \/ LoadCameras(b) \/ RunRefuses(b) \/ PortsFree(b)
    \/ StartChild(b) \/ StartChildFails(b)
    \/ ChildReady(b) \/ ChildFails(b) \/ ChildTimesOut(b) \/ AllStarted(b)
    \/ RunCancelled(b) \/ \E i \in Cameras : ChildStopped(b, i)
    \/ StopChild(b) \/ ChildGone(b) \/ Stopped(b)
    \/ BridgeReturns(b) \/ BridgeCloses(b)

AppStep == AppStarts \/ Terminate \/ AppEnds

Next ==
    \/ AppStep
    \/ (\E o \in Operations : Begin(o)) \/ OpStep \/ WaitCancelled
    \/ \E b \in Bridges : SupStep(b)
    \/ \E i \in Cameras : Boots(i) \/ Exit(i)

Spec == Init /\ [][Next]_vars

(* An operation and a supervisor go on: the helper ends, a start of a child*)
(* has its 45 seconds and its end its three.  Nobody has to cancel.        *)
Fairness == WF_vars(OpStep) /\ \A b \in Bridges : WF_vars(SupStep(b))

FairSpec == Spec /\ Fairness

-----------------------------------------------------------------------------
(* Properties.                                                             *)

(* Every variable ranges over what its Go type and its use allow.          *)
TypeOK ==
    /\ app \in {"down", "up", "terminating"}
    /\ ready \in BOOLEAN
    /\ op \in Operations \cup {none} /\ step \in Steps
    /\ op = none <=> step = "idle"
    /\ awaited \in Bridges \cup {none}
    /\ pending \subseteq Cameras
    /\ running \in BOOLEAN
    /\ cancelOf \in Bridges \cup {none} /\ doneOf \in Bridges \cup {none}
    /\ cancelled \subseteq Bridges
    /\ sup \in [Bridges -> SupStages]
    /\ listed \in [Bridges -> SUBSET Cameras]
    /\ children \in [Bridges -> SUBSET Cameras]
    /\ proc \in [Cameras -> {"none", "booting", "ready", "exited"}]
    /\ done \in [Cameras -> {"empty", "value", "drained"}]
    /\ served \in [Cameras -> 0..MaxVersion]
    /\ conf \in [Cameras -> 0..MaxVersion]
    /\ manifest \in BOOLEAN
    /\ version \in 0..MaxVersion
    /\ torn \in BOOLEAN

(* Each camera process has exactly one supervisor, which will stop it: no  *)
(* restart, overlap of operations or ending supervisor leaves one behind or*)
(* starts a second one on its port (startBridge, stopBridgeAndWait, run).  *)
OneSupervisor ==
    \A i \in Cameras : proc[i] # "none" =>
        \E b \in Bridges :
            /\ sup[b] \in {"starting", "booting", "watching", "stopping"}
            /\ {c \in Bridges : i \in children[c]} = {b}

(* Between operations, what the camera processes serve is what the files   *)
(* say, as "status" reports it to the user: every completed setup and every*)
(* regeneration of credentials reaches the processes, one that failed half *)
(* way too.  Only a helper that is broken off while it publishes can leave *)
(* old credentials in use (configure, regenerateCredentials, cameraStatus).*)
BridgeIsCurrent ==
    op = none /\ ~ torn =>
        \A b \in Bridges : ~ Cancelled(b) =>
            \A i \in children[b] : proc[i] = "ready" => served[i] = conf[i]

(* New credentials are moved into place while no camera process runs: none *)
(* reads a set that is half new (regenerateCredentials after               *)
(* stopBridgeAndWait).                                                     *)
CredentialsMovedAtRest ==
    step = "rename" => \A i \in Cameras : proc[i] = "none"

(* A supervisor starts into an empty house: no camera process of one before*)
(* it is left, and so none that it would meet on its ports (startBridge,   *)
(* run, child.stop).                                                       *)
SupervisorStartsAtRest ==
    [][\A b \in Bridges : sup[b] = "none" /\ sup'[b] = "load"
           => \A i \in Cameras : proc[i] = "none"]_vars

(* An operation ends without being cancelled: it does not wait for a bridge*)
(* that never closes its done channel, so that the app does not stay busy  *)
(* (beginOperation, stopBridgeAndWait, child.stop).                        *)
OperationEnds == op # none ~> op = none

(* A camera process that dies takes the others down, also while another one*)
(* still boots or is being stopped: no viewer keeps part of an installation*)
(* whose failure nobody reports (run, waitReady).                          *)
DeathEndsBridge ==
    (\E i \in Cameras : proc[i] = "exited") ~> \A i \in Cameras : proc[i] = "none"

-----------------------------------------------------------------------------
(* The abstract supervision.                                               *)

(* A supervisor runs, or has not yet told so.                              *)
Active(b) == sup[b] \notin {"none", "cleared"}

Supervised == INSTANCE Supervision WITH
    on   <- \E b \in Bridges : Active(b),
    proc <- proc

(* Whatever starts, stops and restarts the bridge, and however its children*)
(* end, the app keeps to Supervision.                                      *)
ImplementsSupervision == Supervised!Spec

-----------------------------------------------------------------------------
(* setup_wizard.py:401, "the desktop launcher cannot observe partial       *)
(* setup": whoever loads the cameras gets all of them.                     *)
PartialSetupUnseen == \A b \in Bridges : listed[b] \in {{}, Cameras}

=============================================================================
