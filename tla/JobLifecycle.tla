------------------------------ MODULE JobLifecycle ------------------------------
(***************************************************************************)
(* The life of jobs on one rig: validator/work/containers.py (create with  *)
(* its rollback, destroy, recreate, the stale volumes), the orphan sweep   *)
(* and the retried teardowns of storage/sweep.py, the repair of            *)
(* recovery/device_cgroup.py, and the files they keep (JobStore,           *)
(* TeardownRetries, the jobs of PowerRecords).                             *)
(*                                                                         *)
(* All of it are coroutines that command the rig over SSH, so a step is    *)
(* one command and what the coroutine does until the next.  Any command    *)
(* may be refused, and one whose connection failed may have been executed  *)
(* all the same.  The rig's docker daemon and the caller are external: the *)
(* caller starts one creation per job at a time and destroys the jobs it   *)
(* has done with.  What a job does to the power limits of its cards is     *)
(* the subject of PowerLimits; here it either holds caps or does not.      *)
(***************************************************************************)
EXTENDS Naturals, FiniteSetsExt

CONSTANTS Job,          \* job ids; each job has one container and one volume
          Port,         \* the rig's reserved port range; each job needs one
          Crowds,       \* bound: the sets of jobs that share the rig
          MaxCrowd,     \* bound: the most jobs where something goes wrong
          MaxFaults,    \* bound: failed commands and deaths of the validator
          MaxRepairs    \* bound: repairs of a container that lost its devices

ASSUME JobAssumption ==
    /\ Port \subseteq Nat /\ Port # {}
    /\ Crowds \subseteq SUBSET Job
    /\ MaxCrowd \in Nat /\ MaxFaults \in Nat /\ MaxRepairs \in Nat

VARIABLES
    crowd,      \* the jobs of this behaviour
    box,        \* the rig: the container of each job
    vol,        \* the rig: the volume of each job
    port,       \* JobSpec.ports: the port each job was given last
    capped,     \* PowerRecords.jobs: the jobs that hold power caps
    store,      \* JobStore: the jobs with a file
    retries,    \* TeardownRetries.pending
    wanted,     \* the caller: the jobs it believes to be on the rig
    pc,         \* the create coroutine of each job
    did,        \* its locals created_volumes, capped and launched
    doomed,     \* its list of stale volumes
    again,      \* it was called by recreate: volume.create is false
    cancelled,  \* Inflight._cancelled
    undo,       \* the `cancelled` of its finally block
    dpc,        \* the destroy coroutines of each job: the caller's and the sweep's
    spc, running, todo, sdoomed,   \* the sweep: running_jobs and its loops
    faults, repairs,
    unclean,    \* history: something was left that nothing is to undo, see Fault
    swept       \* history: the wanted jobs that the sweep has begun to destroy

rigVars     == <<box, vol>>
fileVars    == <<capped, store, retries>>
createVars  == <<pc, did, doomed, again, cancelled, undo>>
sweepVars   == <<spc, running, todo, sdoomed>>
faultVars   == <<faults, unclean>>
vars == <<rigVars, port, fileVars, wanted, createVars, dpc, sweepVars, faultVars, repairs>>

Destroyer == {"caller", "sweep"}

Type ==
    /\ crowd \in Crowds
    /\ box \in [Job -> {"none", "created", "stopped", "running"}]
    /\ port \in [Job -> Port]
    /\ vol \in [Job -> {"none", "empty", "data"}]
    /\ capped \subseteq Job /\ store \subseteq Job /\ retries \subseteq Job /\ wanted \subseteq Job
    /\ pc \in [Job -> {"idle", "teardown", "reserve", "pull", "cleanup", "stale", "remove", "power",
                       "run", "rerun", "retry", "mount", "undo box", "undo caps", "undo volume"}]
    /\ did \in [Job -> SUBSET {"volume", "caps", "container"}]
    /\ doomed \in [Job -> SUBSET Job]
    /\ again \in [Job -> BOOLEAN]
    /\ cancelled \subseteq Job /\ undo \subseteq Job
    /\ dpc \in [Destroyer -> [Job -> {"idle", "remove", "power", "volume"}]]
    /\ spc \in {"idle", "retry", "list", "orphans", "stale", "remove"}
    /\ running \subseteq Job /\ todo \subseteq Job /\ sdoomed \subseteq Job
    /\ faults \in 0..MaxFaults /\ repairs \in 0..MaxRepairs
    /\ unclean \in BOOLEAN /\ swept \subseteq Job

Init ==
    /\ crowd \in Crowds
    /\ box = [j \in Job |-> "none"] /\ vol = [j \in Job |-> "none"]
    /\ port = [j \in Job |-> Min(Port)]
    /\ capped = {} /\ store = {} /\ retries = {} /\ wanted = {}
    /\ pc = [j \in Job |-> "idle"] /\ did = [j \in Job |-> {}]
    /\ doomed = [j \in Job |-> {}] /\ again = [j \in Job |-> FALSE]
    /\ cancelled = {} /\ undo = {}
    /\ dpc = [d \in Destroyer |-> [j \in Job |-> "idle"]]
    /\ spc = "idle" /\ running = {} /\ todo = {} /\ sdoomed = {}
    /\ faults = 0 /\ repairs = 0 /\ unclean = FALSE /\ swept = {}

-----------------------------------------------------------------------------
(* The rig, as the commands use it.                                        *)

(* A bound: commands fail and jobs are cancelled and repaired only where   *)
(* MaxCrowd jobs or fewer share the rig.                                   *)
Few == Cardinality(crowd) <= MaxCrowd

Failure == Few /\ faults < MaxFaults /\ faults' = faults + 1

(* The rig refuses a command, or cannot tell what it is asked, and what    *)
(* there is to undo is known.                                              *)
Refused == Failure /\ UNCHANGED unclean

(* A connection that fails while the command is executed, the end of the   *)
(* validator, or a failure to remove, to give back or to list what is to   *)
(* be removed.                                                             *)
Fault == Failure /\ unclean' = TRUE

NoFault == UNCHANGED faultVars

Mounted(j) == box[j] # "none"

(* A removal that only begins.                                             *)
RemoveBoxBegins(j) == box' = [box EXCEPT ![j] = "removing"]

(* docker rm -f.                                                           *)
RemoveBox(j) == box' = [box EXCEPT ![j] = "none"]

(* A docker stop and rm of which one failed: the container is there, or    *)
(* stopped, or gone.                                                       *)
RemoveBoxFails(j) ==
    box' \in {box, [box EXCEPT ![j] = "none"], [box EXCEPT ![j] = IF @ = "running" THEN "stopped" ELSE @]}

(* docker volume rm -f, which refuses a volume that a container mounts.    *)
RemoveVolume(j) == vol' = [vol EXCEPT ![j] = IF Mounted(j) THEN @ ELSE "none"]

(* docker volume create, which leaves a volume of that name as it is.      *)
MakeVolume(j) == vol' = [vol EXCEPT ![j] = IF @ = "none" THEN "empty" ELSE @]

(* remove_stale_volumes: ours, and mounted by no container.                *)
StaleVolumes == {j \in Job : vol[j] # "none" /\ ~Mounted(j)}

-----------------------------------------------------------------------------
(* create.  Inflight.start, the validation and the first checkpoint run    *)
(* without an await; a spec that is refused changes nothing.               *)
Create(j) ==
    /\ j \in crowd /\ pc[j] = "idle" /\ j \notin wanted
    /\ dpc["caller"][j] = "idle"
    /\ wanted' = wanted \cup {j}
    /\ pc' = [pc EXCEPT ![j] = "reserve"]
    /\ cancelled' = cancelled \ {j}
    /\ UNCHANGED <<rigVars, port, fileVars, did, doomed, again, undo, dpc, sweepVars, faultVars, repairs>>

(* Inflight.cancel.  A recreate is not registered with Inflight.           *)
Cancel(j) ==
    /\ Few /\ pc[j] # "idle" /\ ~again[j]
    /\ cancelled' = cancelled \cup {j}
    /\ UNCHANGED <<rigVars, port, fileVars, wanted, pc, did, doomed, again, undo, dpc, sweepVars,
                   faultVars, repairs>>

(* Inflight.finish and the return: the caller is told, and no longer       *)
(* counts on a job that could not be created.                              *)
Ends(j, ok) ==
    /\ pc' = [pc EXCEPT ![j] = "idle"]
    /\ did' = [did EXCEPT ![j] = {}]
    /\ doomed' = [doomed EXCEPT ![j] = {}]
    /\ again' = [again EXCEPT ![j] = FALSE]
    /\ cancelled' = cancelled \ {j}
    /\ undo' = undo \ {j}
    /\ wanted' = IF ok \/ again[j] THEN wanted ELSE wanted \ {j}
    /\ UNCHANGED port

Goes(j, step) ==
    /\ pc' = [pc EXCEPT ![j] = step]
    /\ UNCHANGED <<port, doomed, again, cancelled, undo, wanted>>

(* A creation that fails without its finally block.                        *)
FailsBare(j) == Ends(j, FALSE)

(* The finally block of a creation that did not succeed.                   *)
Fails(j) ==
    \/ did[j] = {} /\ Ends(j, FALSE)
    \/ /\ did[j] # {}
       /\ pc' = [pc EXCEPT ![j] = "undo box"]
       /\ undo' = IF j \in cancelled THEN undo \cup {j} ELSE undo
       /\ UNCHANGED <<port, did, doomed, again, cancelled, wanted>>

(* _checkpoint, and what follows it.                                       *)
Checkpoint(j, step) ==
    \/ j \in cancelled /\ Fails(j)
    \/ j \notin cancelled /\ Goes(j, step) /\ UNCHANGED did

(* used_ports: those that containers other than the job's listen on.       *)
UsedPorts(j) == {port[i] : i \in {i \in Job \ {j} : box[i] = "running"}}

(* reserve_ports: the first port that is free now, of which the rig knows  *)
(* nothing until docker run, after a pull of up to three hours; a list     *)
(* that could not be read counts as empty.                                 *)
GivePort(j, free) ==
    \/ free = {} /\ Fails(j)
    \/ /\ free # {} /\ port' = [port EXCEPT ![j] = Min(free)]
       /\ pc' = [pc EXCEPT ![j] = "pull"]
       /\ UNCHANGED <<did, doomed, again, cancelled, undo, wanted>>

Reserve(j) ==
    /\ pc[j] = "reserve"
    /\ \/ again[j] /\ Goes(j, "pull") /\ UNCHANGED did /\ NoFault
       \/ ~again[j] /\ GivePort(j, Port \ UsedPorts(j)) /\ NoFault
       \/ ~again[j] /\ GivePort(j, Port) /\ Refused
    /\ UNCHANGED <<rigVars, fileVars, dpc, sweepVars, repairs>>

(* flock and docker pull, of which AgentWork has the lock.                 *)
Pull(j) ==
    /\ pc[j] = "pull"
    /\ \/ Checkpoint(j, "cleanup") /\ NoFault
       \/ Fails(j) /\ Refused
    /\ UNCHANGED <<rigVars, fileVars, dpc, sweepVars, repairs>>

(* docker rm -f of a container of that name; its result is not looked at.  *)
Cleanup(j) ==
    /\ pc[j] = "cleanup"
    /\ \/ RemoveBox(j) /\ NoFault
       \/ UNCHANGED box /\ Fault
    /\ Goes(j, "stale") /\ UNCHANGED did
    /\ UNCHANGED <<vol, fileVars, dpc, sweepVars, repairs>>

(* remove_stale_volumes, of whichever job; list_ours or mounted_volumes    *)
(* that fails leaves nothing to remove.                                    *)
ListStale(j) ==
    /\ pc[j] = "stale"
    /\ \/ doomed' = [doomed EXCEPT ![j] = StaleVolumes] /\ NoFault
       \/ UNCHANGED doomed /\ Fault
    /\ pc' = [pc EXCEPT ![j] = "remove"]
    /\ UNCHANGED <<rigVars, port, fileVars, wanted, did, again, cancelled, undo, dpc, sweepVars, repairs>>

RemoveStale(j, v) ==
    /\ pc[j] = "remove" /\ v \in doomed[j]
    /\ \/ RemoveVolume(v) /\ NoFault
       \/ UNCHANGED vol /\ Fault
    /\ doomed' = [doomed EXCEPT ![j] = @ \ {v}]
    /\ UNCHANGED <<box, port, fileVars, wanted, pc, did, again, cancelled, undo, dpc, sweepVars, repairs>>

(* volumes.create, unless the spec says that the volume exists.  A command *)
(* whose connection failed may have made the volume; it is not noted as    *)
(* created.                                                                *)
CreateVolume(j) ==
    /\ pc[j] = "remove" /\ doomed[j] = {}
    /\ \/ again[j] /\ Goes(j, "power") /\ UNCHANGED <<vol, did>> /\ NoFault
       \/ /\ ~again[j] /\ Goes(j, "power") /\ NoFault
          /\ MakeVolume(j)
          /\ did' = [did EXCEPT ![j] = @ \cup {"volume"}]
       \/ ~again[j] /\ Fails(j) /\ Refused /\ UNCHANGED vol
       \/ ~again[j] /\ Fails(j) /\ Fault /\ MakeVolume(j)
    /\ UNCHANGED <<box, fileVars, dpc, sweepVars, repairs>>

(* device_nodes and apply_caps.  A cap that does not take is taken back    *)
(* (restore_job), if that succeeds.                                        *)
ApplyCaps(j) ==
    /\ pc[j] = "power"
    /\ \/ /\ capped' = capped \cup {j} /\ NoFault
          /\ Goes(j, "run") /\ did' = [did EXCEPT ![j] = @ \cup {"caps"}]
       \/ capped' \in {capped, capped \ {j}} /\ Refused /\ Fails(j)
       \/ capped' = capped \cup {j} /\ Fault /\ Fails(j)
    /\ UNCHANGED <<rigVars, store, retries, dpc, sweepVars, repairs>>

(* remove_probe_containers, the checkpoint and docker_run, which makes a   *)
(* volume that is not there, and looks at cancelled no more.  A run that   *)
(* is refused may leave a container that was created and not started; one  *)
(* over a connection that failed, one that runs; launched stays false.     *)
Run(j) ==
    /\ pc[j] \in {"run", "rerun"}
    /\ \/ pc[j] = "run" /\ j \in cancelled /\ Fails(j) /\ NoFault /\ UNCHANGED rigVars
       \/ /\ pc[j] = "rerun" \/ j \notin cancelled
          /\ \/ /\ ~Mounted(j) /\ port[j] \notin UsedPorts(j) /\ NoFault
                /\ box' = [box EXCEPT ![j] = "running"] /\ MakeVolume(j)
                /\ Goes(j, "mount") /\ did' = [did EXCEPT ![j] = @ \cup {"container"}]
             \/ ~Mounted(j) /\ Fails(j) /\ Refused /\ UNCHANGED rigVars
             \/ /\ ~Mounted(j) /\ Fails(j) /\ MakeVolume(j)
                /\ \/ box' = [box EXCEPT ![j] = "created"] /\ Refused
                   \/ box' = [box EXCEPT ![j] = "running"] /\ Fault
             \/ Mounted(j) /\ Fails(j) /\ NoFault /\ UNCHANGED rigVars
    /\ UNCHANGED <<fileVars, dpc, sweepVars, repairs>>

(* Another job has taken the port: docker leaves a container that is       *)
(* created and not started.  There is another attempt until                *)
(* PORT_RETRY_SECONDS have passed.                                         *)
PortBusy(j) ==
    /\ pc[j] \in (IF j \in cancelled THEN {"rerun"} ELSE {"run", "rerun"})
    /\ ~Mounted(j) /\ port[j] \in UsedPorts(j)
    /\ box' = [box EXCEPT ![j] = "created"] /\ MakeVolume(j)
    /\ \/ Goes(j, "retry") /\ UNCHANGED did
       \/ Fails(j)
    /\ UNCHANGED <<fileVars, dpc, sweepVars, faultVars, repairs>>

(* docker rm -f before the next attempt; its result is not looked at.      *)
Retry(j) ==
    /\ pc[j] = "retry"
    /\ \/ RemoveBox(j) /\ NoFault
       \/ UNCHANGED box /\ Fault
    /\ Goes(j, "rerun") /\ UNCHANGED did
    /\ UNCHANGED <<vol, fileVars, dpc, sweepVars, repairs>>

(* The container did not come up, or has exited again.                     *)
NotRunning(j) ==
    /\ pc[j] = "mount"
    /\ box' = [box EXCEPT ![j] = IF @ = "running" THEN "stopped" ELSE @]
    /\ Fails(j) /\ NoFault
    /\ UNCHANGED <<vol, fileVars, dpc, sweepVars, repairs>>

(* wait_running and setup_encrypted, which initialises a volume only if it *)
(* was created for this job, then the last checkpoint and JobStore.save,   *)
(* without an await between them.                                          *)
Record(j) ==
    /\ pc[j] = "mount" /\ box[j] = "running"
    /\ again[j] => vol[j] = "data"
    /\ vol' = [vol EXCEPT ![j] = "data"]
    /\ \/ j \in cancelled /\ Fails(j) /\ UNCHANGED store
       \/ j \notin cancelled /\ Ends(j, TRUE) /\ store' = store \cup {j}
    /\ UNCHANGED <<box, capped, retries, dpc, sweepVars, faultVars, repairs>>

(* A command of these failed, the container has gone, or gocryptfs.conf is *)
(* missing.                                                                *)
MountFails(j) ==
    /\ pc[j] = "mount"
    /\ \/ Refused
       \/ (box[j] # "running" \/ (again[j] /\ vol[j] # "data")) /\ NoFault
    /\ Fails(j)
    /\ UNCHANGED <<rigVars, fileVars, dpc, sweepVars, repairs>>

(* _rollback; results are not looked at.                                   *)
UndoBox(j) ==
    /\ pc[j] = "undo box"
    /\ \/ "container" \in did[j] /\ RemoveBox(j) /\ NoFault
       \/ "container" \in did[j] /\ UNCHANGED box /\ Fault
       \/ "container" \notin did[j] /\ UNCHANGED box /\ NoFault
    /\ Goes(j, "undo caps") /\ UNCHANGED did
    /\ UNCHANGED <<vol, fileVars, dpc, sweepVars, repairs>>

UndoCaps(j) ==
    /\ pc[j] = "undo caps"
    /\ \/ "caps" \in did[j] /\ capped' = capped \ {j} /\ NoFault
       \/ "caps" \in did[j] /\ UNCHANGED capped /\ Fault
       \/ "caps" \notin did[j] /\ UNCHANGED capped /\ NoFault
    /\ Goes(j, "undo volume") /\ UNCHANGED did
    /\ UNCHANGED <<rigVars, store, retries, dpc, sweepVars, repairs>>

(* The volumes, and the job's file if the creation had been cancelled.     *)
UndoVolume(j) ==
    /\ pc[j] = "undo volume"
    /\ \/ "volume" \in did[j] /\ RemoveVolume(j) /\ NoFault
       \/ "volume" \in did[j] /\ UNCHANGED vol /\ Fault
       \/ "volume" \notin did[j] /\ UNCHANGED vol /\ NoFault
    /\ store' = IF j \in undo THEN store \ {j} ELSE store
    /\ Ends(j, FALSE)
    /\ UNCHANGED <<box, capped, retries, dpc, sweepVars, repairs>>

-----------------------------------------------------------------------------
(* destroy, called for the caller or by the sweep.                         *)
Destroy(j) ==
    /\ dpc["caller"][j] = "idle" /\ pc[j] = "idle" /\ j \in wanted
    /\ dpc' = [dpc EXCEPT !["caller"][j] = "remove"]
    /\ wanted' = wanted \ {j}
    /\ UNCHANGED <<rigVars, port, fileVars, createVars, sweepVars, faultVars, repairs>>

Steps(d, j, step) == dpc' = [dpc EXCEPT ![d][j] = step]

(* docker stop and docker rm -f -v.  When one fails the sweep will try     *)
(* again: it keeps its own retries, and the caller notes one that          *)
(* destroy says to retry later (a connection that failed).                 *)
Remove(d, j) ==
    /\ dpc[d][j] = "remove"
    /\ \/ RemoveBox(j) /\ Steps(d, j, "power") /\ UNCHANGED retries /\ NoFault
       \/ /\ RemoveBoxFails(j) /\ Steps(d, j, "idle") /\ Fault
          /\ \/ UNCHANGED retries
             \/ d = "caller" /\ retries' = retries \cup {j}
    /\ UNCHANGED <<vol, port, capped, store, wanted, createVars, sweepVars, repairs>>

Restore(d, j) ==
    /\ dpc[d][j] = "power"
    /\ \/ capped' = capped \ {j} /\ NoFault
       \/ UNCHANGED capped /\ Fault
    /\ Steps(d, j, "volume")
    /\ UNCHANGED <<rigVars, port, store, retries, wanted, createVars, sweepVars, repairs>>

(* The volume, the job's file, and the retry if it was one.                *)
Forget(d, j) ==
    /\ dpc[d][j] = "volume"
    /\ \/ RemoveVolume(j) /\ NoFault
       \/ UNCHANGED vol /\ Fault
    /\ store' = store \ {j}
    /\ retries' = IF d = "sweep" /\ spc = "retry" THEN retries \ {j} ELSE retries
    /\ Steps(d, j, "idle")
    /\ UNCHANGED <<box, port, capped, wanted, createVars, sweepVars, repairs>>

-----------------------------------------------------------------------------
(* storage/sweep.sweep(running_jobs): the retries, the orphans, the stale  *)
(* volumes.                                                                *)
SweepWaits == \E j \in Job : dpc["sweep"][j] # "idle"

SweepBegin ==
    /\ spc = "idle"
    /\ running' = wanted /\ todo' = retries
    /\ spc' = "retry"
    /\ UNCHANGED <<rigVars, port, fileVars, wanted, createVars, dpc, sdoomed, faultVars, repairs>>

SweepDestroys(j) ==
    /\ spc \in {"retry", "orphans"} /\ j \in todo /\ ~SweepWaits
    /\ todo' = todo \ {j}
    /\ Steps("sweep", j, "remove")
    /\ UNCHANGED <<rigVars, port, fileVars, wanted, createVars, spc, running, sdoomed, faultVars, repairs>>

(* Without `-a`: a container that is not running is not listed.            *)
ActiveContainers == {j \in Job : box[j] = "running"}

OwnContainers == {j \in Job : Mounted(j)}

(* own_containers, less those of the running jobs.                         *)
SweepList ==
    /\ spc = "retry" /\ todo = {} /\ ~SweepWaits
    /\ \/ todo' = OwnContainers \ running /\ NoFault
       \/ UNCHANGED todo /\ Refused
    /\ spc' = "orphans"
    /\ UNCHANGED <<rigVars, port, fileVars, wanted, createVars, dpc, running, sdoomed, repairs>>

SweepStale ==
    /\ spc = "orphans" /\ todo = {} /\ ~SweepWaits
    /\ \/ sdoomed' = StaleVolumes /\ NoFault
       \/ UNCHANGED sdoomed /\ Refused
    /\ spc' = "remove"
    /\ UNCHANGED <<rigVars, port, fileVars, wanted, createVars, dpc, running, todo, repairs>>

SweepVolume(v) ==
    /\ spc = "remove" /\ v \in sdoomed
    /\ \/ RemoveVolume(v) /\ NoFault
       \/ UNCHANGED vol /\ Refused
    /\ sdoomed' = sdoomed \ {v}
    /\ UNCHANGED <<box, port, fileVars, wanted, createVars, dpc, spc, running, todo, repairs>>

SweepEnds ==
    /\ spc = "remove" /\ sdoomed = {}
    /\ spc' = "idle" /\ running' = {}
    /\ UNCHANGED <<rigVars, port, fileVars, wanted, createVars, dpc, todo, sdoomed, faultVars, repairs>>

-----------------------------------------------------------------------------
(* device_cgroup.repair of a container that lost its devices and whose     *)
(* spec is in the store: recreate ...                                      *)
Repair(j) ==
    /\ pc[j] = "idle" /\ box[j] = "running" /\ j \in store
    /\ Few /\ repairs < MaxRepairs /\ repairs' = repairs + 1
    /\ pc' = [pc EXCEPT ![j] = "teardown"]
    /\ again' = [again EXCEPT ![j] = TRUE]
    /\ UNCHANGED <<rigVars, port, fileVars, wanted, did, doomed, cancelled, undo, dpc, sweepVars, faultVars>>

(* ... which destroys the container without the job's caps, volumes and    *)
(* file, and creates it anew.                                              *)
Recreate(j) ==
    /\ pc[j] = "teardown"
    /\ \/ RemoveBox(j) /\ Goes(j, "reserve") /\ UNCHANGED did /\ NoFault
       \/ RemoveBoxFails(j) /\ Ends(j, FALSE) /\ Fault
    /\ UNCHANGED <<vol, fileVars, dpc, sweepVars, repairs>>

(* The validator dies; its files and the rig stay.  The caller starts      *)
(* anew from the jobs it has a file for.                                   *)
Crash ==
    /\ Fault
    /\ pc' = [j \in Job |-> "idle"] /\ did' = [j \in Job |-> {}]
    /\ doomed' = [j \in Job |-> {}] /\ again' = [j \in Job |-> FALSE]
    /\ cancelled' = {} /\ undo' = {}
    /\ dpc' = [d \in Destroyer |-> [j \in Job |-> "idle"]]
    /\ spc' = "idle" /\ running' = {} /\ todo' = {} /\ sdoomed' = {}
    /\ wanted' = store
    /\ UNCHANGED <<rigVars, port, fileVars, repairs>>

CreateStep(j) ==
    \/ Reserve(j) \/ Pull(j) \/ Cleanup(j) \/ ListStale(j) \/ CreateVolume(j) \/ ApplyCaps(j) \/ Run(j)
    \/ PortBusy(j) \/ Retry(j) \/ NotRunning(j) \/ Record(j) \/ MountFails(j)
    \/ UndoBox(j) \/ UndoCaps(j) \/ UndoVolume(j) \/ Recreate(j)
    \/ \E v \in Job : RemoveStale(j, v)

DestroyStep(d, j) == Remove(d, j) \/ Restore(d, j) \/ Forget(d, j)

SweepStep ==
    \/ SweepBegin \/ SweepList \/ SweepStale \/ SweepEnds
    \/ \E j \in Job : SweepDestroys(j) \/ SweepVolume(j)

Next ==
    /\ \/ \E j \in Job : Create(j) \/ Cancel(j) \/ CreateStep(j) \/ Destroy(j) \/ Repair(j)
       \/ \E d \in Destroyer, j \in Job : DestroyStep(d, j)
       \/ SweepStep
       \/ Crash
    /\ swept' = {j \in wanted' : j \in swept \/ dpc'["sweep"][j] # "idle"}
    /\ UNCHANGED crowd

Spec == Init /\ [][Next]_<<vars, crowd, swept>>

(* Coroutines run, each command returns (all have timeouts) and the caller *)
(* sweeps the rig again and again.                                         *)
Fairness ==
    /\ \A j \in Job : WF_vars(CreateStep(j))
    /\ \A d \in Destroyer, j \in Job : WF_vars(DestroyStep(d, j))
    /\ WF_vars(SweepStep)

FairSpec == Spec /\ Fairness

-----------------------------------------------------------------------------
BeingDestroyed(j) == \E d \in Destroyer : dpc[d][j] # "idle"

AtRest(j) == pc[j] = "idle" /\ ~BeingDestroyed(j)

(* A job at rest is there as a whole or not at all.  A creation that was   *)
(* cancelled or went wrong, and a teardown, leave no container, volume,    *)
(* caps or file behind; a job that is wanted has its container running,    *)
(* its data, its caps and its file.  This is so without the help of the    *)
(* sweep, whatever creations, removals of stale volumes, teardowns and     *)
(* sweeps, of this job and of others, overlapped, and whichever commands   *)
(* the rig refused on the way, as long as connections held, what was to be *)
(* removed could be listed and removed, and no container was repaired.     *)
(* There are two exceptions.  A creation may leave the container that      *)
(* docker created and did not start (for the port another job had taken,   *)
(* or because it refused the run), with its volume.  And a wanted job that *)
(* the sweep has taken for an orphan loses its file, its caps, or all; on  *)
(* file, it is there.                                                      *)
AllOrNothing ==
    ~unclean /\ repairs = 0 =>
        \A j \in Job : AtRest(j) =>
            /\ j \notin wanted =>
                    /\ (box[j] = "none" /\ vol[j] = "none") \/ box[j] = "created"
                    /\ j \notin capped /\ j \notin store
            /\ j \in wanted \ swept => j \in store /\ j \in capped
            /\ j \in wanted \cap store => box[j] = "running" /\ vol[j] = "data"

(* After failed commands, lost connections, deaths of the validator and    *)
(* repairs that raced a teardown, the sweep still gets rid of every        *)
(* container and volume that belongs to no job.                            *)
OrphansGo ==
    \A j \in Job : j \notin wanted ~> (box[j] = "none" /\ vol[j] = "none") \/ j \in wanted
=============================================================================
