------------------------------- MODULE AgentWork -------------------------------
(***************************************************************************)
(* The threads of the agent process, asyncio.to_thread's executor, and the *)
(* work that shares them: prefetches of images (cache/prefetch.py under    *)
(* cache/pull_lock.py), challenges (hardware/challenge.py), measurements   *)
(* of the hardware (spec, attestation) and the sweep of the grants         *)
(* (agent/main.py), as control/handlers.py starts the first three.         *)
(*                                                                         *)
(* A handler that gives up takes back work that is still queued.  Work     *)
(* that has a thread goes on without it, so giving up is no step there.    *)
(* The file behind the pull lock is also the lock of the `docker pull`     *)
(* that creates a job over SSH (validator/work/containers.py).             *)
(***************************************************************************)
EXTENDS Naturals, Sequences, FiniteSetsExt, SequencesExt

CONSTANTS Prefetch, Challenge, Measure,  \* commands the pool may send
          Sweep,        \* the work of sweep_grants
          Job,          \* creations of jobs
          Image,        \* the references prefetches ask for
          Workers,      \* threads of the executor
          StateLimit,   \* STATE_LIMIT, the size of prefetch.json (4096)
          SizeOf,       \* [Image -> Nat]: the size of an image's record
          ErrorSize,    \* the size of last_error
          Nobody

Task == Prefetch \cup Challenge \cup Measure \cup {Sweep}

ASSUME WorkAssumption ==
    /\ Workers \in Nat \ {0} /\ StateLimit \in Nat \ {0}
    /\ SizeOf \in [Image -> Nat \ {0}] /\ ErrorSize \in Nat
    /\ Nobody \notin Prefetch \cup Challenge \cup Job
    /\ Prefetch \cap (Challenge \cup Measure \cup Job) = {} /\ Challenge \cap Measure = {}
    /\ Sweep \notin Prefetch \cup Challenge \cup Measure

VARIABLES
    work,        \* each task: "idle", "queued", or what its thread is doing
    queue,       \* the executor's queue
    pullLock,    \* who has the flock on /tmp/mt-agent-pull.lock
    solveLock,   \* challenge._lock
    stateLock,   \* prefetch._state_lock
    stateFile,   \* prefetch.json: its images, the oldest first, and whether it has an error
    hand,        \* what the holder of stateLock is about to save
    blind,       \* history: it could not read the file that it is about to replace
    job          \* each creation: "idle", "wait" for the lock, or "pull" under it

locks == <<pullLock, solveLock, stateLock>>
workVars == <<work, queue, locks, stateFile, hand, blind, job>>

(* What the limit is about: the length of the file's text.                 *)
Size(state) ==
    FoldLeft(LAMBDA sum, image : sum + SizeOf[image], IF state.error THEN ErrorSize ELSE 0, state.images)
Fits(state) == Size(state) <= StateLimit

WorkType ==
    /\ work \in [Task -> {"idle", "queued", "check", "wait", "pull", "bare", "record",
                           "note", "save", "solve", "measure", "sweep", "hung"}]
    /\ queue \in Seq(Task)
    /\ pullLock \in Prefetch \cup Job \cup {Nobody}
    /\ solveLock \in Challenge \cup {Nobody}
    /\ stateLock \in Prefetch \cup {Nobody}
    /\ {stateFile, hand} \subseteq [images: Seq(Image), error: BOOLEAN]
    /\ Fits(stateFile) \/ stateFile.images = <<>>
    /\ blind \in BOOLEAN
    /\ job \in [Job -> {"idle", "wait", "pull"}]

Empty == [images |-> <<>>, error |-> FALSE]

WorkInit ==
    /\ work = [t \in Task |-> "idle"] /\ queue = <<>>
    /\ pullLock = Nobody /\ solveLock = Nobody /\ stateLock = Nobody
    /\ stateFile = Empty /\ hand = Empty /\ blind = FALSE
    /\ job = [j \in Job |-> "idle"]

-----------------------------------------------------------------------------
(* The executor.                                                           *)
Running == {t \in Task : work[t] \notin {"idle", "queued"}}

Moves(t, s) == work' = [work EXCEPT ![t] = s]

(* to_thread, for a command or when the sweep's pause is over.             *)
Submit(t) ==
    /\ work[t] = "idle"
    /\ Moves(t, "queued") /\ queue' = Append(queue, t)
    /\ UNCHANGED <<locks, stateFile, hand, blind, job>>

(* The handler's wait_for runs out before there is a thread.  The sweep    *)
(* waits for its turn without a limit.                                     *)
GivesUp(t) ==
    /\ t # Sweep /\ work[t] = "queued"
    /\ Moves(t, "idle") /\ queue' = RemoveFirst(queue, t)
    /\ UNCHANGED <<locks, stateFile, hand, blind, job>>

(* A free thread takes what is first in the queue.                         *)
GetsThread(t) ==
    /\ queue # <<>> /\ Head(queue) = t /\ queue' = Tail(queue)
    /\ Cardinality(Running) < Workers

-----------------------------------------------------------------------------
(* challenge.run: BUSY if one runs already ...                             *)
ChallengeBegins(c) ==
    /\ GetsThread(c)
    /\ IF solveLock = Nobody THEN Moves(c, "solve") /\ solveLock' = c
       ELSE Moves(c, "idle") /\ UNCHANGED solveLock
    /\ UNCHANGED <<pullLock, stateLock, stateFile, hand, blind, job>>

(* ... and however the library's calls end, the lock is released ...       *)
ChallengeEnds(c) ==
    /\ work[c] = "solve"
    /\ Moves(c, "idle") /\ solveLock' = Nobody
    /\ UNCHANGED <<queue, pullLock, stateLock, stateFile, hand, blind, job>>

(* ... unless one of them never returns: nothing limits it.                *)
Hangs(t) ==
    /\ work[t] \in {"solve", "measure"}
    /\ Moves(t, "hung")
    /\ UNCHANGED <<queue, locks, stateFile, hand, blind, job>>

(* spec.build and attestation.build, which call NVML.                      *)
MeasureBegins(m) ==
    /\ GetsThread(m) /\ Moves(m, "measure")
    /\ UNCHANGED <<locks, stateFile, hand, blind, job>>

MeasureEnds(m) ==
    /\ work[m] = "measure" /\ Moves(m, "idle")
    /\ UNCHANGED <<queue, locks, stateFile, hand, blind, job>>

(* grants.sweep, of which SessionGrants is the model.                      *)
SweepBegins ==
    /\ GetsThread(Sweep) /\ Moves(Sweep, "sweep")
    /\ UNCHANGED <<locks, stateFile, hand, blind, job>>

SweepEnds ==
    /\ work[Sweep] = "sweep" /\ Moves(Sweep, "idle")
    /\ UNCHANGED <<queue, locks, stateFile, hand, blind, job>>

-----------------------------------------------------------------------------
(* prefetch.warm.                                                          *)
WarmBegins(p) ==
    /\ GetsThread(p) /\ Moves(p, "check")
    /\ UNCHANGED <<locks, stateFile, hand, blind, job>>

(* A request that is not well-formed ends here, an image that is present   *)
(* is recorded, one that is too large for the disk is noted, the others    *)
(* wait for the lock; without it when its file cannot be opened.           *)
Checked(p) ==
    /\ work[p] = "check"
    /\ \E s \in {"idle", "record", "note", "wait", "bare"} : Moves(p, s)
    /\ UNCHANGED <<queue, locks, stateFile, hand, blind, job>>

(* PullLock.acquire, within LOCK_WAIT ...                                  *)
Locks(p) ==
    /\ work[p] = "wait" /\ pullLock = Nobody
    /\ Moves(p, "pull") /\ pullLock' = p
    /\ UNCHANGED <<queue, solveLock, stateLock, stateFile, hand, blind, job>>

(* A lock that is waited for without a limit.                              *)
NotBusy(p) == FALSE /\ UNCHANGED workVars

(* ... or not: PullBusy.                                                   *)
Busy(p) ==
    /\ work[p] = "wait" /\ pullLock # Nobody
    /\ Moves(p, "note")
    /\ UNCHANGED <<queue, locks, stateFile, hand, blind, job>>

(* A pull that leaves the lock alone when it fails.                        *)
PulledKeepsLock(p) ==
    /\ work[p] = "pull"
    /\ \/ Moves(p, "record") /\ pullLock' = Nobody
       \/ Moves(p, "note") /\ UNCHANGED pullLock
    /\ UNCHANGED <<queue, solveLock, stateLock, stateFile, hand, blind, job>>

(* docker pull ends or is ended after PULL_TIMEOUT, the lock is released,  *)
(* and the image has the digest it should have, or there is an error.      *)
Pulled(p) ==
    /\ work[p] = "pull"
    /\ \E s \in {"record", "note"} : Moves(p, s)
    /\ pullLock' = Nobody
    /\ UNCHANGED <<queue, solveLock, stateLock, stateFile, hand, blind, job>>

PulledBare(p) ==
    /\ work[p] = "bare"
    /\ \E s \in {"record", "note"} : Moves(p, s)
    /\ UNCHANGED <<queue, locks, stateFile, hand, blind, job>>

(* record puts the image last, with the time of now, on a clock that is    *)
(* not set back; note_error keeps the error.  Which image it is matters    *)
(* from here on only.                                                      *)
Edited(p, state, image) ==
    IF work[p] = "note" THEN [state EXCEPT !.error = TRUE]
    ELSE [state EXCEPT !.images = Append(RemoveFirst(@, image), image)]

(* The file is read and edited by whoever comes.                           *)
LoadUnlocked(p) ==
    /\ work[p] \in {"record", "note"}
    /\ stateLock' = p
    /\ \E image \in Image : hand' = Edited(p, stateFile, image)
    /\ blind' = FALSE
    /\ Moves(p, "save")
    /\ UNCHANGED <<queue, pullLock, solveLock, stateFile, job>>

(* record, note_error: the file is read under the lock ...                 *)
Load(p) ==
    /\ work[p] \in {"record", "note"} /\ stateLock = Nobody
    /\ stateLock' = p
    /\ \E image \in Image : hand' = Edited(p, stateFile, image)
    /\ blind' = FALSE
    /\ Moves(p, "save")
    /\ UNCHANGED <<queue, pullLock, solveLock, stateFile, job>>

(* ... or cannot be read, or parsed, and is taken to be empty ...          *)
LoadFails(p) ==
    /\ work[p] \in {"record", "note"} /\ stateLock = Nobody
    /\ stateLock' = p
    /\ \E image \in Image : hand' = Edited(p, Empty, image)
    /\ blind' = TRUE
    /\ Moves(p, "save")
    /\ UNCHANGED <<queue, pullLock, solveLock, stateFile, job>>

(* Everything is written, whatever its size.                               *)
Untrimmed(state) == state

(* save: the oldest image goes, and the next, until the rest fits or there *)
(* is none left.                                                           *)
Without(state, k) == [state EXCEPT !.images = SubSeq(@, k + 1, Len(@))]
Enough(state) == {k \in 0..Len(state.images) : k = Len(state.images) \/ Fits(Without(state, k))}

Trimmed(state) == Without(state, Min(Enough(state)))

(* ... and replaced as a whole, unless the disk fails.                     *)
Save(p) ==
    /\ work[p] = "save"
    /\ stateFile' \in {stateFile, Trimmed(hand)}
    /\ stateLock' = Nobody /\ hand' = Empty /\ blind' = FALSE
    /\ Moves(p, "idle")
    /\ UNCHANGED <<queue, pullLock, solveLock, job>>

-----------------------------------------------------------------------------
(* create: `flock -w 1800 <the lock> docker pull X || docker pull X`.      *)
JobWaits(j) ==
    /\ job[j] = "idle" /\ job' = [job EXCEPT ![j] = "wait"]
    /\ UNCHANGED <<work, queue, locks, stateFile, hand, blind>>

JobLocks(j) ==
    /\ job[j] = "wait" /\ pullLock = Nobody
    /\ job' = [job EXCEPT ![j] = "pull"] /\ pullLock' = j
    /\ UNCHANGED <<work, queue, solveLock, stateLock, stateFile, hand, blind>>

(* The wait is over, or flock cannot open the file: what follows is a pull *)
(* without the lock, which is of no concern here, ...                      *)
JobGivesUp(j) ==
    /\ job[j] = "wait" /\ job' = [job EXCEPT ![j] = "idle"]
    /\ UNCHANGED <<work, queue, locks, stateFile, hand, blind>>

(* ... as it is after one that failed.                                     *)
JobPulled(j) ==
    /\ job[j] = "pull" /\ job' = [job EXCEPT ![j] = "idle"]
    /\ pullLock' = Nobody
    /\ UNCHANGED <<work, queue, solveLock, stateLock, stateFile, hand, blind>>

-----------------------------------------------------------------------------
(* The agent's container stops, with the SSH sessions in it, and starts.   *)
WorkDies ==
    /\ work' = [t \in Task |-> "idle"] /\ queue' = <<>> /\ job' = [j \in Job |-> "idle"]
    /\ pullLock' = Nobody /\ solveLock' = Nobody /\ stateLock' = Nobody
    /\ hand' = Empty /\ blind' = FALSE
    /\ UNCHANGED stateFile

(* What the thread of a task does next.                                    *)
WarmSteps(p) ==
    \/ Checked(p) \/ Locks(p) \/ Busy(p) \/ Pulled(p) \/ PulledBare(p)
    \/ Load(p) \/ LoadFails(p) \/ Save(p)
SolveSteps(c) == ChallengeEnds(c) \/ (c \in Challenge /\ Hangs(c))
MeasureSteps(m) == MeasureEnds(m) \/ (m \in Measure /\ Hangs(m))

Begins ==
    \/ \E p \in Prefetch : WarmBegins(p)
    \/ \E c \in Challenge : ChallengeBegins(c)
    \/ \E m \in Measure : MeasureBegins(m)
    \/ SweepBegins

WorkNext ==
    \/ \E t \in Task : Submit(t) \/ GivesUp(t)
    \/ Begins
    \/ \E p \in Prefetch : WarmSteps(p)
    \/ \E c \in Challenge : SolveSteps(c)
    \/ \E m \in Measure : MeasureSteps(m)
    \/ SweepEnds
    \/ \E j \in Job : JobWaits(j) \/ JobLocks(j) \/ JobGivesUp(j) \/ JobPulled(j)
    \/ WorkDies

(* A free thread takes what is next, and a thread goes on, if only to      *)
(* hang.  Nothing is asked of the pulls of jobs: no limit on the rig ends  *)
(* them.                                                                   *)
WorkFairness ==
    /\ WF_workVars(Submit(Sweep)) /\ WF_workVars(Begins) /\ WF_workVars(SweepEnds)
    /\ \A p \in Prefetch : WF_workVars(WarmSteps(p))
    /\ \A c \in Challenge : WF_workVars(SolveSteps(c))
    /\ \A m \in Measure : WF_workVars(MeasureSteps(m))

WorkSpec == WorkInit /\ [][WorkNext]_workVars /\ WorkFairness

-----------------------------------------------------------------------------
(* At most one prefetch or job pulls under the pull lock and at most one   *)
(* challenge computes or hangs, also when the handlers that started them   *)
(* gave up long ago; and a lock that is held has a holder who is still at  *)
(* what it is for, so that no failure of a pull leaves it behind.          *)
Exclusive ==
    /\ {p \in Prefetch : work[p] = "pull"} \cup {j \in Job : job[j] = "pull"} = {pullLock} \ {Nobody}
    /\ {c \in Challenge : work[c] \in {"solve", "hung"}} = {solveLock} \ {Nobody}

(* What a step takes out of prefetch.json, the limit takes out: the oldest *)
(* go first (but for the image that the step itself records anew), and the *)
(* last one to go would not have fitted.  So prefetches that end together, *)
(* with success or with an error, do not write over what the other has     *)
(* recorded (_state_lock), and neither does a thread whose handler is      *)
(* gone, or the end of the process in between.  The exception is a thread  *)
(* that could not read the file: what it saves replaces all there was.     *)
Lost == Range(stateFile.images) \ Range(stateFile'.images)

OldestGo ==
    \A m, n \in DOMAIN stateFile.images :
        m < n /\ stateFile.images[n] \in Lost =>
            stateFile.images[m] \in Lost \/ stateFile.images[m] = Last(stateFile'.images)

NoneWouldFit ==
    \E i \in (IF stateFile'.images = <<>> THEN Image ELSE Lost) :
        ~Fits([stateFile' EXCEPT !.images = <<i>> \o @])

RecordsKept == [][Lost # {} => blind \/ (OldestGo /\ NoneWouldFit)]_workVars

(* The sweep, which ends grants that have run out, is never starved by     *)
(* work that shares its threads: not by prefetches that wait for the pull  *)
(* of a job that does not end (LOCK_WAIT), nor by challenges after one     *)
(* that hangs (BUSY).  What it needs is that measurements leave a thread   *)
(* besides the one a challenge may take for ever.                          *)
HungMeasures == Cardinality({m \in Measure : work[m] = "hung"})

SweepGoesOn ==
    <>[][~WorkDies]_workVars /\ <>[](HungMeasures + 1 < Workers) => []<>(work[Sweep] = "sweep")
=============================================================================
