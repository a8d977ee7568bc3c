# microtensor-compute: a TLA+ model

microtensor-compute is a pool of GPU rigs. An **agent** runs on every rig; it
talks to the pool over a websocket, lets validators in over SSH for a while,
and updates itself. A **validator** probes rigs, runs deep passes on them over
SSH, places and removes jobs, and sets weights on chain. The pool's server, the
chain, docker and nvidia-smi are not part of the repository; they appear here
as far as the code uses them, and their actions are marked external in
`PROJECT.json`.

`PROJECT.json` lists the components, the runs, the source lines behind every
definition, the mutants, the hazards, the findings and the theorems. Run a
model with `tlc -config X.cfg M`, check proofs with `tlapm M.tla`.

## Inventory

| Component | State | Operations | What is hard | What makes it correct |
|---|---|---|---|---|
| Session grants (`agent/access`) | nonce book, table of sessions, `authorized_keys` | open, close, sweep, revoke_all | worker threads and the sweep share three stores under different locks; requests are repeated; the process dies | a request opens one session; keys go again; a grant has its key |
| Control connection (`agent/control`) | outbound queue, tasks of a session, running commands, need_register | put, requeue, get, read, ping, state, register, reconnect | full queues, failed sends, half-dead connections, a pool that forgets the rig | results are neither dropped nor reordered; the agent always gets back to a working connection |
| Claim decisions (`agent/control/claims.py`) | one file per hotkey | record, drain, send | command and agent are two processes on one file | no approval is made up; decisions arrive as taken |
| Updater (`agent/updater`) | `.env`, helper containers, running image | check, pull, rewrite, restart | the update replaces the updating process | only signed images; signed images arrive |
| Jobs (`validator/work/containers.py`, `storage`, `recovery/device_cgroup.py`) | containers, volumes, ports, job files, retries | create, cancel, destroy, recreate, sweep | every remote command can fail, or succeed unseen; operations overlap; ports are chosen hours before they are taken | a job is there as a whole or not at all; what belongs to no job goes |
| Power limits (`validator/work/power.py`) | limits of cards, records file | apply, restore, raise low limits | deaths between file and card; shared cards; no lock between the calls | the way back is on record |
| Placement (`validator/work/placement.py`) | jobs of rigs | choose | records without a card; displacement | sensitivities never mix |
| Deep pass (`validator/schedule/deep.py`, `session`, `verify`) | Outcome, SSH session, directory | thirteen remote steps | early returns, exceptions, calls that fail after they took effect | a pass is earned; what is left was left by a failed call; failed connections are reported; nobody is blamed for a job of the pool that could be identified |
| Schedule (`validator/schedule`) | semaphores, probe tasks, rigs due early | tick, probe, round | nested limits; passes that hang; signals between lanes | limits hold; nobody starves; signals arrive |
| Uptime ledger (`validator/scoring/reliability.py`) | seconds per rig, file | observe, save, load | restarts from older files; a wall clock that is set | no time is credited twice |
| Weights (`validator/scoring/weights.py`, `formula.py`, `demand_weight.py`) | roster, scores, uids, vector | set_weights_once | rounding, floor, uids that change hands | weights follow merit and are in proportion to scores; the held share is held |
| Threads of the agent (`agent/cache`, `agent/hardware/challenge.py`, handlers, `sweep_grants`) | executor and its queue, three locks, lock file, `prefetch.json` | warm, challenge, measure, sweep, a job's pull | work outlives the handler that gave up on it; threads hang; one lock is shared over SSH | one holder per lock; no lost record; the sweep is not starved |
| Agent process (`agent/main.py`) | its tasks | run, end | any task, an update, a signal ends all of them | what is under way in one task survives the end that another brings |
| Monitor, hardware measurements, payloads, drain, teardown, API, tables | | | | see "Not modelled" |

## Modules

**SessionGrants** (abstract specification: **GrantLease**). One request per
session: a public key with a nonce and a signed timestamp, which the network
may deliver late and more than once. A handler thread goes
`queued -> install -> attest -> reply`; each step is what happens under one
lock (`nonces.accept`, `ssh_keys.grant`) or between two. Close calls and the
sweep are threads of their own. `Expire` runs in `accept`, under the book's
lock, and in the sweep, without it. The clock is shared; `Crash` empties what
is in memory and `Start` removes all keys before anything is served. The
mapping to GrantLease takes a key for live while its line is in the file.

**ControlSocket**. One event loop; a step lies between two awaits. `Put`,
`DropOldest`, `Requeue` are the queue; `ReadCommand` starts an `_execute` task
that outlives the session. A connection is live, closed, broken (the next use
raises) or silent (nothing raises, nothing arrives). The pool may not know the
rig (`known`), at first because the registration of `AgentRuntime.run` failed,
later because it forgot it; only the reconnect loop can repair that
(`need_register`). `ProcessEnds` takes the queue and the commands with it.

**Claims**. `Record` and `Written` are the two halves of `Path.write_text`.

**Updater**. One action per docker command, request or file write, a `Dies` at
any of them, and docker compose, run by a helper or by the owner.

**AgentTasks** composes the two: each takes its steps beside the other, and
`ProcessEnds` is one step of both, the end that a death, the owner's compose or
the updater's own helper (`Ends`) means for the watch (`Restart`).

**AgentWork**. Tasks take the threads of asyncio's executor in the order in
which they were submitted. A handler that gives up while its work is queued
takes it back (`GivesUp`); once the work has a thread nothing stops it, so the
stage of a task is that of its thread. Calls into the challenge library and NVML
may never return (`Hangs`). Pulls of jobs, `flock ... docker pull` over SSH, wait
for the same lock file; they have no limit on the rig. Images in `prefetch.json`
are a sequence, the oldest first, each with the size of its record (`SizeOf`);
`Trimmed` drops the oldest until the rest fits. A file that cannot be read is taken
for an empty one (`LoadFails`), and the save that follows replaces it (`blind`).

**JobLifecycle**. Per job a container and a volume on the rig, and the files of
the validator. `create` is one coroutine per job with its locals
(`created_volumes`, `capped`, `launched` in `did`), `destroy` one for the caller
and one for the sweep. Each remote command either works, is refused, or fails
after it took effect; failures and deaths are bounded by `MaxFaults`. `Refused` is
a failure after which the code knows what is on the rig; `Fault` one that may leave
something behind that no coroutine will take away (a connection lost while the
command ran, a removal that failed, a death), and sets the history `unclean`. A
second history, `swept`, keeps the wanted jobs that the sweep has taken for orphans.
A job's port is chosen (`Reserve`) long before `Run` takes it; `PortBusy` and
`Retry` are the attempts of `docker_run`, which does not look at `cancelled` again
(stage `rerun`). `crowd` is the set of jobs of a behaviour, one of `Crowds`.

**PowerLimits**. `Task` is the set of calls of `apply_caps` and `restore_job` that
may run at a time, for the same job or for jobs that share a card: power.py has no
lock, so they interleave at every await, and a step is one command of nvidia-smi
or what a coroutine does between two. `CrashUnread` is a restart that cannot read
the records. The history `astray` keeps the cards whose record was lost that way,
or in the one window in which a restore and an apply are in each other's way (see
Disagreements).

**Placement**. `choose` and what a caller does with its answer. A job with more
than one card is recorded without a card, as JobRecord has room for one only.

**DeepPass**. A rig is what the checks would find: which it meets, which cards
are in it, which cards cannot solve the challenge, the work on its cards. Every
remote call may fail at the connection or without a result, and what it was to do
may have been done: `dir` and `session` say what is on the rig, not what the
coroutine believes. The history `broke` has the calls at which the connection
failed, whether they have a verdict or not, `unsure` the calls that failed and after
whose failure it is open what is on the rig: the opening, the directory, the listing
of containers, the removals. Jobs of the pool end and start while the pass runs; a
job that starts after the one the scrape saw has ended is `later` work. A rig with no
enrolled card is left out (`CardAssumption`).

**Schedule**. The Limiter of each lane as the stages `waiting`, `queued` (has
its miner's slot) and `running`; probe counts; rounds of the deep lane. A pass may
hang (`Hangs`): `challenge.py:199` awaits the library in a thread without a timeout.

**Uptime**. Probes, saves, restarts; rigs that go and come back. The ledger sees
the wall clock only (`Wall`), which is `skew` ahead of the time that passes and
may be set (`Jump`). A restart reads the file, or finds it unreadable and starts
with an empty ledger. The file has uptimes rounded to 0.1 s, which is left out; by
it a restart can gain a rig 0.05 s.

**ScoreFormula**, extended by **Weights**: what the formula makes of a rig of the
roster, as a whole number over denominators that all rigs share.

**Weights**. `Shares`, `ToU16`, `EligibilityFloor` are exact: shares are
numerators over a common denominator, `Round` is Python's round-half-even. Uids
are asked for one by one while the chain may give a uid to another hotkey.

The MC modules give functions as constants (owners, cards of rigs, sizes of
records), symmetry sets (Placement, PowerLimits) and an assumption on the horizon
of the clock (SessionGrants). Models without such constants are run directly.

## Runs

| Run | Bounds, and why they are enough | Result |
|---|---|---|
| SessionGrants | one request, two threads, one close, one death; window 1, timeout 1, nonces live 4, clock to 7 (past the expiry of every session that can be opened) | holds |
| SessionGrants_phantom | one thread, one close, no death | violated |
| ControlSocket | three commands, depth 2, two failures of any kind (connections, registrations, ends of the process, a pool that forgets): queues full of results, of pings, and mixed | holds |
| JobLifecycle | one job with two failures of any kind, cancellations and a repair, or two jobs that share the rig and two ports: creations, teardowns, repairs and the sweep overlap in all orders; both jobs choose the same port | holds |
| PowerLimits | two cards, two jobs that share one, two calls at a time, one fault: two calls meet at every pair of awaits, for one job and for two | holds |
| Placement | two rigs, three cards, three jobs, up to two cards each | holds |
| DeepPass | two cards: a good one and a bad one, in either order; any call fails, any number of them | holds |
| Schedule | four rigs of three miners, a lane with two slots, one slot for each miner: a pass waits for its miner's slot, for the lane's while it has its miner's, and for one that never comes back; one rig has probes, and one that fails makes it due | holds |
| AgentTasks | one hotkey, two digests, any number of decisions, releases, failures and ends of the process: an end at every await of either task | holds |
| AgentWork | two threads, two prefetches, two challenges, a measurement, a job's pull, the sweep; two images, one with a record twice as large, a state file with room for three: all threads taken, all locks contended, and a save drops none, one or all records | holds |
| Uptime | one rig (rigs do not interact), six units of time, a gap of 2, a save every 2, two jumps of the clock by up to three, which is more than the gap | holds |
| Weights | two hotkeys, three uids, three rigs in five states that tell the terms of the formula apart, 50 for 65535, held shares of 0, 1, 40 and 100 percent: shares that round to zero and a reserve with a single unit occur | holds |

What the bounds leave to other means: failures, cancellations and repairs in
JobLifecycle happen only where one job has the rig to itself (`Few`, with
`MaxCrowd` 1), as the two together outgrow the time of a run; that cancellations
and refused commands among several jobs keep `AllOrNothing` is proved. So are
`CapRecorded` with more calls and faults, `InflightBounded` with more rigs and
miners, `ApprovalIsGiven` with several hotkeys and `OnlySigned` with several
releases. No run checks the type invariants of Placement and Schedule, which are
parts of proved invariants, and of PowerLimits and DeepPass, which are theorems.

The bounds that are no part of the code: `MaxClock`, `MaxCrashes` (SessionGrants),
`MaxFailures`, `MaxPuts` (ControlSocket), `Crowds`, `MaxCrowd`, `MaxRepairs`
(JobLifecycle), `MaxFaults` (JobLifecycle, PowerLimits), `Task` (PowerLimits),
`MaxNeeded` (Placement), `Online` (Schedule), `MaxClock`, `MaxJumps`, `MaxJump`
(Uptime), `MaxScore`, `RigView` (Weights). `SizeOf` and `ErrorSize` (AgentWork)
stand for lengths of text.

### Disagreements

One is a run:

- **GrantHasKey** (`grants.py:157`): open writes the key, then collects the
  attestation, then registers. A sweep that took its snapshot before and lists the
  file after takes the key for an orphan. The validator gets a grant it cannot log
  in with.
The others were met while modelling. The models behave as the code does, and
the properties are stated for what the code does promise:

- `client.py:228`. The call that opens a session is before the try block that closes
  it. If the agent has opened it and the answer is lost, nothing closes it but the
  agent's own sweep, though `docs/validator_setup.md:67` has every pass close its
  session. In DeepPass: `Open`; the exception for `open` in `NothingOpen`.
- `challenge.py:157`, `exclusivity.py:47`, `challenge.run`. An upload that fails raises
  past the report, so the pool hears nothing of the pass; a connection that fails at
  the listing counts as an empty listing; one that fails at a later card is reported
  under the class of the first card that failed (`Noted`). `docs/miner_setup.md:194`
  has SSH_TRANSPORT for "the SSH connection failed". What holds is `BrokenIsTold`: of
  every other call with a verdict it is so, and no other pass ends without a report.
  The wedge queries and the cleanup come after the checks and have none.
- `exclusivity.py:47`, `deep.py:412`. A job of the pool that the records do not
  identify is taken for foreign when the listing fails or comes after the job has
  ended; `docs/miner_setup.md:198` has UNAUTHORISED_WORK for what "matches neither a
  container nor a job the pool placed". In DeepPass: `Own`, `JobEnds`; `BlamedForCause`
  says that nothing else is blamed.
- `containers.py:608`, called by recreate. recreate removes the container and
  means to keep the volume (`create = False`, `containers.py:778`); create begins
  by removing volumes that nobody mounts, this one too. The mount then refuses
  with "the volume data is gone, refusing to re-initialise" (`volumes.py:272`).
  In JobLifecycle: `Recreate`, `ListStale`, `RemoveStale`, `MountFails`.
- `containers.py:549`, `containers.py:594`. A `docker run` that docker refuses after it
  has created the container, for the port that another job took since it was chosen
  or for any other reason, returns with `launched` still false: the container stays,
  its volume cannot be removed, and both are left to the sweep. In JobLifecycle:
  `Run`, `PortBusy`; the first exception in `AllOrNothing`, and `OrphansGo`.
- `sweep.py:110`, `containers.py:753-765`. The jobs that the sweep spares are those of
  its caller's earlier list. A job created since, or created again, is torn down:
  it loses its container or, if that is new, its caps and its file while it runs
  on. In JobLifecycle: `SweepDestroys`, `swept`; the second exception in
  `AllOrNothing`.
- `deep.py:337-350`. The session's directory is made before the try block that
  removes it: a mkdir that ran and whose answer was lost leaves it. In DeepPass:
  `Mkdir`, `NothingOpen`.
- `power.py:146`. restore_job sets the limit back, awaits the reading, and then
  drops the card's record. An apply_caps of another job, or of the same job created
  again, that read or recorded the card before that and caps it after, relies on the
  record that is then dropped: the card keeps a cap and nobody knows its limit. In
  PowerLimits: `astray`; `CapRecorded` says that nothing else loses a record, but for
  a file that cannot be read.
- `power.py:40`, `prefetch.py:48`. A file that cannot be read or parsed is an empty one,
  and the next save replaces it: the limits to go back to, or all records of
  images, are gone. In PowerLimits: `CrashUnread`; in AgentWork: `LoadFails`.
- `challenge.py:199`. A pass that hangs in the library keeps its slots, and as the
  next round starts when all passes of this one have ended, it is the last round
  of the deep lane. In Schedule: `Hangs`, `Blocked`, the condition of
  `EarlyIsVerified`.
- `claims.py:46`. The watch task may read the file after it was emptied and before
  it was written: the approval is sent as a denial, and the file removed. In
  Claims: `Record`, `Read`, `Meaning`. The other direction cannot happen
  (`ApprovalIsGiven`).
- `reliability.py:91`. `docs/incentive_mechanism.md:92` says of the uptime ramp "A
  drop longer than a minute resets it."; the ledger only leaves long gaps out. In
  Uptime: `Credit`.
- `formula.py:19,29`, `demand_weight.py:10`. The code has 0.80 for missing isolation,
  0.85 for declined rentals and 0.01 for the smoothing of demand, and a prior by tier;
  the table of `docs/incentive_mechanism.md` has 0.7, 0.8 and 0.1, and line 80 of it
  says "Before any revenue exists every type carries the same weight". The docs may
  mean the pool's formula; ScoreFormula has the code's.
- `weights.py:120`. A driver whose version cannot be read passes the gate that an
  outdated one does not. In ScoreFormula: `DriverOk`.

## Fairness

- SessionGrants: time passes, the sweep task runs, a dead agent is restarted
  (`restart: always`), and a file error does not come back for ever. Nothing is
  asked of open threads, closes or validators.
- ControlSocket: tasks of the event loop run and the pool accepts registrations
  and connections. Nothing is asked of the connection itself.
- AgentWork: a free thread takes what is first in the queue, and a thread goes on,
  if only to hang. Nothing is asked of commands, of library calls or of the pulls
  of jobs. `SweepGoesOn` assumes that measurements that hang leave a thread beside
  the one a challenge may take for ever: NVML has no timeout in the code, so this
  is a limit of the guarantee and not of the model.
- JobLifecycle: coroutines run, every remote command has a timeout, and the
  caller sweeps again and again.
- Schedule: tasks get slots that are free, probes end and so do passes that do
  not hang (calls to agents, rigs and the pool have timeouts; the library in its
  thread has none, so a pass may hang at any time), and the pool's second answer
  does not fail for ever.
- AgentTasks has the fairness of both its parts. Claims: the command ends, the watch task polls; strong fairness of reading and
  sending says that restarts and failures do not hit each attempt.
- Updater: strong fairness of each step says that no step fails each time, and
  that a helper of the updater's own gets its chance to run compose.

## Proofs

Theorems hold for every value of the constants, under the assumptions named in
the modules. Each invariant below was checked with TLC before it was proved.

- **SessionGrantsProofs**: `TypeCorrect`, `NoReplayHolds`, `OneThreadHolds`,
  `LeaseImplemented`. From `TimeAssumption` (nonces live longer than both sides
  of the skew window and the time a request may wait). The invariant `ReplayInv`:
  a request that waits was fresh when it came in (`QueuedFresh`); a request that
  was accepted is in the book until its timestamp can no longer pass
  (`Remembered`); a busy thread's request was accepted (`BusyAccepted`). Without
  `Remembered` the expiry of nonces would break the step of `Accept`.
  `LeaseImplemented` proves the refinement: initial states map to initial states
  of GrantLease, each step to a step of it or to a stutter. It adds that a key in
  the file belongs to an accepted request, that a request still before `Accept`
  has no key, and that an agent that is down has no threads (`LeaseInv`).
- **PowerLimitsProofs**: `TypeCorrect`, `CapRecordedHolds`. The invariant says of
  every card that is not astray that its original is never a cap, that a card on
  record is held by a job that will restore it, that a limit which was read while
  there was no record is not a cap, and that a restore about to drop the record has
  no apply beside it that relies on it: whoever comes into that window is astray.
- **LaneProofs**, about DeepPass: `TypeCorrect`, `PassIsEarnedHolds`,
  `NothingOpenHolds`, `BrokenIsToldHolds`, `BlamedForCauseHolds`. One conjunct per stage says what a pass
  without a failure has established so far; cards that cannot solve the challenge
  stay in `todo` until a failure is noted. For `BrokenIsTold`, a broken connection at
  a call with a verdict is in the failures noted so far (`BrokeNoted`), and a pass
  on its way out by an exception had none before (`Unbroken`). For `BlamedForCause`,
  the cause must outlast the jobs that come and go after the verdict (`Cause`): a job
  that was seen and has ended does not come back. For `NothingOpen`, what is on the rig at a stage from which the cleanup or
  the close is not reached any more was left by a call in `unsure`. About Schedule:
  `InflightBoundedHolds`. The invariant bounds the holders of a miner's slots, the
  queued tasks among them (`MinerBound`): the running ones alone are not inductive,
  as a queued task has passed the miner's check already.
- **AgentProofs**, about the composition AgentTasks: `TasksTypeCorrect`,
  `ApprovalIsGivenHolds`, `OnlySignedHolds`. An approval in a command, a file or
  the watch task's hands was recorded. The target of an attempt was signed from
  the check on and pulled from the rewrite on, and the end of the process resets
  the attempt. About AgentWork: `WorkTypeCorrect`, `ExclusiveHolds` and the
  action property `RecordsKeptHolds`. `Exclusive` says who holds a lock now; the
  invariant `WorkInv` adds that a task in the queue has no thread and is there
  once (`Queued`), which kind of work goes through which stages (`Kinds`), that who
  has a lock is at what the lock is for and nobody else is, the lock of the state
  file included (`Held`), that no image is in the file twice (`Distinct`), and that
  the lock's holder has in hand the file as it is, or an empty one if it is `blind`,
  with one edit (`OneEdit`). `RecordsKept` rests on `OneEdit`: without it a write
  could put back an older file. What the loop of save drops is the least prefix
  whose removal makes the rest fit (`TrimmedFacts`).
- **ControlSocketProofs**: `TypeCorrect`, `QueueBoundedHolds`, `ResultsKeptHolds`,
  `ResultsInOrderHolds`. The bound has to count the item in the writer's hand, as
  a requeue puts it back whatever the depth (`RoomTaken`). The order has to be
  stated for the whole way of a result: each result in the queue comes after the
  one in hand and each one in hand after those the pool has (`OrderInv`), which a
  requeue at the front keeps and one at the back would not.
- **UptimeProofs**: `TypeCorrect`, `UptimeIsEarnedHolds`. A file may be older
  than the ledger, so the bound has to hold of both. For each entry, of the ledger
  and of the file, there is a time at which it was right: the credit was covered
  by the time up to then, the jumps of the clock and the absences counted up to
  then, and the wall clock it was seen at is that time's, ahead by no more than
  the jumps explain (`Covered`, `Dated`). The witness moves with each probe.
- **JobProofs**, about Placement: `NeverMixedHolds`. The invariant adds that a
  record names the cards a job really has or none at all, so that `Occupancy`
  errs on the safe side. About JobLifecycle: `TypeCorrect`, `AllOrNothingHolds`.
  `AllOrNothing` speaks of jobs at rest only. The invariant `Sound` says of each
  stage of a creation, a rollback and the caller's teardown what is on the rig and
  in the files, whatever the sweep does to the same job meanwhile: what `did` notes
  is what was done (`Before`, `After`); a job that is not wanted is gone, or its
  volume is what a teardown of the sweep will still remove (`Gone`); a job on file
  runs until the sweep has removed its container, and then loses its file
  (`Rests`); one that is wanted and that the sweep has not touched keeps its caps
  and file (`Stays`). It holds as long as nothing is `unclean` and nothing was
  repaired; refused commands keep it.

- **WeightsProofs**: `TypeCorrect`, `PaidByScoreHolds`, `PaidInProportionHolds`,
  `PaidByMeritHolds`, `ShareIsHeldHolds`, `FloorFromReserveHolds`. From
  `WeightsAssumption` and `FormulaAssumption`: finitely many hotkeys and rigs, and
  a roster whose entries have the fields the code reads (`RosterRig`). The invariant
  `WeightsInv` ties what is submitted to where it came from: scores and uids are
  numbers of finitely many hotkeys (`Scored`), scores made locally are those of the
  roster (`FromRoster`), and the vector is the one made of some choice of
  `ScoresByUid` (`FromScores`). The rest is about the operators, for all inputs.
  Sums: `SumRemove` takes one element out of a sum, and from it follow that sums are
  monotone along an injection (`SumInjection`), scale, and differ by at most n times
  the bound on n terms (`SumWithin`). The argument of `PaidByMerit`: each term of
  the formula is monotone (`AsGoodPays`), the matching of rigs is an injection, so
  the score is no smaller, and then `PaidByScore` applies. Of `PaidByScore` and
  `PaidInProportion`: all miners' scores are scaled by one number and quantised by
  one largest share (`MinersQuantised`); rounding is monotone (`RoundMonotone`) and
  within a unit (`QuantiseFacts`); the floor changes no miner with a score
  (`FloorFacts`). Of `ShareIsHeld`: the exact shares have the held proportion, each
  weight is within a unit of its share, the floor keeps the sum (`FloorKeepsSum`).

Sums are folds over sets of any size. The prover cannot instantiate the library's
induction theorems, which have the property as an operator parameter; `SetInduction`
has it as a set of finite sets instead, and is proved from the least cardinality
of a set that is not in it. That the recursive function behind the fold exists
(`AdderExists`) goes by the least number of elements for which it would not; that
its value does not depend on the order in which elements are taken (`SumRemove`)
by `SetInduction`.

Type invariants are stated by parts where a step changes few of them. Minimum
and first occurrence (`Min`, `RemoveFirst`) are dealt with through the well-founded
order on the naturals, once per module that needs them.

Only model-checked: the liveness properties (`KeysAreRemoved`, `Reconnects`,
`ResultsLeave`, `OrphansGo`, `EveryTaskEnds`, `EarlyIsVerified`, `DecisionIsSent`,
`UpdateArrives`, `SweepGoesOn`), as the prover has no ENABLED and so no fairness.
Every other property of a passing run is stated by a theorem.

## Not modelled

- The nonce book is lost with the process; a request replayed to the next
  process within the window is accepted there (`accepts` counts one life).
- `_matching` by public key, the validator set and signatures.
- The doubling pauses of the reconnect loop, and an agent that ends because its
  first registration was refused for good (409, 426).
- Callers of containers, sweep, power and placement: they are not in the
  repository. Each module says what it takes them to do.
- The moving average of demand weights, which nothing in the repository updates;
  floating-point error in the formula and the weights.
- drain and after_teardown: they have no caller, and their result is whatever the
  pool says of the rig. A rig without jobs counts as drained before its agent has
  the command, and an agent that restarts forgets that it drains.
- MetricsPool: an executor of its own, with no lock that others wait for. A
  measurement that timed out gives its slot back while its thread runs on; after
  four of them every further measurement times out and says so.
- The limit on log streams (`agent/api/routes.py`), compared before an await and
  raised after it; `release_all`, which calls the library without its lock.
- What the code does not promise: commands and results that outlive the agent's
  process, a second claim decision written while the first is sent, a release
  missed because its ten minutes ended in a pause of the updater, free space that
  another pull takes during the wait for the lock, the hotkey of a uid that changes
  hands between two queries of the chain.
- Parsing and hardware access, the payload scripts, the monitor, data tables,
  configuration, request parsing and log streams of the API: no state that two
  steps could disagree about.
- The doubling pause of the updater and the ten minutes a release is valid for:
  `UpdateArrives` is about releases that are signed again.

## Plan

Done: SessionGrants with GrantLease, ControlSocket, JobLifecycle with ports and two
jobs, PowerLimits, Placement, DeepPass, Schedule, Claims and Updater with their
composition AgentTasks, AgentWork, Uptime with clocks that are set, Weights with
ScoreFormula; proofs of every safety property of all of them. Left: `AllOrNothing`
is stated for connections that hold and removals that work; what holds of a job after
a fault that its rollback met too would be the next property to state.
