-------------------------------- MODULE Schedule --------------------------------
(***************************************************************************)
(* What the validator looks at and when: the express lane                  *)
(* (validator/schedule/express.py) with its Limiter, and the rounds of the *)
(* deep lane (schedule/deep.py, due_rigs to guarded).  What a pass does is *)
(* in DeepPass.                                                            *)
(*                                                                         *)
(* Each lane has a Limiter of its own.  A probe or a pass is a task that   *)
(* waits for a slot of its miner, then for one of the lane, then runs.     *)
(* All tasks share one event loop; a step is what one does between awaits. *)
(***************************************************************************)
EXTENDS Naturals, FiniteSets

CONSTANTS Rig,
          Online,           \* the rigs that the pool may list as online
          Owner,            \* [Rig -> miners]: owner_of
          MaxInflight,      \* CV_MAX_INFLIGHT (4)
          PerMiner,         \* CV_PER_MINER (2)
          UnreachableTicks  \* UNREACHABLE_TICKS (3)

ASSUME LimiterAssumption ==
    /\ MaxInflight \in Nat \ {0} /\ PerMiner \in Nat \ {0} /\ UnreachableTicks \in Nat \ {0}
    /\ IsFiniteSet(Rig) /\ Online \subseteq Rig /\ DOMAIN Owner = Rig

Lane == {"express", "deep"}

VARIABLES
    stage,       \* [Lane -> [Rig -> ...]]: the task of each rig in each lane
    hung,        \* the rigs whose pass waits for a thread that never returns
    unreachable, \* ExpressLane.unreachable; all counts past the threshold are alike
    early,       \* ExpressLane.early_due
    verifiable,  \* the rigs that the pool has in one of VERIFIABLE_STATES
    round,       \* the deep lane: "idle", "asked" for the roster, or in its "passes"
    roster       \* the rigs in VERIFIABLE_STATES of the roster it got

scheduleVars == <<stage, hung, unreachable, early, verifiable, round, roster>>

ScheduleType ==
    /\ stage \in [Lane -> [Rig -> {"none", "waiting", "queued", "running"}]]
    /\ hung \subseteq Rig
    /\ unreachable \in [Rig -> 0..UnreachableTicks + 1]
    /\ early \subseteq Rig /\ verifiable \subseteq Rig
    /\ round \in {"idle", "asked", "passes"} /\ roster \subseteq Rig

ScheduleInit ==
    /\ stage = [l \in Lane |-> [r \in Rig |-> "none"]]
    /\ hung = {} /\ unreachable = [r \in Rig |-> 0]
    /\ early = {} /\ verifiable \in SUBSET Rig
    /\ round = "idle" /\ roster = {}

-----------------------------------------------------------------------------
(* Limiter.slot: `async with self._miner(owner), self._global`.            *)

Running(l) == {r \in Rig : stage[l][r] = "running"}

(* Who has a slot of the miner that owns the rig.                          *)
Holders(l, r) == {q \in Rig : stage[l][q] \in {"queued", "running"} /\ Owner[q] = Owner[r]}

Becomes(l, r, s) == stage' = [stage EXCEPT ![l][r] = s]

(* No semaphore for a miner.                                               *)
TakeMinerFreely(l, r) ==
    /\ stage[l][r] = "waiting"
    /\ Becomes(l, r, "queued")
    /\ UNCHANGED <<hung, unreachable, early, verifiable, round, roster>>

TakeMiner(l, r) ==
    /\ stage[l][r] = "waiting"
    /\ Cardinality(Holders(l, r)) < PerMiner
    /\ Becomes(l, r, "queued")
    /\ UNCHANGED <<hung, unreachable, early, verifiable, round, roster>>

(* A semaphore of its own for each miner.                                  *)
TakeOwnGlobal(l, r) ==
    /\ stage[l][r] = "queued"
    /\ Cardinality({q \in Running(l) : Owner[q] = Owner[r]} \ {r}) < PerMiner
    /\ Becomes(l, r, "running")
    /\ UNCHANGED <<hung, unreachable, early, verifiable, round, roster>>

TakeGlobal(l, r) ==
    /\ stage[l][r] = "queued"
    /\ Cardinality(Running(l)) < MaxInflight
    /\ Becomes(l, r, "running")
    /\ UNCHANGED <<hung, unreachable, early, verifiable, round, roster>>

Idle(l) == \A r \in Rig : stage[l][r] = "none"
Starts(l, rigs) == stage' = [stage EXCEPT ![l] = [r \in Rig |-> IF r \in rigs THEN "waiting" ELSE "none"]]

-----------------------------------------------------------------------------
(* tick: a probe for each rig that is online; the next tick waits for all. *)
Tick(rigs) ==
    /\ Idle("express") /\ rigs # {} /\ rigs \subseteq Online
    /\ Starts("express", rigs)
    /\ UNCHANGED <<hung, unreachable, early, verifiable, round, roster>>

(* probe: any AgentError counts, and the count that reaches the threshold  *)
(* makes the rig due, once; the slots are given back.                      *)
ProbeFails(r) ==
    /\ stage["express"][r] = "running"
    /\ Becomes("express", r, "none")
    /\ LET count == unreachable[r] + 1
       IN  /\ unreachable' = [unreachable EXCEPT ![r] = IF count > UnreachableTicks
                                                        THEN UnreachableTicks + 1 ELSE count]
           /\ early' = IF count = UnreachableTicks THEN early \cup {r} ELSE early
    /\ UNCHANGED <<hung, verifiable, round, roster>>

ProbeAnswers(r) ==
    /\ stage["express"][r] = "running"
    /\ Becomes("express", r, "none")
    /\ unreachable' = [unreachable EXCEPT ![r] = 0]
    /\ UNCHANGED <<hung, early, verifiable, round, roster>>

(* Any other exception is for gather to collect.                           *)
ProbeRaises(r) ==
    /\ stage["express"][r] = "running"
    /\ Becomes("express", r, "none")
    /\ UNCHANGED <<hung, unreachable, early, verifiable, round, roster>>

-----------------------------------------------------------------------------
(* due_rigs: the roster, then the rigs the pool says are due (or, with     *)
(* CV_DEEP_SECONDS, those locally_due), then those that are due early.     *)
Roster ==
    /\ round = "idle"
    /\ round' = "asked" /\ roster' = verifiable
    /\ UNCHANGED <<stage, hung, unreachable, early, verifiable>>

(* run_once starts a pass for each, but for those that are busy.           *)
Due(due) ==
    /\ round = "asked"
    /\ LET chosen == due \cup (early \cap roster)
           busy == {r \in Rig : stage["deep"][r] # "none"}
       IN  Starts("deep", chosen \ busy)
    /\ early' = {}
    /\ round' = "passes" /\ roster' = {}
    /\ UNCHANGED <<hung, unreachable, verifiable>>

(* early_due taken before the second call to the pool.                     *)
DueFailsLate ==
    /\ round = "asked"
    /\ round' = "idle" /\ roster' = {} /\ early' = {}
    /\ UNCHANGED <<stage, hung, unreachable, verifiable>>

(* The second call to the pool fails, and with it the round.               *)
DueFails ==
    /\ round = "asked"
    /\ round' = "idle" /\ roster' = {}
    /\ UNCHANGED <<stage, hung, unreachable, early, verifiable>>

(* guarded: verify returns or raises.                                      *)
VerifyEnds(r) ==
    /\ stage["deep"][r] = "running" /\ r \notin hung
    /\ Becomes("deep", r, "none")
    /\ UNCHANGED <<hung, unreachable, early, verifiable, round, roster>>

(* challenge.run awaits the challenge library in a thread, without a       *)
(* timeout: should that thread not return, neither does the pass.          *)
Hangs(r) ==
    /\ stage["deep"][r] = "running" /\ r \notin hung
    /\ hung' = hung \cup {r}
    /\ UNCHANGED <<stage, unreachable, early, verifiable, round, roster>>

RoundEnds ==
    /\ round = "passes" /\ Idle("deep")
    /\ round' = "idle"
    /\ UNCHANGED <<stage, hung, unreachable, early, verifiable, roster>>

(* The pool takes a rig into or out of the verifiable states.              *)
PoolMoves(r) ==
    /\ verifiable' \in {verifiable \cup {r}, verifiable \ {r}} /\ verifiable' # verifiable
    /\ UNCHANGED <<stage, hung, unreachable, early, round, roster>>

(* The slot of the lane taken first, then the miner's.                     *)
SlotSwapped(l, r) ==
    /\ \/ /\ stage[l][r] = "waiting"
          /\ Cardinality({q \in Rig : stage[l][q] \in {"queued", "running"}}) < MaxInflight
          /\ Becomes(l, r, "queued")
       \/ /\ stage[l][r] = "queued"
          /\ Cardinality({q \in Running(l) : Owner[q] = Owner[r]}) < PerMiner
          /\ Becomes(l, r, "running")
    /\ UNCHANGED <<hung, unreachable, early, verifiable, round, roster>>

Slot(l, r) == TakeMiner(l, r) \/ TakeGlobal(l, r)

ProbeEnds(r) == ProbeFails(r) \/ ProbeAnswers(r) \/ ProbeRaises(r)

ScheduleNext ==
    \/ \E l \in Lane, r \in Rig : Slot(l, r)
    \/ \E rigs \in SUBSET Rig : Tick(rigs) \/ Due(rigs)
    \/ \E r \in Rig : ProbeEnds(r) \/ VerifyEnds(r) \/ Hangs(r) \/ PoolMoves(r)
    \/ Roster \/ DueFails \/ RoundEnds

ScheduleSpec == ScheduleInit /\ [][ScheduleNext]_scheduleVars

(* Every call to an agent, an SSH host or the pool has a timeout, so a     *)
(* probe ends, and a pass ends unless it hangs; the deep lane polls for    *)
(* ever, and a pool that keeps being asked answers in the end.  Semaphores *)
(* wake their waiters in turn.                                             *)
Fairness ==
    /\ \A l \in Lane, r \in Rig : WF_scheduleVars(Slot(l, r))
    /\ \A r \in Rig : WF_scheduleVars(ProbeEnds(r)) /\ WF_scheduleVars(VerifyEnds(r))
    /\ WF_scheduleVars(Roster) /\ WF_scheduleVars(RoundEnds)
    /\ SF_scheduleVars(\E rigs \in SUBSET Rig : Due(rigs))

FairSpec == ScheduleSpec /\ Fairness

-----------------------------------------------------------------------------
(* docs/validator_setup.md: "at most four in flight and two per miner".    *)
(* So it is in each lane, in whichever order tasks take the two slots and  *)
(* give them back.                                                         *)
InflightBounded ==
    \A l \in Lane :
        /\ Cardinality(Running(l)) <= MaxInflight
        /\ \A r \in Rig : Cardinality({q \in Running(l) : Owner[q] = Owner[r]}) <= PerMiner

(* A pass is out of the loop's hands: it hangs itself, or passes that hang *)
(* have all the slots of its miner, or of the lane.                        *)
Blocked(r) ==
    \/ r \in hung
    \/ Cardinality({q \in hung : Owner[q] = Owner[r]}) >= PerMiner
    \/ Cardinality(hung) >= MaxInflight

(* No probe and no pass waits for ever for its slots while others are      *)
(* given back: the two semaphores are not in each other's way, and passes  *)
(* that hang cost other miners no more than the slots they run in; those   *)
(* that wait behind them for their own miner's slots hold none of the      *)
(* lane's.                                                                 *)
EveryTaskEnds ==
    /\ \A r \in Online : stage["express"][r] # "none" ~> stage["express"][r] = "none"
    /\ \A r \in Rig : stage["deep"][r] # "none" ~> stage["deep"][r] = "none" \/ Blocked(r)

(* A rig that UNREACHABLE_TICKS probes in a row could not reach gets a new *)
(* pass, unless the pool takes it off the list or a pass hangs, which ends *)
(* the rounds of the lane: the signal is neither lost to a round that      *)
(* failed nor to one that had begun already.                               *)
EarlyIsVerified ==
    \A r \in Online :
        [](r \in verifiable /\ hung = {}) =>
            (r \in early ~> r \notin early /\ stage["deep"][r] = "waiting")
=============================================================================
