------------------------------ MODULE PowerLimits ------------------------------
(***************************************************************************)
(* The power limits that jobs put on the cards of a rig and take off       *)
(* again: validator/work/power.py.                                         *)
(*                                                                         *)
(* PowerRecords is a file that is rewritten and replaced as a whole, so    *)
(* what it says survives the validator; the coroutines do not.  Nothing in *)
(* power.py keeps two coroutines apart: calls for jobs that share a card,  *)
(* and a creation and the sweep's teardown of the same job, interleave at  *)
(* every await.  A step is one command as the rig runs it, or what a       *)
(* coroutine does from the answer of one to the call of the next.  A limit *)
(* is a value a job asked for (Cap, clamped to what the card takes), the   *)
(* one the rig's owner had set, or the default of the card.                *)
(***************************************************************************)
EXTENDS Naturals, FiniteSets

CONSTANTS Card, Job,
          Task,         \* the calls of apply_caps and restore_job that may run at a time
          CardsOf,      \* [Job -> SUBSET Card]: the cards a job caps; jobs may share a card
          Cap,          \* the limits that jobs ask for
          Own, Default, \* the owner's limit and the card's default_limit
          Low,          \* the limits below MIN_RATIO of the default
          None,         \* no entry, no card, no job
          MaxFaults     \* bound: commands that fail, deaths of the validator, unreadable files

Uncapped == {Own, Default}
Watts == Cap \cup Uncapped

ASSUME CardsAssumption ==
    CardsOf \in [Job -> SUBSET Card] /\ None \notin Card \cup Job
ASSUME LimitAssumption ==
    /\ Cap \cap Uncapped = {} /\ None \notin Cap \cup Uncapped
    /\ Low \subseteq Cap \cup {Own}
ASSUME FaultAssumption == MaxFaults \in Nat

VARIABLES
    limit,      \* the power limit of each card
    original,   \* PowerRecords.gpus: original_w of each card, or None
    holds,      \* PowerRecords.jobs
    op,         \* how far the call of each task is
    job,        \* the job it is for, or None
    todo,       \* the cards its loop has left
    hand,       \* the card of this turn of the loop, or None
    watts,      \* what was read of that card, or what it is to be set to
    low,        \* the cards raise_low_limits has found below the ratio
    astray,     \* history: the cards whose record may have been lost
    faults

files == <<original, holds>>
locals == <<op, job, todo, hand, watts>>
vars == <<limit, files, locals, low, astray, faults>>

(* apply_caps: at the head of its loop, the limit is read, it is recorded  *)
(* and about to be set, it is set and about to be read back.  restore_job: *)
(* at the head of its loop, the limit is about to be set, it is set and    *)
(* about to be read back and forgotten.                                    *)
Working == {"seen", "cap", "check", "put", "forget"}
Stage == {"idle", "apply", "restore"} \cup Working

Type ==
    /\ limit \in [Card -> Watts]
    /\ original \in [Card -> Watts \cup {None}]
    /\ holds \in [Job -> SUBSET Card]
    /\ op \in [Task -> Stage]
    /\ job \in [Task -> Job \cup {None}]
    /\ todo \in [Task -> SUBSET Card]
    /\ hand \in [Task -> Card \cup {None}]
    /\ watts \in [Task -> Watts \cup {None}]
    /\ low \subseteq Card /\ astray \subseteq Card
    /\ faults \in Nat

Init ==
    /\ limit \in [Card -> Uncapped]
    /\ original = [c \in Card |-> None] /\ holds = [j \in Job |-> {}]
    /\ op = [t \in Task |-> "idle"] /\ job = [t \in Task |-> None] /\ todo = [t \in Task |-> {}]
    /\ hand = [t \in Task |-> None] /\ watts = [t \in Task |-> None]
    /\ low = {} /\ astray = {} /\ faults = 0

-----------------------------------------------------------------------------
Fault == faults < MaxFaults /\ faults' = faults + 1

(* A set_limit that returned None after its -pl command failed: the        *)
(* command was refused, or it took effect and its answer was lost.         *)
SetFails(c, w) == limit' = limit \/ limit' = [limit EXCEPT ![c] = w]

(* A record that is overwritten by the limit found now.                    *)
RememberLatest(c, j, w) ==
    /\ original' = [original EXCEPT ![c] = w]
    /\ holds' = [holds EXCEPT ![j] = @ \cup {c}]

(* PowerRecords.remember_original and forget, each with its save.          *)
RememberOriginal(c, j, w) ==
    /\ original' = [original EXCEPT ![c] = IF @ = None THEN w ELSE @]
    /\ holds' = [holds EXCEPT ![j] = @ \cup {c}]

Forget(c, j) ==
    /\ original' = [original EXCEPT ![c] = None]
    /\ holds' = [holds EXCEPT ![j] = @ \ {c}]

(* The start of restore_job: a list of the cards on record for the job.    *)
StartRestore(t, j) ==
    /\ op' = [op EXCEPT ![t] = "restore"]
    /\ job' = [job EXCEPT ![t] = j]
    /\ todo' = [todo EXCEPT ![t] = holds[j]]
    /\ hand' = [hand EXCEPT ![t] = None]
    /\ watts' = [watts EXCEPT ![t] = None]

(* The turn of the loop for the card in hand is over.                      *)
NextCard(t, head) ==
    /\ op' = [op EXCEPT ![t] = head]
    /\ todo' = [todo EXCEPT ![t] = @ \ {hand[t]}]
    /\ hand' = [hand EXCEPT ![t] = None]
    /\ watts' = [watts EXCEPT ![t] = None]
    /\ UNCHANGED job

(* An apply_caps has read the card and not yet capped it; a restore_job    *)
(* has put the limit back and not yet dropped the record.                  *)
Capping(c) == \E t \in Task : op[t] \in {"seen", "cap"} /\ hand[t] = c
Forgetting(c) == \E t \in Task : op[t] = "forget" /\ hand[t] = c

-----------------------------------------------------------------------------
(* apply_caps, called by create.                                           *)
Apply(t, j) ==
    /\ op[t] = "idle"
    /\ op' = [op EXCEPT ![t] = "apply"]
    /\ job' = [job EXCEPT ![t] = j]
    /\ todo' = [todo EXCEPT ![t] = CardsOf[j]]
    /\ UNCHANGED <<limit, files, hand, watts, low, astray, faults>>

(* read_state as the rig answers it ...                                    *)
Read(t, c) ==
    /\ op[t] = "apply" /\ c \in todo[t]
    /\ op' = [op EXCEPT ![t] = "seen"]
    /\ hand' = [hand EXCEPT ![t] = c]
    /\ watts' = [watts EXCEPT ![t] = limit[c]]
    /\ astray' = astray \cup {x \in {c} : Forgetting(x)}
    /\ UNCHANGED <<limit, files, job, todo, low, faults>>

ReadFails(t) ==
    /\ op[t] = "apply" /\ todo[t] # {}
    /\ Fault
    /\ StartRestore(t, job[t])
    /\ UNCHANGED <<limit, files, low, astray>>

(* ... and the record, written before the limit is touched.                *)
Remember(t) ==
    /\ op[t] = "seen"
    /\ RememberOriginal(hand[t], job[t], watts[t])
    /\ op' = [op EXCEPT ![t] = "cap"]
    /\ UNCHANGED <<limit, job, todo, hand, watts, low, astray, faults>>

SetCap(t, w) ==
    /\ op[t] = "cap"
    /\ limit' = [limit EXCEPT ![hand[t]] = w]
    /\ op' = [op EXCEPT ![t] = "check"]
    /\ watts' = [watts EXCEPT ![t] = w]
    /\ UNCHANGED <<files, job, todo, hand, low, astray, faults>>

CapFails(t, w) ==
    /\ op[t] = "cap"
    /\ Fault
    /\ SetFails(hand[t], w)
    /\ StartRestore(t, job[t])
    /\ UNCHANGED <<files, low, astray>>

(* The cap read back, if only because it was read at once ...              *)
CapHeld(t) ==
    /\ op[t] = "check"
    /\ NextCard(t, "apply")
    /\ UNCHANGED <<limit, files, low, astray, faults>>

(* ... or it did not: the reading failed, or someone has set another.      *)
CapLost(t) ==
    /\ op[t] = "check"
    /\ Fault \/ (limit[hand[t]] # watts[t] /\ UNCHANGED faults)
    /\ StartRestore(t, job[t])
    /\ UNCHANGED <<limit, files, low, astray>>

(* restore_job, called by rollback, destroy and the sweep.                 *)
Restore(t, j) ==
    /\ op[t] = "idle"
    /\ StartRestore(t, j)
    /\ UNCHANGED <<limit, files, low, astray, faults>>

(* Another job that shares the card has restored it and taken the record.  *)
NothingToRestore(t, c) ==
    /\ op[t] = "restore" /\ c \in todo[t]
    /\ original[c] = None
    /\ Forget(c, job[t])
    /\ todo' = [todo EXCEPT ![t] = @ \ {c}]
    /\ UNCHANGED <<limit, op, job, hand, watts, low, astray, faults>>

RestoreTo(t, c) ==
    /\ op[t] = "restore" /\ c \in todo[t]
    /\ original[c] # None
    /\ op' = [op EXCEPT ![t] = "put"]
    /\ hand' = [hand EXCEPT ![t] = c]
    /\ watts' = [watts EXCEPT ![t] = original[c]]
    /\ UNCHANGED <<limit, files, job, todo, low, astray, faults>>

RestoreLimit(t) ==
    /\ op[t] = "put"
    /\ limit' = [limit EXCEPT ![hand[t]] = watts[t]]
    /\ op' = [op EXCEPT ![t] = "forget"]
    /\ astray' = astray \cup {x \in {hand[t]} : Capping(x)}
    /\ UNCHANGED <<files, job, todo, hand, watts, low, faults>>

(* It read back: only now is the record dropped.                           *)
RestoreForget(t) ==
    /\ op[t] = "forget"
    /\ Forget(hand[t], job[t])
    /\ NextCard(t, "restore")
    /\ UNCHANGED <<limit, low, astray, faults>>

(* It did not, or it could not be set: the record stays.                   *)
RestoreFails(t) ==
    /\ \/ op[t] = "put" /\ Fault /\ SetFails(hand[t], watts[t])
       \/ op[t] = "forget" /\ Fault /\ UNCHANGED limit
       \/ op[t] = "forget" /\ limit[hand[t]] # watts[t] /\ UNCHANGED <<limit, faults>>
    /\ NextCard(t, "restore")
    /\ UNCHANGED <<files, low, astray>>

Done(t) ==
    /\ op[t] \in {"apply", "restore"} /\ todo[t] = {}
    /\ op' = [op EXCEPT ![t] = "idle"]
    /\ job' = [job EXCEPT ![t] = None]
    /\ UNCHANGED <<limit, files, todo, hand, watts, low, astray, faults>>

(* raise_low_limits of the rig's sweep, on any card at any time: read ...  *)
SeeLow(c) ==
    /\ c \notin low /\ limit[c] \in Low
    /\ low' = low \cup {c}
    /\ UNCHANGED <<limit, files, locals, astray, faults>>

(* ... and set, or fail to.                                                *)
RaiseLow(c) ==
    /\ c \in low
    /\ limit' \in {limit, [limit EXCEPT ![c] = Default]}
    /\ low' = low \ {c}
    /\ UNCHANGED <<files, locals, astray, faults>>

(* No coroutine survives the validator.                                    *)
AllIdle ==
    /\ op' = [t \in Task |-> "idle"] /\ job' = [t \in Task |-> None] /\ todo' = [t \in Task |-> {}]
    /\ hand' = [t \in Task |-> None] /\ watts' = [t \in Task |-> None]
    /\ low' = {}

(* The validator dies; PowerRecords.load finds the file as it was left ... *)
Crash ==
    /\ Fault
    /\ AllIdle
    /\ UNCHANGED <<limit, files, astray>>

(* ... or cannot read it, and goes on with no records at all.              *)
CrashUnread ==
    /\ Fault
    /\ AllIdle
    /\ original' = [c \in Card |-> None] /\ holds' = [j \in Job |-> {}]
    /\ astray' = astray \cup {c \in Card : original[c] # None}
    /\ UNCHANGED limit

TaskStep(t) ==
    \/ ReadFails(t) \/ Remember(t) \/ CapHeld(t) \/ CapLost(t)
    \/ RestoreLimit(t) \/ RestoreForget(t) \/ RestoreFails(t) \/ Done(t)
    \/ \E j \in Job : Apply(t, j) \/ Restore(t, j)
    \/ \E c \in Card : Read(t, c) \/ NothingToRestore(t, c) \/ RestoreTo(t, c)
    \/ \E w \in Cap : SetCap(t, w) \/ CapFails(t, w)

Next ==
    \/ \E t \in Task : TaskStep(t)
    \/ \E c \in Card : SeeLow(c) \/ RaiseLow(c)
    \/ Crash \/ CrashUnread

Spec == Init /\ [][Next]_vars

-----------------------------------------------------------------------------
(* A card is left with a job's limit and nothing to find the way back by   *)
(* in two cases only: the file could not be read after a death, or a       *)
(* restore_job had the card between its set_limit and its forget while an  *)
(* apply_caps had it between its read_state and its set_limit (the record  *)
(* that the second relies on is dropped by the first).  On every other     *)
(* card with a cap the records hold a limit that is not a cap itself, and  *)
(* name a job whose teardown restores it: through failed commands, deaths  *)
(* between any two of them, jobs that share a card, a creation and a late  *)
(* teardown of one job, and the sweep that raises limits on its own.       *)
CapRecorded ==
    \A c \in Card \ astray : limit[c] \in Cap =>
        /\ original[c] \in Uncapped
        /\ \E j \in Job : c \in holds[j]
=============================================================================
