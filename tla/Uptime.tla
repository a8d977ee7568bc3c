--------------------------------- MODULE Uptime ---------------------------------
(***************************************************************************)
(* The validator's uptime ledger, validator/scoring/reliability.py, as the *)
(* express lane (schedule/express.py) and the end of the process           *)
(* (validator/main.py) use it: what probes see is added up in memory,      *)
(* saved now and then, and read back by the next process.                  *)
(*                                                                         *)
(* The ledger knows the time of the wall clock only, which may be set      *)
(* forward or back.  record_job, forget and apply_server_uptime have no    *)
(* caller and are left out, and so is the rounding of what is saved to a   *)
(* tenth of a second.                                                      *)
(***************************************************************************)
EXTENDS Integers

CONSTANTS Rig,
          MaxGap,      \* MAX_GAP_SECONDS (120)
          SaveEvery,   \* LEDGER_SAVE_SECONDS
          MaxClock,    \* bound: how long the model runs
          MaxJumps,    \* bound: how often the wall clock is set
          MaxJump      \* bound: by how much

ASSUME UptimeAssumption ==
    {MaxGap, SaveEvery, MaxClock, MaxJumps, MaxJump} \subseteq Nat \ {0}

VARIABLES
    clock,      \* the time that passes
    skew,       \* by how much the wall clock is ahead of it
    jumps,      \* how often it was set
    ledger,     \* UptimeLedger.rigs: RigReliability of each rig
    disk,       \* the file
    lastSave,   \* ExpressLane._last_save
    probing,    \* the probes of a tick that have not ended
    ticking,    \* a tick is on its way
    away,       \* the rigs: since when each cannot be reached, or 0
    first,      \* history: when a probe first reached the rig, or 0
    absent      \* history: how long it was away since, in absences longer than MaxGap

vars == <<clock, skew, jumps, ledger, disk, lastSave, probing, ticking, away, first, absent>>

(* last_seen is 0 for a rig that was never seen.                           *)
Reliability == [uptime: Nat, seen: Nat, online: BOOLEAN]
Unseen == [uptime |-> 0, seen |-> 0, online |-> FALSE]

Type ==
    /\ clock \in 1..MaxClock /\ skew \in Nat /\ jumps \in 0..MaxJumps
    /\ ledger \in [Rig -> Reliability] /\ disk \in [Rig -> Reliability]
    /\ lastSave \in Nat
    /\ probing \subseteq Rig /\ ticking \in BOOLEAN
    /\ away \in [Rig -> Nat] /\ first \in [Rig -> Nat]
    /\ absent \in [Rig -> Nat]

Init ==
    /\ clock = 1 /\ skew = MaxJumps * MaxJump /\ jumps = 0 /\ lastSave = 0
    /\ ledger = [r \in Rig |-> Unseen] /\ disk = [r \in Rig |-> Unseen]
    /\ probing = {} /\ ticking = FALSE
    /\ away = [r \in Rig |-> 0] /\ first = [r \in Rig |-> 0]
    /\ absent = [r \in Rig |-> 0]

-----------------------------------------------------------------------------
(* The world: time passes, rigs go and come back.                          *)
Tick ==
    /\ clock < MaxClock
    /\ clock' = clock + 1
    /\ UNCHANGED <<skew, jumps, ledger, disk, lastSave, probing, ticking, away, first, absent>>

(* Somebody, or NTP, sets the wall clock.                                  *)
Jump(by) ==
    /\ jumps < MaxJumps
    /\ skew' = skew + by /\ jumps' = jumps + 1
    /\ UNCHANGED <<clock, ledger, disk, lastSave, probing, ticking, away, first, absent>>

Goes(r) ==
    /\ away[r] = 0
    /\ away' = [away EXCEPT ![r] = clock]
    /\ UNCHANGED <<clock, skew, jumps, ledger, disk, lastSave, probing, ticking, first, absent>>

ComesBack(r) ==
    /\ away[r] # 0
    /\ LET length == clock - away[r]
       IN  absent' = [absent EXCEPT ![r] = IF length > MaxGap /\ first[r] # 0 THEN @ + length ELSE @]
    /\ away' = [away EXCEPT ![r] = 0]
    /\ UNCHANGED <<clock, skew, jumps, ledger, disk, lastSave, probing, ticking, first>>

-----------------------------------------------------------------------------
(* time.time().                                                            *)
Wall == clock + skew

(* A gap of any length is paid for.                                        *)
CreditAny(entry, online) ==
    IF entry.seen # 0 /\ entry.online /\ online /\ Wall > entry.seen THEN Wall - entry.seen ELSE 0

(* A gap is paid for that is not too long, or negative.                    *)
CreditSigned(entry, online) ==
    IF entry.seen # 0 /\ entry.online /\ online /\ Wall - entry.seen <= MaxGap
    THEN Wall - entry.seen ELSE 0

(* observe: the time between two probes that reached the rig, if it was    *)
(* not too long.                                                           *)
Credit(entry, online) ==
    LET gap == Wall - entry.seen
    IN  IF entry.seen # 0 /\ entry.online /\ online /\ 0 < gap /\ gap <= MaxGap THEN gap ELSE 0

Observe(r, online) ==
    ledger' = [ledger EXCEPT ![r] = [uptime |-> @.uptime + Credit(@, online),
                                     seen |-> Wall, online |-> online]]

(* tick: a probe for each rig the pool says is online ...                  *)
TickBegins(rigs) ==
    /\ ~ticking
    /\ ticking' = TRUE /\ probing' = rigs
    /\ UNCHANGED <<clock, skew, jumps, ledger, disk, lastSave, away, first, absent>>

ProbeAnswers(r) ==
    /\ r \in probing /\ away[r] = 0
    /\ probing' = probing \ {r}
    /\ Observe(r, TRUE)
    /\ first' = [first EXCEPT ![r] = IF @ = 0 THEN clock ELSE @]
    /\ UNCHANGED <<clock, skew, jumps, disk, lastSave, ticking, away, absent>>

ProbeFails(r) ==
    /\ r \in probing
    /\ probing' = probing \ {r}
    /\ Observe(r, FALSE)
    /\ UNCHANGED <<clock, skew, jumps, disk, lastSave, ticking, away, first, absent>>

(* ... and when all have ended a save, unless the last one was just now.   *)
(* The file is replaced as a whole.                                        *)
TickEnds ==
    /\ ticking /\ probing = {}
    /\ ticking' = FALSE
    /\ IF Wall - lastSave >= SaveEvery THEN disk' = ledger /\ lastSave' = Wall
       ELSE UNCHANGED <<disk, lastSave>>
    /\ UNCHANGED <<clock, skew, jumps, ledger, probing, away, first, absent>>

(* The process ends, with a last save or without, and the next one loads   *)
(* the file; what it cannot read, it does without.                         *)
Restart ==
    /\ disk' \in {ledger, disk}
    /\ ledger' \in {disk', [r \in Rig |-> Unseen]}
    /\ lastSave' = 0 /\ probing' = {} /\ ticking' = FALSE
    /\ UNCHANGED <<clock, skew, jumps, away, first, absent>>

Next ==
    \/ Tick \/ \E by \in (-MaxJump..MaxJump) \ {0} : Jump(by)
    \/ \E r \in Rig : Goes(r) \/ ComesBack(r) \/ ProbeAnswers(r) \/ ProbeFails(r)
    \/ \E rigs \in SUBSET Rig : TickBegins(rigs)
    \/ TickEnds \/ Restart

Spec == Init /\ [][Next]_vars

-----------------------------------------------------------------------------
(* No time is credited twice, none before the rig was first reached, and   *)
(* none of an absence longer than MAX_GAP_SECONDS; also when the validator *)
(* itself was down meanwhile, or started again from an older file.  A wall *)
(* clock that is set, forward or back and by any amount, is worth          *)
(* MAX_GAP_SECONDS at most each time.                                      *)
UptimeIsEarned ==
    \A r \in Rig : ledger[r].uptime # 0 =>
        ledger[r].uptime + absent[r] <= clock - first[r] + jumps * MaxGap
=============================================================================
