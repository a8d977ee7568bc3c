--------------------------- MODULE PowerLimitsProofs ---------------------------
(***************************************************************************)
(* Proofs about PowerLimits: its type, and that every cap has its record.  *)
(***************************************************************************)
EXTENDS PowerLimits, TLAPS

(* Every record is reachable from a job.                                   *)
Reachable == \A c \in Card : original[c] # None => \E j \in Job : c \in holds[j]

(* A call has a job while it runs, and in the turns of its loop a card and *)
(* the watts it has read or will set.                                      *)
Turn ==
    \A t \in Task :
        /\ op[t] # "idle" => job[t] \in Job
        /\ op[t] \in Working => hand[t] \in Card /\ watts[t] \in Watts

(* The two intervals that must not overlap on a card, and where they did.  *)
Apart ==
    \A t, u \in Task :
        op[t] \in {"seen", "cap"} /\ op[u] = "forget" /\ hand[t] = hand[u] => hand[t] \in astray

(* On the other cards: a record is never a cap, caps are not taken for     *)
(* originals; a call that has seen a cap, or is about to set one, finds a  *)
(* record; one that restores a card restores no cap, and until it has      *)
(* forgotten the record there is no cap on the card.                       *)
Originals == \A c \in Card \ astray : original[c] \in Uncapped \cup {None}
Seen ==
    \A t \in Task : op[t] = "seen" /\ hand[t] \notin astray =>
        watts[t] \in Uncapped \/ original[hand[t]] # None
Noted ==
    \A t \in Task : op[t] = "cap" /\ hand[t] \notin astray => original[hand[t]] # None
Putting ==
    \A t \in Task : op[t] = "put" /\ hand[t] \notin astray => watts[t] \in Uncapped
Restored ==
    \A t \in Task : op[t] = "forget" /\ hand[t] \notin astray => limit[hand[t]] \notin Cap

Inv ==
    /\ Type /\ Reachable /\ Turn /\ Apart /\ Originals
    /\ Seen /\ Noted /\ Putting /\ Restored /\ CapRecorded

USE CardsAssumption, LimitAssumption, FaultAssumption

(* The first state has no caps, no records and no call.                    *)
LEMMA InitInv == Init => Inv
  BY DEF Init, Inv, Type, Reachable, Turn, Apart, Originals, Seen, Noted, Putting, Restored,
         CapRecorded, Uncapped, Watts, Working, Stage

(* One step per action; under it the parts that the action can disturb:    *)
(* the types and the turns of the loops, what the records say, what the    *)
(* calls rely on, and the caps themselves.                                 *)
LEMMA NextInv == Inv /\ [Next]_vars => Inv'
  <1> SUFFICES ASSUME Inv, [Next]_vars PROVE Inv'
    OBVIOUS
  <1> USE DEF Inv, files, locals, Type
  <1>1. ASSUME NEW t \in Task, NEW j \in Job, Apply(t, j) PROVE Inv'
    <2> USE <1>1 DEF Apply
    <2>1. Type' /\ Turn' BY DEF Turn, Watts, Working, Stage
    <2>2. Reachable' BY DEF Reachable, Turn, Working
    <2>3. Apart' BY DEF Apart, Turn, Working
    <2>4. Originals' /\ CapRecorded'
      BY DEF Originals, CapRecorded, Reachable, Seen, Noted, Putting, Restored, Apart, Turn, Working
    <2>5. Seen' /\ Noted' BY DEF Seen, Noted, CapRecorded, Originals, Apart, Turn, Working, Watts
    <2>6. Putting' /\ Restored' BY DEF Putting, Restored, Originals, Apart, Turn, Working
    <2> QED BY <2>1, <2>2, <2>3, <2>4, <2>5, <2>6
  <1>2. ASSUME NEW t \in Task, NEW c \in Card, Read(t, c) PROVE Inv'
    <2> USE <1>2 DEF Read, Forgetting
    <2>1. Type' /\ Turn' BY DEF Turn, Watts, Working, Stage
    <2>2. Reachable' BY DEF Reachable, Turn, Working
    <2>3. Apart' BY DEF Apart, Turn, Working
    <2>4. Originals' /\ CapRecorded'
      BY DEF Originals, CapRecorded, Reachable, Seen, Noted, Putting, Restored, Apart, Turn, Working
    <2>5. Seen' /\ Noted' BY DEF Seen, Noted, CapRecorded, Originals, Apart, Turn, Working, Watts
    <2>6. Putting' /\ Restored' BY DEF Putting, Restored, Originals, Apart, Turn, Working
    <2> QED BY <2>1, <2>2, <2>3, <2>4, <2>5, <2>6
  <1>3. ASSUME NEW t \in Task, ReadFails(t) PROVE Inv'
    <2> USE <1>3 DEF ReadFails, Fault, StartRestore
    <2>1. Type' /\ Turn' BY DEF Turn, Watts, Working, Stage
    <2>2. Reachable' BY DEF Reachable, Turn, Working
    <2>3. Apart' BY DEF Apart, Turn, Working
    <2>4. Originals' /\ CapRecorded'
      BY DEF Originals, CapRecorded, Reachable, Seen, Noted, Putting, Restored, Apart, Turn, Working
    <2>5. Seen' /\ Noted' BY DEF Seen, Noted, CapRecorded, Originals, Apart, Turn, Working, Watts
    <2>6. Putting' /\ Restored' BY DEF Putting, Restored, Originals, Apart, Turn, Working
    <2> QED BY <2>1, <2>2, <2>3, <2>4, <2>5, <2>6
  <1>4. ASSUME NEW t \in Task, Remember(t) PROVE Inv'
    <2> USE <1>4 DEF Remember, RememberOriginal
    <2>1. Type' /\ Turn' BY DEF Turn, Watts, Working, Stage
    <2>2. Reachable' BY DEF Reachable, Turn, Working
    <2>3. Apart' BY DEF Apart, Turn, Working
    <2>4. Originals' /\ CapRecorded'
      BY DEF Originals, CapRecorded, Reachable, Seen, Noted, Putting, Restored, Apart, Turn, Working
    <2>5. Seen' /\ Noted' BY DEF Seen, Noted, CapRecorded, Originals, Apart, Turn, Working, Watts
    <2>6. Putting' /\ Restored' BY DEF Putting, Restored, Originals, Apart, Turn, Working
    <2> QED BY <2>1, <2>2, <2>3, <2>4, <2>5, <2>6
  <1>5. ASSUME NEW t \in Task, NEW w \in Cap, SetCap(t, w) PROVE Inv'
    <2> USE <1>5 DEF SetCap
    <2>1. Type' /\ Turn' BY DEF Turn, Watts, Working, Stage
    <2>2. Reachable' BY DEF Reachable, Turn, Working
    <2>3. Apart' BY DEF Apart, Turn, Working
    <2>4. Originals' /\ CapRecorded'
      BY DEF Originals, CapRecorded, Reachable, Seen, Noted, Putting, Restored, Apart, Turn, Working
    <2>5. Seen' /\ Noted' BY DEF Seen, Noted, CapRecorded, Originals, Apart, Turn, Working, Watts
    <2>6. Putting' /\ Restored' BY DEF Putting, Restored, Originals, Apart, Turn, Working
    <2> QED BY <2>1, <2>2, <2>3, <2>4, <2>5, <2>6
  <1>6. ASSUME NEW t \in Task, NEW w \in Cap, CapFails(t, w) PROVE Inv'
    <2> USE <1>6 DEF CapFails, Fault, SetFails, StartRestore
    <2>1. Type' /\ Turn' BY DEF Turn, Watts, Working, Stage
    <2>2. Reachable' BY DEF Reachable, Turn, Working
    <2>3. Apart' BY DEF Apart, Turn, Working
    <2>4. Originals' /\ CapRecorded'
      BY DEF Originals, CapRecorded, Reachable, Seen, Noted, Putting, Restored, Apart, Turn, Working
    <2>5. Seen' /\ Noted' BY DEF Seen, Noted, CapRecorded, Originals, Apart, Turn, Working, Watts
    <2>6. Putting' /\ Restored' BY DEF Putting, Restored, Originals, Apart, Turn, Working
    <2> QED BY <2>1, <2>2, <2>3, <2>4, <2>5, <2>6
  <1>7. ASSUME NEW t \in Task, CapHeld(t) PROVE Inv'
    <2> USE <1>7 DEF CapHeld, NextCard
    <2>1. Type' /\ Turn' BY DEF Turn, Watts, Working, Stage
    <2>2. Reachable' BY DEF Reachable, Turn, Working
    <2>3. Apart' BY DEF Apart, Turn, Working
    <2>4. Originals' /\ CapRecorded'
      BY DEF Originals, CapRecorded, Reachable, Seen, Noted, Putting, Restored, Apart, Turn, Working
    <2>5. Seen' /\ Noted' BY DEF Seen, Noted, CapRecorded, Originals, Apart, Turn, Working, Watts
    <2>6. Putting' /\ Restored' BY DEF Putting, Restored, Originals, Apart, Turn, Working
    <2> QED BY <2>1, <2>2, <2>3, <2>4, <2>5, <2>6
  <1>8. ASSUME NEW t \in Task, CapLost(t) PROVE Inv'
    <2> USE <1>8 DEF CapLost, Fault, StartRestore
    <2>1. Type' /\ Turn' BY DEF Turn, Watts, Working, Stage
    <2>2. Reachable' BY DEF Reachable, Turn, Working
    <2>3. Apart' BY DEF Apart, Turn, Working
    <2>4. Originals' /\ CapRecorded'
      BY DEF Originals, CapRecorded, Reachable, Seen, Noted, Putting, Restored, Apart, Turn, Working
    <2>5. Seen' /\ Noted' BY DEF Seen, Noted, CapRecorded, Originals, Apart, Turn, Working, Watts
    <2>6. Putting' /\ Restored' BY DEF Putting, Restored, Originals, Apart, Turn, Working
    <2> QED BY <2>1, <2>2, <2>3, <2>4, <2>5, <2>6
  <1>9. ASSUME NEW t \in Task, NEW j \in Job, Restore(t, j) PROVE Inv'
    <2> USE <1>9 DEF Restore, StartRestore
    <2>1. Type' /\ Turn' BY DEF Turn, Watts, Working, Stage
    <2>2. Reachable' BY DEF Reachable, Turn, Working
    <2>3. Apart' BY DEF Apart, Turn, Working
    <2>4. Originals' /\ CapRecorded'
      BY DEF Originals, CapRecorded, Reachable, Seen, Noted, Putting, Restored, Apart, Turn, Working
    <2>5. Seen' /\ Noted' BY DEF Seen, Noted, CapRecorded, Originals, Apart, Turn, Working, Watts
    <2>6. Putting' /\ Restored' BY DEF Putting, Restored, Originals, Apart, Turn, Working
    <2> QED BY <2>1, <2>2, <2>3, <2>4, <2>5, <2>6
  <1>10. ASSUME NEW t \in Task, NEW c \in Card, NothingToRestore(t, c) PROVE Inv'
    <2> USE <1>10 DEF NothingToRestore, Forget
    <2>1. Type' /\ Turn' BY DEF Turn, Watts, Working, Stage
    <2>2. Reachable' BY DEF Reachable, Turn, Working
    <2>3. Apart' BY DEF Apart, Turn, Working
    <2>4. Originals' /\ CapRecorded'
      BY DEF Originals, CapRecorded, Reachable, Seen, Noted, Putting, Restored, Apart, Turn, Working
    <2>5. Seen' /\ Noted' BY DEF Seen, Noted, CapRecorded, Originals, Apart, Turn, Working, Watts
    <2>6. Putting' /\ Restored' BY DEF Putting, Restored, Originals, Apart, Turn, Working
    <2> QED BY <2>1, <2>2, <2>3, <2>4, <2>5, <2>6
  <1>11. ASSUME NEW t \in Task, NEW c \in Card, RestoreTo(t, c) PROVE Inv'
    <2> USE <1>11 DEF RestoreTo
    <2>1. Type' /\ Turn' BY DEF Turn, Watts, Working, Stage
    <2>2. Reachable' BY DEF Reachable, Turn, Working
    <2>3. Apart' BY DEF Apart, Turn, Working
    <2>4. Originals' /\ CapRecorded'
      BY DEF Originals, CapRecorded, Reachable, Seen, Noted, Putting, Restored, Apart, Turn, Working
    <2>5. Seen' /\ Noted' BY DEF Seen, Noted, CapRecorded, Originals, Apart, Turn, Working, Watts
    <2>6. Putting' /\ Restored' BY DEF Putting, Restored, Originals, Apart, Turn, Working
    <2> QED BY <2>1, <2>2, <2>3, <2>4, <2>5, <2>6
  <1>12. ASSUME NEW t \in Task, RestoreLimit(t) PROVE Inv'
    <2> USE <1>12 DEF RestoreLimit, Capping
    <2>1. Type' /\ Turn' BY DEF Turn, Watts, Working, Stage
    <2>2. Reachable' BY DEF Reachable, Turn, Working
    <2>3. Apart' BY DEF Apart, Turn, Working
    <2>4. Originals' /\ CapRecorded'
      BY DEF Originals, CapRecorded, Reachable, Seen, Noted, Putting, Restored, Apart, Turn, Working
    <2>5. Seen' /\ Noted' BY DEF Seen, Noted, CapRecorded, Originals, Apart, Turn, Working, Watts
    <2>6. Putting' /\ Restored' BY DEF Putting, Restored, Originals, Apart, Turn, Working
    <2> QED BY <2>1, <2>2, <2>3, <2>4, <2>5, <2>6
  <1>13. ASSUME NEW t \in Task, RestoreForget(t) PROVE Inv'
    <2> USE <1>13 DEF RestoreForget, Forget, NextCard
    <2>1. Type' /\ Turn' BY DEF Turn, Watts, Working, Stage
    <2>2. Reachable' BY DEF Reachable, Turn, Working
    <2>3. Apart' BY DEF Apart, Turn, Working
    <2>4. Originals' /\ CapRecorded'
      BY DEF Originals, CapRecorded, Reachable, Seen, Noted, Putting, Restored, Apart, Turn, Working
    <2>5. Seen' /\ Noted' BY DEF Seen, Noted, CapRecorded, Originals, Apart, Turn, Working, Watts
    <2>6. Putting' /\ Restored' BY DEF Putting, Restored, Originals, Apart, Turn, Working
    <2> QED BY <2>1, <2>2, <2>3, <2>4, <2>5, <2>6
  <1>14. ASSUME NEW t \in Task, RestoreFails(t) PROVE Inv'
    <2> USE <1>14 DEF RestoreFails, Fault, SetFails, NextCard
    <2>1. Type' /\ Turn' BY DEF Turn, Watts, Working, Stage
    <2>2. Reachable' BY DEF Reachable, Turn, Working
    <2>3. Apart' BY DEF Apart, Turn, Working
    <2>4. Originals' /\ CapRecorded'
      BY DEF Originals, CapRecorded, Reachable, Seen, Noted, Putting, Restored, Apart, Turn, Working
    <2>5. Seen' /\ Noted' BY DEF Seen, Noted, CapRecorded, Originals, Apart, Turn, Working, Watts
    <2>6. Putting' /\ Restored' BY DEF Putting, Restored, Originals, Apart, Turn, Working
    <2> QED BY <2>1, <2>2, <2>3, <2>4, <2>5, <2>6
  <1>15. ASSUME NEW t \in Task, Done(t) PROVE Inv'
    <2> USE <1>15 DEF Done
    <2>1. Type' /\ Turn' BY DEF Turn, Watts, Working, Stage
    <2>2. Reachable' BY DEF Reachable, Turn, Working
    <2>3. Apart' BY DEF Apart, Turn, Working
    <2>4. Originals' /\ CapRecorded'
      BY DEF Originals, CapRecorded, Reachable, Seen, Noted, Putting, Restored, Apart, Turn, Working
    <2>5. Seen' /\ Noted' BY DEF Seen, Noted, CapRecorded, Originals, Apart, Turn, Working, Watts
    <2>6. Putting' /\ Restored' BY DEF Putting, Restored, Originals, Apart, Turn, Working
    <2> QED BY <2>1, <2>2, <2>3, <2>4, <2>5, <2>6
  <1>16. ASSUME NEW c \in Card, SeeLow(c) PROVE Inv'
    <2> USE <1>16 DEF SeeLow
    <2>1. Type' /\ Turn' BY DEF Turn, Watts, Working, Stage
    <2>2. Reachable' BY DEF Reachable, Turn, Working
    <2>3. Apart' BY DEF Apart, Turn, Working
    <2>4. Originals' /\ CapRecorded'
      BY DEF Originals, CapRecorded, Reachable, Seen, Noted, Putting, Restored, Apart, Turn, Working
    <2>5. Seen' /\ Noted' BY DEF Seen, Noted, CapRecorded, Originals, Apart, Turn, Working, Watts
    <2>6. Putting' /\ Restored' BY DEF Putting, Restored, Originals, Apart, Turn, Working
    <2> QED BY <2>1, <2>2, <2>3, <2>4, <2>5, <2>6
  <1>17. ASSUME NEW c \in Card, RaiseLow(c) PROVE Inv'
    <2> USE <1>17 DEF RaiseLow, Uncapped
    <2>1. Type' /\ Turn' BY DEF Turn, Watts, Working, Stage
    <2>2. Reachable' BY DEF Reachable, Turn, Working
    <2>3. Apart' BY DEF Apart, Turn, Working
    <2>4. Originals' /\ CapRecorded'
      BY DEF Originals, CapRecorded, Reachable, Seen, Noted, Putting, Restored, Apart, Turn, Working
    <2>5. Seen' /\ Noted' BY DEF Seen, Noted, CapRecorded, Originals, Apart, Turn, Working, Watts
    <2>6. Putting' /\ Restored' BY DEF Putting, Restored, Originals, Apart, Turn, Working
    <2> QED BY <2>1, <2>2, <2>3, <2>4, <2>5, <2>6
  <1>18. ASSUME Crash PROVE Inv'
    <2> USE <1>18 DEF Crash, Fault, AllIdle
    <2>1. Type' /\ Turn' BY DEF Turn, Watts, Working, Stage
    <2>2. Reachable' BY DEF Reachable, Turn, Working
    <2>3. Apart' BY DEF Apart, Turn, Working
    <2>4. Originals' /\ CapRecorded'
      BY DEF Originals, CapRecorded, Reachable, Seen, Noted, Putting, Restored, Apart, Turn, Working
    <2>5. Seen' /\ Noted' BY DEF Seen, Noted, CapRecorded, Originals, Apart, Turn, Working, Watts
    <2>6. Putting' /\ Restored' BY DEF Putting, Restored, Originals, Apart, Turn, Working
    <2> QED BY <2>1, <2>2, <2>3, <2>4, <2>5, <2>6
  <1>19. ASSUME CrashUnread PROVE Inv'
    <2> USE <1>19 DEF CrashUnread, Fault, AllIdle
    <2>1. Type' /\ Turn' BY DEF Turn, Watts, Working, Stage
    <2>2. Reachable' BY DEF Reachable, Turn, Working
    <2>3. Apart' BY DEF Apart, Turn, Working
    <2>4. Originals' /\ CapRecorded'
      BY DEF Originals, CapRecorded, Reachable, Seen, Noted, Putting, Restored, Apart, Turn, Working
    <2>5. Seen' /\ Noted' BY DEF Seen, Noted, CapRecorded, Originals, Apart, Turn, Working, Watts
    <2>6. Putting' /\ Restored' BY DEF Putting, Restored, Originals, Apart, Turn, Working
    <2> QED BY <2>1, <2>2, <2>3, <2>4, <2>5, <2>6
  <1>20. ASSUME UNCHANGED vars PROVE Inv'
    <2> USE <1>20 DEF vars
    <2>1. Type' /\ Turn' BY DEF Turn, Watts, Working, Stage
    <2>2. Reachable' BY DEF Reachable, Turn, Working
    <2>3. Apart' BY DEF Apart, Turn, Working
    <2>4. Originals' /\ CapRecorded'
      BY DEF Originals, CapRecorded, Reachable, Seen, Noted, Putting, Restored, Apart, Turn, Working
    <2>5. Seen' /\ Noted' BY DEF Seen, Noted, CapRecorded, Originals, Apart, Turn, Working, Watts
    <2>6. Putting' /\ Restored' BY DEF Putting, Restored, Originals, Apart, Turn, Working
    <2> QED BY <2>1, <2>2, <2>3, <2>4, <2>5, <2>6
  <1> QED
    BY <1>1, <1>2, <1>3, <1>4, <1>5, <1>6, <1>7, <1>8, <1>9, <1>10,
       <1>11, <1>12, <1>13, <1>14, <1>15, <1>16, <1>17, <1>18, <1>19, <1>20 DEF Next, TaskStep

LEMMA InvHolds == Spec => []Inv
  BY InitInv, NextInv, PTL DEF Spec

(* Every reachable state of the limits, the records and the calls is well  *)
(* formed, for any jobs, cards, sharing of cards and number of calls.      *)
THEOREM TypeCorrect == Spec => []Type
  <1>1. Inv => Type
    BY DEF Inv
  <1> QED BY InvHolds, <1>1, PTL

(* While a job's cap is on a card, PowerRecords holds the limit to go back *)
(* to and a job whose restore_job will do so, unless the file could not be *)
(* read or a restore_job between its set_limit and its forget met an       *)
(* apply_caps between its read_state and its set_limit on that very card;  *)
(* for any number of calls, failures and deaths of the validator.          *)
THEOREM CapRecordedHolds == Spec => []CapRecorded
  <1>1. Inv => CapRecorded
    BY DEF Inv
  <1> QED BY InvHolds, <1>1, PTL
=============================================================================
