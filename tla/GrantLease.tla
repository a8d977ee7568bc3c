------------------------------- MODULE GrantLease -------------------------------
(***************************************************************************)
(* What the session grants of an agent promise, without threads, tables,   *)
(* clocks or files: a request is used at most once in the life of the      *)
(* agent, its key is installed at most once, and a key that was removed    *)
(* never comes back before the agent is restarted.                         *)
(***************************************************************************)
CONSTANT Session
VARIABLE phase

Phases == {"unused", "reserved", "live", "spent"}

Init == phase = [s \in Session |-> "unused"]

Reserve(s) == phase[s] = "unused"   /\ phase' = [phase EXCEPT ![s] = "reserved"]
Install(s) == phase[s] = "reserved" /\ phase' = [phase EXCEPT ![s] = "live"]
GiveUp(s)  == phase[s] = "reserved" /\ phase' = [phase EXCEPT ![s] = "spent"]
Remove(s)  == phase[s] = "live"     /\ phase' = [phase EXCEPT ![s] = "spent"]

(* The agent dies: only installed keys are left of it ...                  *)
Die == phase' = [s \in Session |-> IF phase[s] = "live" THEN "live" ELSE "unused"]

(* ... and its successor starts by removing those too.                     *)
Restart == phase' = [s \in Session |-> "unused"]

Next ==
    \/ \E s \in Session : Reserve(s) \/ Install(s) \/ GiveUp(s) \/ Remove(s)
    \/ Die
    \/ Restart

Spec == Init /\ [][Next]_phase
=============================================================================
