------------------------------- MODULE MCSchedule -------------------------------
(* Small instances of Schedule: some rigs belong to one miner, each of the *)
(* others to a miner of its own.                                           *)
EXTENDS Schedule

CONSTANT Alone  \* the rigs that are the only one of their miner

MCOwner == [r \in Rig |-> IF r \in Alone THEN r ELSE CHOOSE q \in Rig \ Alone : TRUE]
=============================================================================
