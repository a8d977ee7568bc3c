------------------------------ MODULE MCAgentWork ------------------------------
(* Small instances of AgentWork, in which one image may have a record as   *)
(* large as two of the others.                                             *)
EXTENDS AgentWork

CONSTANT larger  \* the image with the larger record, if there is one

MCSizeOf == [i \in Image |-> IF i = larger THEN 2 ELSE 1]
=============================================================================
