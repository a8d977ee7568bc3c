------------------------------- MODULE MCWeights -------------------------------
(* Weights with three rigs, two of them of one hotkey, in states that tell *)
(* the terms of the formula apart.                                         *)
EXTENDS Weights

CONSTANTS a, b, r1, r2, r3

MCOwner == [r \in Rig |-> IF r = r3 THEN b ELSE a]

(* A model that has earned nothing so far.                                 *)
MCDemand == [model \in {"gt"} |-> 0]

Flagship == [model |-> "h100", tier |-> "flagship", accepted |-> TRUE]
Unsold   == [model |-> "gt", tier |-> "entry", accepted |-> TRUE]

Good == [verifiedState |-> TRUE, passed |-> TRUE, cards |-> <<Flagship>>, isolated |-> TRUE,
         ledgerDays |-> 2, poolDays |-> 0, driver |-> 6, rented |-> FALSE, optedOut |-> FALSE]
Outdated == [Good EXCEPT !.driver = 5]

MCRigView ==
    {Good, Outdated,
     [Good EXCEPT !.cards = Append(@, Unsold)],
     [Outdated EXCEPT !.cards = <<Unsold>>, !.rented = TRUE, !.isolated = FALSE, !.optedOut = TRUE,
                      !.ledgerDays = 0, !.poolDays = 1],
     [Good EXCEPT !.passed = FALSE]}
=============================================================================
