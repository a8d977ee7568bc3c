---------------------------- MODULE MCPowerLimits ----------------------------
(***************************************************************************)
(* A small instance of PowerLimits for TLC: two jobs that share a card, of *)
(* which one has another card to itself.  Calls are alike.                 *)
(***************************************************************************)
EXTENDS PowerLimits, TLC

CONSTANTS c1, c2, j1, j2

MCSymmetry == Permutations(Task)

MCCardsOf == (j1 :> {c1, c2}) @@ (j2 :> {c2})
=============================================================================
