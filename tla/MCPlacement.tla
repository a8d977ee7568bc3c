------------------------------ MODULE MCPlacement ------------------------------
(***************************************************************************)
(* A small instance of Placement for TLC: a rig with two cards and a rig   *)
(* with one, and three jobs, enough to share, to displace two jobs at once *)
(* and to prefer one rig over the other.                                   *)
(***************************************************************************)
EXTENDS Placement, TLC

CONSTANTS r1, r2, c1, c2, c3

MCCardsOf == (r1 :> {c1, c2}) @@ (r2 :> {c3})

Symmetry == Permutations(JobId) \cup Permutations({c1, c2})
=============================================================================
