---------------------------- MODULE MCSessionGrants ----------------------------
(***************************************************************************)
(* Small instances of SessionGrants for TLC.  One unit of the clock stands *)
(* for about two minutes: a window of 1, an open timeout of 1 and a TTL of *)
(* 4 keep the order 2 * Window + OpenTimeout < TTL of the defaults tight.  *)
(***************************************************************************)
EXTENDS SessionGrants

(* The clock reaches the expiry of every session that can be opened, so    *)
(* that its bound hides nothing from the liveness property.                *)
ASSUME HorizonAssumption ==
    \A t \in Stamps : t + Window + OpenTimeout + TTL <= MaxClock
=============================================================================
