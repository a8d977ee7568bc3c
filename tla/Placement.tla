-------------------------------- MODULE Placement --------------------------------
(***************************************************************************)
(* Where a job goes: validator/work/placement.py, choose, over the rigs of *)
(* the roster and the job records of each (protocol/session.JobRecord).    *)
(*                                                                         *)
(* A record names at most one card.  That of a job with several names none *)
(* and counts for every card of the rig (occupancy).  The caller carries a *)
(* placement out as a whole: the displaced jobs end, the job starts.       *)
(***************************************************************************)
EXTENDS Naturals, FiniteSetsExt

CONSTANTS Rig,          \* rigs of the roster
          CardsOf,      \* [Rig -> SUBSET Card]
          Card,         \* card uuids
          JobId,
          MaxNeeded     \* bound: the most cards a job asks for (gpu_count)

Kind == {"rental", "inference", "shaping", "mining"}

(* RANK, the position in tiers.PRIORITY.                                   *)
Rank(kind) ==
    CASE kind = "rental" -> 0 [] kind = "inference" -> 1 [] kind = "shaping" -> 2 [] OTHER -> 3

Sensitive == {"rental"}
Customer == {"inference"}

ASSUME RosterAssumption ==
    /\ CardsOf \in [Rig -> SUBSET Card]
    /\ \A r, q \in Rig : r # q => CardsOf[r] \cap CardsOf[q] = {}
    /\ \A r \in Rig : IsFiniteSet(CardsOf[r])
    /\ MaxNeeded \in Nat

VARIABLES
    kind,      \* the kind of each job
    rig,       \* the rig each running job is on
    cards,     \* the cards each job runs on; none if it does not run
    named      \* the cards its record names: its only card, or none

placementVars == <<kind, rig, cards, named>>

PlacementType ==
    /\ kind \in [JobId -> Kind]
    /\ rig \in [JobId -> Rig]
    /\ cards \in [JobId -> SUBSET Card]
    /\ named \in [JobId -> SUBSET Card]

PlacementInit ==
    /\ kind \in [JobId -> Kind]
    /\ rig \in [JobId -> Rig]
    /\ cards = [j \in JobId |-> {}]
    /\ named = [j \in JobId |-> {}]

-----------------------------------------------------------------------------
Runs(j) == cards[j] # {}

(* An occupancy that overlooks records without a card.                     *)
NamedOccupancy(r, c) == {j \in JobId : Runs(j) /\ rig[j] = r /\ c \in named[j]}

(* occupancy: the jobs that a card is taken to carry.                      *)
Occupancy(r, c) == {j \in JobId : Runs(j) /\ rig[j] = r /\ (named[j] = {} \/ c \in named[j])}

(* can_share and can_displace, for the jobs that are on a card already.    *)
CanShare(existing, k) ==
    /\ k \in Customer
    /\ \A j \in existing : kind[j] \in Customer

CanDisplace(existing, k) ==
    \A j \in existing : Rank(kind[j]) > Rank(k) /\ kind[j] \notin Sensitive \cup Customer

Free(r) == {c \in CardsOf[r] : Occupancy(r, c) = {}}
Shareable(r, k) == {c \in CardsOf[r] \ Free(r) : CanShare(Occupancy(r, c), k)}
Displaceable(r, k) == {c \in CardsOf[r] \ Free(r) : CanDisplace(Occupancy(r, c), k)}

(* The cards a rig offers, `needed` in all: free ones before those shared  *)
(* with their jobs, before those whose jobs are displaced.                 *)
Offers(r, k, needed) ==
    {chosen \in SUBSET (Free(r) \cup Shareable(r, k) \cup Displaceable(r, k)) :
        /\ Cardinality(chosen) = needed
        /\ chosen \subseteq Free(r) \/ Free(r) \subseteq chosen
        /\ chosen \cap Displaceable(r, k) # {} => Shareable(r, k) \subseteq chosen}

Displaced(r, k, chosen) == UNION {Occupancy(r, c) : c \in chosen \cap Displaceable(r, k)}

(* rank_rig: the fewer jobs displaced the better, counted once per card.   *)
(* Reliability, uptime and free cards decide between equals.               *)
Cost(r, k, chosen) ==
    MapThenSumSet(LAMBDA c : Cardinality(Occupancy(r, c)), chosen \cap Displaceable(r, k))

-----------------------------------------------------------------------------
(* choose, and what the caller does with its answer.  Candidates are the   *)
(* rigs without an ineligible_reason for this kind and, for a whole_node   *)
(* job, with as many cards as are needed.                                  *)
Place(j, needed, candidates) ==
    /\ ~Runs(j)
    /\ \E r \in candidates : \E chosen \in Offers(r, kind[j], needed) :
        /\ \A q \in candidates \ {r} :
                \/ Offers(q, kind[j], needed) = {}
                \/ \E other \in Offers(q, kind[j], needed) :
                        Cost(r, kind[j], chosen) <= Cost(q, kind[j], other)
        /\ LET gone == Displaced(r, kind[j], chosen)
           IN  /\ cards' = [i \in JobId |-> IF i = j THEN chosen ELSE IF i \in gone THEN {} ELSE cards[i]]
               /\ named' = [i \in JobId |-> IF i = j THEN IF needed = 1 THEN chosen ELSE {}
                                            ELSE IF i \in gone THEN {} ELSE named[i]]
        /\ rig' = [rig EXCEPT ![j] = r]
    /\ UNCHANGED kind

(* A job ends; its id comes back for a job of any kind.                    *)
Leave(j, k) ==
    /\ Runs(j)
    /\ cards' = [cards EXCEPT ![j] = {}]
    /\ named' = [named EXCEPT ![j] = {}]
    /\ kind' = [kind EXCEPT ![j] = k]
    /\ UNCHANGED rig

PlacementNext ==
    \/ \E j \in JobId, needed \in 1..MaxNeeded, candidates \in SUBSET Rig : Place(j, needed, candidates)
    \/ \E j \in JobId, k \in Kind : Leave(j, k)

PlacementSpec == PlacementInit /\ [][PlacementNext]_placementVars

-----------------------------------------------------------------------------
(* README: "Sensitivities are never mixed on one card".  Two jobs run on   *)
(* the same card only if both are inference, over any sequence of          *)
(* placements, displacements and departures, of jobs with one card or      *)
(* several.                                                                *)
NeverMixed ==
    \A i, j \in JobId : i # j /\ cards[i] \cap cards[j] # {} =>
        kind[i] \in Customer /\ kind[j] \in Customer
=============================================================================
