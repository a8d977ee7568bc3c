------------------------------- MODULE JobProofs -------------------------------
(***************************************************************************)
(* Proofs about jobs: that Placement never mixes sensitivities on a card,  *)
(* and that JobLifecycle leaves a job on its rig as a whole or not at all. *)
(***************************************************************************)
EXTENDS Placement, JobLifecycle, WellFoundedInduction, TLAPS

(* A running job is on cards of its rig, and what its record names, if     *)
(* anything, are its cards: occupancy overlooks no job.                    *)
Recorded ==
    \A j \in JobId :
        /\ cards[j] \subseteq CardsOf[rig[j]]
        /\ named[j] = {} \/ named[j] = cards[j]

PlacementInv == PlacementType /\ Recorded /\ NeverMixed

(* Whoever runs on a card of a rig is in the occupancy of that card.       *)
LEMMA OccupancyComplete ==
  ASSUME PlacementType, Recorded, NEW r \in Rig, NEW c \in CardsOf[r], NEW j \in JobId, c \in cards[j]
  PROVE  j \in Occupancy(r, c)
  <1>1. rig[j] = r
    BY RosterAssumption DEF PlacementType, Recorded
  <1> QED
    BY <1>1 DEF Recorded, Occupancy, Runs

(* The cards that choose returns carry no other job once the displaced     *)
(* ones are gone, unless the job and all of those are inference.           *)
LEMMA ChosenCards ==
  ASSUME PlacementType, Recorded, NEW r \in Rig, NEW k \in Kind, NEW needed \in Nat,
         NEW chosen \in Offers(r, k, needed),
         NEW i \in JobId, i \notin Displaced(r, k, chosen), cards[i] \cap chosen # {}
  PROVE  k \in Customer /\ kind[i] \in Customer
  <1>1. PICK c \in chosen : c \in cards[i]
    OBVIOUS
  <1>2. c \in Free(r) \cup Shareable(r, k) \cup Displaceable(r, k)
    BY DEF Offers
  <1>3. c \in CardsOf[r]
    BY <1>2 DEF Free, Shareable, Displaceable
  <1>4. i \in Occupancy(r, c)
    BY <1>1, <1>3, OccupancyComplete
  <1>5. c \notin Free(r)
    BY <1>4 DEF Free
  <1>6. c \notin Displaceable(r, k)
    BY <1>1, <1>4 DEF Displaced
  <1>7. CanShare(Occupancy(r, c), k)
    BY <1>2, <1>5, <1>6 DEF Shareable
  <1> QED
    BY <1>4, <1>7 DEF CanShare

LEMMA PlaceInv ==
  ASSUME PlacementInv, NEW j \in JobId, NEW needed \in 1..MaxNeeded, NEW candidates \in SUBSET Rig,
         Place(j, needed, candidates)
  PROVE  PlacementInv'
  <1> DEFINE k == kind[j]
  <1>0. PICK r \in candidates : \E chosen \in Offers(r, k, needed) :
          /\ cards' = [i \in JobId |-> IF i = j THEN chosen
                         ELSE IF i \in Displaced(r, k, chosen) THEN {} ELSE cards[i]]
          /\ named' = [i \in JobId |-> IF i = j THEN IF needed = 1 THEN chosen ELSE {}
                         ELSE IF i \in Displaced(r, k, chosen) THEN {} ELSE named[i]]
          /\ rig' = [rig EXCEPT ![j] = r]
    BY DEF Place
  <1>1. PICK chosen \in Offers(r, k, needed) :
          /\ cards' = [i \in JobId |-> IF i = j THEN chosen
                         ELSE IF i \in Displaced(r, k, chosen) THEN {} ELSE cards[i]]
          /\ named' = [i \in JobId |-> IF i = j THEN IF needed = 1 THEN chosen ELSE {}
                         ELSE IF i \in Displaced(r, k, chosen) THEN {} ELSE named[i]]
          /\ rig' = [rig EXCEPT ![j] = r]
    BY <1>0
  <1>2. r \in Rig /\ k \in Kind /\ kind' = kind /\ needed \in Nat
    BY RosterAssumption DEF PlacementInv, PlacementType, Place
  <1>3. chosen \subseteq CardsOf[r] /\ CardsOf[r] \subseteq Card
    BY <1>2, RosterAssumption DEF Offers, Free, Shareable, Displaceable
  <1>4. PlacementType'
    BY <1>1, <1>2, <1>3 DEF PlacementInv, PlacementType
  <1>5. Recorded'
    BY <1>1, <1>3 DEF PlacementInv, PlacementType, Recorded
  <1>6. NeverMixed'
    <2>1. ASSUME NEW i \in JobId, i # j, cards'[i] \cap chosen # {}
          PROVE  k \in Customer /\ kind[i] \in Customer
      <3>1. i \notin Displaced(r, k, chosen) /\ cards[i] \cap chosen # {}
        BY <1>1, <2>1
      <3> QED
        BY <3>1, <1>2, ChosenCards DEF PlacementInv
    <2>2. ASSUME NEW i \in JobId, NEW l \in JobId, i # l, cards'[i] \cap cards'[l] # {}
          PROVE  kind[i] \in Customer /\ kind[l] \in Customer
      <3>1. CASE i = j
        BY <1>1, <2>1, <2>2, <3>1
      <3>2. CASE l = j
        BY <1>1, <2>1, <2>2, <3>2
      <3>3. CASE i # j /\ l # j
        <4>1. cards[i] \cap cards[l] # {}
          BY <1>1, <2>2, <3>3
        <4> QED BY <4>1, <2>2 DEF PlacementInv, NeverMixed
      <3> QED BY <3>1, <3>2, <3>3
    <2> QED
      BY <2>2, <1>2 DEF NeverMixed
  <1> QED BY <1>4, <1>5, <1>6 DEF PlacementInv

LEMMA LeaveInv ==
  ASSUME PlacementInv, NEW j \in JobId, NEW k \in Kind, Leave(j, k)
  PROVE  PlacementInv'
  <1>1. PlacementType'
    BY DEF PlacementInv, PlacementType, Leave
  <1>2. Recorded'
    BY DEF PlacementInv, PlacementType, Recorded, Leave
  <1>3. NeverMixed'
    BY DEF PlacementInv, PlacementType, NeverMixed, Leave
  <1> QED BY <1>1, <1>2, <1>3 DEF PlacementInv

LEMMA PlacementInvHolds == PlacementSpec => []PlacementInv
  <1>1. PlacementInit => PlacementInv
    BY DEF PlacementInit, PlacementInv, PlacementType, Recorded, NeverMixed
  <1>2. PlacementInv /\ [PlacementNext]_placementVars => PlacementInv'
    <2> SUFFICES ASSUME PlacementInv, [PlacementNext]_placementVars PROVE PlacementInv'
      OBVIOUS
    <2>1. CASE UNCHANGED placementVars
      BY <2>1 DEF placementVars, PlacementInv, PlacementType, Recorded, NeverMixed
    <2>2. CASE PlacementNext
      BY <2>2, PlaceInv, LeaveInv DEF PlacementNext
    <2> QED BY <2>1, <2>2
  <1> QED BY <1>1, <1>2, PTL DEF PlacementSpec

(* choose keeps the README's promise for every roster, any jobs and every  *)
(* order of placements and departures: a card carries more than one job    *)
(* only if all of them are inference.                                      *)
THEOREM NeverMixedHolds == PlacementSpec => []NeverMixed
  <1>1. PlacementInv => NeverMixed
    BY DEF PlacementInv
  <1> QED BY PlacementInvHolds, <1>1, PTL
-----------------------------------------------------------------------------
(* Types of JobLifecycle.                                                  *)

(* Min of a nonempty set of ports is one of them.                          *)
LEMMA MinPort == ASSUME NEW S \in SUBSET Nat, S # {} PROVE Min(S) \in S
<1> DEFINE R == {ss \in Nat \X Nat : ss[1] < ss[2]}
<1>0. OpToRel(<, Nat) = R
  BY Zenon DEF OpToRel
<1>1. IsWellFoundedOn(R, Nat)
  BY <1>0, NatLessThanWellFounded
<1> HIDE DEF R
<1>2. PICK x \in S : \A y \in S : ~(<<y, x>> \in R)
  BY <1>1, WFMin
<1>3. \A y \in S : y < x => <<y, x>> \in R
  BY DEF R
<1>4. \A y \in S : x <= y
  <2> TAKE y \in S
  <2>1. x \in Nat /\ y \in Nat /\ ~(y < x)
    BY <1>2, <1>3
  <2> QED BY <2>1
<1> QED BY <1>4 DEF Min

Stage == {"idle", "teardown", "reserve", "pull", "cleanup", "stale", "remove", "power",
          "run", "rerun", "retry", "mount", "undo box", "undo caps", "undo volume"}

(* What the create coroutine of a job and its end may change.              *)
CreateType ==
    /\ port \in [Job -> Port] /\ wanted \subseteq Job
    /\ pc \in [Job -> Stage]
    /\ did \in [Job -> SUBSET {"volume", "caps", "container"}]
    /\ doomed \in [Job -> SUBSET Job]
    /\ again \in [Job -> BOOLEAN]
    /\ cancelled \subseteq Job /\ undo \subseteq Job

(* The rest of the state: the rig, the files, teardowns, sweep and bounds. *)
RestType ==
    /\ crowd \in Crowds
    /\ box \in [Job -> {"none", "created", "stopped", "running"}]
    /\ vol \in [Job -> {"none", "empty", "data"}]
    /\ capped \subseteq Job /\ store \subseteq Job /\ retries \subseteq Job
    /\ dpc \in [Destroyer -> [Job -> {"idle", "remove", "power", "volume"}]]
    /\ spc \in {"idle", "retry", "list", "orphans", "stale", "remove"}
    /\ running \subseteq Job /\ todo \subseteq Job /\ sdoomed \subseteq Job
    /\ faults \in 0..MaxFaults /\ repairs \in 0..MaxRepairs /\ unclean \in BOOLEAN

LEMMA TypeParts ==
    /\ Type <=> CreateType /\ RestType /\ swept \subseteq Job
    /\ Type' <=> CreateType' /\ RestType' /\ swept' \subseteq Job
BY DEF Type, CreateType, RestType, Stage

LEMMA EndsType ==
    ASSUME CreateType, NEW j \in Job, NEW ok \in BOOLEAN, Ends(j, ok) PROVE CreateType'
BY DEF CreateType, Ends, Stage

LEMMA FailsType ==
    ASSUME CreateType, NEW j \in Job, Fails(j) PROVE CreateType'
<1>1. CASE Ends(j, FALSE)
  BY <1>1 DEF CreateType, Ends, Stage
<1>2. CASE /\ pc' = [pc EXCEPT ![j] = "undo box"]
           /\ undo' = IF j \in cancelled THEN undo \cup {j} ELSE undo
           /\ UNCHANGED <<port, did, doomed, again, cancelled, wanted>>
  BY <1>2 DEF CreateType, Stage
<1> QED BY <1>1, <1>2 DEF Fails

LEMMA GoesType ==
    ASSUME CreateType, NEW j \in Job, NEW step \in Stage, Goes(j, step),
           did' \in [Job -> SUBSET {"volume", "caps", "container"}]
    PROVE  CreateType'
BY DEF CreateType, Goes

LEMMA NotesType ==
    ASSUME CreateType, NEW j \in Job, NEW step \in Stage, Goes(j, step),
           NEW what \in {"volume", "caps", "container"}, did' = [did EXCEPT ![j] = @ \cup {what}]
    PROVE  CreateType'
<1>1. did[j] \cup {what} \in SUBSET {"volume", "caps", "container"}
  BY DEF CreateType
<1>2. did' \in [Job -> SUBSET {"volume", "caps", "container"}]
  BY <1>1 DEF CreateType
<1> QED BY <1>2, GoesType

LEMMA StaleType == StaleVolumes \in SUBSET Job
BY DEF StaleVolumes

(* A creation's step keeps the types of its locals.                        *)
LEMMA CreateStepCreateType ==
    ASSUME Type, NEW j \in Job, CreateStep(j) PROVE CreateType'
<1>0. CreateType
  BY TypeParts
<1>1. CASE Reserve(j)
  <2>1. CASE Goes(j, "pull") /\ UNCHANGED did
    BY <1>0, <2>1, GoesType DEF CreateType, Stage
  <2>2. ASSUME NEW free \in SUBSET Port, GivePort(j, free) PROVE CreateType'
    <3>1. CASE Fails(j)
      BY <1>0, <3>1, FailsType
    <3>2. CASE /\ free # {} /\ port' = [port EXCEPT ![j] = Min(free)]
               /\ pc' = [pc EXCEPT ![j] = "pull"]
               /\ UNCHANGED <<did, doomed, again, cancelled, undo, wanted>>
      <4>1. Min(free) \in Port
        BY <3>2, MinPort, JobAssumption
      <4> QED BY <1>0, <3>2, <4>1 DEF CreateType, Stage
    <3> QED BY <2>2, <3>1, <3>2 DEF GivePort
  <2>3. Port \in SUBSET Port /\ Port \ UsedPorts(j) \in SUBSET Port
    OBVIOUS
  <2> QED BY <1>1, <2>1, <2>2, <2>3 DEF Reserve
<1>2. CASE Pull(j)
  BY <1>0, <1>2, GoesType, FailsType DEF Pull, Checkpoint, CreateType, Stage
<1>3. CASE Cleanup(j)
  BY <1>0, <1>3, GoesType DEF Cleanup, CreateType, Stage
<1>4. CASE ListStale(j)
  BY <1>0, <1>4, StaleType DEF ListStale, CreateType, Stage
<1>5. CASE CreateVolume(j)
  BY <1>0, <1>5, GoesType, NotesType, FailsType DEF CreateVolume, CreateType, Stage
<1>6. CASE ApplyCaps(j)
  BY <1>0, <1>6, NotesType, FailsType DEF ApplyCaps, Stage
<1>7. CASE Run(j)
  BY <1>0, <1>7, NotesType, FailsType DEF Run, Stage
<1>8. CASE PortBusy(j)
  BY <1>0, <1>8, GoesType, FailsType DEF PortBusy, CreateType, Stage
<1>9. CASE Retry(j)
  BY <1>0, <1>9, GoesType DEF Retry, CreateType, Stage
<1>10. CASE NotRunning(j)
  BY <1>0, <1>10, FailsType DEF NotRunning
<1>11. CASE Record(j)
  <2>1. CASE Fails(j)
    BY <1>0, <2>1, FailsType
  <2>2. CASE Ends(j, TRUE)
    BY <1>0, <2>2 DEF CreateType, Ends, Stage
  <2> QED BY <1>11, <2>1, <2>2 DEF Record
<1>12. CASE MountFails(j)
  BY <1>0, <1>12, FailsType DEF MountFails
<1>13. CASE UndoBox(j)
  BY <1>0, <1>13, GoesType DEF UndoBox, CreateType, Stage
<1>14. CASE UndoCaps(j)
  BY <1>0, <1>14, GoesType DEF UndoCaps, CreateType, Stage
<1>15. CASE UndoVolume(j)
  <2>1. Ends(j, FALSE)
    BY <1>15 DEF UndoVolume
  <2> QED BY <1>0, <2>1 DEF CreateType, Ends, Stage
<1>16. CASE Recreate(j)
  <2>1. CASE Goes(j, "reserve") /\ UNCHANGED did
    BY <1>0, <2>1, GoesType DEF CreateType, Stage
  <2>2. CASE Ends(j, FALSE)
    BY <1>0, <2>2 DEF CreateType, Ends, Stage
  <2> QED BY <1>16, <2>1, <2>2 DEF Recreate
<1>17. ASSUME NEW v \in Job, RemoveStale(j, v) PROVE CreateType'
  BY <1>0, <1>17 DEF RemoveStale, CreateType
<1> QED
  BY <1>1, <1>2, <1>3, <1>4, <1>5, <1>6, <1>7, <1>8, <1>9, <1>10, <1>11, <1>12,
     <1>13, <1>14, <1>15, <1>16, <1>17 DEF CreateStep

LEMMA FaultType ==
    ASSUME RestType, Fault \/ Refused \/ NoFault
    PROVE  faults' \in 0..MaxFaults /\ unclean' \in BOOLEAN
<1>1. faults' \in 0..MaxFaults
  BY JobAssumption DEF RestType, Failure, Fault, Refused, NoFault, faultVars
<1>2. unclean' \in BOOLEAN
  BY Zenon DEF RestType, Fault, Refused, NoFault, faultVars
<1> QED BY <1>1, <1>2

(* The commands of the rig keep the types of containers and volumes.       *)
BoxType == box \in [Job -> {"none", "created", "stopped", "running"}]
VolType == vol \in [Job -> {"none", "empty", "data"}]

LEMMA BoxKept ==
    ASSUME BoxType, NEW j \in Job,
           \/ RemoveBox(j) \/ RemoveBoxFails(j) \/ UNCHANGED box
           \/ \E b \in {"created", "running"} : box' = [box EXCEPT ![j] = b]
           \/ box' = [box EXCEPT ![j] = IF @ = "running" THEN "stopped" ELSE @]
    PROVE  BoxType'
BY DEF BoxType, RemoveBox, RemoveBoxFails

LEMMA VolKept ==
    ASSUME VolType, NEW j \in Job, RemoveVolume(j) \/ MakeVolume(j) \/ UNCHANGED vol
    PROVE  VolType'
BY DEF VolType, RemoveVolume, MakeVolume

(* The rest without them.                                                  *)
FilesType ==
    /\ crowd \in Crowds
    /\ capped \subseteq Job /\ store \subseteq Job /\ retries \subseteq Job
    /\ dpc \in [Destroyer -> [Job -> {"idle", "remove", "power", "volume"}]]
    /\ spc \in {"idle", "retry", "list", "orphans", "stale", "remove"}
    /\ running \subseteq Job /\ todo \subseteq Job /\ sdoomed \subseteq Job
    /\ faults \in 0..MaxFaults /\ repairs \in 0..MaxRepairs /\ unclean \in BOOLEAN

LEMMA RestParts ==
    (RestType <=> BoxType /\ VolType /\ FilesType) /\ (RestType' <=> BoxType' /\ VolType' /\ FilesType')
BY DEF RestType, BoxType, VolType, FilesType

(* What a creation's step does to the rig and the files: at most one       *)
(* command, for its own container and caps, and for any job's volume.      *)
LEMMA CreateEffects ==
    ASSUME NEW j \in Job, CreateStep(j)
    PROVE  /\ UNCHANGED <<retries, dpc, spc, running, todo, sdoomed, repairs>>
           /\ Fault \/ Refused \/ NoFault
           /\ \/ RemoveBox(j) \/ RemoveBoxFails(j) \/ UNCHANGED box
              \/ \E b \in {"created", "running"} : box' = [box EXCEPT ![j] = b]
              \/ box' = [box EXCEPT ![j] = IF @ = "running" THEN "stopped" ELSE @]
           /\ \/ MakeVolume(j) \/ UNCHANGED vol \/ \E v \in Job : RemoveVolume(v)
              \/ vol' = [vol EXCEPT ![j] = "data"]
           /\ capped' \in {capped, capped \cup {j}, capped \ {j}}
           /\ store' \in {store, store \cup {j}, store \ {j}}
<1>1. UNCHANGED <<retries, dpc, spc, running, todo, sdoomed, repairs>>
  BY DEF CreateStep, Reserve, Pull, Cleanup, ListStale, CreateVolume, ApplyCaps, Run, PortBusy,
         Retry, NotRunning, Record, MountFails, UndoBox, UndoCaps, UndoVolume, Recreate, RemoveStale,
         fileVars, sweepVars
<1>2. Fault \/ Refused \/ NoFault
  BY DEF CreateStep, Reserve, Pull, Cleanup, ListStale, CreateVolume, ApplyCaps, Run, PortBusy,
         Retry, NotRunning, Record, MountFails, UndoBox, UndoCaps, UndoVolume, Recreate, RemoveStale,
         NoFault
<1>3. \/ RemoveBox(j) \/ RemoveBoxFails(j) \/ UNCHANGED box
      \/ \E b \in {"created", "running"} : box' = [box EXCEPT ![j] = b]
      \/ box' = [box EXCEPT ![j] = IF @ = "running" THEN "stopped" ELSE @]
  BY DEF CreateStep, Reserve, Pull, Cleanup, ListStale, CreateVolume, ApplyCaps, Run, PortBusy,
         Retry, NotRunning, Record, MountFails, UndoBox, UndoCaps, UndoVolume, Recreate, RemoveStale,
         rigVars
<1>4. \/ MakeVolume(j) \/ UNCHANGED vol \/ \E v \in Job : RemoveVolume(v)
      \/ vol' = [vol EXCEPT ![j] = "data"]
  BY DEF CreateStep, Reserve, Pull, Cleanup, ListStale, CreateVolume, ApplyCaps, Run, PortBusy,
         Retry, NotRunning, Record, MountFails, UndoBox, UndoCaps, UndoVolume, Recreate, RemoveStale,
         rigVars
<1>5. /\ capped' \in {capped, capped \cup {j}, capped \ {j}}
      /\ store' \in {store, store \cup {j}, store \ {j}}
  BY DEF CreateStep, Reserve, Pull, Cleanup, ListStale, CreateVolume, ApplyCaps, Run, PortBusy,
         Retry, NotRunning, Record, MountFails, UndoBox, UndoCaps, UndoVolume, Recreate, RemoveStale,
         fileVars
<1> QED BY <1>1, <1>2, <1>3, <1>4, <1>5

(* A creation's step keeps the types of the rest: it changes the rig, the  *)
(* caps and the files at most.                                             *)
LEMMA CreateStepRestType ==
    ASSUME Type, NEW j \in Job, CreateStep(j), UNCHANGED crowd PROVE RestType'
<1>1. RestType
  BY TypeParts
<1>2. BoxType'
  BY <1>1, CreateEffects, BoxKept, RestParts
<1>3. VolType'
  <2>1. VolType
    BY <1>1, RestParts
  <2>2. CASE vol' = [vol EXCEPT ![j] = "data"]
    BY <2>1, <2>2 DEF VolType
  <2> QED BY <2>1, <2>2, CreateEffects, VolKept
<1>4. faults' \in 0..MaxFaults /\ unclean' \in BOOLEAN
  BY <1>1, CreateEffects, FaultType
<1>5. capped' \subseteq Job /\ store' \subseteq Job
  <2>1. capped \subseteq Job /\ store \subseteq Job
    BY <1>1 DEF RestType
  <2> QED BY <2>1, CreateEffects
<1>6. UNCHANGED <<crowd, retries, dpc, spc, running, todo, sdoomed, repairs>>
  BY CreateEffects
<1>7. FilesType'
  BY <1>1, <1>4, <1>5, <1>6 DEF RestType, FilesType
<1> QED BY <1>2, <1>3, <1>7, RestParts

LEMMA DestroyStepType ==
    ASSUME Type, NEW d \in Destroyer, NEW j \in Job, DestroyStep(d, j), UNCHANGED crowd
    PROVE  CreateType' /\ RestType'
<1>0. RestType /\ CreateType
  BY TypeParts
<1>a. UNCHANGED <<crowd, port, wanted, pc, did, doomed, again, cancelled, undo,
                  spc, running, todo, sdoomed, repairs>>
  BY DEF DestroyStep, Remove, Restore, Forget, createVars, sweepVars
<1>b. faults' \in 0..MaxFaults /\ unclean' \in BOOLEAN
  <2>1. Fault \/ Refused \/ NoFault
    BY DEF DestroyStep, Remove, Restore, Forget, NoFault
  <2> QED BY <1>0, <2>1, FaultType
<1>c. BoxType'
  <2>1. RemoveBox(j) \/ RemoveBoxFails(j) \/ UNCHANGED box
    BY DEF DestroyStep, Remove, Restore, Forget, rigVars
  <2> QED BY <1>0, <2>1, BoxKept, RestParts
<1>d. VolType'
  <2>1. RemoveVolume(j) \/ UNCHANGED vol
    BY DEF DestroyStep, Remove, Restore, Forget, rigVars
  <2> QED BY <1>0, <2>1, VolKept, RestParts
<1>e. capped' \subseteq Job /\ store' \subseteq Job /\ retries' \subseteq Job
  <2>1. capped \subseteq Job /\ store \subseteq Job /\ retries \subseteq Job
    BY <1>0 DEF RestType
  <2>2. /\ capped' \in {capped, capped \ {j}} /\ store' \in {store, store \ {j}}
        /\ retries' \in {retries, retries \cup {j}, retries \ {j}}
    BY DEF DestroyStep, Remove, Restore, Forget
  <2> QED BY <2>1, <2>2
<1>f. dpc' \in [Destroyer -> [Job -> {"idle", "remove", "power", "volume"}]]
  <2>1. \E step \in {"idle", "power", "volume"} : Steps(d, j, step)
    BY DEF DestroyStep, Remove, Restore, Forget
  <2> QED BY <1>0, <2>1 DEF Steps, RestType
<1>g. CreateType'
  BY <1>0, <1>a DEF CreateType
<1>h. FilesType'
  BY <1>0, <1>a, <1>b, <1>e, <1>f DEF RestType, FilesType
<1>i. RestType'
  BY <1>c, <1>d, <1>h, RestParts
<1> QED BY <1>g, <1>i

LEMMA SweepStepType ==
    ASSUME Type, SweepStep, UNCHANGED crowd PROVE CreateType' /\ RestType'
<1>0. RestType /\ CreateType
  BY TypeParts
<1>a. UNCHANGED <<crowd, box, capped, store, retries, port, wanted,
                  pc, did, doomed, again, cancelled, undo, repairs>>
  BY DEF SweepStep, SweepBegin, SweepList, SweepStale, SweepEnds, SweepDestroys,
         SweepVolume, createVars, rigVars, fileVars
<1>b. faults' \in 0..MaxFaults /\ unclean' \in BOOLEAN
  <2>1. Fault \/ Refused \/ NoFault
    BY DEF SweepStep, SweepBegin, SweepList, SweepStale, SweepEnds, SweepDestroys,
           SweepVolume, NoFault
  <2> QED BY <1>0, <2>1, FaultType
<1>d. VolType'
  <2>1. UNCHANGED vol \/ \E v \in Job : RemoveVolume(v)
    BY DEF SweepStep, SweepBegin, SweepList, SweepStale, SweepEnds, SweepDestroys,
           SweepVolume, rigVars
  <2>2. CASE UNCHANGED vol
    BY <1>0, <2>2, RestParts DEF VolType
  <2> QED BY <1>0, <2>1, <2>2, VolKept, RestParts
<1>e. spc' \in {"idle", "retry", "list", "orphans", "stale", "remove"}
  BY <1>0 DEF SweepStep, SweepBegin, SweepList, SweepStale, SweepEnds, SweepDestroys,
              SweepVolume, RestType
<1>f. running' \subseteq Job
  BY <1>0 DEF SweepStep, SweepBegin, SweepList, SweepStale, SweepEnds, SweepDestroys,
              SweepVolume, RestType, CreateType
<1>g. todo' \subseteq Job
  BY <1>0 DEF SweepStep, SweepBegin, SweepList, SweepStale, SweepEnds, SweepDestroys,
              SweepVolume, RestType, CreateType, Mounted, OwnContainers
<1>h. sdoomed' \subseteq Job
  BY <1>0, StaleType DEF SweepStep, SweepBegin, SweepList, SweepStale, SweepEnds, SweepDestroys,
                         SweepVolume, RestType
<1>i. dpc' \in [Destroyer -> [Job -> {"idle", "remove", "power", "volume"}]]
  <2>1. UNCHANGED dpc \/ \E j \in Job : Steps("sweep", j, "remove")
    BY DEF SweepStep, SweepBegin, SweepList, SweepStale, SweepEnds, SweepDestroys, SweepVolume
  <2>2. "sweep" \in Destroyer
    BY DEF Destroyer
  <2> QED BY <1>0, <2>1, <2>2 DEF Steps, RestType
<1>j. CreateType'
  BY <1>0, <1>a DEF CreateType
<1>k. BoxType'
  BY <1>0, <1>a, RestParts DEF BoxType
<1>l. FilesType'
  BY <1>0, <1>a, <1>b, <1>e, <1>f, <1>g, <1>h, <1>i DEF RestType, FilesType
<1>m. RestType'
  BY <1>d, <1>k, <1>l, RestParts
<1> QED BY <1>j, <1>m

LEMMA TypeNext == Type /\ [Next]_<<vars, crowd, swept>> => Type'
<1> SUFFICES ASSUME Type, [Next]_<<vars, crowd, swept>> PROVE Type'
  OBVIOUS
<1>0. RestType /\ CreateType
  BY TypeParts
<1>1. CASE UNCHANGED <<vars, crowd, swept>>
  BY <1>1 DEF vars, rigVars, fileVars, createVars, sweepVars, faultVars, Type
<1>2. CASE Next
  <2>0. UNCHANGED crowd
    BY <1>2 DEF Next
  <2>1. ASSUME NEW j \in Job, Create(j) PROVE CreateType' /\ RestType'
    <3>1. CreateType'
      BY <1>0, <2>1 DEF Create, CreateType, Stage
    <3>2. RestType'
      BY <1>0, <2>0, <2>1 DEF Create, RestType, rigVars, fileVars, sweepVars, faultVars
    <3> QED BY <3>1, <3>2
  <2>2. ASSUME NEW j \in Job, Cancel(j) PROVE CreateType' /\ RestType'
    <3>1. CreateType'
      BY <1>0, <2>2 DEF Cancel, CreateType, Stage
    <3>2. RestType'
      BY <1>0, <2>0, <2>2 DEF Cancel, RestType, rigVars, fileVars, sweepVars, faultVars
    <3> QED BY <3>1, <3>2
  <2>3. ASSUME NEW j \in Job, CreateStep(j) PROVE CreateType' /\ RestType'
    BY <2>0, <2>3, CreateStepCreateType, CreateStepRestType
  <2>4. ASSUME NEW j \in Job, Destroy(j) PROVE CreateType' /\ RestType'
    <3>1. CreateType'
      BY <1>0, <2>4 DEF Destroy, CreateType, createVars
    <3>2. RestType'
      BY <1>0, <2>0, <2>4 DEF Destroy, RestType, Destroyer, rigVars, fileVars, sweepVars, faultVars
    <3> QED BY <3>1, <3>2
  <2>5. ASSUME NEW j \in Job, Repair(j) PROVE CreateType' /\ RestType'
    <3>1. CreateType'
      BY <1>0, <2>5 DEF Repair, CreateType, Stage
    <3>2. RestType'
      BY <1>0, <2>0, <2>5, JobAssumption DEF Repair, RestType, rigVars, fileVars, sweepVars, faultVars
    <3> QED BY <3>1, <3>2
  <2>6. ASSUME Crash PROVE CreateType' /\ RestType'
    <3>1. faults' \in 0..MaxFaults /\ unclean' \in BOOLEAN
      BY <1>0, <2>6, FaultType DEF Crash
    <3>2. CreateType'
      BY <1>0, <2>6 DEF Crash, CreateType, RestType, Stage
    <3>3. RestType'
      BY <1>0, <2>0, <2>6, <3>1 DEF Crash, RestType, rigVars, fileVars
    <3> QED BY <3>2, <3>3
  <2>7. CreateType' /\ RestType'
    BY <1>2, <2>0, <2>1, <2>2, <2>3, <2>4, <2>5, <2>6, DestroyStepType, SweepStepType DEF Next
  <2>8. swept' \subseteq Job
    BY <1>2, <2>7 DEF Next, CreateType
  <2> QED BY <2>7, <2>8, TypeParts
<1> QED BY <1>1, <1>2

LEMMA TypeInit == Init => Type
<1> SUFFICES ASSUME Init PROVE Type
  OBVIOUS
<1>1. Min(Port) \in Port
  BY MinPort, JobAssumption
<1>2. CreateType
  BY <1>1 DEF Init, CreateType, Stage
<1>3. faults \in 0..MaxFaults /\ repairs \in 0..MaxRepairs /\ crowd \in Crowds
  BY JobAssumption DEF Init
<1>4. unclean \in BOOLEAN
  BY Zenon DEF Init
<1>5. RestType /\ swept \subseteq Job
  BY <1>3, <1>4 DEF Init, RestType
<1> QED BY <1>2, <1>5, TypeParts

(* JobLifecycle keeps its types for any jobs, ports, faults and repairs.   *)
THEOREM TypeCorrect == Spec => []Type
<1> QED BY TypeInit, TypeNext, PTL DEF Spec

-----------------------------------------------------------------------------
(* JobLifecycle while nothing is left unclean and nothing is repaired.     *)

(* Nothing of a job is left but what the sweep is about to remove, or the  *)
(* container that docker could not start, with its volume.                 *)
Gone(j) ==
    /\ j \notin capped /\ j \notin store
    /\ \/ box[j] = "created"
       \/ box[j] = "none" /\ (vol[j] = "none" \/ dpc["sweep"][j] \in {"power", "volume"})

(* Who is at work on a job, and for whom: the caller creates a job that it *)
(* wants, destroys one that it no longer wants, and never does both.       *)
Turns(j) ==
    /\ again[j] = FALSE
    /\ pc[j] # "teardown"
    /\ pc[j] = "idle" => did[j] = {}
    /\ pc[j] # "idle" => dpc["caller"][j] = "idle" /\ j \in wanted /\ j \notin store
    /\ dpc["caller"][j] # "idle" => j \notin wanted

(* A creation up to the start of the container: what it has noted in did   *)
(* is what it has done.                                                    *)
Before(j) ==
    /\ pc[j] \in {"reserve", "pull", "cleanup"} => did[j] = {} /\ Gone(j)
    /\ pc[j] \in {"stale", "remove"} => did[j] = {} /\ box[j] = "none" /\ j \notin capped
    /\ pc[j] = "remove" => j \in doomed[j] \/ Gone(j)
    /\ pc[j] = "power" => did[j] = {"volume"} /\ box[j] = "none" /\ j \notin capped
    /\ pc[j] \in {"run", "rerun"} => did[j] = {"volume", "caps"} /\ box[j] = "none"
    /\ pc[j] = "retry" => did[j] = {"volume", "caps"} /\ box[j] \in {"none", "created"}

(* From then on, and in its rollback: a container that is not noted was    *)
(* never started.                                                          *)
After(j) ==
    /\ pc[j] = "mount" => did[j] = {"volume", "caps", "container"} /\ box[j] \in {"none", "running"}
    /\ pc[j] \in {"undo box", "undo caps"} => "volume" \in did[j] /\ ("caps" \in did[j] \/ j \notin capped)
    /\ pc[j] = "undo box" => "container" \in did[j] \/ box[j] \in {"none", "created"}
    /\ pc[j] = "undo caps" => box[j] \in {"none", "created"}
    /\ pc[j] = "undo volume" => "volume" \in did[j] /\ box[j] \in {"none", "created"} /\ j \notin capped

(* Without a creation: a job that is not wanted is gone or being           *)
(* destroyed, and one on file is there until the sweep removes it.         *)
Rests(j) ==
    /\ pc[j] = "idle" /\ j \notin wanted /\ dpc["caller"][j] = "idle" => Gone(j)
    /\ dpc["caller"][j] \in {"power", "volume"} => box[j] = "none"
    /\ dpc["caller"][j] = "volume" => j \notin capped
    /\ j \in wanted /\ j \in store /\ dpc["sweep"][j] \in {"idle", "remove"} =>
            box[j] = "running" /\ vol[j] = "data"

Sound(j) == Turns(j) /\ Before(j) /\ After(j) /\ Rests(j)

(* A wanted job that the sweep does not take for an orphan gets its caps   *)
(* and its file, and keeps them.                                           *)
Stays(j) ==
    j \in wanted \ swept =>
        /\ dpc["sweep"][j] = "idle"
        /\ pc[j] \in {"run", "rerun", "retry", "mount"} => j \in capped
        /\ pc[j] = "idle" => j \in store /\ j \in capped

JobInv ==
    /\ Type
    /\ ~unclean /\ repairs = 0 => \A j \in Job : Sound(j) /\ Stays(j)

(* A step that leaves what Sound speaks of as it is keeps it; an unmounted *)
(* volume may go.                                                          *)
Untouched(i) ==
    /\ pc'[i] = pc[i] /\ did'[i] = did[i] /\ again'[i] = again[i] /\ box'[i] = box[i]
    /\ doomed'[i] = doomed[i]
    /\ i \in wanted' <=> i \in wanted
    /\ i \in capped' <=> i \in capped
    /\ i \in store' <=> i \in store
    /\ dpc'["caller"][i] = dpc["caller"][i] /\ dpc'["sweep"][i] = dpc["sweep"][i]
    /\ vol'[i] = vol[i] \/ (vol'[i] = "none" /\ box[i] = "none")

LEMMA UntouchedSound ==
    ASSUME NEW i \in Job, Sound(i), Untouched(i) PROVE Sound(i)'
<1>1. Gone(i) => Gone(i)'
  BY DEF Gone, Untouched
<1>2. Turns(i)'
  BY DEF Sound, Turns, Untouched
<1>3. Before(i)'
  BY <1>1 DEF Sound, Before, Untouched
<1>4. After(i)'
  BY DEF Sound, After, Untouched
<1>5. Rests(i)'
  BY <1>1 DEF Sound, Rests, Untouched
<1> QED BY <1>2, <1>3, <1>4, <1>5 DEF Sound

(* The ways on of a creation that was not called by recreate.              *)
LEMMA FailsNow ==
    ASSUME CreateType, NEW j \in Job, again[j] = FALSE, Fails(j)
    PROVE  /\ again'[j] = FALSE
           /\ \/ did[j] = {} /\ pc'[j] = "idle" /\ did'[j] = {} /\ j \notin wanted'
              \/ did[j] # {} /\ pc'[j] = "undo box" /\ did'[j] = did[j] /\ wanted' = wanted
           /\ \A i \in Job \ {j} : /\ pc'[i] = pc[i] /\ did'[i] = did[i] /\ again'[i] = again[i]
                                   /\ doomed'[i] = doomed[i]
                                   /\ i \in wanted' <=> i \in wanted
<1>1. CASE did[j] = {} /\ Ends(j, FALSE)
  BY <1>1 DEF Ends, CreateType
<1>2. CASE /\ did[j] # {}
           /\ pc' = [pc EXCEPT ![j] = "undo box"]
           /\ undo' = IF j \in cancelled THEN undo \cup {j} ELSE undo
           /\ UNCHANGED <<port, did, doomed, again, cancelled, wanted>>
  BY <1>2 DEF CreateType
<1> QED BY <1>1, <1>2 DEF Fails

LEMMA GoesNow ==
    ASSUME CreateType, NEW j \in Job, NEW step \in Stage, Goes(j, step)
    PROVE  /\ pc'[j] = step /\ again' = again /\ wanted' = wanted /\ doomed' = doomed
           /\ \A i \in Job \ {j} : pc'[i] = pc[i]
BY DEF Goes, CreateType

(* A creation leaves the other jobs alone, but for unmounted volumes.      *)
LEMMA CreateOthers ==
    ASSUME Type, NEW j \in Job, again[j] = FALSE, CreateStep(j), NEW i \in Job \ {j}
    PROVE  Untouched(i)
<1>0. RestType /\ CreateType
  BY TypeParts
<1>1. /\ pc'[i] = pc[i] /\ did'[i] = did[i] /\ again'[i] = again[i] /\ doomed'[i] = doomed[i]
      /\ i \in wanted' <=> i \in wanted
  <2>1. CASE Fails(j)
    BY <1>0, <2>1, FailsNow
  <2>2. CASE \E step \in Stage : Goes(j, step) /\ (UNCHANGED did \/ \E x : did' = [did EXCEPT ![j] = x])
    BY <1>0, <2>2, GoesNow DEF CreateType
  <2>3. CASE Ends(j, FALSE)
    BY <1>0, <2>3 DEF Ends, CreateType
  <2>4. CASE Ends(j, TRUE)
    BY <1>0, <2>4 DEF Ends, CreateType
  <2>5. CASE \E step \in Stage : /\ pc' = [pc EXCEPT ![j] = step]
                                 /\ UNCHANGED <<did, again, wanted>> /\ doomed'[i] = doomed[i]
    BY <1>0, <2>5 DEF CreateType
  <2>6. CASE UNCHANGED <<pc, did, again, wanted>> /\ doomed'[i] = doomed[i]
    BY <2>6
  <2> HIDE DEF Stage
  <2>a. CASE Reserve(j)
    BY <2>a, <2>1, <2>2, <2>5 DEF Reserve, GivePort, Stage
  <2>b. CASE Pull(j) \/ Cleanup(j) \/ Retry(j)
    BY <2>b, <2>1, <2>2 DEF Pull, Checkpoint, Cleanup, Retry, Stage
  <2>c. CASE ListStale(j) \/ \E v \in Job : RemoveStale(j, v)
    <3>1. doomed'[i] = doomed[i]
      BY <1>0, <2>c DEF ListStale, RemoveStale, CreateType
    <3> QED BY <2>c, <2>5, <2>6, <3>1 DEF ListStale, RemoveStale, Stage
  <2>d. CASE CreateVolume(j) \/ ApplyCaps(j)
    BY <2>d, <2>1, <2>2 DEF CreateVolume, ApplyCaps, Stage
  <2>e. CASE Run(j) \/ PortBusy(j) \/ NotRunning(j) \/ MountFails(j)
    BY <2>e, <2>1, <2>2 DEF Run, PortBusy, NotRunning, MountFails, Stage
  <2>f. CASE Record(j)
    BY <2>f, <2>1, <2>4 DEF Record
  <2>g. CASE UndoBox(j) \/ UndoCaps(j)
    BY <2>g, <2>2 DEF UndoBox, UndoCaps, Stage
  <2>h. CASE UndoVolume(j)
    BY <2>h, <2>3 DEF UndoVolume
  <2>i. CASE Recreate(j)
    BY <2>i, <2>2, <2>3 DEF Recreate, Stage
  <2> QED BY <2>a, <2>b, <2>c, <2>d, <2>e, <2>f, <2>g, <2>h, <2>i DEF CreateStep
<1>2. dpc' = dpc
  BY CreateEffects
<1>3. box'[i] = box[i]
  BY <1>0, CreateEffects DEF RemoveBox, RemoveBoxFails, RestType
<1>4. vol'[i] = vol[i] \/ (vol'[i] = "none" /\ box[i] = "none")
  BY <1>0, CreateEffects DEF RemoveVolume, MakeVolume, Mounted, RestType
<1>5. (i \in capped' <=> i \in capped) /\ (i \in store' <=> i \in store)
  BY CreateEffects
<1> QED BY <1>1, <1>2, <1>3, <1>4, <1>5 DEF Untouched

(* What is left of a job that is gone stays so while nothing of it is      *)
(* touched.                                                                *)
LEMMA GoneKept ==
    ASSUME NEW j \in Job, Gone(j), UNCHANGED <<box, vol, capped, store, dpc>> PROVE Gone(j)'
BY DEF Gone

(* The steps up to the stale volumes change nothing of the job but its     *)
(* container.                                                              *)
LEMMA EarlySteps ==
    ASSUME Type, NEW j \in Job, Sound(j), ~unclean',
           Reserve(j) \/ Pull(j) \/ Cleanup(j) \/ ListStale(j) \/ \E v \in Job : RemoveStale(j, v)
    PROVE  Sound(j)'
<1>0. RestType /\ CreateType
  BY TypeParts
<1>1. again[j] = FALSE /\ ~Fault
  BY DEF Sound, Turns, Fault
<1>2. CASE Reserve(j) \/ Pull(j)
  <2>1. UNCHANGED <<box, vol, capped, store, dpc>>
    BY <1>2 DEF Reserve, Pull, rigVars, fileVars
  <2>2. did[j] = {} /\ Gone(j) /\ j \in wanted /\ dpc["caller"][j] = "idle"
    BY <1>2 DEF Reserve, Pull, Sound, Before, Turns
  <2>3. Gone(j)'
    BY <2>1, <2>2, GoneKept
  <2>4. CASE Fails(j)
    <3>1. pc'[j] = "idle" /\ did'[j] = {} /\ j \notin wanted' /\ again'[j] = FALSE
      BY <1>0, <1>1, <2>2, <2>4, FailsNow
    <3> QED BY <2>1, <2>2, <2>3, <3>1 DEF Sound, Turns, Before, After, Rests
  <2>5. CASE pc'[j] \in {"pull", "cleanup"} /\ did' = did /\ again' = again /\ wanted' = wanted
    BY <1>1, <2>1, <2>2, <2>3, <2>5 DEF Sound, Turns, Before, After, Rests, Gone
  <2>6. CASE Reserve(j)
    BY <1>0, <1>1, <2>6, <2>4, <2>5, GoesNow DEF Reserve, GivePort, Stage, CreateType
  <2>7. CASE Pull(j)
    BY <1>0, <1>1, <2>7, <2>4, <2>5, GoesNow DEF Pull, Checkpoint, Stage
  <2> QED BY <1>2, <2>6, <2>7
<1>3. CASE Cleanup(j)
  <2>1. UNCHANGED <<vol, capped, store, dpc, did>> /\ box'[j] = "none"
    BY <1>0, <1>1, <1>3 DEF Cleanup, fileVars, RemoveBox, RestType
  <2>2. pc'[j] = "stale" /\ again' = again /\ wanted' = wanted
    BY <1>0, <1>3, GoesNow DEF Cleanup, Stage
  <2> QED BY <1>1, <1>3, <2>1, <2>2 DEF Cleanup, Sound, Turns, Before, After, Rests, Gone
<1>4. CASE ListStale(j)
  <2>1. UNCHANGED <<box, vol, capped, store, dpc, did, again, wanted>> /\ pc'[j] = "remove"
    BY <1>0, <1>4 DEF ListStale, fileVars, rigVars, CreateType
  <2>2. doomed'[j] = StaleVolumes
    BY <1>0, <1>1, <1>4 DEF ListStale, CreateType
  <2>3. box[j] = "none" /\ j \notin capped /\ j \notin store
    BY <1>4 DEF ListStale, Sound, Turns, Before
  <2>4. j \in doomed'[j] \/ Gone(j)'
    BY <2>1, <2>2, <2>3 DEF StaleVolumes, Mounted, Gone
  <2> QED BY <1>1, <1>4, <2>1, <2>4 DEF ListStale, Sound, Turns, Before, After, Rests
<1>5. ASSUME NEW v \in Job, RemoveStale(j, v) PROVE Sound(j)'
  <2>1. UNCHANGED <<box, capped, store, dpc, pc, did, again, wanted>>
    BY <1>5 DEF RemoveStale, fileVars
  <2>2. vol'[j] = vol[j] \/ (vol'[j] = "none" /\ box[j] = "none")
    BY <1>0, <1>5 DEF RemoveStale, RemoveVolume, Mounted, RestType
  <2>3. pc[j] = "remove" /\ box[j] = "none" /\ j \notin capped /\ j \notin store
    BY <1>5 DEF RemoveStale, Sound, Turns, Before
  <2>4. Gone(j) => Gone(j)'
    BY <2>1, <2>2 DEF Gone
  <2>5. CASE v = j
    <3>1. vol'[j] = "none"
      BY <1>0, <1>1, <1>5, <2>3, <2>5 DEF RemoveStale, RemoveVolume, Mounted, RestType
    <3>2. Gone(j)'
      BY <2>1, <2>3, <3>1 DEF Gone
    <3> QED BY <2>1, <2>3, <3>2 DEF Sound, Turns, Before, After, Rests
  <2>6. CASE v # j
    <3>1. j \in doomed[j] => j \in doomed'[j]
      BY <1>0, <1>5, <2>6 DEF RemoveStale, CreateType
    <3> QED BY <2>1, <2>3, <2>4, <3>1 DEF Sound, Turns, Before, After, Rests
  <2> QED BY <2>5, <2>6
<1> QED BY <1>2, <1>3, <1>4, <1>5

(* The steps that create: each notes what it has done.                     *)
LEMMA NotingSteps ==
    ASSUME Type, NEW j \in Job, Sound(j), ~unclean',
           CreateVolume(j) \/ ApplyCaps(j) \/ Run(j) \/ PortBusy(j) \/ Retry(j)
    PROVE  Sound(j)'
<1>0. RestType /\ CreateType
  BY TypeParts
<1>1. again[j] = FALSE /\ ~Fault
  BY DEF Sound, Turns, Fault
<1>2. CASE CreateVolume(j)
  <2>0. UNCHANGED <<box, capped, store, dpc>> /\ did[j] = {} /\ Gone(j)
    BY <1>2 DEF CreateVolume, fileVars, Sound, Before
  <2>1. CASE Goes(j, "power") /\ did' = [did EXCEPT ![j] = @ \cup {"volume"}]
    <3>1. did'[j] = {"volume"}
      BY <1>0, <2>0, <2>1 DEF CreateType
    <3>2. pc'[j] = "power" /\ again' = again /\ wanted' = wanted
      BY <1>0, <2>1, GoesNow DEF Stage
    <3> QED BY <1>1, <1>2, <2>0, <3>1, <3>2 DEF CreateVolume, Sound, Turns, Before, After, Rests
  <2>2. CASE Fails(j) /\ UNCHANGED vol
    <3>1. pc'[j] = "idle" /\ did'[j] = {} /\ j \notin wanted' /\ again'[j] = FALSE
      BY <1>0, <1>1, <2>0, <2>2, FailsNow
    <3>2. Gone(j)'
      BY <2>0, <2>2, GoneKept
    <3> QED BY <1>2, <2>0, <3>1, <3>2 DEF CreateVolume, Sound, Turns, Before, After, Rests
  <2> QED BY <1>1, <1>2, <2>1, <2>2 DEF CreateVolume
<1>3. CASE ApplyCaps(j)
  <2>0. UNCHANGED <<box, vol, store, dpc>> /\ did[j] = {"volume"} /\ box[j] = "none" /\ j \notin capped
    BY <1>3 DEF ApplyCaps, rigVars, Sound, Before
  <2>1. CASE Goes(j, "run") /\ did' = [did EXCEPT ![j] = @ \cup {"caps"}]
    <3>1. did'[j] = {"volume", "caps"}
      BY <1>0, <2>0, <2>1 DEF CreateType
    <3>2. pc'[j] = "run" /\ again' = again /\ wanted' = wanted
      BY <1>0, <2>1, GoesNow DEF Stage
    <3> QED BY <1>1, <1>3, <2>0, <3>1, <3>2 DEF ApplyCaps, Sound, Turns, Before, After, Rests
  <2>2. CASE Fails(j) /\ capped' \in {capped, capped \ {j}}
    <3>1. pc'[j] = "undo box" /\ did'[j] = did[j] /\ wanted' = wanted /\ again'[j] = FALSE
      BY <1>0, <1>1, <2>0, <2>2, FailsNow
    <3>2. j \notin capped'
      BY <2>0, <2>2
    <3> QED BY <1>1, <1>3, <2>0, <3>1, <3>2 DEF ApplyCaps, Sound, Turns, Before, After, Rests
  <2> QED BY <1>1, <1>3, <2>1, <2>2 DEF ApplyCaps
<1>4. CASE Run(j)
  <2>1. UNCHANGED <<capped, store, dpc>> /\ did[j] = {"volume", "caps"} /\ box[j] = "none"
    BY <1>4 DEF Run, fileVars, Sound, Before
  <2>2. CASE Fails(j) /\ (UNCHANGED rigVars \/ box' = [box EXCEPT ![j] = "created"])
    <3>1. pc'[j] = "undo box" /\ did' [j] = did[j] /\ wanted' = wanted /\ again'[j] = FALSE
      BY <1>0, <1>1, <2>1, <2>2, FailsNow
    <3>2. box'[j] \in {"none", "created"}
      BY <1>0, <2>1, <2>2 DEF rigVars, RestType
    <3> QED BY <1>1, <1>4, <2>1, <3>1, <3>2 DEF Run, Sound, Turns, Before, After, Rests
  <2>3. CASE /\ box' = [box EXCEPT ![j] = "running"]
             /\ Goes(j, "mount") /\ did' = [did EXCEPT ![j] = @ \cup {"container"}]
    <3>1. pc'[j] = "mount" /\ again' = again /\ wanted' = wanted
      BY <1>0, <2>3, GoesNow DEF Stage
    <3>2. box'[j] = "running" /\ did'[j] = {"volume", "caps", "container"}
      BY <1>0, <2>1, <2>3 DEF RestType, CreateType
    <3> QED BY <1>1, <1>4, <2>1, <3>1, <3>2 DEF Run, Sound, Turns, Before, After, Rests
  <2> QED BY <1>1, <1>4, <2>1, <2>2, <2>3 DEF Run
<1>5. CASE PortBusy(j)
  <2>1. UNCHANGED <<capped, store, dpc>> /\ did[j] = {"volume", "caps"} /\ box'[j] = "created"
    BY <1>0, <1>5 DEF PortBusy, fileVars, Sound, Before, RestType
  <2>2. CASE Fails(j)
    <3>1. pc'[j] = "undo box" /\ did' [j] = did[j] /\ wanted' = wanted /\ again'[j] = FALSE
      BY <1>0, <1>1, <2>1, <2>2, FailsNow
    <3> QED BY <1>1, <1>5, <2>1, <3>1 DEF PortBusy, Sound, Turns, Before, After, Rests
  <2>3. CASE Goes(j, "retry") /\ UNCHANGED did
    <3>1. pc'[j] = "retry" /\ again' = again /\ wanted' = wanted
      BY <1>0, <2>3, GoesNow DEF Stage
    <3> QED BY <1>1, <1>5, <2>1, <2>3, <3>1 DEF PortBusy, Sound, Turns, Before, After, Rests
  <2> QED BY <1>5, <2>2, <2>3 DEF PortBusy
<1>6. CASE Retry(j)
  <2>1. UNCHANGED <<capped, store, dpc, did>> /\ box'[j] = "none"
    BY <1>0, <1>1, <1>6 DEF Retry, RemoveBox, fileVars, RestType
  <2>2. pc'[j] = "rerun" /\ again' = again /\ wanted' = wanted
    BY <1>0, <1>6, GoesNow DEF Retry, Stage
  <2> QED BY <1>1, <1>6, <2>1, <2>2 DEF Retry, Sound, Turns, Before, After, Rests
<1> QED BY <1>2, <1>3, <1>4, <1>5, <1>6

(* The last steps of a creation that works, or its rollback, which takes   *)
(* back exactly what was noted.                                            *)
LEMMA LastSteps ==
    ASSUME Type, NEW j \in Job, Sound(j), ~unclean',
           \/ NotRunning(j) \/ Record(j) \/ MountFails(j)
           \/ UndoBox(j) \/ UndoCaps(j) \/ UndoVolume(j)
    PROVE  Sound(j)'
<1>0. RestType /\ CreateType
  BY TypeParts
<1>1. again[j] = FALSE /\ ~Fault
  BY DEF Sound, Turns, Fault
<1>2. CASE pc[j] = "mount" /\ Fails(j) /\ UNCHANGED <<capped, store, dpc>>
  <2>1. did[j] = {"volume", "caps", "container"}
    BY <1>2 DEF Sound, After
  <2>2. pc'[j] = "undo box" /\ did' [j] = did[j] /\ wanted' = wanted /\ again'[j] = FALSE
    BY <1>0, <1>1, <1>2, <2>1, FailsNow
  <2> QED BY <1>1, <1>2, <2>1, <2>2 DEF Sound, Turns, Before, After, Rests
<1>3. CASE NotRunning(j) \/ MountFails(j)
  BY <1>2, <1>3 DEF NotRunning, MountFails, fileVars
<1>4. CASE Record(j)
  <2>1. CASE Ends(j, TRUE) /\ store' = store \cup {j}
    <3>1. pc'[j] = "idle" /\ did'[j] = {} /\ again'[j] = FALSE /\ wanted' = wanted
      BY <1>0, <2>1 DEF Ends, CreateType
    <3>2. box[j] = "running" /\ vol'[j] = "data" /\ UNCHANGED <<box, dpc>>
      BY <1>0, <1>4 DEF Record, RestType
    <3> QED BY <1>1, <1>4, <3>1, <3>2 DEF Record, Sound, Turns, Before, After, Rests
  <2> QED BY <1>2, <1>4, <2>1 DEF Record
<1>5. CASE UndoBox(j)
  <2>1. UNCHANGED <<capped, store, dpc, did>> /\ box'[j] \in {"none", "created"}
    BY <1>0, <1>1, <1>5 DEF UndoBox, RemoveBox, fileVars, RestType, Sound, After
  <2>2. pc'[j] = "undo caps" /\ again' = again /\ wanted' = wanted
    BY <1>0, <1>5, GoesNow DEF UndoBox, Stage
  <2> QED BY <1>1, <1>5, <2>1, <2>2 DEF UndoBox, Sound, Turns, Before, After, Rests
<1>6. CASE UndoCaps(j)
  <2>1. UNCHANGED <<box, store, dpc, did>> /\ j \notin capped'
    BY <1>0, <1>1, <1>6 DEF UndoCaps, rigVars, Sound, After
  <2>2. pc'[j] = "undo volume" /\ again' = again /\ wanted' = wanted
    BY <1>0, <1>6, GoesNow DEF UndoCaps, Stage
  <2> QED BY <1>1, <1>6, <2>1, <2>2 DEF UndoCaps, Sound, Turns, Before, After, Rests
<1>7. CASE UndoVolume(j)
  <2>1. UNCHANGED <<box, capped, dpc>> /\ j \notin store'
    BY <1>7 DEF UndoVolume, Sound, Turns
  <2>2. box[j] = "created" \/ (box[j] = "none" /\ vol'[j] = "none")
    BY <1>0, <1>1, <1>7 DEF UndoVolume, RemoveVolume, Mounted, RestType, Sound, After
  <2>3. Ends(j, FALSE)
    BY <1>7 DEF UndoVolume
  <2>4. pc'[j] = "idle" /\ did'[j] = {} /\ j \notin wanted' /\ again'[j] = FALSE
    BY <1>0, <1>1, <2>3 DEF Ends, CreateType
  <2>5. Gone(j)'
    BY <1>7, <2>1, <2>2 DEF UndoVolume, Sound, After, Gone
  <2> QED BY <1>7, <2>1, <2>4, <2>5 DEF UndoVolume, Sound, Turns, Before, After, Rests
<1> QED BY <1>3, <1>4, <1>5, <1>6, <1>7

(* Teardowns.  The caller's and the sweep's may overlap with each other,   *)
(* and the sweep's with a creation of the same job.                        *)
LEMMA DestroySteps ==
    ASSUME Type, NEW d \in Destroyer, NEW j \in Job, DestroyStep(d, j), ~unclean',
           NEW i \in Job, Sound(i)
    PROVE  Sound(i)'
<1>0. RestType /\ CreateType
  BY TypeParts
<1>1. ~Fault
  BY DEF Fault
<1>2. UNCHANGED <<pc, did, doomed, again, wanted>>
  BY DEF DestroyStep, Remove, Restore, Forget, createVars
<1>3. \A e \in Destroyer : (e # d \/ i # j) => dpc'[e][i] = dpc[e][i]
  BY <1>0 DEF DestroyStep, Remove, Restore, Forget, Steps, RestType
<1>4. "caller" \in Destroyer /\ "sweep" \in Destroyer /\ d \in {"caller", "sweep"}
  BY DEF Destroyer
<1>5. CASE i # j
  <2>1. box'[i] = box[i]
    BY <1>0, <1>1, <1>5 DEF DestroyStep, Remove, Restore, Forget, RemoveBox, rigVars, RestType
  <2>2. vol'[i] = vol[i]
    BY <1>0, <1>5 DEF DestroyStep, Remove, Restore, Forget, RemoveVolume, rigVars, RestType
  <2>3. (i \in capped' <=> i \in capped) /\ (i \in store' <=> i \in store)
    BY <1>5 DEF DestroyStep, Remove, Restore, Forget
  <2>4. Untouched(i)
    BY <1>2, <1>3, <1>4, <1>5, <2>1, <2>2, <2>3 DEF Untouched
  <2> QED BY <2>4, UntouchedSound
<1>6. CASE i = j
  <2>1. CASE Remove(d, j)
    <3>1. box'[j] = "none" /\ dpc'[d][j] = "power" /\ UNCHANGED <<vol, capped, store>>
      BY <1>0, <1>1, <2>1 DEF Remove, RemoveBox, Steps, RestType
    <3>2. CASE d = "caller"
      BY <1>2, <1>3, <1>4, <1>6, <2>1, <3>1, <3>2 DEF Remove, Sound, Turns, Before, After, Rests, Gone
    <3>3. CASE d = "sweep"
      <4>1. Gone(j) => Gone(j)'
        BY <3>1, <3>3 DEF Gone
      <4> QED BY <1>2, <1>3, <1>4, <1>6, <2>1, <3>1, <3>3, <4>1 DEF Remove, Sound, Turns, Before, After, Rests
    <3> QED BY <1>4, <3>2, <3>3
  <2>2. CASE Restore(d, j)
    <3>1. j \notin capped' /\ dpc'[d][j] = "volume" /\ UNCHANGED <<vol, box, store>>
      BY <1>0, <1>1, <2>2 DEF Restore, Steps, rigVars, RestType
    <3>2. CASE d = "caller"
      BY <1>2, <1>3, <1>4, <1>6, <2>2, <3>1, <3>2 DEF Restore, Sound, Turns, Before, After, Rests, Gone
    <3>3. CASE d = "sweep"
      <4>1. Gone(j) => Gone(j)'
        BY <3>1, <3>3 DEF Gone
      <4> QED BY <1>2, <1>3, <1>4, <1>6, <2>2, <3>1, <3>3, <4>1
              DEF Restore, Sound, Turns, Before, After, Rests
    <3> QED BY <1>4, <3>2, <3>3
  <2>3. CASE Forget(d, j)
    <3>1. j \notin store' /\ dpc'[d][j] = "idle" /\ UNCHANGED <<box, capped>>
      BY <1>0, <2>3 DEF Forget, Steps, RestType
    <3>2. box[j] = "none" => vol'[j] = "none"
      BY <1>0, <1>1, <2>3 DEF Forget, RemoveVolume, Mounted, RestType
    <3>3. CASE d = "caller"
      <4>1. pc[j] = "idle" /\ j \notin wanted /\ box[j] = "none" /\ j \notin capped
        BY <1>6, <2>3, <3>3 DEF Forget, Sound, Turns, Rests
      <4>2. Gone(j)'
        BY <3>1, <3>2, <4>1 DEF Gone
      <4> QED BY <1>2, <1>3, <1>4, <1>6, <2>3, <3>1, <3>3, <4>1, <4>2
              DEF Forget, Sound, Turns, Before, After, Rests
    <3>4. CASE d = "sweep"
      <4>1. Gone(j) => Gone(j)'
        BY <3>1, <3>2 DEF Gone
      <4> QED BY <1>2, <1>3, <1>4, <1>6, <2>3, <3>1, <3>4, <4>1 DEF Forget, Sound, Turns, Before, After, Rests
    <3> QED BY <1>4, <3>3, <3>4
  <2> QED BY <2>1, <2>2, <2>3 DEF DestroyStep
<1> QED BY <1>5, <1>6

(* The sweep itself starts teardowns and removes unmounted volumes.        *)
LEMMA SweepSteps ==
    ASSUME Type, SweepStep, NEW i \in Job, Sound(i)
    PROVE  Sound(i)'
<1>0. RestType /\ CreateType
  BY TypeParts
<1>1. UNCHANGED <<box, capped, store, wanted, pc, did, doomed, again>>
  BY DEF SweepStep, SweepBegin, SweepList, SweepStale, SweepEnds, SweepDestroys,
         SweepVolume, createVars, rigVars, fileVars
<1>2. "caller" \in Destroyer /\ "sweep" \in Destroyer
  BY DEF Destroyer
<1>3. CASE \E j \in Job : SweepDestroys(j)
  <2>1. PICK j \in Job : SweepDestroys(j)
    BY <1>3
  <2>2. UNCHANGED vol /\ Steps("sweep", j, "remove") /\ dpc["sweep"][j] = "idle"
    BY <2>1 DEF SweepDestroys, SweepWaits, rigVars
  <2>3. dpc'["caller"][i] = dpc["caller"][i] /\ (i # j => dpc'["sweep"][i] = dpc["sweep"][i])
    BY <1>0, <1>2, <2>2 DEF Steps, RestType
  <2>4. CASE i # j
    BY <1>1, <2>2, <2>3, <2>4, UntouchedSound DEF Untouched
  <2>5. CASE i = j
    <3>1. dpc'["sweep"][i] = "remove"
      BY <1>0, <1>2, <2>2, <2>5 DEF Steps, RestType
    <3>2. Gone(i) => Gone(i)'
      BY <1>1, <2>2, <2>5, <3>1 DEF Gone
    <3> QED BY <1>1, <2>2, <2>3, <2>5, <3>1, <3>2 DEF Sound, Turns, Before, After, Rests
  <2> QED BY <2>4, <2>5
<1>4. CASE SweepBegin \/ SweepList \/ SweepStale \/ SweepEnds \/ \E v \in Job : SweepVolume(v)
  <2>1. UNCHANGED dpc
    BY <1>4 DEF SweepBegin, SweepList, SweepStale, SweepEnds, SweepVolume
  <2>2. vol'[i] = vol[i] \/ (vol'[i] = "none" /\ box[i] = "none")
    BY <1>0, <1>4 DEF SweepBegin, SweepList, SweepStale, SweepEnds, SweepVolume, RemoveVolume, Mounted,
                      rigVars, RestType
  <2>3. Untouched(i)
    BY <1>1, <2>1, <2>2 DEF Untouched
  <2> QED BY <2>3, UntouchedSound
<1> QED BY <1>3, <1>4 DEF SweepStep

(* The caller.                                                             *)
LEMMA CallerSteps ==
    ASSUME Type, NEW j \in Job, Create(j) \/ Cancel(j) \/ Destroy(j), NEW i \in Job, Sound(i), Sound(j)
    PROVE  Sound(i)'
<1>0. RestType /\ CreateType
  BY TypeParts
<1>1. UNCHANGED <<box, vol, capped, store, did, doomed, again>>
  BY DEF Create, Cancel, Destroy, createVars, rigVars, fileVars
<1>2. "caller" \in Destroyer /\ "sweep" \in Destroyer
  BY DEF Destroyer
<1>3. CASE Cancel(j)
  BY <1>1, <1>3, UntouchedSound DEF Cancel, Untouched
<1>4. CASE Create(j)
  <2>1. UNCHANGED dpc /\ pc'[j] = "reserve" /\ j \in wanted'
    BY <1>0, <1>4 DEF Create, CreateType
  <2>2. CASE i # j
    <3>1. pc'[i] = pc[i] /\ (i \in wanted' <=> i \in wanted)
      BY <1>0, <1>4, <2>2 DEF Create, CreateType
    <3> QED BY <1>1, <2>1, <3>1, UntouchedSound DEF Untouched
  <2>3. CASE i = j
    <3>1. Gone(j) /\ Gone(j)'
      BY <1>1, <1>4, <2>1, GoneKept DEF Create, Sound, Rests
    <3>2. did[j] = {}
      BY <1>4 DEF Create, Sound, Turns
    <3> QED BY <1>1, <1>4, <2>1, <2>3, <3>1, <3>2 DEF Create, Sound, Turns, Before, After, Rests, Gone
  <2> QED BY <2>2, <2>3
<1>5. CASE Destroy(j)
  <2>1. UNCHANGED pc /\ wanted' = wanted \ {j} /\ pc[j] = "idle"
    BY <1>5 DEF Destroy, createVars
  <2>2. dpc'["sweep"][i] = dpc["sweep"][i] /\ (i # j => dpc'["caller"][i] = dpc["caller"][i])
    BY <1>0, <1>2, <1>5 DEF Destroy, RestType
  <2>3. CASE i # j
    BY <1>1, <2>1, <2>2, <2>3, UntouchedSound DEF Untouched
  <2>4. CASE i = j
    <3>1. dpc'["caller"][i] = "remove"
      BY <1>0, <1>2, <1>5, <2>4 DEF Destroy, RestType
    <3> QED BY <1>1, <2>1, <2>2, <2>4, <3>1 DEF Sound, Turns, Before, After, Rests
  <2> QED BY <2>3, <2>4
<1> QED BY <1>3, <1>4, <1>5

(* A wanted job that is not swept, through every step.                     *)
LEMMA StaysNext ==
    ASSUME Type, \A j \in Job : Sound(j), NEW i \in Job, Stays(i), Next, ~unclean',
           \A j \in Job : ~Repair(j)
    PROVE  Stays(i)'
<1> SUFFICES ASSUME i \in wanted' \ swept' PROVE
        /\ dpc'["sweep"][i] = "idle"
        /\ pc'[i] \in {"run", "rerun", "retry", "mount"} => i \in capped'
        /\ pc'[i] = "idle" => i \in store' /\ i \in capped'
  BY DEF Stays
<1>0. RestType /\ CreateType
  BY TypeParts
<1>1. dpc'["sweep"][i] = "idle" /\ i \notin swept
  BY DEF Next
<1>2. ~Fault /\ ~Crash
  BY DEF Fault, Crash
<1>3. ASSUME NEW j \in Job, Create(j) \/ Cancel(j) \/ Destroy(j)
      PROVE  /\ pc'[i] \in {"run", "rerun", "retry", "mount"} => i \in capped'
             /\ pc'[i] = "idle" => i \in store' /\ i \in capped'
  <2>1. UNCHANGED <<capped, store>> /\ ((pc'[i] = pc[i] /\ i \in wanted) \/ pc'[i] = "reserve")
    BY <1>0, <1>3 DEF Create, Cancel, Destroy, fileVars, createVars, CreateType
  <2> QED BY <1>1, <2>1 DEF Stays
<1>4. ASSUME UNCHANGED <<capped, store, wanted, pc>>
      PROVE  /\ pc'[i] \in {"run", "rerun", "retry", "mount"} => i \in capped'
             /\ pc'[i] = "idle" => i \in store' /\ i \in capped'
  BY <1>1, <1>4 DEF Stays
<1>5. ASSUME SweepStep
      PROVE  /\ pc'[i] \in {"run", "rerun", "retry", "mount"} => i \in capped'
             /\ pc'[i] = "idle" => i \in store' /\ i \in capped'
  BY <1>4, <1>5 DEF SweepStep, SweepBegin, SweepList, SweepStale, SweepEnds, SweepDestroys,
                    SweepVolume, createVars, fileVars
<1>6. ASSUME NEW d \in Destroyer, NEW j \in Job, DestroyStep(d, j)
      PROVE  /\ pc'[i] \in {"run", "rerun", "retry", "mount"} => i \in capped'
             /\ pc'[i] = "idle" => i \in store' /\ i \in capped'
  <2>1. UNCHANGED <<wanted, pc>> /\ dpc[d][j] # "idle"
    BY <1>6 DEF DestroyStep, Remove, Restore, Forget, createVars
  <2>2. i # j
    BY <1>1, <2>1 DEF Destroyer, Stays, Sound, Turns
  <2>3. (i \in capped' <=> i \in capped) /\ (i \in store' <=> i \in store)
    BY <1>6, <2>2 DEF DestroyStep, Remove, Restore, Forget
  <2> QED BY <1>1, <2>1, <2>3 DEF Stays
<1>7. ASSUME NEW j \in Job, CreateStep(j), i # j, again[j] = FALSE
      PROVE  /\ pc'[i] \in {"run", "rerun", "retry", "mount"} => i \in capped'
             /\ pc'[i] = "idle" => i \in store' /\ i \in capped'
  BY <1>1, <1>7, CreateOthers DEF Untouched, Stays
<1>8. ASSUME CreateStep(i)
      PROVE  /\ pc'[i] \in {"run", "rerun", "retry", "mount"} => i \in capped'
             /\ pc'[i] = "idle" => i \in store' /\ i \in capped'
  <2>0. again[i] = FALSE /\ pc[i] # "teardown"
    BY DEF Sound, Turns
  <2>1. CASE Fails(i)
    BY <1>0, <2>0, <2>1, FailsNow
  <2>2. CASE Ends(i, FALSE)
    BY <1>0, <2>0, <2>2 DEF Ends
  <2>3. CASE \E step \in Stage \ {"idle", "run", "rerun", "retry", "mount"} : pc'[i] = step
    BY <2>3
  <2>a. CASE Reserve(i)
    <3>1. CASE Goes(i, "pull")
      BY <1>0, <2>3, <3>1, GoesNow DEF Stage
    <3>2. CASE pc' = [pc EXCEPT ![i] = "pull"]
      BY <1>0, <2>3, <3>2 DEF Stage, CreateType
    <3> QED BY <2>a, <2>1, <3>1, <3>2 DEF Reserve, GivePort
  <2>b. CASE Pull(i) \/ Cleanup(i) \/ UndoBox(i) \/ UndoCaps(i)
    <3>1. CASE \E step \in {"cleanup", "stale", "undo caps", "undo volume"} : Goes(i, step)
      BY <1>0, <2>3, <3>1, GoesNow DEF Stage
    <3> QED BY <2>b, <2>1, <3>1 DEF Pull, Checkpoint, Cleanup, UndoBox, UndoCaps
  <2>c. CASE ListStale(i) \/ \E v \in Job : RemoveStale(i, v)
    <3>1. pc'[i] = "remove"
      BY <1>0, <2>c DEF ListStale, RemoveStale, CreateType
    <3> QED BY <3>1
  <2>d. CASE CreateVolume(i)
    <3>1. CASE Goes(i, "power")
      BY <1>0, <2>3, <3>1, GoesNow DEF Stage
    <3> QED BY <2>d, <2>1, <3>1 DEF CreateVolume
  <2>e. CASE ApplyCaps(i)
    <3>1. CASE Goes(i, "run") /\ i \in capped'
      BY <1>0, <3>1, GoesNow DEF Stage
    <3> QED BY <2>e, <2>1, <3>1 DEF ApplyCaps
  <2>f. CASE Run(i) \/ PortBusy(i) \/ Retry(i)
    <3>1. i \in wanted /\ i \in capped /\ UNCHANGED capped
      BY <1>1, <2>f DEF Run, PortBusy, Retry, fileVars, Sound, Turns, Stays
    <3>2. CASE \E step \in {"mount", "retry", "rerun"} : Goes(i, step)
      BY <1>0, <3>1, <3>2, GoesNow DEF Stage
    <3> QED BY <2>f, <2>1, <3>2 DEF Run, PortBusy, Retry
  <2>g. CASE NotRunning(i) \/ MountFails(i)
    BY <2>g, <2>1 DEF NotRunning, MountFails
  <2>h. CASE Record(i)
    <3>1. i \in wanted /\ i \in capped /\ UNCHANGED capped
      BY <1>1, <2>h DEF Record, Sound, Turns, Stays
    <3>2. CASE Ends(i, TRUE) /\ store' = store \cup {i}
      BY <1>0, <3>1, <3>2 DEF Ends, CreateType
    <3> QED BY <2>h, <2>1, <3>2 DEF Record
  <2>i. CASE UndoVolume(i)
    BY <2>i, <2>2 DEF UndoVolume
  <2>j. ~Recreate(i)
    BY <2>0 DEF Recreate
  <2> QED BY <1>8, <2>a, <2>b, <2>c, <2>d, <2>e, <2>f, <2>g, <2>h, <2>i, <2>j DEF CreateStep
<1>9. ASSUME NEW j \in Job, CreateStep(j)
      PROVE  /\ pc'[i] \in {"run", "rerun", "retry", "mount"} => i \in capped'
             /\ pc'[i] = "idle" => i \in store' /\ i \in capped'
  BY <1>7, <1>8, <1>9 DEF Sound, Turns
<1> QED BY <1>1, <1>2, <1>3, <1>5, <1>6, <1>9 DEF Next

LEMMA JobInvNext == JobInv /\ [Next]_<<vars, crowd, swept>> => JobInv'
<1> SUFFICES ASSUME JobInv, [Next]_<<vars, crowd, swept>> PROVE JobInv'
  OBVIOUS
<1>1. Type /\ Type'
  BY TypeNext DEF JobInv
<1>2. SUFFICES ASSUME ~unclean', repairs' = 0, NEW i \in Job PROVE Sound(i)' /\ Stays(i)'
  BY <1>1 DEF JobInv
<1>3. CASE UNCHANGED <<vars, crowd, swept>>
  <2>1. Sound(i) /\ Stays(i)
    BY <1>2, <1>3 DEF JobInv, vars, faultVars
  <2>2. Untouched(i)
    BY <1>3 DEF vars, rigVars, fileVars, createVars, Untouched
  <2>3. Stays(i)'
    BY <1>3, <2>1 DEF vars, fileVars, createVars, Stays
  <2> QED BY <2>1, <2>2, <2>3, UntouchedSound
<1>4. CASE Next
  <2>0. RestType
    BY <1>1, TypeParts
  <2>1. ~Fault /\ \A j \in Job : ~Repair(j)
    BY <1>2, <2>0, JobAssumption DEF Fault, Repair, RestType
  <2>2. ~unclean /\ repairs = 0
    <3>0. Refused \/ NoFault => UNCHANGED unclean
      BY DEF Refused, NoFault, faultVars
    <3>1. ASSUME NEW j \in Job, CreateStep(j) PROVE UNCHANGED <<unclean, repairs>>
      BY <2>1, <3>0, <3>1, CreateEffects
    <3>2. ASSUME NEW d \in Destroyer, NEW j \in Job, DestroyStep(d, j) PROVE UNCHANGED <<unclean, repairs>>
      BY <2>1, <3>0, <3>2 DEF DestroyStep, Remove, Restore, Forget
    <3>3. ASSUME SweepStep PROVE UNCHANGED <<unclean, repairs>>
      BY <3>0, <3>3 DEF SweepStep, SweepBegin, SweepList, SweepStale, SweepEnds, SweepDestroys,
                        SweepVolume, faultVars
    <3>4. ASSUME NEW j \in Job, Create(j) \/ Cancel(j) \/ Destroy(j) PROVE UNCHANGED <<unclean, repairs>>
      BY <3>4 DEF Create, Cancel, Destroy, faultVars
    <3>5. UNCHANGED <<unclean, repairs>>
      BY <1>4, <2>1, <3>1, <3>2, <3>3, <3>4 DEF Next, Crash
    <3> QED BY <1>2, <3>5
  <2>3. \A j \in Job : Sound(j) /\ Stays(j)
    BY <2>2 DEF JobInv
  <2>4. ASSUME NEW j \in Job, CreateStep(j) PROVE Sound(i)'
    <3>1. again[j] = FALSE /\ pc[j] # "teardown"
      BY <2>3 DEF Sound, Turns
    <3>2. CASE i # j
      BY <1>1, <2>3, <2>4, <3>1, <3>2, CreateOthers, UntouchedSound
    <3>3. ~Recreate(j)
      BY <3>1 DEF Recreate
    <3>4. CASE i = j
      BY <1>1, <1>2, <2>3, <2>4, <3>3, <3>4, EarlySteps, NotingSteps, LastSteps DEF CreateStep
    <3> QED BY <3>2, <3>4
  <2>5. ASSUME NEW j \in Job, Create(j) \/ Cancel(j) \/ Destroy(j) PROVE Sound(i)'
    BY <1>1, <2>3, <2>5, CallerSteps
  <2>6. ASSUME NEW d \in Destroyer, NEW j \in Job, DestroyStep(d, j) PROVE Sound(i)'
    BY <1>1, <1>2, <2>3, <2>6, DestroySteps
  <2>7. ASSUME SweepStep PROVE Sound(i)'
    BY <1>1, <2>3, <2>7, SweepSteps
  <2>8. ~Crash
    BY <2>1 DEF Crash
  <2>9. Sound(i)'
    BY <1>4, <2>1, <2>4, <2>5, <2>6, <2>7, <2>8 DEF Next
  <2>10. Stays(i)'
    BY <1>1, <1>2, <1>4, <2>1, <2>3, StaysNext
  <2> QED BY <2>9, <2>10
<1> QED BY <1>3, <1>4

LEMMA JobInvInit == Init => JobInv
<1> SUFFICES ASSUME Init PROVE JobInv
  OBVIOUS
<1>1. Type
  BY TypeInit
<1>2. ASSUME NEW j \in Job PROVE Sound(j) /\ Stays(j)
  <2>1. /\ box[j] = "none" /\ vol[j] = "none" /\ pc[j] = "idle" /\ did[j] = {} /\ again[j] = FALSE
        /\ j \notin capped /\ j \notin store /\ j \notin wanted
    BY DEF Init
  <2>2. dpc["caller"][j] = "idle" /\ dpc["sweep"][j] = "idle"
    BY DEF Init, Destroyer
  <2> QED BY <2>1, <2>2 DEF Sound, Turns, Before, After, Rests, Gone, Stays
<1> QED BY <1>1, <1>2 DEF JobInv

(* As long as connections hold and removals work, a job at rest is there   *)
(* as a whole or not at all, for any number of jobs and ports, whatever    *)
(* the rig refuses, and whatever creations, rollbacks, teardowns and       *)
(* sweeps overlap; all it may leave is a container that docker did not     *)
(* start, and all that a wanted job may lose, the sweep has torn down.     *)
THEOREM AllOrNothingHolds == Spec => []AllOrNothing
<1>1. JobInv => AllOrNothing
  <2> SUFFICES ASSUME JobInv, ~unclean, repairs = 0, NEW j \in Job, AtRest(j)
               PROVE  /\ j \notin wanted =>
                            /\ (box[j] = "none" /\ vol[j] = "none") \/ box[j] = "created"
                            /\ j \notin capped /\ j \notin store
                      /\ j \in wanted \ swept => j \in store /\ j \in capped
                      /\ j \in wanted \cap store => box[j] = "running" /\ vol[j] = "data"
    BY DEF AllOrNothing
  <2>1. Sound(j) /\ Stays(j)
    BY DEF JobInv
  <2>2. pc[j] = "idle" /\ dpc["caller"][j] = "idle" /\ dpc["sweep"][j] = "idle"
    BY DEF AtRest, BeingDestroyed, Destroyer
  <2> QED BY <2>1, <2>2 DEF Sound, Rests, Gone, Stays
<1> QED BY <1>1, JobInvInit, JobInvNext, PTL DEF Spec
=============================================================================
