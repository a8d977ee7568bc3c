------------------------------- MODULE LaneProofs -------------------------------
(***************************************************************************)
(* Proofs about the two lanes of the validator: the limits on what runs at *)
(* the same time (Schedule), for any rigs, owners and limits, and one deep *)
(* pass (DeepPass), for any set of cards.                                  *)
(***************************************************************************)
EXTENDS Schedule, DeepPass, FiniteSetTheorems, TLAPS

-----------------------------------------------------------------------------
(* Schedule.  InflightBounded counts the tasks that run.  What the miner's *)
(* semaphore counts are its holders, the queued tasks too: that bound is   *)
(* the inductive one.                                                      *)
GlobalBound == \A l \in Lane : Cardinality(Running(l)) <= MaxInflight
MinerBound == \A l \in Lane, r \in Rig : Cardinality(Holders(l, r)) <= PerMiner

ScheduleInv == ScheduleType /\ GlobalBound /\ MinerBound

-----------------------------------------------------------------------------
(* Sets of rigs are finite, and smaller sets have fewer elements.          *)
LEMMA RigSets ==
    ASSUME NEW T, T \subseteq Rig
    PROVE  /\ IsFiniteSet(T) /\ Cardinality(T) \in Nat
           /\ \A S : S \subseteq T => Cardinality(S) <= Cardinality(T)
           /\ \A x : Cardinality(T \cup {x}) <= Cardinality(T) + 1
<1>1. IsFiniteSet(T)
  BY LimiterAssumption, FS_Subset
<1>2. Cardinality(T) \in Nat
  BY <1>1, FS_CardinalityType
<1>3. \A S : S \subseteq T => Cardinality(S) <= Cardinality(T)
  BY <1>1, FS_Subset
<1>4. \A x : Cardinality(T \cup {x}) <= Cardinality(T) + 1
  BY <1>1, <1>2, FS_AddElement
<1> QED  BY <1>1, <1>2, <1>3, <1>4

(* A step that makes no task a holder of a slot keeps both bounds.         *)
LEMMA FewerHolders ==
    ASSUME GlobalBound, MinerBound,
           \A l \in Lane : Running(l)' \subseteq Running(l),
           \A l \in Lane, r \in Rig : Holders(l, r)' \subseteq Holders(l, r)
    PROVE  GlobalBound' /\ MinerBound'
<1>1. \A l \in Lane : /\ Running(l) \subseteq Rig
                      /\ Cardinality(Running(l)) \in Nat /\ Cardinality(Running(l)') \in Nat
                      /\ Cardinality(Running(l)') <= Cardinality(Running(l))
  BY RigSets DEF Running
<1>2. \A l \in Lane, r \in Rig :
        /\ Cardinality(Holders(l, r)) \in Nat /\ Cardinality(Holders(l, r)') \in Nat
        /\ Cardinality(Holders(l, r)') <= Cardinality(Holders(l, r))
  BY RigSets DEF Holders
<1>3. GlobalBound'
  BY <1>1, LimiterAssumption DEF GlobalBound
<1>4. MinerBound'
  BY <1>2, LimiterAssumption DEF MinerBound
<1> QED  BY <1>3, <1>4

(* The task of one rig in one lane changes.                                *)
LEMMA BecomesChanges ==
    ASSUME ScheduleType, NEW l \in Lane, NEW r \in Rig, NEW s, Becomes(l, r, s)
    PROVE  \A k \in Lane, q \in Rig :
               stage'[k][q] = IF k = l /\ q = r THEN s ELSE stage[k][q]
  BY DEF ScheduleType, Becomes

(* All tasks of a lane begin, and those of the other go on.                *)
LEMMA StartsChanges ==
    ASSUME ScheduleType, NEW l \in Lane, NEW rigs, Starts(l, rigs)
    PROVE  \A k \in Lane, q \in Rig :
               stage'[k][q] = IF k = l THEN (IF q \in rigs THEN "waiting" ELSE "none")
                                       ELSE stage[k][q]
  BY DEF ScheduleType, Starts

-----------------------------------------------------------------------------
(* A task that ends, or a lane that begins anew, gives slots back only.    *)
LEMMA BoundsOfEnding ==
    ASSUME ScheduleInv, NEW l \in Lane, NEW r \in Rig, Becomes(l, r, "none")
    PROVE  GlobalBound' /\ MinerBound'
<1>1. \A k \in Lane : Running(k)' \subseteq Running(k)
  BY BecomesChanges DEF ScheduleInv, Running
<1>2. \A k \in Lane, q \in Rig : Holders(k, q)' \subseteq Holders(k, q)
  BY BecomesChanges DEF ScheduleInv, Holders
<1> QED  BY <1>1, <1>2, FewerHolders DEF ScheduleInv

LEMMA BoundsOfStart ==
    ASSUME ScheduleInv, NEW l \in Lane, NEW rigs, Starts(l, rigs)
    PROVE  GlobalBound' /\ MinerBound'
<1>1. \A k \in Lane : Running(k)' \subseteq Running(k)
  BY StartsChanges DEF ScheduleInv, Running
<1>2. \A k \in Lane, q \in Rig : Holders(k, q)' \subseteq Holders(k, q)
  BY StartsChanges DEF ScheduleInv, Holders
<1> QED  BY <1>1, <1>2, FewerHolders DEF ScheduleInv

LEMMA BoundsOfStutter ==
    ASSUME ScheduleInv, stage' = stage
    PROVE  GlobalBound' /\ MinerBound'
<1>1. \A k \in Lane : Running(k)' \subseteq Running(k)
  BY DEF Running
<1>2. \A k \in Lane, q \in Rig : Holders(k, q)' \subseteq Holders(k, q)
  BY DEF Holders
<1> QED  BY <1>1, <1>2, FewerHolders DEF ScheduleInv

(* A slot of the miner: one holder more, where there was room.             *)
LEMMA BoundsOfTakeMiner ==
    ASSUME ScheduleInv, NEW l \in Lane, NEW r \in Rig, TakeMiner(l, r)
    PROVE  GlobalBound' /\ MinerBound'
<1>1. \A k \in Lane, q \in Rig :
          stage'[k][q] = IF k = l /\ q = r THEN "queued" ELSE stage[k][q]
  BY BecomesChanges DEF ScheduleInv, TakeMiner
<1>2. \A k \in Lane : Running(k)' = Running(k)
  BY <1>1 DEF Running, TakeMiner
<1>3. GlobalBound'
  BY <1>2 DEF ScheduleInv, GlobalBound
<1>4. ASSUME NEW k \in Lane, NEW q \in Rig
      PROVE  Cardinality(Holders(k, q)') <= PerMiner
  <2>1. CASE k = l /\ Owner[q] = Owner[r]
    <3>1. Holders(k, q)' \subseteq Holders(l, r) \cup {r}
      BY <1>1, <2>1 DEF Holders
    <3>2. Cardinality(Holders(l, r) \cup {r}) <= Cardinality(Holders(l, r)) + 1
      BY RigSets DEF Holders
    <3>3. Holders(l, r) \cup {r} \subseteq Rig
      BY DEF Holders
    <3>4. /\ Cardinality(Holders(k, q)') <= Cardinality(Holders(l, r) \cup {r})
          /\ Cardinality(Holders(l, r) \cup {r}) \in Nat
      BY <3>1, <3>3, RigSets
    <3>5. Cardinality(Holders(l, r)) \in Nat /\ Cardinality(Holders(k, q)') \in Nat
      BY RigSets DEF Holders
    <3> QED  BY <3>2, <3>4, <3>5, LimiterAssumption DEF TakeMiner
  <2>2. CASE ~(k = l /\ Owner[q] = Owner[r])
    <3>1. Holders(k, q)' = Holders(k, q)
      BY <1>1, <2>2 DEF Holders
    <3> QED  BY <3>1 DEF ScheduleInv, MinerBound
  <2> QED  BY <2>1, <2>2
<1> QED  BY <1>3, <1>4 DEF MinerBound

(* A slot of the lane: the task is a holder of its miner's already.        *)
LEMMA BoundsOfTakeGlobal ==
    ASSUME ScheduleInv, NEW l \in Lane, NEW r \in Rig, TakeGlobal(l, r)
    PROVE  GlobalBound' /\ MinerBound'
<1>1. \A k \in Lane, q \in Rig :
          stage'[k][q] = IF k = l /\ q = r THEN "running" ELSE stage[k][q]
  BY BecomesChanges DEF ScheduleInv, TakeGlobal
<1>2. \A k \in Lane, q \in Rig : Holders(k, q)' = Holders(k, q)
  BY <1>1 DEF Holders, TakeGlobal
<1>3. MinerBound'
  BY <1>2 DEF ScheduleInv, MinerBound
<1>4. ASSUME NEW k \in Lane
      PROVE  Cardinality(Running(k)') <= MaxInflight
  <2>1. CASE k = l
    <3>1. Running(k)' \subseteq Running(l) \cup {r}
      BY <1>1, <2>1 DEF Running
    <3>2. Cardinality(Running(l) \cup {r}) <= Cardinality(Running(l)) + 1
      BY RigSets DEF Running
    <3>3. Running(l) \cup {r} \subseteq Rig
      BY DEF Running
    <3>4. /\ Cardinality(Running(k)') <= Cardinality(Running(l) \cup {r})
          /\ Cardinality(Running(l) \cup {r}) \in Nat
      BY <3>1, <3>3, RigSets
    <3>5. Cardinality(Running(l)) \in Nat /\ Cardinality(Running(k)') \in Nat
      BY RigSets DEF Running
    <3> QED  BY <3>2, <3>4, <3>5, LimiterAssumption DEF TakeGlobal
  <2>2. CASE k # l
    <3>1. Running(k)' = Running(k)
      BY <1>1, <2>2 DEF Running
    <3> QED  BY <3>1 DEF ScheduleInv, GlobalBound
  <2> QED  BY <2>1, <2>2
<1> QED  BY <1>3, <1>4 DEF GlobalBound

-----------------------------------------------------------------------------
(* What a step does to the stages of the tasks.                            *)
LEMMA StepOfStages ==
    ASSUME ScheduleNext
    PROVE  \/ stage' = stage
           \/ \E l \in Lane, r \in Rig : \/ TakeMiner(l, r) \/ TakeGlobal(l, r)
                                         \/ Becomes(l, r, "none")
           \/ \E l \in Lane, rigs \in SUBSET Rig : Starts(l, rigs)
<1>1. CASE \E l \in Lane, r \in Rig : Slot(l, r)
  BY <1>1 DEF Slot
<1>2. CASE \E rigs \in SUBSET Rig : Tick(rigs)
  BY <1>2 DEF Tick, Lane
<1>3. CASE \E rigs \in SUBSET Rig : Due(rigs)
  <2>1. PICK rigs \in SUBSET Rig : Due(rigs)
    BY <1>3
  <2>2. \E chosen \in SUBSET Rig : Starts("deep", chosen)
    <3> DEFINE chosen == (rigs \cup (early \cap roster)) \ {r \in Rig : stage["deep"][r] # "none"}
    <3>1. Starts("deep", chosen)
      BY <2>1 DEF Due
    <3>2. Starts("deep", chosen \cap Rig)
      BY <3>1 DEF Starts
    <3> QED  BY <3>2
  <2> QED  BY <2>2 DEF Lane
<1>4. CASE \E r \in Rig : ProbeEnds(r) \/ VerifyEnds(r) \/ Hangs(r) \/ PoolMoves(r)
  BY <1>4 DEF ProbeEnds, ProbeFails, ProbeAnswers, ProbeRaises, VerifyEnds, Hangs, PoolMoves, Lane
<1>5. CASE Roster \/ DueFails \/ RoundEnds
  BY <1>5 DEF Roster, DueFails, RoundEnds
<1> QED  BY <1>1, <1>2, <1>3, <1>4, <1>5 DEF ScheduleNext

LEMMA BoundsOfStep ==
    ASSUME ScheduleInv, [ScheduleNext]_scheduleVars
    PROVE  GlobalBound' /\ MinerBound'
<1>1. CASE stage' = stage
  BY <1>1, BoundsOfStutter
<1>2. ASSUME NEW l \in Lane, NEW r \in Rig, TakeMiner(l, r) \/ TakeGlobal(l, r) \/ Becomes(l, r, "none")
      PROVE  GlobalBound' /\ MinerBound'
  BY <1>2, BoundsOfTakeMiner, BoundsOfTakeGlobal, BoundsOfEnding
<1>3. ASSUME NEW l \in Lane, NEW rigs \in SUBSET Rig, Starts(l, rigs)
      PROVE  GlobalBound' /\ MinerBound'
  BY <1>3, BoundsOfStart
<1>4. CASE UNCHANGED scheduleVars
  BY <1>4, BoundsOfStutter DEF scheduleVars
<1> QED  BY <1>1, <1>2, <1>3, <1>4, StepOfStages

-----------------------------------------------------------------------------
(* Stages stay stages.                                                     *)
Stages == [Lane -> [Rig -> {"none", "waiting", "queued", "running"}]]

LEMMA TypeOfStep ==
    ASSUME ScheduleType, [ScheduleNext]_scheduleVars
    PROVE  ScheduleType'
<1>1. \A l \in Lane, r \in Rig, s \in {"none", "waiting", "queued", "running"} :
          Becomes(l, r, s) => stage' \in Stages
  BY DEF ScheduleType, Becomes, Stages
<1>2. \A l \in Lane : \A rigs : Starts(l, rigs) => stage' \in Stages
  BY DEF ScheduleType, Starts, Stages
<1>3. stage' = stage => stage' \in Stages
  BY DEF ScheduleType, Stages
<1>4. ASSUME NEW l \in Lane, NEW r \in Rig, Slot(l, r)
      PROVE  ScheduleType'
  BY <1>1, <1>4 DEF Slot, TakeMiner, TakeGlobal, ScheduleType, Stages
<1>5. ASSUME NEW rigs \in SUBSET Rig, Tick(rigs) \/ Due(rigs)
      PROVE  ScheduleType'
  BY <1>2, <1>5 DEF Tick, Due, Lane, ScheduleType, Stages
<1>6. ASSUME NEW r \in Rig, ProbeFails(r)
      PROVE  ScheduleType'
  <2>1. unreachable' \in [Rig -> 0..UnreachableTicks + 1]
    BY <1>6, LimiterAssumption DEF ProbeFails, ScheduleType
  <2> QED  BY <1>1, <1>6, <2>1 DEF ProbeFails, Lane, ScheduleType, Stages
<1>7. ASSUME NEW r \in Rig, ProbeAnswers(r) \/ ProbeRaises(r) \/ VerifyEnds(r)
      PROVE  ScheduleType'
  <2>1. unreachable' \in [Rig -> 0..UnreachableTicks + 1]
    BY <1>7, LimiterAssumption DEF ProbeAnswers, ProbeRaises, VerifyEnds, ScheduleType
  <2> QED  BY <1>1, <1>7, <2>1 DEF ProbeAnswers, ProbeRaises, VerifyEnds, Lane, ScheduleType, Stages
<1>8. ASSUME NEW r \in Rig, PoolMoves(r) \/ Hangs(r)
      PROVE  ScheduleType'
  BY <1>8 DEF PoolMoves, Hangs, ScheduleType
<1>9. CASE Roster \/ DueFails \/ RoundEnds
  BY <1>9 DEF Roster, DueFails, RoundEnds, ScheduleType
<1>10. CASE UNCHANGED scheduleVars
  BY <1>10 DEF scheduleVars, ScheduleType
<1> QED  BY <1>4, <1>5, <1>6, <1>7, <1>8, <1>9, <1>10 DEF ScheduleNext, ProbeEnds

LEMMA ScheduleInvInit == ScheduleInit => ScheduleInv
<1> SUFFICES ASSUME ScheduleInit PROVE ScheduleInv
  OBVIOUS
<1>1. ScheduleType
  BY LimiterAssumption DEF ScheduleInit, ScheduleType
<1>2. \A l \in Lane, r \in Rig : stage[l][r] = "none"
  BY DEF ScheduleInit
<1>3. \A l \in Lane, r \in Rig : Running(l) = {} /\ Holders(l, r) = {}
  BY <1>2 DEF Running, Holders
<1>4. \A l \in Lane : Running(l) = {}
  BY <1>2 DEF Running
<1>5. GlobalBound /\ MinerBound
  BY <1>3, <1>4, FS_EmptySet, LimiterAssumption DEF GlobalBound, MinerBound
<1> QED  BY <1>1, <1>5 DEF ScheduleInv

(* The running tasks of a miner are among the holders of its slots.        *)
LEMMA ScheduleInvBounds == ScheduleInv => InflightBounded
<1> SUFFICES ASSUME ScheduleInv PROVE InflightBounded
  OBVIOUS
<1>1. ASSUME NEW l \in Lane, NEW r \in Rig
      PROVE  Cardinality({q \in Running(l) : Owner[q] = Owner[r]}) <= PerMiner
  <2>1. {q \in Running(l) : Owner[q] = Owner[r]} \subseteq Holders(l, r)
    BY DEF Running, Holders
  <2>2. /\ Holders(l, r) \subseteq Rig
        /\ {q \in Running(l) : Owner[q] = Owner[r]} \subseteq Rig
    BY DEF Running, Holders
  <2>3. /\ Cardinality({q \in Running(l) : Owner[q] = Owner[r]}) <= Cardinality(Holders(l, r))
        /\ Cardinality(Holders(l, r)) \in Nat
        /\ Cardinality({q \in Running(l) : Owner[q] = Owner[r]}) \in Nat
    BY <2>1, <2>2, RigSets
  <2>4. Cardinality(Holders(l, r)) <= PerMiner
    BY DEF ScheduleInv, MinerBound
  <2> QED  BY <2>3, <2>4, LimiterAssumption
<1> QED  BY <1>1 DEF ScheduleInv, GlobalBound, InflightBounded

(* The limits of express.py's Limiter hold in each lane: no more tasks run *)
(* than it allows, in all and of one miner.                                *)
THEOREM InflightBoundedHolds == ScheduleSpec => []InflightBounded
<1>1. ScheduleInit => ScheduleInv
  BY ScheduleInvInit
<1>2. ScheduleInv /\ [ScheduleNext]_scheduleVars => ScheduleInv'
  BY TypeOfStep, BoundsOfStep DEF ScheduleInv
<1>3. ScheduleInv => InflightBounded
  BY ScheduleInvBounds
<1> QED  BY <1>1, <1>2, <1>3, PTL DEF ScheduleSpec

-----------------------------------------------------------------------------
(* DeepPass: a pass is earned, and nothing is left open.  While nothing    *)
(* has failed and no exception is on its way, each stage of the pass knows *)
(* what the stages before it have shown; the parts of Inv say what.        *)
Clean == failed = {} /\ ~raised

Early == {"idle", "version", "done"}

AfterVersion == Clean /\ pc \notin Early => "version" \in passed /\ "version" \in rig.meets
AfterOpen ==
    Clean /\ pc \notin Early \cup {"open"} =>
        "attestation" \in passed /\ "attestation" \in rig.meets
AfterHost ==
    Clean /\ pc \notin Early \cup {"open", "mkdir", "host"} =>
        "host" \in passed /\ "host" \in rig.meets
AfterScrape ==
    Clean /\ pc \notin Early \cup {"open", "mkdir", "host", "scrape"} =>
        /\ {"scrape", "specs", "duplicates"} \subseteq passed
        /\ "specs" \in rig.meets /\ "duplicates" \in rig.meets /\ rig.present = Card
InChallenge == Clean /\ pc \in {"prepare", "challenge"} /\ first = "none" => rig.bad \subseteq todo
AfterChallenge ==
    Clean /\ pc \in {"inspect", "own", "cure", "cleanup", "close", "report"} =>
        "challenge" \in passed /\ rig.bad = {}
AfterInspect ==
    Clean /\ pc \in {"own", "cure", "cleanup", "close", "report"} => "inspector" \in passed
AfterOwn ==
    Clean /\ pc \in {"cure", "cleanup", "close", "report"} =>
        "exclusivity" \in passed /\ seen # "foreign"
Raised == raised => pc \in {"cleanup", "close", "done"}
Unposted == pc # "done" => posted = "nothing"
DirOpen ==
    dir => \/ pc \in {"host", "scrape", "prepare", "challenge", "inspect", "own", "cure", "cleanup"}
           \/ unsure \cap {"mkdir", "cleanup"} # {}
SessionOpen ==
    session => \/ pc \notin {"idle", "version", "open", "report", "done"}
               \/ unsure \cap {"open", "close"} # {}

Inv ==
    /\ Type
    /\ AfterVersion /\ AfterOpen /\ AfterHost /\ AfterScrape /\ InChallenge
    /\ AfterChallenge /\ AfterInspect /\ AfterOwn
    /\ Raised /\ Unposted /\ DirOpen /\ SessionOpen
    /\ PassIsEarned

(* The type invariant in three parts, each for the prover it suits.        *)
Values ==
    /\ pc \in Call \cup {"idle", "report", "done"}
    /\ rig \in RigState /\ seen \in Work
    /\ todo \subseteq Card /\ first \in FailureClass \cup {"none"}
    /\ posted \in FailureClass \cup {"nothing", "refused", "pass"}
Verdicts ==
    /\ passed \subseteq Check /\ failed \subseteq FailureClass
    /\ broke \subseteq Call /\ unsure \subseteq Doubtful
Flags == dir \in BOOLEAN /\ session \in BOOLEAN /\ raised \in BOOLEAN

LEMMA TypeParts == (Type <=> Values /\ Verdicts /\ Flags) /\ (Type' <=> Values' /\ Verdicts' /\ Flags')
  BY Zenon DEF Type, Values, Verdicts, Flags

(* worst picks a class among the failures there are.                       *)
LEMMA WorstFails == ASSUME failed \subseteq FailureClass, failed # {} PROVE Worst \in failed
<1>1. \E class \in failed : \A other \in failed : Severity(class) <= Severity(other)
  BY SMTT(60) DEF FailureClass, Severity
<1> QED BY <1>1 DEF Worst

LEMMA InvInit == Init => Inv
<1> SUFFICES ASSUME Init PROVE Inv
  OBVIOUS
<1>1. Type
  <2>1. NoRig \in RigState BY DEF NoRig, RigState, Work
  <2> QED BY <2>1 DEF Init, Type, Work, FailureClass
<1>2. AfterVersion /\ AfterOpen /\ AfterHost /\ AfterScrape /\ InChallenge
  BY DEF Init, Early, AfterVersion, AfterOpen, AfterHost, AfterScrape, InChallenge
<1>3. AfterChallenge /\ AfterInspect /\ AfterOwn
  BY DEF Init, AfterChallenge, AfterInspect, AfterOwn
<1>4. Raised /\ Unposted /\ DirOpen /\ SessionOpen /\ PassIsEarned
  BY DEF Init, Raised, Unposted, DirOpen, SessionOpen, PassIsEarned
<1> QED BY <1>1, <1>2, <1>3, <1>4 DEF Inv

(* Every step keeps the types.                                             *)
LEMMA TypeStep == Type /\ [Next]_vars => Type'
<1> SUFFICES ASSUME Type, [Next]_vars PROVE Type'
  OBVIOUS
<1> USE DEF Type, Check, FailureClass, Call, Doubtful, history, Goes, Passes, Fails, Meets, Transport,
            Crashes, Ignored, Unknown, Judged
<1>1. CASE Begin BY <1>1, Zenon DEF Begin
<1>2. CASE JobEnds BY <1>2 DEF JobEnds, RigState, Work
<1>3. CASE JobStarts
  <2>1. rig' \in RigState BY <1>3 DEF JobStarts, RigState, Work
  <2> QED BY <1>3, <2>1 DEF JobStarts
<1>4. CASE Version
  <2>1. Values' BY <1>4 DEF Version, Values
  <2>2. Verdicts' BY <1>4 DEF Version, Verdicts
  <2>3. Flags' BY <1>4 DEF Version, Flags
  <2> QED BY <2>1, <2>2, <2>3, TypeParts
<1>5. CASE Open
  <2>1. Values' BY <1>5 DEF Open, Values
  <2>2. Verdicts' BY <1>5 DEF Open, Verdicts
  <2>3. Flags' BY <1>5 DEF Open, Flags
  <2> QED BY <2>1, <2>2, <2>3, TypeParts
<1>6. CASE Mkdir
  <2>1. Values' BY <1>6 DEF Mkdir, Values
  <2>2. Verdicts' BY <1>6 DEF Mkdir, Verdicts
  <2>3. Flags' BY <1>6 DEF Mkdir, Flags
  <2> QED BY <2>1, <2>2, <2>3, TypeParts
<1>7. CASE Host
  <2>1. Values' BY <1>7 DEF Host, Values
  <2>2. Verdicts' BY <1>7 DEF Host, Verdicts
  <2>3. Flags' BY <1>7 DEF Host, Flags
  <2> QED BY <2>1, <2>2, <2>3, TypeParts
<1>8. CASE Scrape
  <2>1. Targets \subseteq Card BY DEF Targets, RigState
  <2>2. Values'
    <3>1. pc' \in {"cleanup", "prepare"} /\ rig' = rig /\ first' = first /\ posted' = posted
      BY <1>8, Zenon DEF Scrape
    <3>2. seen' \in {seen, rig.work} /\ todo' \in {todo, Card, Targets}
      BY <1>8, Zenon DEF Scrape
    <3>3. rig.work \in Work BY DEF RigState
    <3> QED BY <2>1, <3>1, <3>2, <3>3 DEF Values
  <2>3. Verdicts' BY <1>8 DEF Scrape, Verdicts
  <2>4. Flags' BY <1>8 DEF Scrape, Flags
  <2> QED BY <2>2, <2>3, <2>4, TypeParts
<1>9. CASE Prepare
  <2>1. Values' BY <1>9 DEF Prepare, Values
  <2>2. Verdicts' BY <1>9 DEF Prepare, Verdicts
  <2>3. Flags' BY <1>9 DEF Prepare, Flags
  <2> QED BY <2>1, <2>2, <2>3, TypeParts
<1>10. CASE PrepareRaises
  <2>1. Values' BY <1>10 DEF PrepareRaises, Values
  <2>2. Verdicts' BY <1>10 DEF PrepareRaises, Verdicts
  <2>3. Flags' BY <1>10 DEF PrepareRaises, Flags
  <2> QED BY <2>1, <2>2, <2>3, TypeParts
<1>11. CASE Unavailable
  <2>1. Values' BY <1>11 DEF Unavailable, Values
  <2>2. Verdicts' BY <1>11 DEF Unavailable, Verdicts
  <2>3. Flags' BY <1>11 DEF Unavailable, Flags
  <2> QED BY <2>1, <2>2, <2>3, TypeParts
<1>12. ASSUME NEW c \in Card, Answers(c) PROVE Type'
  <2>1. Values' BY <1>12 DEF Answers, Noted, Values
  <2>2. Verdicts' BY <1>12 DEF Answers, Verdicts
  <2>3. Flags' BY <1>12 DEF Answers, Flags
  <2> QED BY <2>1, <2>2, <2>3, TypeParts
<1>13. CASE Judge
  <2>1. Values' BY <1>13 DEF Judge, Values
  <2>2. Verdicts' BY <1>13 DEF Judge, Verdicts
  <2>3. Flags' BY <1>13 DEF Judge, Flags
  <2> QED BY <2>1, <2>2, <2>3, TypeParts
<1>14. CASE Inspect
  <2>1. Values' BY <1>14 DEF Inspect, Values
  <2>2. Verdicts' BY <1>14 DEF Inspect, Verdicts
  <2>3. Flags' BY <1>14 DEF Inspect, Flags
  <2> QED BY <2>1, <2>2, <2>3, TypeParts
<1>15. CASE Own
  <2>1. Values' BY <1>15 DEF Own, Values
  <2>2. Verdicts' BY <1>15 DEF Own, Verdicts
  <2>3. Flags' BY <1>15 DEF Own, Flags
  <2> QED BY <2>1, <2>2, <2>3, TypeParts
<1>16. CASE Cure
  <2>1. Values' BY <1>16 DEF Cure, Values
  <2>2. Verdicts' BY <1>16 DEF Cure, Verdicts
  <2>3. Flags' BY <1>16 DEF Cure, Flags
  <2> QED BY <2>1, <2>2, <2>3, TypeParts
<1>17. CASE Cleanup
  <2>1. Values' BY <1>17 DEF Cleanup, Values
  <2>2. Verdicts' BY <1>17 DEF Cleanup, Verdicts
  <2>3. Flags' BY <1>17 DEF Cleanup, Flags
  <2> QED BY <2>1, <2>2, <2>3, TypeParts
<1>18. CASE Close
  <2>1. Values' BY <1>18 DEF Close, Values
  <2>2. Verdicts' BY <1>18 DEF Close, Verdicts
  <2>3. Flags' BY <1>18 DEF Close, Flags
  <2> QED BY <2>1, <2>2, <2>3, TypeParts
<1>19. CASE Report BY <1>19, WorstFails DEF Report
<1>20. CASE Returns BY <1>20 DEF Returns, NoRig, RigState, Work
<1>21. CASE UNCHANGED vars BY <1>21 DEF vars
<1> QED
  BY <1>1, <1>2, <1>3, <1>4, <1>5, <1>6, <1>7, <1>8, <1>9, <1>10, <1>11, <1>12, <1>13, <1>14,
     <1>15, <1>16, <1>17, <1>18, <1>19, <1>20, <1>21 DEF Next, Step

(* Every step keeps what the stages know.                                  *)
LEMMA StageStep == Inv /\ [Next]_vars => Inv'
<1> SUFFICES ASSUME Inv, [Next]_vars PROVE Inv'
  OBVIOUS
<1>t. Type' BY TypeStep DEF Inv
<1> USE DEF Inv, Type, Clean, Early, AfterVersion, AfterOpen, AfterHost, AfterScrape, InChallenge,
            AfterChallenge, AfterInspect, AfterOwn, Raised, Unposted, DirOpen, SessionOpen,
            PassIsEarned, history, Goes, Passes, Fails, Meets, Transport, Crashes, Ignored, Unknown,
            Judged
<1>1. CASE Begin BY <1>1, <1>t DEF Begin
<1>2. CASE JobEnds BY <1>2, <1>t DEF JobEnds, RigState
<1>3. CASE JobStarts BY <1>3, <1>t DEF JobStarts, RigState
<1>4. CASE Version BY <1>4, <1>t DEF Version
<1>5. CASE Open BY <1>5, <1>t DEF Open
<1>6. CASE Mkdir BY <1>6, <1>t DEF Mkdir
<1>7. CASE Host BY <1>7, <1>t DEF Host
<1>8. CASE Scrape
  BY <1>8, <1>t DEF Scrape, Targets, SpecsOk, DuplicatesOk, RigState
<1>9. CASE Prepare BY <1>9, <1>t DEF Prepare
<1>10. CASE PrepareRaises BY <1>10, <1>t DEF PrepareRaises
<1>11. CASE Unavailable BY <1>11, <1>t DEF Unavailable
<1>12. ASSUME NEW c \in Card, Answers(c) PROVE Inv'
  BY <1>12, <1>t DEF Answers, Noted
<1>13. CASE Judge BY <1>13, <1>t DEF Judge
<1>14. CASE Inspect BY <1>14, <1>t DEF Inspect
<1>15. CASE Own BY <1>15, <1>t DEF Own, Authorised
<1>16. CASE Cure BY <1>16, <1>t DEF Cure
<1>17. CASE Cleanup BY <1>17, <1>t DEF Cleanup
<1>18. CASE Close BY <1>18, <1>t DEF Close
<1>19. CASE Report
  <2>1. posted' = "pass" => failed = {}
    BY <1>19, WorstFails DEF Report, FailureClass
  <2>2. rig.meets \subseteq Trait BY DEF RigState
  <2> QED BY <1>19, <1>t, <2>1, <2>2 DEF Report, Check, Trait
<1>20. CASE Returns BY <1>20, <1>t DEF Returns, NoRig
<1>21. CASE UNCHANGED vars BY <1>21, <1>t DEF vars
<1> QED
  BY <1>1, <1>2, <1>3, <1>4, <1>5, <1>6, <1>7, <1>8, <1>9, <1>10, <1>11, <1>12, <1>13, <1>14,
     <1>15, <1>16, <1>17, <1>18, <1>19, <1>20, <1>21 DEF Next, Step

LEMMA InvHolds == Spec => []Inv
  BY InvInit, StageStep, PTL DEF Spec

(* Only a rig that meets every check, in every card, is posted as passed   *)
(* (deep.verify, pipeline, in_session and report).                         *)
THEOREM PassIsEarnedHolds == Spec => []PassIsEarned
<1>1. Inv => PassIsEarned BY DEF Inv
<1> QED BY <1>1, InvHolds, PTL

(* No pass ends with its directory or its session on the rig unless a call *)
(* that makes or removes it failed (the finally blocks of in_session and   *)
(* AgentClient.open).                                                      *)
THEOREM NothingOpenHolds == Spec => []NothingOpen
<1>1. Inv => NothingOpen BY DEF Inv, DirOpen, SessionOpen, NothingOpen
<1> QED BY <1>1, InvHolds, PTL

(* Every variable of a pass keeps its type, the verdicts and what is       *)
(* posted included: no class is reported that protocol does not know.      *)
THEOREM TypeCorrect == Spec => []Type
<1>1. Inv => Type BY DEF Inv
<1> QED BY <1>1, InvHolds, PTL

-----------------------------------------------------------------------------
(* A connection that failed.  It is noted among the failures at once, or   *)
(* at the end of the challenge when it was its first failure; and nothing  *)
(* is worse.  A pass on its way out by an exception had none before.       *)
BrokeNoted ==
    /\ broke \cap Told # {} => "SSH_TRANSPORT" \in failed
    /\ first = "SSH_TRANSPORT" => "SSH_TRANSPORT" \in failed \/ pc = "challenge"

Unbroken ==
    /\ pc \in {"idle", "version", "open", "mkdir", "host", "scrape", "prepare"} => broke = {} /\ first = "none"
    /\ raised => broke \subseteq {"prepare", "cleanup", "close"} /\ first = "none"
    /\ pc = "done" /\ posted = "nothing" => raised

BrokenInv == Type /\ Raised /\ Unposted /\ Unbroken /\ BrokeNoted /\ BrokenIsTold

LEMMA TransportIsWorst ==
    ASSUME failed \subseteq FailureClass, "SSH_TRANSPORT" \in failed PROVE Worst = "SSH_TRANSPORT"
<1>1. \A class \in FailureClass : class # "SSH_TRANSPORT" => ~(Severity(class) <= Severity("SSH_TRANSPORT"))
  BY SMTT(60) DEF FailureClass, Severity
<1>2. \A class \in FailureClass : Severity("SSH_TRANSPORT") <= Severity(class)
  BY SMTT(60) DEF FailureClass, Severity
<1> QED BY <1>1, <1>2 DEF Worst

LEMMA BrokenStep == BrokenInv /\ [Next]_vars => BrokenInv'
<1> SUFFICES ASSUME BrokenInv, [Next]_vars PROVE BrokenInv'
  OBVIOUS
<1>t. Type' BY TypeStep DEF BrokenInv
<1> USE DEF BrokenInv, Raised, Unposted, Unbroken, BrokeNoted, BrokenIsTold, Told, history, Goes, Passes,
            Fails, Meets, Transport, Crashes, Ignored, Unknown, Judged
<1>1. CASE Begin BY <1>1, <1>t DEF Begin
<1>2. CASE JobEnds \/ JobStarts BY <1>2, <1>t DEF JobEnds, JobStarts
<1>3. CASE Version BY <1>3, <1>t DEF Version
<1>4. CASE Open BY <1>4, <1>t DEF Open
<1>5. CASE Mkdir BY <1>5, <1>t DEF Mkdir
<1>6. CASE Host BY <1>6, <1>t DEF Host
<1>7. CASE Scrape BY <1>7, <1>t DEF Scrape
<1>8. CASE Prepare \/ PrepareRaises \/ Unavailable
  BY <1>8, <1>t DEF Prepare, PrepareRaises, Unavailable
<1>9. ASSUME NEW c \in Card, Answers(c) PROVE BrokenInv'
  BY <1>9, <1>t DEF Answers, Noted
<1>10. CASE Judge BY <1>10, <1>t DEF Judge
<1>11. CASE Inspect BY <1>11, <1>t DEF Inspect
<1>12. CASE Own BY <1>12, <1>t DEF Own
<1>13. CASE Cure \/ Cleanup \/ Close BY <1>13, <1>t DEF Cure, Cleanup, Close
<1>14. CASE Report
  <2>1. "SSH_TRANSPORT" \in failed => posted' \in {"refused", "SSH_TRANSPORT"}
    BY <1>14, TransportIsWorst DEF Report, Type
  <2>2. posted' # "nothing"
    <3>1. failed # {} => Worst \in FailureClass BY WorstFails DEF Type
    <3> QED BY <1>14, <3>1 DEF Report, FailureClass
  <2> QED BY <1>14, <1>t, <2>1, <2>2 DEF Report
<1>15. CASE Returns BY <1>15, <1>t DEF Returns
<1>16. CASE UNCHANGED vars BY <1>16, <1>t DEF vars
<1> QED
  BY <1>1, <1>2, <1>3, <1>4, <1>5, <1>6, <1>7, <1>8, <1>9, <1>10, <1>11, <1>12, <1>13, <1>14,
     <1>15, <1>16 DEF Next, Step

(* A pass in which a call with a verdict found the connection failed says  *)
(* so (SSH_TRANSPORT, the first of protocol's severities), and only one    *)
(* whose challenge could not be prepared says nothing.                     *)
THEOREM BrokenIsToldHolds == Spec => []BrokenIsTold
<1>1. Init => BrokenInv
  BY InvInit DEF Init, Inv, BrokenInv, Unbroken, BrokeNoted, BrokenIsTold, Told
<1>2. BrokenInv => BrokenIsTold BY DEF BrokenInv
<1> QED BY <1>1, <1>2, BrokenStep, PTL DEF Spec

-----------------------------------------------------------------------------
(* Whose work it is.  The verdict on it stands on what the scrape saw, so  *)
(* the cause of a blame must outlast the jobs that come and go after it:   *)
(* once the job that was seen has ended, none of its name comes back, and  *)
(* the records the pass was given stay as they are.                        *)
Cause ==
    \/ seen = "foreign"
    \/ seen = "placed" /\ ~rig.recorded /\ (rig.work # "placed" \/ "own" \in unsure)
BlameInv ==
    /\ Type
    /\ pc \in {"idle", "version", "open", "mkdir", "host", "scrape"} => seen = "none"
    /\ pc \in {"idle", "version", "open", "mkdir", "host", "scrape", "prepare", "challenge", "inspect", "own"}
           => "UNAUTHORISED_WORK" \notin failed
    /\ seen # "later" /\ (rig.work = "later" => seen = "placed")
    /\ first # "UNAUTHORISED_WORK"
    /\ "UNAUTHORISED_WORK" \in failed => Cause
    /\ posted = "UNAUTHORISED_WORK" => pc = "done" /\ Cause

LEMMA BlameStep == BlameInv /\ [Next]_vars => BlameInv'
<1> SUFFICES ASSUME BlameInv, [Next]_vars PROVE BlameInv'
  OBVIOUS
<1>t. Type' BY TypeStep DEF BlameInv
<1> USE DEF BlameInv, Cause, history, Goes, Passes, Fails, Meets, Transport, Crashes, Ignored, Unknown
<1>1. CASE Begin BY <1>1, <1>t DEF Begin
<1>2. CASE JobEnds BY <1>2, <1>t DEF JobEnds, Type, RigState
<1>3. CASE JobStarts BY <1>3, <1>t DEF JobStarts, Type, RigState
<1>4. CASE Version BY <1>4, <1>t DEF Version
<1>5. CASE Open BY <1>5, <1>t DEF Open
<1>6. CASE Mkdir BY <1>6, <1>t DEF Mkdir
<1>7. CASE Host BY <1>7, <1>t DEF Host
<1>8. CASE Scrape BY <1>8, <1>t DEF Scrape
<1>9. CASE Prepare \/ PrepareRaises \/ Unavailable
  BY <1>9, <1>t DEF Prepare, PrepareRaises, Unavailable
<1>10. ASSUME NEW c \in Card, Answers(c) PROVE BlameInv'
  BY <1>10, <1>t DEF Answers, Noted
<1>11. CASE Judge BY <1>11, <1>t DEF Judge
<1>12. CASE Inspect BY <1>12, <1>t DEF Inspect
<1>13. CASE Own BY <1>13, <1>t DEF Own, Judged, Authorised, Type, Work
<1>14. CASE Cure \/ Cleanup \/ Close BY <1>14, <1>t DEF Cure, Cleanup, Close
<1>15. CASE Report
  <2>1. posted' = "UNAUTHORISED_WORK" => "UNAUTHORISED_WORK" \in failed
    BY <1>15, WorstFails DEF Report, Type
  <2> QED BY <1>15, <1>t, <2>1 DEF Report
<1>16. CASE Returns BY <1>16, <1>t DEF Returns, NoRig
<1>17. CASE UNCHANGED vars BY <1>17, <1>t DEF vars
<1> QED
  BY <1>1, <1>2, <1>3, <1>4, <1>5, <1>6, <1>7, <1>8, <1>9, <1>10, <1>11, <1>12, <1>13, <1>14,
     <1>15, <1>16, <1>17 DEF Next, Step

(* A rig is blamed for unauthorised work only for foreign work or for a    *)
(* job that neither the records nor the listing could identify             *)
(* (exclusivity.check on what the scrape saw).                             *)
THEOREM BlamedForCauseHolds == Spec => []BlamedForCause
<1>1. Init => BlameInv
  BY InvInit DEF Init, Inv, BlameInv, NoRig
<1>2. BlameInv => BlamedForCause BY DEF BlameInv, Cause, BlamedForCause
<1> QED BY <1>1, <1>2, BlameStep, PTL DEF Spec
=============================================================================
