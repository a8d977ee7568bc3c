-------------------------------- MODULE Weights --------------------------------
(***************************************************************************)
(* The weights a validator sets: set_weights_once of validator/main.py and *)
(* validator/scoring/weights.py, from the roster and the pool's scores to  *)
(* the vector that goes on chain.                                          *)
(*                                                                         *)
(* Scores are whole numbers, as in ScoreFormula, and shares exact          *)
(* fractions over a common denominator, of which only the numerators are   *)
(* written: to_u16 uses nothing but their ratios.  Dictionaries are        *)
(* functions.                                                              *)
(***************************************************************************)
EXTENDS ScoreFormula, Functions

CONSTANTS Hotkey,
          Rig,
          Owner,      \* [Rig -> Hotkey]
          RigView,    \* what the pool's roster may say of a rig
          Uid,        \* numbers
          None,       \* no uid
          MaxScore,   \* bound: scores the pool publishes
          Top,        \* U16_MAX (65535)
          HeldShares, \* values of CV_HELD_SHARE (0.4), as numerators over ...
          Whole

ASSUME WeightsAssumption ==
    /\ IsFiniteSet(Hotkey) /\ IsFiniteSet(Rig)
    /\ Owner \in [Rig -> Hotkey] /\ RigView \subseteq RosterRig
    /\ Uid \subseteq Nat /\ None \notin Uid
    /\ {MaxScore, Top, Whole} \subseteq Nat \ {0} /\ HeldShares \subseteq 0..Whole

VARIABLES
    reserve,    \* CV_RESERVE_UID, or None
    held,       \* CV_HELD_SHARE
    uidOf,      \* the chain: the uid of each hotkey, or None
    pc,         \* set_weights_once is "idle", asks for "uids", or has "submitted"
    roster,     \* the roster that local scores were made from, or Nothing
    scores,     \* compute_scores: of some hotkeys
    active,     \* the hotkeys with a rig online
    todo,       \* hotkeys whose uid has not been asked for
    uids,       \* uids_for, so far
    vector      \* the weights that were submitted, of some uids

vars == <<reserve, held, uidOf, pc, roster, scores, active, todo, uids, vector>>

(* Dictionaries with some of the keys K.                                   *)
Dict(K, V) == UNION {[D -> V] : D \in SUBSET K}
Nothing == [k \in {} |-> 0]

Type ==
    /\ reserve \in Uid \cup {None} /\ held \in HeldShares
    /\ uidOf \in [Hotkey -> Uid \cup {None}]
    /\ pc \in {"idle", "uids", "submitted"}
    /\ roster \in [Rig -> RigView] \cup {Nothing}
    /\ DOMAIN scores \subseteq Hotkey /\ active \subseteq Hotkey /\ todo \subseteq Hotkey
    /\ DOMAIN uids \subseteq Hotkey /\ \A h \in DOMAIN uids : uids[h] \in Uid
    /\ DOMAIN vector \subseteq Uid /\ \A u \in DOMAIN vector : vector[u] \in 1..Top

Init ==
    /\ reserve \in Uid \cup {None} /\ held \in HeldShares
    /\ uidOf = [h \in Hotkey |-> None]
    /\ pc = "idle" /\ roster = Nothing /\ scores = Nothing /\ active = {} /\ todo = {} /\ uids = Nothing
    /\ vector = Nothing

-----------------------------------------------------------------------------
(* weights.py.                                                             *)

(* Shares with nothing taken from the miners for the reserve.              *)
SharesUnscaled(byUid) ==
    LET paid == {u \in DOMAIN byUid : byUid[u] > 0}
        total == SumFunctionOnSet(byUid, paid)
        whole == IF total = 0 THEN 1 ELSE total
    IN  IF reserve = None \/ held = 0 THEN [u \in paid |-> byUid[u]]
        ELSE [u \in (paid \ {reserve}) \cup {reserve} |->
                IF u = reserve THEN whole * held ELSE byUid[u] * Whole]

(* normalise and with_reserve: the miners with a score share what is not   *)
(* held; the reserve has what is held, whatever its own score.             *)
Shares(byUid) ==
    LET paid == {u \in DOMAIN byUid : byUid[u] > 0}
        total == SumFunctionOnSet(byUid, paid)
        whole == IF total = 0 THEN 1 ELSE total
    IN  IF reserve = None \/ held = 0 THEN [u \in paid |-> byUid[u]]
        ELSE [u \in (paid \ {reserve}) \cup {reserve} |->
                IF u = reserve THEN whole * held ELSE byUid[u] * (Whole - held)]

(* round: to the nearest whole number, a half to the even one.             *)
Round(n, d) ==
    LET down == n \div d
        rest == 2 * (n % d)
    IN  IF rest > d \/ (rest = d /\ down % 2 = 1) THEN down + 1 ELSE down

(* A share that rounds to nothing gets nothing.                            *)
Quantise0(n, top) == Round(n * Top, top)

(* The share is rounded before it is scaled.                               *)
QuantiseEarly(n, top) == Max({1, Round(n, top) * Top})

(* to_u16: the largest share becomes Top, and none becomes zero.           *)
Quantise(n, top) == Max({1, Round(n * Top, top)})

(* A share that rounds to nothing is left out.                             *)
ToU16Drops(shares) ==
    LET top == Max(Range(shares))
    IN  [u \in {u \in DOMAIN shares : Round(shares[u] * Top, top) > 0} |-> Quantise(shares[u], top)]

ToU16(shares) ==
    LET paid == {u \in DOMAIN shares : shares[u] > 0}
        top == Max(Range(shares))
    IN  [u \in paid |-> Quantise(shares[u], top)]

Missing(u16, wanted) == wanted \ (DOMAIN u16 \cup {reserve})

(* A unit for everyone who is missing, and from nobody.                    *)
FloorFree(u16, wanted) ==
    IF reserve \notin DOMAIN u16 THEN u16
    ELSE [u \in DOMAIN u16 \cup Missing(u16, wanted) |-> IF u \in DOMAIN u16 THEN u16[u] ELSE 1]

(* eligibility_floor: a unit for each active uid that has none, in the     *)
(* order of uids, from the reserve, as long as it keeps one itself.        *)
EligibilityFloor(u16, wanted) ==
    IF reserve \notin DOMAIN u16 THEN u16
    ELSE LET missing == Missing(u16, wanted)
             floored == {u \in missing : Cardinality({v \in missing : v < u}) < u16[reserve] - 1}
         IN  [u \in DOMAIN u16 \cup floored |->
                IF u \in floored THEN 1
                ELSE IF u = reserve THEN u16[u] - Cardinality(floored) ELSE u16[u]]

-----------------------------------------------------------------------------
(* A hotkey registers, and may take the uid of another.                    *)
Register(h, u) ==
    /\ pc # "submitted" /\ uidOf[h] = None
    /\ uidOf' = [k \in Hotkey |-> IF k = h THEN u ELSE IF uidOf[k] = u THEN None ELSE uidOf[k]]
    /\ UNCHANGED <<reserve, held, pc, roster, scores, active, todo, uids, vector>>

(* local_scores: the scores of the rigs that are verified, added up for    *)
(* each hotkey.                                                            *)
VerifiedRigs(views, h) == {r \in Rig : Owner[r] = h /\ Verified(views[r])}

LocalScores(views) ==
    [h \in {h \in Hotkey : VerifiedRigs(views, h) # {}} |->
        SumFunction([r \in VerifiedRigs(views, h) |-> RigScore(views[r])])]

(* scores_by_hotkey: the roster, then the pool's scores, or the local ones *)
(* if it has none or does not answer.                                      *)
Score(found, online) ==
    /\ pc = "idle" /\ found # Nothing
    /\ scores' = found
    /\ active' = {Owner[r] : r \in online}
    /\ todo' = DOMAIN found \cup active'
    /\ pc' = "uids"
    /\ UNCHANGED <<reserve, held, uidOf, uids, vector>>

ScorePublished(published, online) == Score(published, online) /\ roster' = Nothing
ScoreLocally(views, online) == Score(LocalScores(views), online) /\ roster' = views

(* uids_for: one query for each hotkey.                                    *)
UidOf(h) ==
    /\ pc = "uids" /\ h \in todo
    /\ todo' = todo \ {h}
    /\ uids' = IF uidOf[h] = None THEN uids
               ELSE [k \in DOMAIN uids \cup {h} |-> IF k = h THEN uidOf[h] ELSE uids[k]]
    /\ UNCHANGED <<reserve, held, uidOf, pc, roster, scores, active, vector>>

Known == {h \in DOMAIN scores : h \in DOMAIN uids}
ActiveUids == {uids[h] : h \in active \cap DOMAIN uids}

(* scores_by_uid: of two hotkeys that were found with the same uid, one.   *)
ScoresByUid == {byUid \in [{uids[h] : h \in Known} -> {scores[h] : h \in Known}] :
                    \A u \in DOMAIN byUid : \E h \in Known : uids[h] = u /\ scores[h] = byUid[u]}

(* vector and submit, unless there is nothing to submit.                   *)
Submit(byUid) ==
    /\ pc = "uids" /\ todo = {}
    /\ vector' = EligibilityFloor(ToU16(Shares(byUid)), ActiveUids)
    /\ vector' # Nothing
    /\ pc' = "submitted"
    /\ UNCHANGED <<reserve, held, uidOf, roster, scores, active, todo, uids>>

(* set_weights_once returns or raises; the next one is weights_seconds     *)
(* away in either case.                                                    *)
Over ==
    /\ pc # "idle"
    /\ pc' = "idle"
    /\ roster' = Nothing /\ scores' = Nothing /\ active' = {} /\ todo' = {} /\ uids' = Nothing /\ vector' = Nothing
    /\ UNCHANGED <<reserve, held, uidOf>>

Next ==
    \/ \E h \in Hotkey, u \in Uid : Register(h, u)
    \/ \E online \in SUBSET Rig :
            \/ \E published \in Dict(Hotkey, 1..MaxScore) : ScorePublished(published, online)
            \/ \E views \in [Rig -> RigView] : ScoreLocally(views, online)
    \/ \E h \in Hotkey : UidOf(h)
    \/ \E byUid \in ScoresByUid : Submit(byUid)
    \/ Over

Spec == Init /\ [][Next]_vars

-----------------------------------------------------------------------------
ScoreOf(h) == IF h \in DOMAIN scores THEN scores[h] ELSE 0
WeightOf(h) == IF uids[h] \in DOMAIN vector THEN vector[uids[h]] ELSE 0

(* The hotkeys that have a uid for themselves, and not the reserve's.      *)
Miners == {h \in DOMAIN uids : uids[h] # reserve /\ \A k \in DOMAIN uids \ {h} : uids[k] # uids[h]}

(* Weights follow scores: no miner with a lower score is set a higher      *)
(* weight, by the rounding, by the unit that keeps a small share from      *)
(* vanishing, or by the eligibility floor; and every score is paid, unless *)
(* all is held.                                                            *)
PaidByScore ==
    pc = "submitted" /\ (reserve = None \/ held < Whole) =>
        /\ \A h, k \in Miners : ScoreOf(h) <= ScoreOf(k) \/ WeightOf(h) >= WeightOf(k)
        /\ \A h \in Miners : ScoreOf(h) > 0 => WeightOf(h) > 0

(* docs/incentive_mechanism.md: "The share per hotkey, summing the shares  *)
(* of every rig a hotkey owns, is what compute validators set as weights". *)
(* The weights of two miners are in the proportion of their scores, off by *)
(* one unit of each at most, whatever the reserve takes, however small a   *)
(* share is beside the largest, and whoever the floor is paid to.          *)
PaidInProportion ==
    pc = "submitted" /\ (reserve = None \/ held < Whole) =>
        \A h, k \in Miners :
            ScoreOf(h) > 0 /\ ScoreOf(k) > 0 =>
                WeightOf(h) * ScoreOf(k) <= (WeightOf(k) + 1) * ScoreOf(h) + ScoreOf(k)

(* A rig that is no worse than another in any term of the formula.         *)
(* Drivers whose version is not known are not compared: they pass.         *)
AsGood(p, q) ==
    /\ \A i \in Accepted(q) : i \in Accepted(p) /\ p.cards[i] = q.cards[i]
    /\ p.ledgerDays >= q.ledgerDays /\ p.poolDays >= q.poolDays
    /\ p.driver = q.driver \/ (q.driver # 0 /\ p.driver >= q.driver)
    /\ (q.rented => p.rented) /\ (q.isolated => p.isolated) /\ (p.optedOut => q.optedOut)

(* Merit pays: a miner who has, for each verified rig of another, one of   *)
(* its own that is no worse in any term, is not set the lower weight by    *)
(* any of the steps between the roster and the vector; so more cards, more *)
(* uptime, a newer driver or isolation never cost anything.  (A miner      *)
(* without a score has the unit of the eligibility floor at most.)         *)
PaidByMerit ==
    pc = "submitted" /\ roster # Nothing /\ (reserve = None \/ held < Whole) =>
        \A h, k \in Miners :
            (\E match \in [VerifiedRigs(roster, k) -> VerifiedRigs(roster, h)] :
                /\ \A r, s \in DOMAIN match : match[r] = match[s] => r = s
                /\ \A r \in DOMAIN match : AsGood(roster[match[r]], roster[r]))
            => WeightOf(h) >= WeightOf(k) \/ ScoreOf(k) = 0

(* docs/incentive_mechanism.md: "The remaining forty percent is held       *)
(* before anything is distributed".  The reserve's part of all weights is  *)
(* the held share, within a unit for each uid, if the reserve is no miner  *)
(* itself and some miner has a score.                                      *)
ShareIsHeld ==
    pc = "submitted" /\ reserve \in DOMAIN vector /\ (\E h \in Miners : ScoreOf(h) > 0)
                     /\ (\A h \in DOMAIN uids : uids[h] # reserve) =>
        LET total == SumFunction(vector)
            off == vector[reserve] * Whole - held * total
        IN  off \in -(Whole * Cardinality(DOMAIN vector))..(Whole * Cardinality(DOMAIN vector))

(* The eligibility floor costs the miners nothing, and it reaches every    *)
(* rig that is online, unless the reserve has a single unit left.          *)
FloorFromReserve ==
    pc = "submitted" =>
        \E byUid \in ScoresByUid :
            LET u16 == ToU16(Shares(byUid))
            IN  /\ SumFunction(vector) = SumFunction(u16)
                /\ \A u \in DOMAIN u16 \ {reserve} : vector[u] = u16[u]
                /\ reserve \in DOMAIN vector =>
                        ActiveUids \subseteq DOMAIN vector \/ vector[reserve] = 1
=============================================================================
