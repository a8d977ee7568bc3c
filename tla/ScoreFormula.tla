------------------------------ MODULE ScoreFormula ------------------------------
(***************************************************************************)
(* What a rig of the roster is worth: validator/scoring/formula.py and     *)
(* demand_weight.py, with the inputs that weights.py takes from the rig.   *)
(*                                                                         *)
(* A score is a whole number: each factor is written over a denominator of *)
(* its own (hundredths for demand, fifths, twentieths and days for the     *)
(* multipliers), and these are the same for all rigs.  So is the size of   *)
(* the fleet in the capacity share, and weights are made of nothing but    *)
(* the ratios of scores.                                                   *)
(***************************************************************************)
EXTENDS Integers, Sequences, FiniteSetsExt

CONSTANTS Demand,          \* DemandWeights.values: of some models, in hundredths
          UptimeRampDays,  \* UPTIME_RAMP_DAYS (14)
          MinDriver,       \* CV_MIN_DRIVER_VERSION, 0 if there is none
          CutoffPassed     \* the date announced for it has passed

ASSUME FormulaAssumption ==
    /\ UptimeRampDays \in Nat \ {0} /\ MinDriver \in Nat /\ CutoffPassed \in BOOLEAN
    /\ \A model \in DOMAIN Demand : Demand[model] \in Int

(* What the roster says of a card, and of a rig: whether its state is a    *)
(* verified one, whether its last deep pass passed, its cards, the days of *)
(* uptime by the ledger and by the pool, and the rest that the formula     *)
(* asks for.                                                               *)
Card == [model: STRING, tier: STRING, accepted: BOOLEAN]
RosterRig == [verifiedState: BOOLEAN, passed: BOOLEAN, cards: Seq(Card), isolated: BOOLEAN,
              ledgerDays: Int, poolDays: Int, driver: Nat, rented: BOOLEAN, optedOut: BOOLEAN]

(* demand_weight.py.                                                       *)
StaticPrior == [flagship |-> 100, professional |-> 60, standard |-> 35, entry |-> 15]
MinWeight == 1

DemandWeight(card) ==
    IF card.model \in DOMAIN Demand THEN Max({MinWeight, Demand[card.model]})
    ELSE IF card.tier \in DOMAIN StaticPrior THEN StaticPrior[card.tier] ELSE MinWeight

Accepted(rig) == {i \in DOMAIN rig.cards : rig.cards[i].accepted}

(* The mean of the cards' weights without their number.                    *)
DemandMean(rig) ==
    LET sum == SumFunction([i \in Accepted(rig) |-> DemandWeight(rig.cards[i])])
    IN  sum \div Max({1, Cardinality(Accepted(rig))})

(* The mean of the cards' weights times their number, as capacity share.   *)
DemandAndCapacity(rig) == SumFunction([i \in Accepted(rig) |-> DemandWeight(rig.cards[i])])

(* uptime_days_of: by the ledger or by the pool, whichever says more; it   *)
(* pays along a ramp.                                                      *)
UptimeDays(rig) == Max({rig.ledgerDays, rig.poolDays})
UptimeMultiplier(rig) == Min({UptimeRampDays, Max({0, UptimeDays(rig)})})

(* driver_ok, and driver_multiplier.  A version that cannot be read (0)    *)
(* passes, as does any if no minimum is set.                               *)
DriverOk(rig) == rig.driver = 0 \/ rig.driver >= MinDriver
DriverMultiplier(rig) == IF DriverOk(rig) \/ rig.rented \/ ~CutoffPassed THEN 1 ELSE 0

IsolationMultiplier(rig) == IF rig.isolated THEN 5 ELSE 4
OptOutMultiplier(rig) == IF rig.optedOut THEN 17 ELSE 20

(* score of a rig that is verified.                                        *)
RigScore(rig) ==
    DemandAndCapacity(rig) * UptimeMultiplier(rig) * DriverMultiplier(rig)
        * IsolationMultiplier(rig) * OptOutMultiplier(rig)

(* local_scores: in a verified state, the last deep pass passed, and a     *)
(* card that was accepted.                                                 *)
Verified(rig) == rig.verifiedState /\ rig.passed /\ Accepted(rig) # {}
=============================================================================
