SPECIFICATION FairSpec
CONSTANTS
    Rig = {r1, r2, r3, r4}
    Alone = {r3, r4}
    Online = {r2}
    Owner <- MCOwner
    MaxInflight = 2
    PerMiner = 1
    UnreachableTicks = 1
INVARIANT InflightBounded
PROPERTY EveryTaskEnds
PROPERTY EarlyIsVerified
