SPECIFICATION WorkSpec
CONSTANTS
    Prefetch = {p1, p2}
    Challenge = {c1, c2}
    Measure = {m1}
    Sweep = sweep
    Job = {j1}
    Image = {i1, i2}
    larger = i2
    Workers = 2
    StateLimit = 3
    SizeOf <- MCSizeOf
    ErrorSize = 2
    Nobody = nobody
INVARIANT WorkType
INVARIANT Exclusive
PROPERTY RecordsKept
PROPERTY SweepGoesOn
