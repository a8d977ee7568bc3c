SPECIFICATION Spec
CONSTANTS
    c1 = c1
    c2 = c2
    j1 = j1
    j2 = j2
    Card = {c1, c2}
    Job = {j1, j2}
    Task = {t1, t2}
    CardsOf <- MCCardsOf
    Cap = {cap}
    Own = own
    Default = default
    Low = {cap}
    None = none
    MaxFaults = 1
INVARIANT CapRecorded
SYMMETRY MCSymmetry
