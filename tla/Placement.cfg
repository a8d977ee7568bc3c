SPECIFICATION PlacementSpec
CONSTANTS
    r1 = r1
    r2 = r2
    c1 = c1
    c2 = c2
    c3 = c3
    Rig = {r1, r2}
    Card = {c1, c2, c3}
    CardsOf <- MCCardsOf
    JobId = {j1, j2, j3}
    MaxNeeded = 2
SYMMETRY Symmetry
INVARIANT NeverMixed
