SPECIFICATION Spec
CONSTANTS
    Card = {c1, c2}
INVARIANT PassIsEarned
INVARIANT NothingOpen
INVARIANT BrokenIsTold
INVARIANT BlamedForCause
