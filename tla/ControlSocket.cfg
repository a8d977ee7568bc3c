SPECIFICATION FairSpec
CONSTANTS
    Command = {c1, c2, c3}
    MaxDepth = 2
    None = None
    MaxFailures = 2
    MaxPuts = 3
INVARIANT Type
INVARIANT QueueBounded
INVARIANT ResultsKept
INVARIANT ResultsInOrder
PROPERTY Reconnects
PROPERTY ResultsLeave
