SPECIFICATION Spec
CONSTANTS
    Session = {s1}
    Opener = {o1}
    Closer = {c1}
    Stamps = {1}
    Window = 1
    OpenTimeout = 1
    TTL = 4
    MaxClock = 7
    MaxCrashes = 0
INVARIANT GrantHasKey
