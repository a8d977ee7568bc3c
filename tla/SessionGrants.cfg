SPECIFICATION FairSpec
CONSTANTS
    Session = {s1}
    Opener = {o1, o2}
    Closer = {c1}
    Stamps = {1}
    Window = 1
    OpenTimeout = 1
    TTL = 4
    MaxClock = 7
    MaxCrashes = 1
INVARIANT Type
INVARIANT NoReplay
INVARIANT OneThreadPerSession
PROPERTY LeaseSpec
PROPERTY KeysAreRemoved
