SPECIFICATION Spec
CONSTANTS
    Rig = {r1}
    MaxGap = 2
    SaveEvery = 2
    MaxClock = 6
    MaxJumps = 2
    MaxJump = 3
INVARIANT Type
INVARIANT UptimeIsEarned
