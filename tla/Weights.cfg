SPECIFICATION Spec
CONSTANTS
    a = a
    b = b
    r1 = r1
    r2 = r2
    r3 = r3
    Hotkey = {a, b}
    Rig = {r1, r2, r3}
    Owner <- MCOwner
    RigView <- MCRigView
    Demand <- MCDemand
    UptimeRampDays = 2
    MinDriver = 6
    CutoffPassed = TRUE
    Uid = {0, 1, 2}
    None = none
    MaxScore = 2
    Top = 50
    HeldShares = {0, 1, 40, 100}
    Whole = 100
INVARIANT Type
INVARIANT PaidByScore
INVARIANT PaidInProportion
INVARIANT PaidByMerit
INVARIANT ShareIsHeld
INVARIANT FloorFromReserve
