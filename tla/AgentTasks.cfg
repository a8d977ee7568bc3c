SPECIFICATION TasksSpec
CONSTANTS
    Hotkey = {h1}
    None = none
    Digest = {d0, d1}
    Installed = d0
INVARIANT TasksType
INVARIANT ApprovalIsGiven
INVARIANT OnlySigned
PROPERTY DecisionIsSent
PROPERTY UpdateArrives
