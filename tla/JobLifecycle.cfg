SPECIFICATION FairSpec
CONSTANTS
    Job = {j1, j2}
    Port = {1, 2}
    Crowds = {{j1}, {j1, j2}}
    MaxCrowd = 1
    MaxFaults = 2
    MaxRepairs = 1
INVARIANT Type
 
PROPERTY OrphansGo
