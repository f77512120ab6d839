SPECIFICATION FairSpec
CONSTANTS
    Sweepers = {s1, s2}
    Signals = {1, 2}
    Buyers = 1
    ExitMin = 1
    ExitPct = 50
    BriefLimit = 2
    ExitLimit = 1
    Unresearchable = {2}
    MaxChanges = 1
    MaxFaults = 1
    None = None
INVARIANTS TypeOK ExitIsToldOnce
PROPERTIES FollowUpsArrive
