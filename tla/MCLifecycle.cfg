SPECIFICATION FairSpec
CONSTANTS
    Slots = {s1, s2}
    MaxAttempts = 3
    MaxLaunches = 3
    MaxCancels = 2
    MaxPauses = 1
    MaxCrashes = 1
    AddedAs = {"waiting", "prioritized"}
    LockChecked = FALSE
INVARIANTS
    TypeOK
    
    
PROPERTIES
    JobSettles
CHECK_DEADLOCK FALSE
