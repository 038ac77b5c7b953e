SPECIFICATION FairDelivery
CONSTANTS
    Repos = {api, web}
    Primary = api
    BranchIn = {api, web}
    Buildable = {api}
    NumStories = 1
    MaxIterations = 1
    MaxBuildAttempts = 2
    GitErrors = TRUE
    MaxCrashes = 1
    NoRepo = NoRepo
    Modes <- EveryMode
INVARIANTS
    DeliveryInv
    
    MergeNeedsConsent
PROPERTIES
    DeliveryEnds
CHECK_DEADLOCK FALSE
