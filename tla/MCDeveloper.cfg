SPECIFICATION FairSpec
CONSTANTS
    Repos = {api, web}
    Primary = api
    BranchIn = {api}
    Buildable = {api}
    NumStories = 2
    MaxIterations = 2
    MaxBuildAttempts = 2
    GitErrors = TRUE
    MaxCrashes = 1
INVARIANTS
    CleanBetweenStories
    RejectedIsNotCommitted
PROPERTIES
    PhaseEnds
CHECK_DEADLOCK FALSE
