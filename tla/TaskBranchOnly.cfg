SPECIFICATION Spec
CONSTANTS
    Repos = {api, web}
    Primary = api
    BranchIn = {api}
    Buildable = {api}
    NumStories = 2
    MaxIterations = 2
    MaxBuildAttempts = 2
    GitErrors = FALSE
    MaxCrashes = 0
INVARIANTS
    TaskBranchOnly
CHECK_DEADLOCK FALSE
