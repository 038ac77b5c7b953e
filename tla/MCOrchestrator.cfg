SPECIFICATION FairSpec
CONSTANTS
    NumStories = 2
    MaxLaunches = 2
    MaxAttempts = 2
    Routes <- EveryRoute
    MaxMalformed = 1
    DbErrors = TRUE
    MaxCrashes = 1
INVARIANTS
    OrchestratorInv
    NoStoryLost
    ResumeFindsAnalysis
    MergeIsAnswered
PROPERTIES
    ExecutionEnds
    ImplementsPipeline
CHECK_DEADLOCK FALSE
