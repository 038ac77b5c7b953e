SPECIFICATION Spec
CONSTANTS
    NumStories = 2
    MaxLaunches = 1
    MaxAttempts = 3
    Routes <- FirstRunAndResume
    MaxMalformed = 0
    DbErrors = FALSE
    MaxCrashes = 0
INVARIANTS
    RejectStops
CHECK_DEADLOCK FALSE
