SPECIFICATION Spec
CONSTANTS
    NumStories = 2
    MaxLaunches = 2
    MaxAttempts = 3
    Routes <- StartAndRetryFrom
    MaxMalformed = 0
    DbErrors = FALSE
    MaxCrashes = 1
INVARIANTS
    NoStorySkipped
CHECK_DEADLOCK FALSE
