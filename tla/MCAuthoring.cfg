SPECIFICATION FairSpec
CONSTANTS
    MaxIterations = 3
    Faults = TRUE
INVARIANTS
    
    SavedIsAccepted
PROPERTIES
    HaltedPromptsNobody
    PhasesEnd
CHECK_DEADLOCK FALSE
