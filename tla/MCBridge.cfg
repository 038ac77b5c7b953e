SPECIFICATION Spec
CONSTANTS
    Sessions = {a, b, c}
    NoSession = NoSession
    MaxPrompts = 2
    MaxSubs = 3
    MaxDrops = 1
SYMMETRY SessionSymmetry
INVARIANTS
    BridgeInv
    StableIsExact
    
CHECK_DEADLOCK FALSE
