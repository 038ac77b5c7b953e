SPECIFICATION FairSpec
CONSTANTS
    Tasks = {t1, t2}
    Phases = {p1, p2}
    MaxRequests = 3
    Timeouts = TRUE
    NoRequest = NoRequest
INVARIANTS
    TypeOK
    PendingMirrorsPromises
    AuditAgrees
    PromptVisible
PROPERTIES
    EveryRequestSettles
