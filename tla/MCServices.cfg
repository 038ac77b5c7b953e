SPECIFICATION ServicesSpec
CONSTANTS
    SpySessions = {"s1", "s2"}
    Severities = {"low", "high"}
    Reported = {"high"}
    BatchSize = 2
    MaxFindings = 2
    MaxPushes = 2
    MaxFlights = 2
    MaxSpyCrashes = 1
    CostSessions = {"c1", "c2"}
    Charges = {1, 2, 3}
    UnitsPerCent = 2
    MaxSpent = 6
    ToolUses = {"u1", "u2"}
    MaxExecutions = 2
    MaxTurns = 2
    MaxCalls = 2
    MaxBatch = 3
    MaxLogs = 5
    HistorySize = 2
    BatchLimit = 2
    MaxActivities = 4
    CacheKeys = {"k1", "k2"}
    Files = {"f1", "f2"}
    MaxFileSize = 2
    CacheLimit = 3
    MaxBuilds = 3
    MaxRefreshes = 2
    MaxEdits = 2
    Providers = {"local", "anthropic"}
    NeedsKey = {"anthropic"}
    Phases = {"analysis"}
    SettingValues = {0, 1}
    MaxRequests = 2
    Repos = {"r1", "r2"}
    EnvKeys = {"KEY"}
    SecretKeys = {"KEY"}
    EnvTexts = {"a", "b"}
    MaxRepoRequests = 4
    OAuthStates = {"s1"}
    Githubs = {"g1", "g2"}
    MaxLogins = 3
INVARIANTS
    SpyInv
    CostInv
    TraceInv
    LogInv
    
    CacheInv
    
    
    AccountsInv
PROPERTIES
    QueueDrains
    RoomAfterBuild
CHECK_DEADLOCK FALSE
