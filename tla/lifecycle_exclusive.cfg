SPECIFICATION Spec
CONSTANTS
    None = None
    User = {u1}
    Content = {c1}
    Review = {r1, r2}
    Handler = {h1, h2}
    Worker = {w1, w2}
    Exempt = {}
    DailyLimit = 2
    TenantScope = FALSE
    TaskMaxAttempts = 2
    QueueMaxAttempts = 2
    Spend = {1}
    MaxGeneration = 1
    Faults = {"abort", "duplicate", "analytics"}
    MaxFaults = 2
INVARIANTS
    ExclusiveProcessing
    CacheMatchesSource
    ReportedOnce
PROPERTIES
    DoneIsFinal
    ServiceAsPromised
SYMMETRY ReviewSymmetry
CHECK_DEADLOCK FALSE
