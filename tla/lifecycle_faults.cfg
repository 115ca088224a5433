SPECIFICATION Spec
CONSTANTS
    None = None
    User = {u1, u2}
    Content = {c1}
    Review = {r1, r2}
    Handler = {h1, h2}
    Worker = {w1, w2}
    Exempt = {u2}
    DailyLimit = 1
    TenantScope = TRUE
    TaskMaxAttempts = 2
    QueueMaxAttempts = 2
    Spend = {1}
    MaxGeneration = 0
    Faults = {"abort", "duplicate", "overrun", "stall", "enqueue", "ambiguous", "analytics"}
    MaxFaults = 3
INVARIANTS
    SpendBounded
    ResultBelongsToSubmission
    QuotaRespected
SYMMETRY ReviewSymmetry
CHECK_DEADLOCK FALSE
