SPECIFICATION Spec
CONSTANTS
    None = None
    User = {u1}
    Content = {c1}
    Review = {r1}
    Handler = {h1}
    Worker = {w1, w2}
    Exempt = {}
    DailyLimit = 2
    TenantScope = FALSE
    TaskMaxAttempts = 2
    QueueMaxAttempts = 2
    Spend = {1}
    MaxGeneration = 0
    Faults = {"overrun", "duplicate"}
    MaxFaults = 2
INVARIANTS
    ExclusiveProcessing
CHECK_DEADLOCK FALSE
