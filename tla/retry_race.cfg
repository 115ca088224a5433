SPECIFICATION Spec
CONSTANTS
    None = None
    User = {u1}
    Content = {c1}
    Review = {r1}
    Handler = {h1, h2}
    Worker = {w1}
    Exempt = {}
    DailyLimit = 2
    TenantScope = FALSE
    TaskMaxAttempts = 1
    QueueMaxAttempts = 1
    Spend = {1}
    MaxGeneration = 1
    Faults = {"retryRace"}
    MaxFaults = 2
PROPERTIES
    DoneIsFinal
CHECK_DEADLOCK FALSE
