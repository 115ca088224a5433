SPECIFICATION Spec
CONSTANTS
    Embeds = 1
    EmbedWorkers = 1
    Batches = 1
    Workers = 1
    MaxAttempts = 1
INVARIANTS
    EveryCallIsBooked
CHECK_DEADLOCK FALSE
