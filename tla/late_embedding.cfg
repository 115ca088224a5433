SPECIFICATION Spec
CONSTANTS
    Embeds = 2
    EmbedWorkers = 2
    Batches = 1
    Workers = 1
    MaxAttempts = 1
PROPERTIES
    CostIsFinal
CHECK_DEADLOCK FALSE
