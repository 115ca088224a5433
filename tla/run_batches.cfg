SPECIFICATION FairSpec
CONSTANTS
    Embeds = 2
    EmbedWorkers = 2
    Batches = 3
    Workers = 2
    MaxAttempts = 2
INVARIANTS
    FirstFailureDecides
    AnsweredIsBooked
PROPERTIES
    RunsAsPromised
    RunEnds
CHECK_DEADLOCK FALSE
