SPECIFICATION Spec
CONSTANTS
    None = None
    Rule = {r1, r2}
    Text = {t1}
    Job = {j1, j2}
    Review = {}
    File <- MCFile
    Accepts <- MCAccepts
    CheckpointRows = 1
    MaxRetries = 0
    Faults = {"overlap"}
    MaxFaults = 1
INVARIANTS
    SettledIsPublished
CHECK_DEADLOCK FALSE
