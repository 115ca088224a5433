SPECIFICATION FairSpec
CONSTANTS
    None = None
    Rule = {r1, r2}
    Text = {t1}
    Job = {j1}
    Review = {}
    File <- MCFile
    Accepts <- MCAccepts
    CheckpointRows = 1
    MaxRetries = 1
    Faults = {"crash"}
    MaxFaults = 2
PROPERTIES
    JobSettles
CHECK_DEADLOCK FALSE
