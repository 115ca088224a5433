SPECIFICATION FairSpec
CONSTANTS
    None = None
    Rule = {r1, r2}
    Text = {t1, t2}
    Job = {j1, j2}
    Review = {v1, v2}
    File <- MCFile
    Accepts <- MCAccepts
    CheckpointRows = 1
    MaxRetries = 1
    Faults = {"embed", "launch", "ambiguous"}
    MaxFaults = 2
INVARIANTS
    SettledIsPublished
PROPERTIES
    HitIsGrounded
    JobSettles
CHECK_DEADLOCK FALSE
