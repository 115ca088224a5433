SPECIFICATION Spec
CONSTANTS
    None = None
    Rule = {r1}
    Text = {t1, t2}
    Job = {j1, j2, j3}
    Review = {v1, v2}
    File <- MCFile
    Accepts <- MCAccepts
    CheckpointRows = 1
    MaxRetries = 0
    Faults = {"race"}
    MaxFaults = 1
PROPERTIES
    HitIsGrounded
CHECK_DEADLOCK FALSE
