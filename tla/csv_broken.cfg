SPECIFICATION Spec
CONSTANTS
    None = None
    Rule = {r1}
    HeaderIds = {}
    Text = {t1}
    Job = {j1}
    Review = {}
    File <- MCFile
    Accepts <- MCAccepts
    MaxRows = 2
    CheckpointRows = 1
    MaxRetries = 0
    Faults = {}
    MaxFaults = 0
INVARIANTS
    BadRowsAreNeverFatal
CHECK_DEADLOCK FALSE
