SPECIFICATION Spec
CONSTANTS
    None = None
    Rule = {r1, r2, r3}
    HeaderIds = {r3}
    Text = {t1, t2}
    Job = {j1, j2}
    Review = {}
    File <- MCFile
    Accepts <- MCAccepts
    MaxRows = 2
    CheckpointRows = 1
    MaxRetries = 1
    Faults = {"abort", "crash", "storage", "embed", "merge", "launch"}
    MaxFaults = 2
INVARIANTS
    TypeOK
    PublishedRulesExist
    NothingEmbeddedTwice
    LagIsBounded
PROPERTIES
    DoneHasItsRows
    DoneIsComplete
    DoneJobIsFinal
    JobsRunOut
SYMMETRY TextSymmetry
CHECK_DEADLOCK FALSE
