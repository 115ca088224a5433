SPECIFICATION Spec
CONSTANTS
    None = None
    User = {u1, u2}
    Admin = {u2}
    Review = {p1, p2}
    Run = {b1, b2}
    File = {f1}
    TheServer = s1
    Server = {s1}
    Writer = {w1, w2}
    Reader = {q1, q2}
    CacheS = 1
    MaxTime = 1
    MaxInputs = 3
    Faults = {"insert", "ambiguous", "ddl", "query", "restart"}
    Home <- HomeOfAll
    Outcome <- Outcomes
INVARIANTS
    WrittenOnce
    FindingsHaveTheirReview
    FreshEnough
    AnswersAreYours
    EvidenceIsPaired
SYMMETRY WarehouseSymmetry
CHECK_DEADLOCK FALSE
