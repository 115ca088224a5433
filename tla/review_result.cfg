SPECIFICATION Spec
CONSTANTS
    Text = {t1, t2}
    Blank = blank
    Distance = {0, 1}
    Rules = 3
    ChunksOf <- MCChunksOf
    Lines = 2
    Answers <- MCAnswers
    Weight <- MCWeight
    Curve <- MCCurve
    TopK = 2
    MaxRules = 2
    MaxTexts = 2
    PerBatch = 1
INVARIANTS
    TypeOK
    OffersTheClosest
    GroundingIsProvable
    DeductionsSplitFairly
PROPERTIES
    MoreNeverBetter
CHECK_DEADLOCK FALSE
