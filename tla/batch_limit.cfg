SPECIFICATION Spec
CONSTANTS
    MaxLines = 3
    MaxNodes = 2
    LineLengths = {0, 20}
    MaxChars = 45
    PastEnd = FALSE
INVARIANTS
    BatchesWithinLimit
