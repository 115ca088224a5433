SPECIFICATION Spec
CONSTANTS
    MaxLines = 3
    MaxNodes = 1
    LineLengths = {0}
    MaxChars = 50
    PastEnd = FALSE
    OtherBreaks = {1}
INVARIANTS
    DefinitionsKeepTheirLines
CHECK_DEADLOCK FALSE
