SPECIFICATION Spec
CONSTANTS
    MaxLines = 2
    MaxNodes = 1
    LineLengths = {0}
    MaxChars = 50
    PastEnd = TRUE
INVARIANTS
    ChunksCover
