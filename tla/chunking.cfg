SPECIFICATION Spec
CONSTANTS
    MaxLines = 4
    MaxNodes = 3
    LineLengths = {0, 20, 60}
    MaxChars = 45
    PastEnd = TRUE
INVARIANTS
    BatchesCover
    BatchesFit
    PiecesHaveTheirChunk
    DefinitionsAreChunks
