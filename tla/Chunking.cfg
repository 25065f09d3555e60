SPECIFICATION MCSpec
CONSTANTS
    Target = 5
    Overlap = 1
    CharTokens = 2
    MaxTokens = 14
INVARIANTS
    CutsBetweenCharacters
    NothingIsLost
    ChunksFit
