SPECIFICATION FairSpec
CONSTANTS
    s1 = s1
    Sources = {s1}
    Chunks = {c1, c2}
    SourceOf <- MCSourceOf
    Models = {m1}
    Identities = {i1, i2}
    Dimensions = {1}
    NoModel = NoModel
    NoChunk = NoChunk
    MaxGenerations = 1
    MaxChanges = 3
CHECK_DEADLOCK FALSE
PROPERTIES
    GenerationSettles
    ActiveCatchesUp
