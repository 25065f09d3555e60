SPECIFICATION Spec
CONSTANTS
    s1 = s1
    Sources = {s1}
    Chunks = {c1, c2}
    SourceOf <- MCSourceOf
    Models = {m1, m2}
    Identities = {i1, i2}
    Dimensions = {1, 2}
    NoModel = NoModel
    NoChunk = NoChunk
    MaxGenerations = 2
    MaxChanges = 2
SYMMETRY Symmetry
CHECK_DEADLOCK FALSE
INVARIANTS
    SearchComparesLikeWithLike
    ConsentIsReread
    SendsAreFenced
    OneGenerationEach
PROPERTIES
    ActivatedWhenComplete
