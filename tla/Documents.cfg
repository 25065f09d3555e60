SPECIFICATION Spec
CONSTANTS
    Tabs = {t1, t2}
    Contents = {a, b}
    Empty = Empty
    NoContent = NoContent
    Worker = Worker
    NoOne = NoOne
    PageLimit = 2
    MaxVersions = 4
SYMMETRY Symmetry
CHECK_DEADLOCK FALSE
INVARIANTS
    ChunksAreOfTheirVersion
    StaleInputIsRefused
PROPERTIES
    ImplementsLog
    ListingIsComplete
