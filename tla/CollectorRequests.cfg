SPECIFICATION RequestsSpec
CONSTANTS
    Runs = {r1, r2}
    FileRuns = {}
    NoRun = NoRun
    Events = {e1, e2}
    NoEvent = NoEvent
    Cursors = {0, 1}
    MaxGeneration = 3
    MaxAttempts = 1
    MaxTries = 1
    StageLease = 1
    CollectionLease = 2
    JobTimeout = 1
    InProgressGrace = 1
    ResultTTL = 3
    MaxFaults = 0
SYMMETRY Symmetry
CHECK_DEADLOCK FALSE
INVARIANTS
    LeaseHolderUnsettled
    LeaseLostToStaleCrawlOnly
    StatusFollowsStage
PROPERTIES
    CursorMovedByHolder
    OvertakenStoresNothing
    LateRunFails
