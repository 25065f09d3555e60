SPECIFICATION FairSpec
CONSTANTS
    Runs = {r1}
    FileRuns = {f1}
    NoRun = NoRun
    Events = {e1, e2}
    NoEvent = NoEvent
    Cursors = {0}
    MaxGeneration = 3
    MaxAttempts = 2
    MaxTries = 2
    StageLease = 1
    CollectionLease = 2
    JobTimeout = 1
    InProgressGrace = 1
    ResultTTL = 3
    MaxFaults = 1
CHECK_DEADLOCK FALSE
INVARIANTS
    UnsettledRunIsInOutbox
PROPERTIES
    CompletedStageIsKept
    RunsFollowLedger
    RunsSettle
