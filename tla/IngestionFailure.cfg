SPECIFICATION Spec
CONSTANTS
    Runs = {r1}
    FileRuns = {}
    NoRun = NoRun
    Events = {e1, e2}
    NoEvent = NoEvent
    Cursors = {0}
    MaxGeneration = 3
    MaxAttempts = 2
    MaxTries = 2
    StageLease = 1
    CollectionLease = 2
    JobTimeout = 1
    InProgressGrace = 1
    ResultTTL = 3
    MaxFaults = 1
SYMMETRY Symmetry
CHECK_DEADLOCK FALSE
PROPERTIES
    FailureIsRecorded
