SPECIFICATION FairSpec
CONSTANTS
    Contents = {c1}
    Files = {f1}
    NoFile = NoFile
    Events = {e1, e2}
    NoEvent = NoEvent
    MaxGeneration = 2
    MaxTries = 2
    JobTimeout = 2
    ParserTimeout = 1
    FileLease = 3
    Grace = 4
    InProgressGrace = 1
    ResultTTL = 4
    MaxFaults = 1
CHECK_DEADLOCK FALSE
INVARIANTS
    RawFileKept
    PendingRunInOutbox
PROPERTIES
    OrphansAreRemoved
    PendingFileRunIsClaimed
    DeletedStaysDeleted
    NothingRevivedAfterPurge
