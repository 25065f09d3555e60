SPECIFICATION FairSpec
CONSTANTS
    Contents = {c1}
    Files = {f1}
    NoFile = NoFile
    Events = {e1}
    NoEvent = NoEvent
    MaxGeneration = 1
    MaxTries = 2
    JobTimeout = 1
    ParserTimeout = 1
    FileLease = 2
    Grace = 4
    InProgressGrace = 1
    ResultTTL = 4
    MaxFaults = 0
CHECK_DEADLOCK FALSE
PROPERTIES
    RunningFileRunSettles
