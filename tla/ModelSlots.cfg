SPECIFICATION FairSpec
CONSTANTS
    r1 = r1
    Requests = {r1, r2, r3}
    NoRequest = NoRequest
    SlotCount = 2
    ApiTimeout = 1
    WorkerTimeout = 2
    Timeout <- MCTimeout
    Grace = 2
    Slack = 1
    MaxLosses = 1
CHECK_DEADLOCK FALSE
PROPERTIES
    ImplementsCap
    SlotsComeBack
