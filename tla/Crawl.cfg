SPECIFICATION Spec
CONSTANTS
    u1 = u1
    u2 = u2
    u3 = u3
    u4 = u4
    Urls = {u1, u2, u3, u4}
    First = u1
    Webs <- AllWebs
    MaxPages = 4
    MaxDepth = 2
    MaxHops = 3
    QueueLimit = 3
SYMMETRY Symmetry
CHECK_DEADLOCK FALSE
INVARIANTS
    FindsPagesNear
PROPERTIES
    JobRunsDown
