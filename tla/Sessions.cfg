SPECIFICATION Spec
CONSTANTS
    t1 = t1
    t2 = t2
    w1 = w1
    w2 = w2
    Tabs = {t1, t2}
    Writes = {w1, w2}
    TabOf <- OneTabWrites
    MaxTokens = 3
    MaxLogins = 1
CONSTRAINT LastTokenForOneWrite
SYMMETRY Symmetry
CHECK_DEADLOCK FALSE
INVARIANTS
    AppliedAtMostOnce
    RefusedOnlyIfDisturbed
    WaitersHaveRefresh
PROPERTIES
    EndedSessionsStayEnded
