SPECIFICATION FairSpec
CONSTANTS
    w1 = w1  w2 = w2  e1 = e1  e2 = e2  c1 = c1
    p = p  q = q
    Threads = {w1, w2, e1, c1}
    Names = {p, q}
    Trunc <- ShortNames
    Program <- Controlling
    MaxCalls <- CallsControl2
    InitFlags <- ActiveGlobal
    DS_MAX_POINT_COUNT = 2
    NoThread = NoThread
    NoName = NoName
INVARIANTS
    AssertionHolds
    NblockedCoversSections
    WaitNotLost
    UniqueNames
PROPERTIES
    DisabledErrsOut
    DeactivatedErrsOut
CHECK_DEADLOCK FALSE
