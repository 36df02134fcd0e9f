SPECIFICATION Spec
CONSTANTS
    w1 = w1  w2 = w2  e1 = e1  e2 = e2  c1 = c1
    p = p  q = q
    Threads = {w1, w2, e1, c1}
    Names = {p}
    Trunc <- ShortNames
    Program <- Switching
    MaxCalls <- CallsControl2
    InitFlags <- Local
    DS_MAX_POINT_COUNT = 2
    NoThread = NoThread
    NoName = NoName
INVARIANTS
    AssertionHolds
CHECK_DEADLOCK FALSE
