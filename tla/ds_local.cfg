SPECIFICATION Spec
CONSTANTS
    w1 = w1  w2 = w2  e1 = e1  e2 = e2  c1 = c1
    p = p  q = q
    Threads = {w1, w2, e1, c1}
    Names = {p, q}
    Trunc <- ShortNames
    Program <- Controlling
    MaxCalls <- CallsControl2
    InitFlags <- Local
    DS_MAX_POINT_COUNT = 1
    NoThread = NoThread
    NoName = NoName
INVARIANTS
    TypeOK
    SyncwaitHeld
    ExecNotLost
CHECK_DEADLOCK FALSE
