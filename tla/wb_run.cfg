SPECIFICATION FairSpec
CONSTANTS
    Args <- AllLines
    Faults = {"open", "fallocate", "pthread_create", "malloc", "lseek", "calloc", "write", "short write", "sync"}
    MIN_BUFSZ = 2
    MAX_BUFSZ = 5
    MIN_INCR = 1
    MIN_NINCR = 1
    MAX_NINCR = 3
INVARIANTS
    TypeOK
    AssertionsHold
    SyncedBeforeNextWrite
    UnsyncedIsRequested
    RequestSeen
    CompleteIfOk
PROPERTIES
    Terminates
CHECK_DEADLOCK FALSE
