SPECIFICATION Spec
CONSTANTS
    Args <- TwoWrites
    Faults = {}
    MIN_BUFSZ = 2
    MAX_BUFSZ = 5
    MIN_INCR = 1
    MIN_NINCR = 1
    MAX_NINCR = 3
INVARIANTS
    SyncedAtExit
CHECK_DEADLOCK FALSE
