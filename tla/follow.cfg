SPECIFICATION Spec
CONSTANTS
    Chunk = 2
    MaxDst = 4
    BufSize = 1
    MaxOld = 1
    MaxStream = 6
    MaxFiles = 3
INVARIANT ReadsInOrder
PROPERTY CatchesUp
CHECK_DEADLOCK FALSE
