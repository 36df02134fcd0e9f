SPECIFICATION Spec
CONSTANTS
    CrcLengths = {1, 3, 4, 9, 12}
    LongSize = 8
    Plains <- MCPlains
    Texts <- MCTexts
    Rooms = {1, 2, 4, 5, 7, 8, 9}
    NsPerSec = 3
    Elapses <- MCElapses
    NIter = {1, 3}
    GrowBlk = 2
    Requests = {1, 2, 3, 6}
    MaxElem = 5
    SrcLen = 7
    Limit = 4
    Counts = {0, 2, 3, 6}
    Iovs <- MCIovs
    Values <- MCItems
    Capacities = {0, 1, 2, 3}
    MaxCalls = 3
INVARIANTS
    CrcIsRemainder
    LoadsAligned
    NoIllegalInstruction
    EncodesBase64
    DecodesBack
    AccumExact
    WholeCoversParts
    SlotsOK
    FailsOnlyAfterLoss
    VectorInBounds
    WritesInOrder
    TransferExact
    QueueTypeOK
    RingOK
PROPERTIES
    ImplementsPool
    ImplementsFifo
CHECK_DEADLOCK FALSE
