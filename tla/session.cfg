SPECIFICATION SessionFairSpec
CONSTANTS
    HeapMaxSize = 3
    MatrixBytes = 1
    Side = 2
    Sides <- NoLengths
    IntBytes = 2
    StateBytes = 2
    DigestBytes = 2
    Lengths <- NoLengths
    AppCalls <- SessionCalls
    Chunk = 2
    DiskSizes <- FileSizes
    Messages <- SomeMessages
    MaxInbox = 3
INVARIANTS
    PiecesInOrder
    TextAfterFile
    QuitIsHeard
    QuitWasSaid
PROPERTIES
    CallsAreEdgeCalls
    FileShrinks
    SessionEnds
CHECK_DEADLOCK FALSE
