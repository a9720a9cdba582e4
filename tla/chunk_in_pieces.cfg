SPECIFICATION Spec
CONSTANTS
    HdrLen = 2
    Chunk = 2
    SockBuf = 3
    Cuts <- AnyCut
    Resets = FALSE
    DiskSizes <- Fixed5
    CanGrow = FALSE
    ShortSends = FALSE
    Crashes = FALSE
    Garbage <- Stack
    DiskMayFail = FALSE
    StreamBuf = 1
    ClientCrashes = FALSE
INVARIANTS
    WholeChunkWritten
CHECK_DEADLOCK FALSE
