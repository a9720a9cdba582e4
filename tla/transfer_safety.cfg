SPECIFICATION Spec
CONSTANTS
    HdrLen = 2
    Chunk = 2
    SockBuf = 3
    Cuts <- AnyCut
    Resets = TRUE
    DiskSizes <- Changing
    CanGrow = TRUE
    ShortSends = TRUE
    Crashes = TRUE
    Garbage <- Stack
    DiskMayFail = TRUE
    StreamBuf = 1
    ClientCrashes = TRUE
INVARIANTS
    StreamInOrder
    CleanSendIsComplete
    CleanReceiveIsExact
    OutputInOrder
    SpinHasCause
    IInv
CHECK_DEADLOCK FALSE
