SPECIFICATION FairSpec
CONSTANTS
    HdrLen = 2
    Chunk = 2
    SockBuf = 3
    Cuts <- SendCuts
    Resets = FALSE
    DiskSizes <- Fixed5
    CanGrow = FALSE
    ShortSends = FALSE
    Crashes = FALSE
    Garbage <- Stack
    DiskMayFail = FALSE
    StreamBuf = 1
    ClientCrashes = FALSE
PROPERTIES
    ImageArrives
CHECK_DEADLOCK FALSE
