SPECIFICATION FairSpec
CONSTANTS
    HdrLen = 2
    Chunk = 2
    SockBuf = 3
    Cuts <- AnyCut
    Resets = TRUE
    DiskSizes <- Removable
    CanGrow = FALSE
    ShortSends = TRUE
    Crashes = TRUE
    Garbage <- Stack
    DiskMayFail = TRUE
    StreamBuf = 1
    ClientCrashes = TRUE
PROPERTIES
    TransmitShrinks
    ServerEnds
    ClientEndsOrSpins
CHECK_DEADLOCK FALSE
