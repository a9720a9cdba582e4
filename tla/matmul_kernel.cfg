SPECIFICATION Spec
CONSTANTS
    Cap = 5
    Sides <- OneFiveSix
    Places = 36
    Fillings <- SomeFillings
    Exact = 32
    Wide = 512
    Ulps = {1, 2, 4, 8, 16, 32, 64, 128, 256, 512, 1024, 2048, 4096, 8192}
    Junk <- SomeJunk
    Modulus = 64
INVARIANTS
    CellsAreNearest
    CellsAreAccurate
    AllOrNoneStray
PROPERTIES
    FollowsPlain
CHECK_DEADLOCK FALSE
