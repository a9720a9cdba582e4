SPECIFICATION FairSpec
CONSTANTS
    HeapMaxSize = 8
    MatrixBytes = 3
    Side = 2
    Sides <- SomeSides
    IntBytes = 2
    StateBytes = 2
    DigestBytes = 2
    Lengths <- SomeLengths
INVARIANTS
    HashIsOfMessage
CHECK_DEADLOCK FALSE
