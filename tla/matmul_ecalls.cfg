SPECIFICATION Spec
CONSTANTS
    N = 2
    Modulus = 8
    Inputs <- SomeMatrices
INVARIANTS
    CellsAreSums
PROPERTIES
    FollowsPlain
CHECK_DEADLOCK FALSE
