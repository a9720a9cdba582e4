SPECIFICATION Spec
CONSTANTS
    Runs = {r1, r2, r3}
    Zero = Zero
    Old = Old
    TokenLen = 3
SYMMETRY RunSymmetry
INVARIANTS
    FileHoldsOneToken
    TokenIsWhole
    LastTokenIsUsed
PROPERTIES
    SavedTokenIsKept
CHECK_DEADLOCK FALSE
