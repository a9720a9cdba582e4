SPECIFICATION FairSpec
CONSTANTS
    p1 = p1
    p2 = p2
    Pids <- TwoPids
    MaxBirths = 2
INVARIANTS
    StopsOnlyAfterIt
    RowsFollowIt
    CsvOfLast
PROPERTIES
    StopsAfterIt
    FindsIt
CHECK_DEADLOCK FALSE
