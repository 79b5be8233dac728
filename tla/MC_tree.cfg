CONSTANTS
    Ceiling = 4
    Requests = {2, 9}
    MaxTurn = 2
    MaxTools = 1
    MaxDepth = 2
    MaxBatch = 2
    MaxRuns = 4
SPECIFICATION FairSpec
INVARIANT
    OverrunBounded
PROPERTIES
    CancelStops
    TreeEnds
CHECK_DEADLOCK FALSE
