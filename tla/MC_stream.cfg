CONSTANTS
    Clients = {c1, c2}
    BufferSize = 2
    MaxQueue = 3
    OnTimeout = FALSE
    Notice = FALSE
    MaxEvents = 4
    MaxConnects = 2
SPECIFICATION FairSpec
INVARIANTS
    NothingBufferedIsMissed
    InOrderOnce
    RunsOnlyApproved
PROPERTY
    FinishIsSeen
CHECK_DEADLOCK FALSE
