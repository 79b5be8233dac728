CONSTANTS
    Calls = {"read", "fetch", "hunt", "poll", "write", "note", "check", "delegate", "todos", "badge", "jspace", "other", "ask"}
    Kind <- CallKinds
    Settings <- Every
    MaxCancels = 1
    Faults = {"clock", "stalled", "context", "error"}
SPECIFICATION FairSpec
INVARIANTS
    OpenersFirst
    OkMeansVerifiedInLoop
PROPERTY
    RunEnds
CHECK_DEADLOCK FALSE
