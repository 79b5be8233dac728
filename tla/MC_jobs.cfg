CONSTANTS
    Starts = {1}
    Dir <- Alone
    Others = {"other"}
    Within <- Distinct
    FeedSize = 1
    Pids = {1}
    Callers = {"one", "other"}
    MaxStrangers = 1
    MaxCancels = 2
    MaxCrashes = 1
SPECIFICATION FairSpec
INVARIANTS
    SuccessIsReal
    StrangersSpared
PROPERTY
    FinishAnnounced
CHECK_DEADLOCK FALSE
