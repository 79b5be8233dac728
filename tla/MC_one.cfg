CONSTANTS
    Schedules = {1}
    Kind <- OnlyOnce
    Every <- EveryUnitAlone
    Observe = {}
    Planted = {}
    MaxTime = 2
    MaxPerTick = 2
    KeepPerSchedule = 1
    MaxReady = 1
    MaxCrashes = 1
    MaxFaults = 1
    MaxEscapes = 0
SPECIFICATION FairSpec
INVARIANTS
    AtMostOneStart
    ReportPostedOnce
    NoStrandedAttempt
PROPERTIES
    OneShotIsNotPaused
    QueuedWorkResolves
    PromiseKeptFairly
