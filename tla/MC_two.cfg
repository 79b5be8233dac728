CONSTANTS
    Schedules = {1, 2}
    Kind <- WatchAndCron
    Every <- EveryTwo
    Observe = {1}
    Planted = {1}
    MaxTime = 3
    MaxPerTick = 2
    KeepPerSchedule = 1
    MaxReady = 1
    MaxCrashes = 1
    MaxFaults = 0
    MaxEscapes = 1
SPECIFICATION Spec
INVARIANTS
    NoOverlap
    FiredWasQueued
PROPERTY
    OnlyEnabledAdvances
