CONSTANTS
    Posted = {"admin"}
    Called = {"agent"}
    Schedules <- MCSchedules
    Plan <- MCPlan
    Stubs <- MCStubs
    Containers = {"boxed"}
    SuiteCap = 2
    CaseCap = 2
    LogSize = 2
    Faults = {"degraded", "unfit", "raise", "down", "store", "tick"}
    MaxStarts = 2
    MaxPeriods = 3
    MaxMishaps = 1
SPECIFICATION FairSpec
INVARIANTS
    OneSuite
    SummaryIsRecorded
    AloneVerdictsRight
    OncePerInterval
PROPERTY
    SuitesEnd
CHECK_DEADLOCK FALSE
