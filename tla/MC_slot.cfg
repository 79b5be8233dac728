CONSTANTS
    Callers = {a, b}
    AutoRestart = TRUE
    MaxRestarts = 1
    StartsOverlap = FALSE
    MaxSpawns = 6
    MaxCalls = 5
    MaxFaults = 3
    MaxSlow = 1
    MaxTorn = 1
SPECIFICATION SlotSpec
INVARIANTS
    OneServer
    LastCallWins
PROPERTY
    ComesUp
CHECK_DEADLOCK FALSE
