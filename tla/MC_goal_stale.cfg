CONSTANTS
    MaxTurns = 2
    Judge = TRUE
    MaxGoals = 1
    MaxCrashes = 0
    MaxFaults = 0
    MaxEscapes = 0
SPECIFICATION Spec
INVARIANTS
    HaltSticks
