CONSTANTS
    MaxTurns = 2
    Judge = FALSE
    MaxGoals = 2
    MaxCrashes = 1
    MaxFaults = 1
    MaxEscapes = 1
SPECIFICATION FairSpec
INVARIANTS
    HaltHonoured
    NewestOnRecord
PROPERTY
    GoalSettles
