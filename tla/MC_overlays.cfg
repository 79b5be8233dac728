CONSTANTS
    Edits = {"x", "y"}
    TweakCap = 1
    MaxExps = 2
    MaxRuns = 1
    MaxVersions = 2
    MaxChanges = 2
    MaxSetbacks = 1
SPECIFICATION BrainSpec
INVARIANTS
    AcceptedIsStored
    ExperimentEvidence
CHECK_DEADLOCK FALSE
