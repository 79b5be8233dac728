CONSTANTS
    Delegations = {1, 2}
    Newcomer <- Both
    Models <- Presets
    Slots <- ThreeSlots
    Assigned <- OwnPresets
    Port <- Ports
    Cards <- TwoCards
    Room = 5
    Need <- Needs
    Known = {"moe", "coder", "writer", "helper", "research"}
    Catalogued <- Listed
    Serving = {"helper"}
    Brain = "brain"
    Overlap = FALSE
    Mishaps = {"refuse", "exit", "slow", "late", "mute", "early", "cancel"}
    MaxMishaps = 2
SPECIFICATION FairSpec
INVARIANTS
    EvictionsAccounted
    BrainBack
PROPERTY
    DelegationEnds
    BrainSpared
    UnknownAlone
CHECK_DEADLOCK FALSE
