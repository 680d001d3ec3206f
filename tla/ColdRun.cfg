SPECIFICATION Spec
CONSTANTS
    None = None
    MaxTicks = 1
    MaxAttempts = 1
    MaxFaults = 2
    MaxCancels = 2
INVARIANTS
    TypeOK
    ChildOwned
    SealedIsAccounted
PROPERTIES
    RunEnds
CHECK_DEADLOCK FALSE
