SPECIFICATION Spec
CONSTANTS
    MaxQueue = 2
    ReplayBuffer = 2
    Flushers <- MCFlushers
    Tick = "tick"
    None = None
    MaxPhase = 3
    MaxFrames = 5
    MaxDrops = 2
    MaxBoot = 1
INVARIANT
    RefusedOnlyApplied
CHECK_DEADLOCK FALSE
