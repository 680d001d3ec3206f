SPECIFICATION FairSpec
CONSTANTS
    Loop = loop1
    LoopStop = loopStop
    OperatorStops = {s1, s2}
    Heats = {0, 1, 2}
    NoReservation = None
    MaxGeneration = 3
INVARIANTS
    TypeOK
    LatchedVerdictEnforced
PROPERTIES
    HeatRisesUnderControl
    StopOwnsPhase
    UsesArbiter
    FailSafeRetried
CHECK_DEADLOCK FALSE
