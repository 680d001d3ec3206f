SPECIFICATION Spec
CONSTANTS
    Loop = loop1
    LoopStop = loopStop
    OperatorStops = {s1}
    Heats = {0, 1}
    NoReservation = None
    MaxGeneration = 1
INVARIANTS
    RetryOutlivesMarkFirstCrack
CHECK_DEADLOCK FALSE
