SPECIFICATION FairSpec
CONSTANTS
    Callers = {c1, c2}
    MaxGen = 3
INVARIANTS
    TypeOK
    NoChildForgotten
    OneChild
    SessionIsOwned
    NoStaleSignal
PROPERTIES
    CallsReturn
CHECK_DEADLOCK FALSE
