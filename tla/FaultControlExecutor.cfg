SPECIFICATION FairSpec
CONSTANTS
    Controls = {r1}
    Closers = {d1}
    Stops = {s1, s2}
    Live = live
    None = None
INVARIANTS
    TypeOK
    OneCallAheadOfStop
    TraceIsHonest
PROPERTIES
    NoWriteBehindStop
    StopResolved
CHECK_DEADLOCK FALSE
