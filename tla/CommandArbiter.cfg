SPECIFICATION FairSpec
CONSTANTS
    Writers = {w1}
    Closers = {c1, c2}
    Runners = {c1}
    Stops = {s1, s2}
    NoReservation = None
    MaxGeneration = 3
INVARIANTS
    TypeOK
    WriteEnteredOutsideStop
    CloseProofExclusive
PROPERTIES
    StopResolved
    ImplementsPort
