SPECIFICATION FairSpec
CONSTANTS
    Stops = {s1}
    Terminals = {t1}
    NoGeneration = NoGeneration
    NoRow = NoRow
    MaxGeneration = 1
    MaxRestarts = 0
    MaxLateReads = 0
CHECK_DEADLOCK FALSE
PROPERTIES
    FinalizationEnds
