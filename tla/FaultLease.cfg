SPECIFICATION Spec
CONSTANTS
    Stops = {s1}
    Terminals = {t1}
    NoGeneration = NoGeneration
    NoRow = NoRow
    MaxGeneration = 2
    MaxRestarts = 1
    MaxLateReads = 0
CHECK_DEADLOCK FALSE
INVARIANTS
    TypeOK
    ClosedIsDurable
PROPERTIES
    StartFollowsResolution
    AcknowledgedOnlyResolved
    LeaseNeverRegresses
