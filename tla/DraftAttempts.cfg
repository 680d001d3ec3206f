SPECIFICATION FairSpec
CONSTANTS
    Attempts = {a1}
    Procs = {main, peer}
    Main = main
    Saves = {s1, s2}
    Values = {v1, v2}
    None = None
    Lease = 4
    Confirm = 2
    ClaimLife = 2
    MaxTrouble = 1
INVARIANTS
    TypeOK
    NoDraftBesideRoast
    OneProfilePerDraft
PROPERTIES
    LiveOwnerKeepsAttempt
    AttemptsResolved
CHECK_DEADLOCK FALSE
