SPECIFICATION Spec
CONSTANTS
    h1 = h1
    h2 = h2
    NoTime = NoTime
    Handle <- MCHandle
    Removable <- OneHandle
    MaxOwners = 2
    MaxTimeouts = 3
    Horizon = 3
    IntRange = 4
    Distinct = TRUE
    Reuse = FALSE
INVARIANTS
    TypeOK
    SleepsNoLonger
    NoneLost
PROPERTIES
    AlarmsAreKept
    EveryTimeoutExpires
