SPECIFICATION Spec
CONSTANTS
    h1 = h1
    h2 = h2
    NoTime = NoTime
    Handle <- OneHandle
    Removable <- NoHandle
    MaxOwners = 1
    MaxTimeouts = 2
    Horizon = 2
    IntRange = 8
    Distinct = FALSE
    Reuse = FALSE
INVARIANTS
    NoneLost
