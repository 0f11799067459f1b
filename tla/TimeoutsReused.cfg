SPECIFICATION Spec
CONSTANTS
    h1 = h1
    h2 = h2
    NoTime = NoTime
    Handle <- OneHandle
    Removable <- OneHandle
    MaxOwners = 2
    MaxTimeouts = 2
    Horizon = 2
    IntRange = 8
    Distinct = TRUE
    Reuse = TRUE
PROPERTIES
    RightManagerCalled
