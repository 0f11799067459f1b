SPECIFICATION Spec
CONSTANTS
    Endpoints = {e1, e2}
    Drivers <- Both
    Policies <- Fitting
    InitialPolicies <- Largest
    Sizes <- OneSize
    MaxReads = 2
    MaxWrites = 1
    MaxFetches = 2
    MaxEnqueued = 3
    IdleProduce = "ok"
    Reordering = FALSE
    MayFail = {"read", "write"}
    MaxFaults = 1
    MaxArrived = 2
    MaxProduced = 1
    MaxReplies = 1
    MaxTimeouts = 1
INVARIANTS
    QueueMatches
PROPERTIES
    OutputAtMostOnce
    InputWhole
    BothServed
