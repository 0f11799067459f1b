SPECIFICATION Spec
CONSTANTS
    Endpoints = {e1}
    Drivers <- Ring
    Policies <- Fitting
    InitialPolicies <- Largest
    Sizes <- OneSize
    MaxReads = 2
    MaxWrites = 1
    MaxFetches = 1
    MaxEnqueued = 8
    IdleProduce = "ok"
    Reordering = TRUE
    MayFail = {}
    MaxFaults = 0
    MaxArrived = 2
    MaxProduced = 2
    MaxReplies = 2
    MaxTimeouts = 0
PROPERTIES
    OutputAtMostOnce
