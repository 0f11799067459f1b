SPECIFICATION Spec
CONSTANTS
    Policies <- MCPolicies
    Chunks <- TwoSizes
    MaxReads = 2
    MaxWrites = 1
    MaxFetches = 2
    MaxEnqueued = 3
    Word = 16
    DisabledBy <- EachItsOwn
    WholeBuffers = TRUE
    MaxArrived = 4
    MaxProduced = 4
    MaxReplies = 1
INVARIANTS
    TypeOK
    RoomToRead
    QueueMatches
    OutputScheduled
PROPERTIES
    OutputInOrder
    InputInOrder
    BothServed
