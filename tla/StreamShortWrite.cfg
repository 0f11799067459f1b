SPECIFICATION Spec
CONSTANTS
    Policies <- OnePolicy
    Chunks <- OneSize
    MaxReads = 2
    MaxWrites = 1
    MaxFetches = 2
    MaxEnqueued = 4
    Word = 16
    DisabledBy <- EachItsOwn
    WholeBuffers = FALSE
    MaxArrived = 0
    MaxProduced = 4
    MaxReplies = 0
PROPERTIES
    OutputInOrder
