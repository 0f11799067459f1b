SPECIFICATION Spec
CONSTANTS
    c1 = c1
    c2 = c2
    Updater = Updater
    Acceptor = Acceptor
    Backends <- BothBackends
    Conn <- MCConn
    HandedOver <- OneConn
    Talking <- OneTalker
    RingDepth = 8
    MayFail <- Failures
    MaxInput = 1
    MaxFaults = 1
    MaxEvents = 3
INVARIANTS
    MaskIsArmed
    OneReader
PROPERTIES
    ShutdownEndsLoop
    HandedOverIsAdded
CHECK_DEADLOCK FALSE
