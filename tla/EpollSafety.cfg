SPECIFICATION Spec
CONSTANTS
    c1 = c1
    c2 = c2
    t1 = t1
    t2 = t2
    Pipe = Pipe
    Acceptor = Acceptor
    None = None
    Conn <- MCConn
    Callers <- TwoCallers
    EarlyCallers <- OneCaller
    Echoing <- AllEcho
    Failures <- AnyFailure
    MaxEvents = 3
    MaxInput = 1
    MaxPipe = 4
INVARIANTS
    TypeOK
    PollsetMatches
    PendingIsRegistered
    NoIdleManager
    BorrowedManagerLives
    NoHalfClosedPipe
PROPERTIES
    NoAcceptAfterShutdown
    NoStaleDelivery
