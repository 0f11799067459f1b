SPECIFICATION Spec
CONSTANTS
    c1 = c1
    c2 = c2
    t1 = t1
    t2 = t2
    Pipe = Pipe
    Acceptor = Acceptor
    None = None
    Conn <- MCConn
    Callers <- OneCaller
    EarlyCallers <- NoCaller
    Echoing <- AllEcho
    Failures <- NoFailure
    MaxEvents = 4
    MaxInput = 1
    MaxPipe = 4
INVARIANTS
    DrainedBeforeExit
