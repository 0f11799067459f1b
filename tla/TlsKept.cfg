SPECIFICATION Spec
CONSTANTS
    Handshakes <- Both
    Tickets = 1
    Chunks = {1}
    MaxProduced = 1
    MaxReplies = 1
    MayFail = {"client", "server"}
PROPERTIES
    PlainInOrder
    EverythingArrives
CHECK_DEADLOCK FALSE
