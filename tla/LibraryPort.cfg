\* The port is swapped once too often on its way to bind()
\* (udp_datagram_socket.cpp:37): BoundAsAsked is violated.
SPECIFICATION Spec
CONSTANTS
    Threads = {t1, t2}
    Objects = {o1, o2}
    Slots = {s1, s2}
    Null = Null
    SelfAssigns = FALSE
    MaxReleased = 1
    Fd = {d1, d2, d3}
    Guards = {g1, g2}
    None = None
    MaxFrames = 3
    Types <- MCTypes
    Things <- MCThings
    Calls <- MCCalls
    SizeWidth = 2
    OldBytes <- MCOldBytes
    MaxDepth = 3
    MaxWritten = 4
    Known <- MCKnown
    NoShort = "none"
    Names <- MCNames
    Lines <- MCLines
    MaxOptions = 3
    FileLines <- MCFileLines
    Files <- MCFiles
    Added <- MCAdded
    MaxAdded = 1
    MaxParsed = 2
    Octets <- MCOctets
    Ports <- MCPorts
    Words <- MCWords
    MaxHops = 5
INVARIANTS
    BoundAsAsked
CHECK_DEADLOCK FALSE
