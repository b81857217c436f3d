SPECIFICATION Spec
CONSTANTS
    Conns <- McConns
    Total <- McTotal
    Fds = {4, 5, 6}
    ServerFd = 3
    FdLimits = {1, 3}
    MaxClients = 2
    BufferSize = 2
    SendRoom = 1
    PeerEnds <- McPeerEnds
INVARIANTS
    SlotsMatchTable
PROPERTIES
    EndFreesSlot
    EchoSpec
CHECK_DEADLOCK FALSE
