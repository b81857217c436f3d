SPECIFICATION Spec
CONSTANTS
    Programs = {"blocking", "select", "poll", "epoll", "epoll_et"}
    Conns <- McConns
    Total <- McTotal
    PeerEnds <- McPeerEnds
    SendRoom = 1
    BufferSize = 2
    MaxClients = 2
    FdLimits = {1, 3}
INVARIANTS
    EchoOrLoss
PROPERTIES
    EventsAreHandled
CHECK_DEADLOCK FALSE
