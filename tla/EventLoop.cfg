SPECIFICATION Spec
CONSTANTS
    NumThreads = 2
    Fds <- McFds
    FdLimit = 2
    MaxRequests <- McSilent
    MaxSignals = 1
INVARIANTS
    TypeOK
    NoLostWakeup
    Custody
    JoinedMeansStopped
    AcceptUntilEagain
CHECK_DEADLOCK FALSE
