SPECIFICATION Spec
CONSTANTS
    NumThreads = 2
    Fds <- McTwoFds
    FdLimit = 1
    MaxRequests <- McRequests
    MaxSignals = 1
INVARIANTS
    RequestsAccounted
PROPERTIES
    ConnectionIsServed
    RequestIsAnswered
    SignalStopsServer
    MailboxSpec
CHECK_DEADLOCK FALSE
