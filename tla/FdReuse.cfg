SPECIFICATION Spec
CONSTANTS
    Conns = {c1, c2, c3}
    Fds = {fd1, fd2}
    None = None
    MaxRequests = 1
SYMMETRY McSymmetry
INVARIANTS
    SessionsMatchTable
    RepliesStayHome
CHECK_DEADLOCK FALSE
