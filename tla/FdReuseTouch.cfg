SPECIFICATION Spec
CONSTANTS
    Conns = {c1, c2, c3}
    Fds = {fd1}
    None = None
    MaxRequests = 1
SYMMETRY McSymmetry
INVARIANTS
    OldSessionTouchesNoOther
CHECK_DEADLOCK FALSE
