SPECIFICATION Spec
CONSTANTS
    HeadLen = 2
    BuffSize = 2
    SendRoom = 3
    Streams <- McStreams
    PeerEnds = {"fin", "reset", "abort"}
INVARIANTS
    NothingFreedIsUsed
CHECK_DEADLOCK FALSE
