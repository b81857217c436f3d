SPECIFICATION McSpec
CONSTANTS
    HeadLen = 2
    BuffSize = 2
    SendRoom = 3
    Streams <- McStreams
    PeerEnds = {"fin", "reset", "abort"}
    FieldLen = 2
    LenMod = 7
    LongestBody = 5
    Inputs <- McInputs
INVARIANTS
    PipelineInOrder
    NoEdgeIsLost
    ShownIsTyped
PROPERTIES
    StopIsSeen
    EchoSpec
    EveryLineIsAnswered
CHECK_DEADLOCK FALSE
