SPECIFICATION McSpec
CONSTANTS
    BufferSize = 10
    ProduceCount = 20
    ConsumeCount = 20
    Schemes = {"single", "strict", "shm", "ring"}
    RingPlaces = 5
    RingItems = 10
    MaxTyped = 4
    Guests = {"g1", "g2", "g3"}
    Goers = {"g1", "g2"}
    Sockets = {4, 5}
    AnswerRoom = 1
    MaxAsked = 2
INVARIANTS
    ItemsInOrder
    SleeperIsWoken
    HandOverInOrder
PROPERTIES
    CondBothEnd
    EveryLineIsReported
    SemProgramEnds
    ClientIsAnswered
CHECK_DEADLOCK FALSE
