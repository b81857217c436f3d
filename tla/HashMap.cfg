SPECIFICATION McSpec
CONSTANTS
    StrKeys <- McStrKeys
    IntKeys <- McIntKeys
    HashStr <- McHashStr
    HashInt <- McHashInt
    Values = {"u", "v"}
    NULL = NULL
    Buckets = 2
    MaxBuckets = 8
    Peers = {"p1", "p2", "p3"}
    Senders = {"p1", "p2"}
    Leavers = {"p1", "p2"}
    Numbers = {"n1", "n2"}
    EventCount = 2
    MaxFailures = 1
INVARIANTS
    HashMapTypeOK
    NumbersAreCurrent
    NothingIsForgotten
PROPERTIES
    MapSpec
    QueueIsServed
CHECK_DEADLOCK FALSE
