SPECIFICATION HashMapSpec
CONSTANTS
    StrKeys <- McStrKeys
    IntKeys <- McIntKeys
    HashStr <- McHashStr
    HashInt <- McHashInt
    Values = {"u", "v"}
    NULL = NULL
    Buckets = 2
    MaxBuckets = 8
INVARIANTS
    MixedKeysWork
CHECK_DEADLOCK FALSE
