\* A cache of two entries, three keys, two values, every mix of calls.
SPECIFICATION CacheSpec
CONSTANTS
    Keys = {k1, k2, k3}
    Values = {v1, v2}
    NoValue = NoValue
    MaxSize = 2
    Ttls <- MixedTtls
    StartTime = 1
    MaxTime = 3
    MaxLookups = 2
INVARIANTS
    CacheTypeOK
    SizeBounded
PROPERTY ImplementsMemo
CHECK_DEADLOCK FALSE
