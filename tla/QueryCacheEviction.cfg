\* Four keys in a cache of three, one time to live.
SPECIFICATION CacheSpec
CONSTANTS
    Keys = {k1, k2, k3, k4}
    Values = {v1}
    NoValue = NoValue
    MaxSize = 3
    Ttls <- OneTtl
    StartTime = 1
    MaxTime = 3
    MaxLookups = 0
PROPERTY EvictsOldest
CHECK_DEADLOCK FALSE
