\* Three concurrent clients over one table, a cache of one entry.
SPECIFICATION Spec
CONSTANTS
    Requests = {r1, r2, r3}
    Statements <- CacheStatements
    Parse <- MCParse
    ParseError = ParseError
    Lower <- MCLower
    Initialised <- MCInitialised
    DefaultTtl <- MCDefaultTtl
    Keys <- MCKeys
    Ttls <- MCTtls
    Values <- MCValues
    MaxVersion = 3
    MaxLookups = 0
    MaxSize = 1
    StartTime = 1
    MaxTime = 3
    NoValue = NoValue
    NoStatement = NoStatement
    Ack = Ack
    Failure = Failure
INVARIANTS
    TypeOK
    CachedAnswersRepeatReads
    AnswersFromRoutedStore
    UncachedReadsAreCurrent
    StatsAccountForRequests
    WritesHappenOnce
PROPERTIES
    OnlySettledReadsAreStored
    ImplementsService
SYMMETRY RequestSymmetry
CHECK_DEADLOCK FALSE
