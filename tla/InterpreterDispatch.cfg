\* Every kind of statement on every adapter, two at a time.
SPECIFICATION Spec
CONSTANTS
    Requests = {r1, r2}
    Statements <- DispatchStatements
    Parse <- MCParse
    ParseError = ParseError
    Lower <- MCLower
    Initialised <- MCInitialised
    DefaultTtl <- MCDefaultTtl
    Keys <- MCKeys
    Ttls <- MCTtls
    Values <- MCValues
    MaxVersion = 3
    MaxLookups = 0
    MaxSize = 2
    StartTime = 1
    MaxTime = 1
    NoValue = NoValue
    NoStatement = NoStatement
    Ack = Ack
    Failure = Failure
INVARIANTS
    AnswersFromRoutedStore
    StatsAccountForRequests
    
SYMMETRY RequestSymmetry
CHECK_DEADLOCK FALSE
