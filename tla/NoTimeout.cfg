\* The event loop is fair, the backend need not answer.
SPECIFICATION FairSpec
CONSTANTS
    Requests = {r1}
    Statements <- OneRead
    Parse <- MCParse
    ParseError = ParseError
    Lower <- MCLower
    Initialised <- MCInitialised
    DefaultTtl <- MCDefaultTtl
    Keys <- MCKeys
    Ttls <- MCTtls
    Values <- MCValues
    MaxVersion = 3
    MaxLookups = 0
    MaxSize = 2
    StartTime = 1
    MaxTime = 2
    NoValue = NoValue
    NoStatement = NoStatement
    Ack = Ack
    Failure = Failure
PROPERTY EveryCallEnds
CHECK_DEADLOCK FALSE
