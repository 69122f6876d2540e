\* An INSERT of two columns.
SPECIFICATION Spec
CONSTANTS
    Requests = {r1}
    Statements <- OneInsert
    Parse <- MCParse
    ParseError = ParseError
    Lower <- MCLower
    Initialised <- MCInitialised
    DefaultTtl <- MCDefaultTtl
    Keys <- MCKeys
    Ttls <- MCTtls
    Values <- MCValues
    MaxVersion = 3
    MaxLookups = 0
    MaxSize = 2
    StartTime = 1
    MaxTime = 1
    NoValue = NoValue
    NoStatement = NoStatement
    Ack = Ack
    Failure = Failure
INVARIANT InsertValuesAreAnArray
CHECK_DEADLOCK FALSE
