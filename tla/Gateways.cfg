\* Three requests of two clients over all gateways; one limiter lets a client
\* pass once in two ticks, the other once in three.
SPECIFICATION GatewaysSpec
CONSTANTS
    Requests = {r1, r2, r3}
    Statements <- MCStatements
    Parse <- MCParse
    ParseError = ParseError
    Lower <- MCLower
    Initialised <- MCInitialised
    DefaultTtl <- MCDefaultTtl
    Keys <- MCKeys
    Ttls <- MCTtls
    Values <- MCValues
    MaxVersion = 1
    MaxLookups = 0
    MaxSize = 1
    StartTime = 1
    MaxTime = 3
    NoValue = NoValue
    NoStatement = NoStatement
    Ack = Ack
    Failure = Failure
    Clients = {c1, c2}
    Limit <- MCLimit
    WindowMs <- MCWindowMs
    Sanitized <- MCSanitized
    RefusedTexts <- MCRefusedTexts
    NotAnObject = NotAnObject
    NoToken = NoToken
    Sent <- MCSent
    NoSent = NoSent
    NoClient = NoClient
INVARIANTS
    GatewayTypeOK
    AnswersTellOutcome
    LimitsAreKept
    RefusedOnlyAtLimit
    NoRequestIsLeft
PROPERTIES
    ImplementsInterpreter
SYMMETRY MCSymmetry
CHECK_DEADLOCK FALSE
