\* Two SELECTs and an INSERT over two topics, two messages.
SPECIFICATION Spec
CONSTANTS
    Selects = {s1, s2}
    Inserts = {i1}
    Topics = {t1, t2}
    p1 = p1
    p2 = p2
    Payloads = {p1, p2}
    Wheres <- Filters
    NoWhere = NoWhere
    NoMessage = NoMessage
    MaxMessages = 2
INVARIANTS
    TypeOK
    FirstMatchAnswers
    OnlyAskedTopics
CHECK_DEADLOCK FALSE
