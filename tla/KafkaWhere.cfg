\* A SELECT ... WHERE as the interpreter hands it over.
SPECIFICATION Spec
CONSTANTS
    Selects = {s1}
    Inserts = {i1}
    Topics = {t1}
    p1 = p1
    p2 = p2
    Payloads = {p1, p2}
    Wheres <- AstFilter
    NoWhere = NoWhere
    NoMessage = NoMessage
    MaxMessages = 1
INVARIANT WhereIsApplied
CHECK_DEADLOCK FALSE
