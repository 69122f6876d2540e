\* Up to three records of two fields and two values, in either Solidity
\* contract; four transactions on two Fabric tables.
SPECIFICATION MCSpec
CONSTANTS
    a = a
    b = b
    x = x
    y = y
    n = n
    m = m
    Tables = {t1}
    Fields = {a, b}
    FieldValues = {x, y}
    Rows <- MCRows
    NoQuery = NoQuery
    MaxRecords = 3
    Namespaces = {n, m}
    FieldNames = {a, b}
    Texts = {x, y}
    NullWhere = NullWhere
    AstWhere = AstWhere
    Calls <- MCCalls
    Txs = {tx1, tx2, tx3, tx4}
    Deleted = Deleted
    NoCall = NoCall
SYMMETRY MCSymmetry
INVARIANTS
    TypeOK
    SelectFindsRows
    FabricTypeOK
PROPERTIES
    ImplementsTable
    EveryRoundGetsOn
    ImplementsKeyedTable
CHECK_DEADLOCK FALSE
