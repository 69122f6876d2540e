--------------------------- MODULE FabricRecords ----------------------------
(***************************************************************************)
(* The records of adapters/contracts/hyperledger/sqlContract.js and their  *)
(* keys: what insert and update make of lists of field names and values,   *)
(* and what the filter of select, update and delete takes. Pure operators. *)
(***************************************************************************)
EXTENDS Integers, Sequences

CONSTANTS
    Namespaces,  \* tables: "Table name (namespace in Hyperledger)"
    FieldNames,
    Texts,       \* values, which are texts whatever they were
    NullWhere,   \* the filter of a statement without WHERE: JSON "null"
    AstWhere,    \* any syntax tree: it has keys whose values are objects
    Calls        \* what is submitted: records [op, table, row, where]

\* The arguments fields and values, split at their commas.
Row == [fields: Seq(FieldNames), values: Seq(Texts)]

Record == UNION {[F -> Texts] : F \in SUBSET FieldNames}

\* A filter that names fields and values is a record itself.
Where == Record \cup {NullWhere, AstWhere}

\* A call has all arguments; insert does not look at where, delete not at row.
FabricCall == [op: {"select", "insert", "update", "delete"},
               table: Namespaces, row: Row, where: Where]

ASSUME WhereAssumption == NullWhere \notin Record /\ AstWhere \notin Record
ASSUME CallsAssumption == Calls \subseteq FabricCall

\* createCompositeKey: the table and all values of the row.
Key == Namespaces \X Seq(Texts)

KeyOf(table, row) == <<table, row.values>>

Given(row) == {row.fields[i] : i \in DOMAIN row.fields}

\* Of a name given twice the last one counts; a name without a value is
\* undefined, which JSON leaves out.
Counting(row) ==
    {i \in DOMAIN row.fields \cap DOMAIN row.values :
        \A j \in DOMAIN row.fields : row.fields[j] = row.fields[i] => j <= i}

RecordOf(row) ==
    [f \in {row.fields[i] : i \in Counting(row)} |->
        row.values[CHOOSE i \in Counting(row) : row.fields[i] = f]]

\* An update assigns the given fields in turn and keeps the others.
Overlaid(record, row) ==
    [f \in (DOMAIN record \ Given(row)) \cup DOMAIN RecordOf(row) |->
        IF f \in Given(row) THEN RecordOf(row)[f] ELSE record[f]]

\* every(): each field of the filter is in the record with that very value.
Holds(where, record) ==
    /\ where \in Record
    /\ \A f \in DOMAIN where : f \in DOMAIN record /\ record[f] = where[f]
=============================================================================
