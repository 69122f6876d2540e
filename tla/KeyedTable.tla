----------------------------- MODULE KeyedTable -----------------------------
(***************************************************************************)
(* What the Fabric contract's tables are to those who use it: records      *)
(* under the values they were inserted with. Each call takes effect at one *)
(* moment, on the records there are at that moment, or not at all. A record*)
(* keeps its key when it is updated, so that to insert the same values     *)
(* again replaces it.                                                      *)
(***************************************************************************)
EXTENDS FabricRecords

VARIABLE rows   \* from the keys there are to their records

KeyedTypeOK == DOMAIN rows \subseteq Key /\ \A k \in DOMAIN rows : rows[k] \in Record

Chosen(table, where) ==
    {k \in DOMAIN rows : k[1] = table /\ Holds(where, rows[k])}

KeyedInit == rows = <<>>

InsertRow(table, row) ==
    rows' = [k \in DOMAIN rows \cup {KeyOf(table, row)} |->
                IF k = KeyOf(table, row) THEN RecordOf(row) ELSE rows[k]]

UpdateRows(table, row, where) ==
    rows' = [k \in DOMAIN rows |->
                IF k \in Chosen(table, where) THEN Overlaid(rows[k], row) ELSE rows[k]]

DeleteRows(table, where) ==
    rows' = [k \in DOMAIN rows \ Chosen(table, where) |-> rows[k]]

KeyedNext ==
    \E c \in Calls :
       \/ c.op = "insert" /\ InsertRow(c.table, c.row)
       \/ c.op = "update" /\ UpdateRows(c.table, c.row, c.where)
       \/ c.op = "delete" /\ DeleteRows(c.table, c.where)

KeyedSpec == KeyedInit /\ [][KeyedNext]_rows
=============================================================================
