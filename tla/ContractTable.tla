--------------------------- MODULE ContractTable ----------------------------
(***************************************************************************)
(* What a table kept by a contract is, whichever chain it lives on: a bag  *)
(* of rows. An update changes every row that has the filtered cell, a      *)
(* delete removes every such row and no other; the rows have no order.     *)
(***************************************************************************)
EXTENDS Integers, Sequences, Bags, FiniteSets

CONSTANTS Tables, Cell, Rows

VARIABLE rows   \* a bag of rows for each table

\* A row without cells can be told from no row at all by nobody.
NoRow == <<>>

Has(row, cell) == \E j \in DOMAIN row : row[j] = cell

\* row with its cells of cell's field set to cell's value.
With(row, cell) ==
    [j \in DOMAIN row |-> IF row[j].field = cell.field THEN cell ELSE row[j]]

Changed(row, cell, filter) == IF Has(row, filter) THEN With(row, cell) ELSE row

\* The rows of a bag one by one, those that are alike numbered.
Instances(bag) == UNION {{row} \X (1..bag[row]) : row \in DOMAIN bag}

TableInit == rows = [t \in Tables |-> EmptyBag]

InsertRow(t, row) ==
    rows' = [rows EXCEPT ![t] = IF row = NoRow THEN @ ELSE @ (+) SetToBag({row})]

Updated(bag, cell, filter) ==
    [new \in {Changed(row, cell, filter) : row \in DOMAIN bag} |->
        Cardinality({one \in Instances(bag) : Changed(one[1], cell, filter) = new})]

UpdateRows(t, cell, filter) ==
    rows' = [rows EXCEPT ![t] = Updated(@, cell, filter)]

Kept(bag, filter) ==
    [row \in {r \in DOMAIN bag : ~Has(r, filter)} |-> bag[row]]

DeleteRows(t, filter) ==
    rows' = [rows EXCEPT ![t] = Kept(@, filter)]

TableNext ==
    \E t \in Tables :
       \/ \E row \in Rows : InsertRow(t, row)
       \/ \E cell, filter \in Cell : UpdateRows(t, cell, filter)
       \/ \E filter \in Cell : DeleteRows(t, filter)

TableSpec == TableInit /\ [][TableNext]_rows
=============================================================================
