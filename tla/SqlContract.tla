---------------------------- MODULE SqlContract -----------------------------
(***************************************************************************)
(* The two Solidity contracts behind the Ethereum and Hedera adapters,     *)
(* adapters/contracts/ethereum/SqlContract.sol and                         *)
(* adapters/contracts/hedera/SQLHederaContract.sol. They insert, update and*)
(* select alike and delete differently: one blanks a record where it is,   *)
(* the other moves the last record into its place.                         *)
(*                                                                         *)
(* A record's arrays fields and values, which insertRecord requires to be  *)
(* of the same length, are one sequence of cells [field, value]; a field   *)
(* may occur in it more than once. The loops over the records of a table   *)
(* and over the cells of a record are steps of their own, because updates  *)
(* and deletions change the arrays they run over. The chains execute one   *)
(* call at a time, and undo it when it runs out of gas on the way.         *)
(***************************************************************************)
EXTENDS Integers, Sequences, SequencesExt, Bags

CONSTANTS
    Tables, Fields, FieldValues,
    Rows,        \* the records that are inserted
    NoQuery,     \* no call is being executed
    MaxRecords   \* bound: a table's array grows no longer

Cell == [field: Fields, value: FieldValues]

\* The calls that loop: the cell they look for, and the one an update sets.
Queries ==
    [op: {"select", "delete"}, table: Tables, filter: Cell]
        \cup [op: {"update"}, table: Tables, filter: Cell, set: Cell]

ASSUME RowsAssumption == Rows \subseteq Seq(Cell)
ASSUME QueryAssumption == NoQuery \notin Queries
ASSUME RecordsAssumption == MaxRecords \in Nat

VARIABLES
    contract,   \* which of the two contracts this is
    tables,     \* tables: an array of records for each table
    query,      \* the call that is being executed, or NoQuery
    rowAt,      \* its loop over the records: i + 1
    cellAt,     \* its loop over the cells of that record: j + 1
    results,    \* of a select
    saved       \* the array as the call found it: what the chain restores

local == <<query, rowAt, cellAt, results, saved>>
vars == <<contract, tables, local>>

TypeOK ==
    /\ contract \in {"ethereum", "hedera"}
    /\ tables \in [Tables -> Seq(Seq(Cell))]
    /\ query \in Queries \cup {NoQuery}
    /\ rowAt \in Nat \ {0} /\ cellAt \in Nat \ {0}
    /\ results \in Seq(Seq(Cell)) /\ saved \in Seq(Seq(Cell))

Init ==
    /\ contract \in {"ethereum", "hedera"}
    /\ tables = [t \in Tables |-> <<>>]
    /\ query = NoQuery /\ rowAt = 1 /\ cellAt = 1 /\ results = <<>> /\ saved = <<>>

----------------------------------------------------------------------------
\* Mutant of insertRecord: the record is wrapped once more.
insertNested(t, record) ==
    /\ query = NoQuery /\ Len(tables[t]) < MaxRecords
    /\ tables' = [tables EXCEPT ![t] = Append(@, <<record>>)]
    /\ UNCHANGED local

insertRecord(t, record) ==
    /\ query = NoQuery /\ Len(tables[t]) < MaxRecords
    /\ tables' = [tables EXCEPT ![t] = Append(@, record)]
    /\ UNCHANGED local

Begin(q) ==
    /\ query = NoQuery
    /\ query' = q
    /\ saved' = tables[q.table]
    /\ UNCHANGED <<tables, rowAt, cellAt, results>>

----------------------------------------------------------------------------
(* Where the loops are.                                                    *)

allRecords == tables[query.table]
AtRow == query # NoQuery /\ rowAt <= Len(allRecords)
AtCell == AtRow /\ cellAt <= Len(allRecords[rowAt])

\* Mutant of Matches: the names of the fields are not compared.
MatchesAnyField(cell, filter) == cell.value = filter.value

(* The test in the inner loops: fields[j] and values[j] are the filter's.  *)
Matches(cell, filter) == cell.field = filter.field /\ cell.value = filter.value

AtMatch == AtCell /\ Matches(allRecords[rowAt][cellAt], query.filter)

Rewrite(record) == tables' = [tables EXCEPT ![query.table] = [@ EXCEPT ![rowAt] = record]]

NextCell == cellAt' = cellAt + 1 /\ UNCHANGED rowAt

EndRow ==
    /\ AtRow /\ ~AtCell
    /\ rowAt' = rowAt + 1 /\ cellAt' = 1
    /\ UNCHANGED <<tables, results>>

Pass == AtCell /\ ~AtMatch /\ NextCell /\ UNCHANGED <<tables, results>>

(* selectRecords gives the record once for each of its cells that matches. *)
(* The first of its two loops only counts how many results there will be.  *)
SelectCell ==
    /\ AtMatch /\ query.op = "select"
    /\ results' = Append(results, allRecords[rowAt])
    /\ NextCell
    /\ UNCHANGED tables

SetField(record, cell) ==
    [k \in DOMAIN record |->
        IF record[k].field = cell.field THEN [record[k] EXCEPT !.value = cell.value]
        ELSE record[k]]

(* updateRecords goes on in the record it has just changed.                *)
UpdateCell ==
    /\ AtMatch /\ query.op = "update"
    /\ Rewrite(SetField(allRecords[rowAt], query.set))
    /\ NextCell
    /\ UNCHANGED results

(* deleteRecords of the Ethereum contract: "delete" leaves a record without*)
(* fields, so that the loop over its fields ends as well.                  *)
BlankCell ==
    /\ AtMatch /\ query.op = "delete" /\ contract = "ethereum"
    /\ Rewrite(<<>>)
    /\ NextCell
    /\ UNCHANGED results

\* Mutant of SweepRow: the last record is popped and not moved here.
SweepPopsOnly ==
    /\ AtMatch /\ query.op = "delete" /\ contract = "hedera"
    /\ tables' = [tables EXCEPT ![query.table] = Front(@)]
    /\ cellAt' = 1
    /\ UNCHANGED <<rowAt, results>>

\* Mutant of SweepRow: the last record is moved, and the array not shortened.
SweepWithoutPop ==
    /\ AtMatch /\ query.op = "delete" /\ contract = "hedera"
    /\ Rewrite(Last(allRecords))
    /\ cellAt' = 1
    /\ UNCHANGED <<rowAt, results>>

(* deleteRecord of the Hedera contract leaves the inner loop, puts the last*)
(* record here and pops it there; i stays, to examine the record moved.    *)
SweepRow ==
    /\ AtMatch /\ query.op = "delete" /\ contract = "hedera"
    /\ tables' = [tables EXCEPT
                     ![query.table] = Front([@ EXCEPT ![rowAt] = Last(allRecords)])]
    /\ cellAt' = 1
    /\ UNCHANGED <<rowAt, results>>

Loop ==
    /\ EndRow \/ Pass \/ SelectCell \/ UpdateCell \/ BlankCell \/ SweepRow
    /\ UNCHANGED <<query, saved>>

End == query' = NoQuery /\ rowAt' = 1 /\ cellAt' = 1 /\ results' = <<>> /\ saved' = <<>>

Return == query # NoQuery /\ ~AtRow /\ End /\ UNCHANGED tables

(* The chain's part: a call that runs out of gas has not happened.         *)
Revert ==
    /\ query # NoQuery
    /\ tables' = [tables EXCEPT ![query.table] = saved]
    /\ End

Next ==
    /\ \/ \E t \in Tables, record \in Rows : insertRecord(t, record)
       \/ \E q \in Queries : Begin(q)
       \/ Loop
       \/ Return
       \/ Revert
    /\ UNCHANGED contract

Spec == Init /\ [][Next]_vars

----------------------------------------------------------------------------
(* The records that have fields, in whatever order, are the table's rows.  *)
RowsOf(records) ==
    LET present == {k \in DOMAIN records : records[k] # <<>>}
    IN  [row \in {records[k] : k \in present} |->
            Cardinality({k \in present : records[k] = row})]

(* What a table holds as seen from outside: a call in the midst of its     *)
(* loops has changed nothing yet.                                          *)
Committed(t) == IF query # NoQuery /\ query.table = t THEN saved ELSE tables[t]

TableRows == [t \in Tables |-> RowsOf(Committed(t))]

Table == INSTANCE ContractTable WITH rows <- TableRows

(* Both contracts keep the same bag of rows: the blanks one leaves and the *)
(* order the other loses show in no later call, an update that changes the *)
(* field it filters by changes each row once, and a delete misses no row   *)
(* and takes none that does not match, although each loops over an array   *)
(* that it changes.                                                        *)
ImplementsTable == Table!TableSpec

(* A select finds the rows of the table with the value and no others: not  *)
(* the blanks of deleted records, not a row whose value was updated away.  *)
SelectFindsRows ==
    query # NoQuery /\ query.op = "select" /\ ~AtRow =>
       Range(results) = {row \in DOMAIN RowsOf(saved) : Table!Has(row, query.filter)}

(* The loops end: each round leaves fewer records to look at, or as many   *)
(* and fewer cells of this one, also where it moves records about.         *)
RowsLeft == Len(allRecords) + 1 - rowAt
CellsLeft == IF AtCell THEN Len(allRecords[rowAt]) + 1 - cellAt ELSE 0

EveryRoundGetsOn ==
    [][query # NoQuery /\ query' = query =>
          \/ RowsLeft' \in 0..(RowsLeft - 1)
          \/ RowsLeft' = RowsLeft /\ CellsLeft' \in 0..(CellsLeft - 1)]_vars
=============================================================================
