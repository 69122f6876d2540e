------------------------- MODULE SqlContractProofs --------------------------
(***************************************************************************)
(* Proofs about the Solidity contracts, for every set of tables, fields,   *)
(* values and records: their loops end, and at their end they have done to *)
(* the array what ContractTable does to a bag of rows.                     *)
(***************************************************************************)
EXTENDS SqlContract, TLAPS, FiniteSetTheorems, SequenceTheorems

----------------------------------------------------------------------------
(* The inductive invariant: what each loop has done so far.                *)

\* Record k has a cell that is the filter's, in front of where the loops are.
Seen(k) ==
    \E j \in DOMAIN saved[k] :
       /\ saved[k][j] = query.filter
       /\ k < rowAt \/ (k = rowAt /\ j < cellAt)

SelectInv ==
    /\ allRecords = saved
    /\ Range(results) = {saved[k] : k \in {l \in DOMAIN saved : Seen(l)}}

\* What is to become of the record the loops are in.
Rest(record) ==
    IF \E j \in DOMAIN record : j >= cellAt /\ record[j] = query.filter
    THEN SetField(record, query.set) ELSE record

UpdateInv ==
    /\ DOMAIN allRecords = DOMAIN saved
    /\ \A k \in DOMAIN saved :
          /\ k < rowAt => allRecords[k] = Table!Changed(saved[k], query.set, query.filter)
          /\ k = rowAt => Rest(allRecords[k]) =
                             Table!Changed(saved[k], query.set, query.filter)
          /\ k > rowAt => allRecords[k] = saved[k]

PassedBy(record) == \A j \in DOMAIN record : j < cellAt => record[j] # query.filter

BlankInv ==
    /\ DOMAIN allRecords = DOMAIN saved
    /\ \A k \in DOMAIN saved :
          /\ k < rowAt => allRecords[k] = IF Table!Has(saved[k], query.filter)
                                          THEN <<>> ELSE saved[k]
          /\ k = rowAt => \/ allRecords[k] = saved[k] /\ PassedBy(saved[k])
                          \/ allRecords[k] = <<>> /\ Table!Has(saved[k], query.filter)
          /\ k > rowAt => allRecords[k] = saved[k]

Places(records, row) == {k \in DOMAIN records : records[k] = row}

SweepInv ==
    /\ Range(allRecords) \subseteq Range(saved)
    /\ \A row \in Range(saved) : ~Table!Has(row, query.filter) =>
          Cardinality(Places(allRecords, row)) = Cardinality(Places(saved, row))
    /\ \A k \in DOMAIN allRecords :
          /\ k < rowAt => ~Table!Has(allRecords[k], query.filter)
          /\ k = rowAt => PassedBy(allRecords[k])

IdleInv == query = NoQuery => rowAt = 1 /\ cellAt = 1 /\ results = <<>>

LoopInv ==
    query # NoQuery =>
       /\ query.op = "select" => SelectInv
       /\ query.op = "update" => UpdateInv
       /\ query.op = "delete" /\ contract = "ethereum" => BlankInv
       /\ query.op = "delete" /\ contract = "hedera" => SweepInv

ContractInv == TypeOK /\ IdleInv /\ LoopInv

----------------------------------------------------------------------------
(* The operators of the contract.                                          *)

LEMMA QueryFields ==
  ASSUME NEW q \in Queries
  PROVE  /\ q # NoQuery
         /\ q.op \in {"select", "update", "delete"}
         /\ q.table \in Tables
         /\ q.filter \in Cell
         /\ q.op = "update" => q.set \in Cell
BY QueryAssumption DEF Queries

(* A cell has a field and a value: two that agree in both are one.         *)
LEMMA MatchesIsEqual ==
  ASSUME NEW c \in Cell, NEW d \in Cell
  PROVE  Matches(c, d) <=> c = d
BY DEF Matches, Cell

LEMMA SetFieldIsWith ==
  ASSUME NEW record \in Seq(Cell), NEW cell \in Cell
  PROVE  /\ SetField(record, cell) \in Seq(Cell)
         /\ DOMAIN SetField(record, cell) = DOMAIN record
         /\ Len(SetField(record, cell)) = Len(record)
         /\ \A j \in DOMAIN record :
               SetField(record, cell)[j] = IF record[j].field = cell.field THEN cell
                                                                        ELSE record[j]
         /\ SetField(record, cell) = Table!With(record, cell)
<1> DEFINE n == Len(record)
           after == SetField(record, cell)
<1>1. n \in Nat /\ DOMAIN record = 1..n /\ \A j \in 1..n : record[j] \in Cell
  OBVIOUS
<1>2. ASSUME NEW c \in Cell, c.field = cell.field
      PROVE  [c EXCEPT !.value = cell.value] = cell
  BY <1>2 DEF Cell
<1>3. after = [j \in 1..n |-> IF record[j].field = cell.field THEN cell ELSE record[j]]
  BY <1>1, <1>2 DEF SetField
<1> HIDE DEF after
<1>4. after \in Seq(Cell) /\ Len(after) = n /\ DOMAIN after = 1..n
  BY <1>1, <1>3
<1>5. after = Table!With(record, cell)
  BY <1>1, <1>3 DEF Table!With
<1> QED
  BY <1>1, <1>3, <1>4, <1>5 DEF after

(* What the Hedera contract's deletion makes of an array.                  *)
LEMMA SweptArray ==
  ASSUME NEW S, NEW s \in Seq(S), NEW i \in DOMAIN s
  PROVE  LET t == Front([s EXCEPT ![i] = Last(s)]) IN
           /\ t \in Seq(S)
           /\ Len(t) = Len(s) - 1
           /\ DOMAIN t = 1..(Len(s) - 1)
           /\ \A k \in 1..(Len(s) - 1) : t[k] = IF k = i THEN s[Len(s)] ELSE s[k]
<1> DEFINE n == Len(s)
           moved == [s EXCEPT ![i] = Last(s)]
           t == Front(moved)
<1>1. n \in Nat /\ DOMAIN s = 1..n /\ i \in 1..n /\ n > 0 /\ Last(s) = s[n] /\ s[n] \in S
  BY DEF Last
<1>2. moved \in Seq(S) /\ Len(moved) = n
      /\ \A k \in 1..n : moved[k] = IF k = i THEN s[n] ELSE s[k]
  BY <1>1
<1> HIDE DEF moved
<1>3. t = SubSeq(moved, 1, n - 1)
  BY <1>2 DEF Front
<1>4. t \in Seq(S) /\ Len(t) = n - 1 /\ \A k \in 1..(n - 1) : t[k] = moved[k]
  BY <1>1, <1>2, <1>3
<1> HIDE DEF t
<1>5. DOMAIN t = 1..(n - 1)
  BY <1>4
<1>6. \A k \in 1..(n - 1) : t[k] = IF k = i THEN s[n] ELSE s[k]
  BY <1>1, <1>2, <1>4
<1> QED
  BY <1>4, <1>5, <1>6 DEF t, moved

(* Where the loops are there is a record, and a cell.                      *)
LEMMA AtRowIsRecord ==
  ASSUME TypeOK, query # NoQuery
  PROVE  /\ query \in Queries /\ query.table \in Tables /\ query.filter \in Cell
         /\ allRecords \in Seq(Seq(Cell)) /\ Len(allRecords) \in Nat
         /\ DOMAIN allRecords = 1..Len(allRecords)
         /\ AtRow => /\ rowAt \in DOMAIN allRecords
                     /\ allRecords[rowAt] \in Seq(Cell)
                     /\ DOMAIN allRecords[rowAt] = 1..Len(allRecords[rowAt])
         /\ AtCell => /\ AtRow
                      /\ cellAt \in DOMAIN allRecords[rowAt]
                      /\ AtMatch <=> allRecords[rowAt][cellAt] = query.filter
<1>1. query \in Queries /\ query.table \in Tables /\ query.filter \in Cell
  BY QueryFields DEF TypeOK
<1>2. allRecords \in Seq(Seq(Cell))
  BY <1>1 DEF TypeOK, allRecords
<1>3. Len(allRecords) \in Nat /\ DOMAIN allRecords = 1..Len(allRecords)
  BY <1>2
<1>4. ASSUME AtRow
      PROVE  /\ rowAt \in DOMAIN allRecords
             /\ allRecords[rowAt] \in Seq(Cell)
             /\ DOMAIN allRecords[rowAt] = 1..Len(allRecords[rowAt])
  <2>1. rowAt \in DOMAIN allRecords
    BY <1>3, <1>4 DEF AtRow, TypeOK
  <2> QED
    BY <1>2, <2>1
<1>5. ASSUME AtCell
      PROVE  /\ AtRow
             /\ cellAt \in DOMAIN allRecords[rowAt]
             /\ AtMatch <=> allRecords[rowAt][cellAt] = query.filter
  <2>1. AtRow
    BY <1>5 DEF AtCell
  <2>2. cellAt \in DOMAIN allRecords[rowAt]
    BY <1>4, <1>5, <2>1 DEF AtCell, TypeOK
  <2>3. allRecords[rowAt][cellAt] \in Cell
    BY <1>4, <2>1, <2>2
  <2> QED
    BY <1>1, <1>5, <2>1, <2>2, <2>3, MatchesIsEqual DEF AtMatch
<1> QED
  BY <1>1, <1>2, <1>3, <1>4, <1>5

(* What a rewritten record, or a deletion by moving, makes of the array.   *)
LEMMA RewriteEffect ==
  ASSUME TypeOK, AtRow, query' = query, NEW record \in Seq(Cell), Rewrite(record)
  PROVE  /\ tables' \in [Tables -> Seq(Seq(Cell))]
         /\ allRecords' = [allRecords EXCEPT ![rowAt] = record]
         /\ DOMAIN allRecords' = DOMAIN allRecords
         /\ Len(allRecords') = Len(allRecords)
         /\ \A k \in DOMAIN allRecords :
               allRecords'[k] = IF k = rowAt THEN record ELSE allRecords[k]
<1>1. query.table \in Tables /\ rowAt \in DOMAIN allRecords
      /\ allRecords \in Seq(Seq(Cell))
  BY AtRowIsRecord DEF AtRow
<1>2. allRecords' = [allRecords EXCEPT ![rowAt] = record]
  BY <1>1 DEF Rewrite, allRecords, TypeOK
<1>3. [allRecords EXCEPT ![rowAt] = record] \in Seq(Seq(Cell))
  BY <1>1
<1>4. tables' \in [Tables -> Seq(Seq(Cell))]
  BY <1>1, <1>3 DEF Rewrite, allRecords, TypeOK
<1> QED
  BY <1>1, <1>2, <1>3, <1>4

LEMMA SweepEffect ==
  ASSUME TypeOK, SweepRow, query' = query
  PROVE  /\ tables' \in [Tables -> Seq(Seq(Cell))]
         /\ Len(allRecords') = Len(allRecords) - 1
         /\ DOMAIN allRecords' = 1..(Len(allRecords) - 1)
         /\ \A k \in 1..(Len(allRecords) - 1) :
               allRecords'[k] = IF k = rowAt THEN allRecords[Len(allRecords)]
                                             ELSE allRecords[k]
<1>1. query.table \in Tables /\ rowAt \in DOMAIN allRecords
      /\ allRecords \in Seq(Seq(Cell))
  BY AtRowIsRecord DEF SweepRow, AtMatch, AtCell, AtRow
<1> DEFINE swept == Front([allRecords EXCEPT ![rowAt] = Last(allRecords)])
<1>2. tables' = [tables EXCEPT ![query.table] = swept]
  BY DEF SweepRow, allRecords
<1>3. /\ swept \in Seq(Seq(Cell))
      /\ Len(swept) = Len(allRecords) - 1
      /\ DOMAIN swept = 1..(Len(allRecords) - 1)
      /\ \A k \in 1..(Len(allRecords) - 1) :
            swept[k] = IF k = rowAt THEN allRecords[Len(allRecords)] ELSE allRecords[k]
  BY <1>1, SweptArray
<1> HIDE DEF swept
<1>4. allRecords' = swept
  BY <1>1, <1>2 DEF allRecords, TypeOK
<1>5. tables' \in [Tables -> Seq(Seq(Cell))]
  BY <1>1, <1>2, <1>3 DEF TypeOK
<1> QED
  BY <1>3, <1>4, <1>5

----------------------------------------------------------------------------
(* The type, one action after the other.                                   *)

LEMMA TypeHoldsAtFirst == Init => TypeOK
BY DEF Init, TypeOK

LEMMA LoopKeepsType ==
  ASSUME TypeOK, Loop, contract' = contract
  PROVE  TypeOK'
<1> USE DEF Loop
<1>1. /\ query # NoQuery /\ AtRow /\ query' = query /\ saved' = saved
      /\ rowAt + 1 \in Nat \ {0} /\ cellAt + 1 \in Nat \ {0}
  BY DEF EndRow, Pass, SelectCell, UpdateCell, BlankCell, SweepRow, AtMatch, AtCell, AtRow, TypeOK
<1>2. allRecords[rowAt] \in Seq(Cell)
  BY <1>1, AtRowIsRecord
<1>3. CASE EndRow \/ Pass
  BY <1>1, <1>3 DEF EndRow, Pass, NextCell, TypeOK
<1>4. CASE SelectCell
  <2>1. results' \in Seq(Seq(Cell))
    BY <1>2, <1>4 DEF SelectCell, TypeOK
  <2> QED
    BY <1>1, <1>4, <2>1 DEF SelectCell, NextCell, TypeOK
<1>5. CASE UpdateCell
  <2>1. query.set \in Cell
    BY <1>1, <1>5, QueryFields DEF UpdateCell, TypeOK
  <2>2. SetField(allRecords[rowAt], query.set) \in Seq(Cell)
    BY <1>2, <2>1, SetFieldIsWith
  <2>3. tables' \in [Tables -> Seq(Seq(Cell))]
    BY <1>1, <1>5, <2>2, RewriteEffect DEF UpdateCell
  <2> QED
    BY <1>1, <1>5, <2>3 DEF UpdateCell, NextCell, TypeOK
<1>6. CASE BlankCell
  <2>1. <<>> \in Seq(Cell)
    OBVIOUS
  <2>2. tables' \in [Tables -> Seq(Seq(Cell))]
    BY <1>1, <1>6, <2>1, RewriteEffect DEF BlankCell
  <2> QED
    BY <1>1, <1>6, <2>2 DEF BlankCell, NextCell, TypeOK
<1>7. CASE SweepRow
  BY <1>1, <1>7, SweepEffect DEF SweepRow, TypeOK
<1> QED
  BY <1>3, <1>4, <1>5, <1>6, <1>7

LEMMA StepKeepsType == TypeOK /\ [Next]_vars => TypeOK'
<1> SUFFICES ASSUME TypeOK, [Next]_vars PROVE TypeOK'
  OBVIOUS
<1>1. ASSUME NEW t \in Tables, NEW record \in Rows, insertRecord(t, record),
             contract' = contract
      PROVE  TypeOK'
  <2>1. record \in Seq(Cell) /\ tables[t] \in Seq(Seq(Cell))
    BY RowsAssumption DEF TypeOK
  <2>2. Append(tables[t], record) \in Seq(Seq(Cell))
    BY <2>1
  <2> QED
    BY <1>1, <2>2 DEF insertRecord, local, TypeOK
<1>2. ASSUME NEW q \in Queries, Begin(q), contract' = contract
      PROVE  TypeOK'
  BY <1>2, QueryFields DEF Begin, TypeOK
<1>3. ASSUME Loop, contract' = contract
      PROVE  TypeOK'
  BY <1>3, LoopKeepsType
<1>4. ASSUME Return \/ Revert, contract' = contract
      PROVE  TypeOK'
  <2>1. query.table \in Tables /\ saved \in Seq(Seq(Cell))
    BY <1>4, QueryFields DEF Return, Revert, TypeOK
  <2>2. tables' \in [Tables -> Seq(Seq(Cell))]
    BY <1>4, <2>1 DEF Return, Revert, TypeOK
  <2>3. /\ query' = NoQuery /\ rowAt' = 1 /\ cellAt' = 1
        /\ results' = <<>> /\ saved' = <<>>
    BY <1>4 DEF Return, Revert, End
  <2>4. <<>> \in Seq(Seq(Cell))
    OBVIOUS
  <2> QED
    BY <1>4, <2>2, <2>3, <2>4 DEF TypeOK
<1>5. CASE UNCHANGED vars
  BY <1>5 DEF vars, local, TypeOK
<1> QED
  BY <1>1, <1>2, <1>3, <1>4, <1>5 DEF Next

(* The contract, its tables and what a call knows keep their type, for any *)
(* number of records and cells (TypeOK).                                   *)
THEOREM ContractTypeCorrect == Spec => []TypeOK
BY TypeHoldsAtFirst, StepKeepsType, PTL DEF Spec

----------------------------------------------------------------------------
(* The loops end.                                                          *)

LEMMA RoundGetsOn ==
  ASSUME TypeOK, Loop
  PROVE  \/ RowsLeft' \in 0..(RowsLeft - 1)
         \/ RowsLeft' = RowsLeft /\ CellsLeft' \in 0..(CellsLeft - 1)
<1>1. query # NoQuery /\ AtRow /\ query' = query
  BY DEF Loop, EndRow, Pass, SelectCell, UpdateCell, BlankCell, SweepRow, AtMatch, AtCell, AtRow
<1> DEFINE n == Len(allRecords)
           m == Len(allRecords[rowAt])
<1>2. /\ rowAt \in 1..n /\ n \in Nat
      /\ cellAt \in Nat \ {0}
      /\ allRecords[rowAt] \in Seq(Cell) /\ m \in Nat
      /\ AtCell <=> cellAt <= m
  <2>1. /\ rowAt \in 1..n /\ n \in Nat /\ cellAt \in Nat \ {0}
        /\ allRecords[rowAt] \in Seq(Cell)
    BY <1>1, AtRowIsRecord DEF TypeOK
  <2> QED
    BY <1>1, <2>1 DEF AtCell
<1>3. ASSUME Len(allRecords') = n, rowAt' = rowAt, cellAt' = cellAt + 1, cellAt <= m,
             Len(allRecords'[rowAt]) = m \/ Len(allRecords'[rowAt]) = 0
      PROVE  RowsLeft' = RowsLeft /\ CellsLeft' \in 0..(CellsLeft - 1)
  <2>1. RowsLeft' = RowsLeft
    BY <1>3 DEF RowsLeft
  <2>2. AtCell' <=> cellAt + 1 <= Len(allRecords'[rowAt])
    BY <1>1, <1>2, <1>3 DEF AtCell, AtRow
  <2>3. CellsLeft = m + 1 - cellAt
    BY <1>2, <1>3 DEF CellsLeft
  <2>4. CellsLeft' = IF AtCell' THEN Len(allRecords'[rowAt]) + 1 - (cellAt + 1) ELSE 0
    BY <1>3 DEF CellsLeft
  <2> DEFINE l == Len(allRecords'[rowAt])
  <2>5. /\ m - cellAt \in Nat /\ l \in Nat /\ (l = m \/ l = 0)
        /\ CellsLeft' = IF AtCell' THEN l + 1 - (cellAt + 1) ELSE 0
        /\ AtCell' <=> cellAt + 1 <= l
    BY <1>2, <1>3, <2>2, <2>4
  <2> HIDE DEF l, m
  <2>6. CellsLeft' = IF cellAt + 1 <= l THEN l - cellAt ELSE 0
    BY <1>2, <2>5
  <2>7. CellsLeft' \in 0..(m - cellAt)
    BY <1>2, <2>5, <2>6
  <2> QED
    BY <1>2, <2>1, <2>3, <2>7
<1>4. CASE EndRow
  <2>1. allRecords' = allRecords /\ rowAt' = rowAt + 1
    BY <1>1, <1>4 DEF EndRow, allRecords
  <2>2. RowsLeft' = n - rowAt /\ RowsLeft = n + 1 - rowAt
    BY <1>2, <2>1 DEF RowsLeft
  <2> QED
    BY <1>2, <2>2
<1>5. CASE Pass \/ SelectCell
  <2>1. allRecords' = allRecords
    BY <1>1, <1>5 DEF Pass, SelectCell, allRecords
  <2>2. cellAt <= m
    BY <1>2, <1>5 DEF Pass, SelectCell, AtMatch
  <2>3. rowAt' = rowAt /\ cellAt' = cellAt + 1
    BY <1>5 DEF Pass, SelectCell, NextCell
  <2> QED
    BY <1>3, <2>1, <2>2, <2>3
<1>6. CASE UpdateCell
  <2>1. query.set \in Cell
    BY <1>1, <1>6, QueryFields DEF UpdateCell, TypeOK
  <2>2. /\ SetField(allRecords[rowAt], query.set) \in Seq(Cell)
        /\ Len(SetField(allRecords[rowAt], query.set)) = m
    BY <1>2, <2>1, SetFieldIsWith
  <2>3. Len(allRecords') = n
        /\ allRecords'[rowAt] = SetField(allRecords[rowAt], query.set)
    BY <1>1, <1>2, <1>6, <2>2, RewriteEffect, AtRowIsRecord DEF UpdateCell
  <2>4. cellAt <= m /\ rowAt' = rowAt /\ cellAt' = cellAt + 1
    BY <1>2, <1>6 DEF UpdateCell, AtMatch, NextCell
  <2> QED
    BY <1>3, <2>2, <2>3, <2>4
<1>7. CASE BlankCell
  <2>1. <<>> \in Seq(Cell) /\ Len(<<>>) = 0
    OBVIOUS
  <2>2. Len(allRecords') = n /\ allRecords'[rowAt] = <<>>
    BY <1>1, <1>2, <1>7, <2>1, RewriteEffect, AtRowIsRecord DEF BlankCell
  <2>3. cellAt <= m /\ rowAt' = rowAt /\ cellAt' = cellAt + 1
    BY <1>2, <1>7 DEF BlankCell, AtMatch, NextCell
  <2> QED
    BY <1>3, <2>1, <2>2, <2>3
<1>8. CASE SweepRow
  <2>1. Len(allRecords') = n - 1 /\ rowAt' = rowAt
    BY <1>1, <1>8, SweepEffect DEF SweepRow
  <2> QED
    BY <1>2, <2>1 DEF RowsLeft
<1> QED
  BY <1>4, <1>5, <1>6, <1>7, <1>8 DEF Loop

\* A step that neither begins nor ends a call while one is executed is a round.
LEMMA OnlyLoopGoesOn ==
  ASSUME Next, query # NoQuery, query' = query
  PROVE  Loop
BY DEF Next, insertRecord, Begin, Return, Revert, End

(* Whatever a call finds, updates or moves about, its loops end: no round  *)
(* leaves as much to look at as there was before (EveryRoundGetsOn).       *)
THEOREM ContractLoopsGetOn == Spec => EveryRoundGetsOn
<1>1. ASSUME TypeOK, [Next]_vars
      PROVE  [query # NoQuery /\ query' = query =>
                \/ RowsLeft' \in 0..(RowsLeft - 1)
                \/ RowsLeft' = RowsLeft /\ CellsLeft' \in 0..(CellsLeft - 1)]_vars
  BY <1>1, OnlyLoopGoesOn, RoundGetsOn
<1> QED
  BY <1>1, ContractTypeCorrect, PTL DEF Spec, EveryRoundGetsOn

----------------------------------------------------------------------------
(* What the loops have done so far is kept by each of their rounds.        *)

LEMMA RangeOfAppend ==
  ASSUME NEW S, NEW s \in Seq(S), NEW e \in S
  PROVE  Range(Append(s, e)) = Range(s) \cup {e}
<1> DEFINE n == Len(s)
           t == Append(s, e)
<1>1. n \in Nat /\ DOMAIN s = 1..n
  OBVIOUS
<1>2. DOMAIN t = 1..(n + 1) /\ t[n + 1] = e /\ \A i \in 1..n : t[i] = s[i]
  BY <1>1
<1> HIDE DEF t
<1>3. 1..(n + 1) = (1..n) \cup {n + 1}
  BY <1>1
<1>4. Range(t) = {t[i] : i \in (1..n) \cup {n + 1}}
  BY <1>2, <1>3 DEF Range
<1>5. Range(s) = {s[i] : i \in 1..n}
  BY <1>1 DEF Range
<1> HIDE DEF n
<1> QED
  BY <1>2, <1>4, <1>5 DEF t

LEMMA RoundFacts ==
  ASSUME TypeOK, Loop
  PROVE  /\ query # NoQuery /\ AtRow /\ query' = query /\ saved' = saved
         /\ rowAt \in DOMAIN allRecords /\ rowAt \in Nat /\ cellAt \in Nat \ {0}
         /\ allRecords \in Seq(Seq(Cell))
         /\ allRecords[rowAt] \in Seq(Cell)
         /\ EndRow => /\ allRecords' = allRecords /\ results' = results
                      /\ rowAt' = rowAt + 1 /\ cellAt' = 1
                      /\ \A j \in DOMAIN allRecords[rowAt] : j \in Nat /\ j < cellAt
         /\ Pass \/ SelectCell \/ UpdateCell \/ BlankCell =>
               /\ rowAt' = rowAt /\ cellAt' = cellAt + 1
               /\ cellAt \in DOMAIN allRecords[rowAt]
         /\ Pass => /\ allRecords' = allRecords /\ results' = results
                    /\ allRecords[rowAt][cellAt] # query.filter
         /\ SelectCell \/ UpdateCell \/ BlankCell \/ SweepRow =>
               /\ cellAt \in DOMAIN allRecords[rowAt]
               /\ allRecords[rowAt][cellAt] = query.filter
         /\ SelectCell => allRecords' = allRecords
<1>1. query # NoQuery /\ AtRow /\ query' = query /\ saved' = saved
  BY DEF Loop, EndRow, Pass, SelectCell, UpdateCell, BlankCell, SweepRow, AtMatch, AtCell, AtRow
<1>2. /\ rowAt \in DOMAIN allRecords /\ rowAt \in Nat /\ cellAt \in Nat \ {0}
      /\ allRecords \in Seq(Seq(Cell))
      /\ allRecords[rowAt] \in Seq(Cell)
  BY <1>1, AtRowIsRecord DEF TypeOK
<1>3. ASSUME EndRow
      PROVE  /\ allRecords' = allRecords /\ results' = results
             /\ rowAt' = rowAt + 1 /\ cellAt' = 1
             /\ \A j \in DOMAIN allRecords[rowAt] : j \in Nat /\ j < cellAt
  <2>1. ~(cellAt <= Len(allRecords[rowAt]))
    BY <1>3 DEF EndRow, AtCell
  <2>2. \A j \in DOMAIN allRecords[rowAt] : j \in Nat /\ j < cellAt
    BY <1>2, <2>1
  <2> QED
    BY <1>1, <1>3, <2>2 DEF EndRow, allRecords
<1>4. ASSUME Pass \/ SelectCell \/ UpdateCell \/ BlankCell \/ SweepRow
      PROVE  /\ cellAt \in DOMAIN allRecords[rowAt]
             /\ AtMatch <=> allRecords[rowAt][cellAt] = query.filter
  <2>1. AtCell
    BY <1>4 DEF Pass, SelectCell, UpdateCell, BlankCell, SweepRow, AtMatch
  <2> QED
    BY <1>1, <2>1, AtRowIsRecord
<1>5. Pass \/ SelectCell \/ UpdateCell \/ BlankCell =>
         rowAt' = rowAt /\ cellAt' = cellAt + 1
  BY DEF Pass, SelectCell, UpdateCell, BlankCell, NextCell
<1>6. Pass => /\ allRecords' = allRecords /\ results' = results
              /\ allRecords[rowAt][cellAt] # query.filter
  BY <1>1, <1>4 DEF Pass, allRecords
<1>7. SelectCell \/ UpdateCell \/ BlankCell \/ SweepRow => AtMatch
  BY DEF SelectCell, UpdateCell, BlankCell, SweepRow
<1>8. SelectCell => allRecords' = allRecords
  BY <1>1 DEF SelectCell, allRecords
<1> QED
  BY <1>1, <1>2, <1>3, <1>4, <1>5, <1>6, <1>7, <1>8

LEMMA SelectKept ==
  ASSUME TypeOK, Loop, query.op = "select", SelectInv
  PROVE  SelectInv'
<1>1. EndRow \/ Pass \/ SelectCell
  BY DEF Loop, UpdateCell, BlankCell, SweepRow
<1>2. /\ query' = query /\ saved' = saved /\ allRecords = saved /\ allRecords' = allRecords
      /\ rowAt \in DOMAIN saved /\ rowAt \in Nat /\ cellAt \in Nat
      /\ saved \in Seq(Seq(Cell)) /\ DOMAIN saved \subseteq Nat
      /\ \A k \in DOMAIN saved : saved[k] \in Seq(Cell) /\ DOMAIN saved[k] \subseteq Nat
  BY <1>1, RoundFacts DEF SelectInv
<1>3. CASE EndRow \/ Pass
  <2>1. ASSUME NEW k \in DOMAIN saved PROVE Seen(k)' <=> Seen(k)
    <3>1. CASE EndRow
      <4>1. \A j \in DOMAIN saved[k] :
               (k < rowAt \/ (k = rowAt /\ j < cellAt))
                  <=> (k < rowAt' \/ (k = rowAt' /\ j < cellAt'))
        BY <1>2, <3>1, RoundFacts
      <4> QED
        BY <1>2, <4>1 DEF Seen
    <3>2. CASE Pass
      <4>1. \A j \in DOMAIN saved[k] : saved[k][j] = query.filter =>
               ((k < rowAt \/ (k = rowAt /\ j < cellAt))
                  <=> (k < rowAt' \/ (k = rowAt' /\ j < cellAt')))
        BY <1>2, <3>2, RoundFacts
      <4> QED
        BY <1>2, <4>1 DEF Seen
    <3> QED
      BY <1>3, <3>1, <3>2
  <2>2. {l \in DOMAIN saved : Seen(l)}' = {l \in DOMAIN saved : Seen(l)}
    BY <1>2, <2>1
  <2> QED
    BY <1>2, <1>3, <2>2, RoundFacts DEF SelectInv
<1>4. CASE SelectCell
  <2>1. ASSUME NEW k \in DOMAIN saved PROVE Seen(k)' <=> Seen(k) \/ k = rowAt
    <3>1. CASE k # rowAt
      BY <1>2, <1>4, <3>1, RoundFacts DEF Seen
    <3>2. CASE k = rowAt
      <4>1. cellAt \in DOMAIN saved[k] /\ saved[k][cellAt] = query.filter /\ cellAt < cellAt'
            /\ rowAt' = rowAt
        BY <1>2, <1>4, <3>2, RoundFacts
      <4> QED
        BY <1>2, <3>2, <4>1 DEF Seen
    <3> QED
      BY <3>1, <3>2
  <2>2. {l \in DOMAIN saved : Seen(l)}' = {l \in DOMAIN saved : Seen(l)} \cup {rowAt}
    BY <1>2, <2>1
  <2>3. Range(results') = Range(results) \cup {saved[rowAt]}
    <3>1. results' = Append(results, saved[rowAt])
      BY <1>2, <1>4 DEF SelectCell
    <3> QED
      BY <1>2, <3>1, RangeOfAppend DEF TypeOK
  <2>4. Range(results) = {saved[k] : k \in {l \in DOMAIN saved : Seen(l)}}
    BY DEF SelectInv
  <2>5. Range(results') = {saved[k] : k \in {l \in DOMAIN saved : Seen(l)} \cup {rowAt}}
    BY <2>3, <2>4
  <2> QED
    BY <1>2, <2>2, <2>5 DEF SelectInv
<1> QED
  BY <1>1, <1>3, <1>4

LEMMA RestOfWhole ==
  ASSUME NEW record \in Seq(Cell), NEW cell \in Cell, NEW filter
  PROVE  (IF \E j \in DOMAIN record : j >= 1 /\ record[j] = filter
          THEN SetField(record, cell) ELSE record) = Table!Changed(record, cell, filter)
<1>1. \A j \in DOMAIN record : j >= 1
  OBVIOUS
<1>2. SetField(record, cell) = Table!With(record, cell)
  BY SetFieldIsWith
<1> QED
  BY <1>1, <1>2 DEF Table!Changed, Table!Has

LEMMA UpdateKept ==
  ASSUME TypeOK, Loop, query.op = "update", UpdateInv
  PROVE  UpdateInv'
<1> DEFINE after(k) == Table!Changed(saved[k], query.set, query.filter)
<1>1. EndRow \/ Pass \/ UpdateCell
  BY DEF Loop, SelectCell, BlankCell, SweepRow
<1>2. /\ query' = query /\ saved' = saved /\ DOMAIN allRecords = DOMAIN saved
      /\ rowAt \in DOMAIN saved /\ rowAt \in Nat /\ cellAt \in Nat \ {0}
      /\ saved \in Seq(Seq(Cell)) /\ DOMAIN saved \subseteq Nat
      /\ allRecords[rowAt] \in Seq(Cell) /\ DOMAIN allRecords[rowAt] \subseteq Nat \ {0}
      /\ query.set \in Cell
  <2>1. query.set \in Cell
    BY RoundFacts, QueryFields DEF TypeOK
  <2> QED
    BY <2>1, RoundFacts DEF UpdateInv, TypeOK
<1>3. /\ Rest(allRecords[rowAt]) = after(rowAt)
      /\ \A k \in DOMAIN saved : k < rowAt => allRecords[k] = after(k)
      /\ \A k \in DOMAIN saved : k > rowAt => allRecords[k] = saved[k]
  BY <1>2 DEF UpdateInv
<1>4. CASE EndRow
  <2>1. allRecords' = allRecords /\ rowAt' = rowAt + 1 /\ cellAt' = 1
    BY <1>4, RoundFacts
  <2>2. allRecords[rowAt] = after(rowAt)
    <3>1. \A j \in DOMAIN allRecords[rowAt] : ~(j >= cellAt)
      BY <1>2, <1>4, RoundFacts
    <3>2. Rest(allRecords[rowAt]) = allRecords[rowAt]
      BY <3>1 DEF Rest
    <3> QED
      BY <1>3, <3>2
  <2>3. ASSUME NEW k \in DOMAIN saved, k = rowAt + 1
        PROVE  Rest(allRecords[k])' = after(k)
    <3>1. allRecords[k] = saved[k] /\ saved[k] \in Seq(Cell)
      BY <1>2, <1>3, <2>3
    <3>2. Rest(allRecords[k])' = IF \E j \in DOMAIN saved[k] : j >= 1 /\ saved[k][j] = query.filter
                                 THEN SetField(saved[k], query.set) ELSE saved[k]
      BY <1>2, <2>1, <3>1 DEF Rest
    <3> QED
      BY <1>2, <3>1, <3>2, RestOfWhole
  <2>4. \A k \in DOMAIN saved : (k < rowAt + 1 <=> k < rowAt \/ k = rowAt)
                              /\ (k > rowAt + 1 => k > rowAt)
    BY <1>2
  <2> QED
    BY <1>2, <1>3, <2>1, <2>2, <2>3, <2>4 DEF UpdateInv
<1>5. CASE Pass
  <2>1. allRecords' = allRecords /\ rowAt' = rowAt /\ cellAt' = cellAt + 1
        /\ allRecords[rowAt][cellAt] # query.filter
    BY <1>5, RoundFacts
  <2>2. \A j \in DOMAIN allRecords[rowAt] :
           (j >= cellAt + 1 /\ allRecords[rowAt][j] = query.filter)
              <=> (j >= cellAt /\ allRecords[rowAt][j] = query.filter)
    BY <1>2, <2>1
  <2>3. Rest(allRecords[rowAt])' = Rest(allRecords[rowAt])
    BY <1>2, <2>1, <2>2 DEF Rest
  <2> QED
    BY <1>2, <1>3, <2>1, <2>3 DEF UpdateInv
<1>6. CASE UpdateCell
  <2> DEFINE set == SetField(allRecords[rowAt], query.set)
  <2>1. /\ rowAt' = rowAt /\ cellAt' = cellAt + 1
        /\ cellAt \in DOMAIN allRecords[rowAt] /\ allRecords[rowAt][cellAt] = query.filter
    BY <1>6, RoundFacts
  <2>2. set \in Seq(Cell) /\ SetField(set, query.set) = set
    <3>1. /\ set \in Seq(Cell) /\ DOMAIN set = DOMAIN allRecords[rowAt]
          /\ \A j \in DOMAIN allRecords[rowAt] :
                set[j] = IF allRecords[rowAt][j].field = query.set.field THEN query.set
                         ELSE allRecords[rowAt][j]
      BY <1>2, SetFieldIsWith
    <3> HIDE DEF set
    <3>2. \A j \in DOMAIN set :
             (IF set[j].field = query.set.field THEN query.set ELSE set[j]) = set[j]
      BY <3>1
    <3>3. /\ SetField(set, query.set) \in Seq(Cell)
          /\ Len(SetField(set, query.set)) = Len(set)
          /\ \A j \in DOMAIN set : SetField(set, query.set)[j] =
                IF set[j].field = query.set.field THEN query.set ELSE set[j]
      BY <1>2, <3>1, SetFieldIsWith
    <3>4. \A j \in DOMAIN set : SetField(set, query.set)[j] = set[j]
      BY <3>2, <3>3
    <3> QED
      BY <3>1, <3>3, <3>4
  <2>3. Rest(allRecords[rowAt]) = set
    BY <1>2, <2>1 DEF Rest
  <2>4. /\ DOMAIN allRecords' = DOMAIN allRecords
        /\ \A k \in DOMAIN allRecords :
              allRecords'[k] = IF k = rowAt THEN set ELSE allRecords[k]
    <3>1. Rewrite(set)
      BY <1>6 DEF UpdateCell
    <3> HIDE DEF set
    <3> QED
      BY <1>2, <2>2, <3>1, RoundFacts, RewriteEffect
  <2> HIDE DEF set
  <2>5. Rest(allRecords[rowAt])' = set
    BY <1>2, <2>1, <2>2, <2>4 DEF Rest
  <2>6. after(rowAt) = set
    BY <1>3, <2>3
  <2> HIDE DEF after
  <2>7. DOMAIN allRecords' = DOMAIN saved'
    BY <1>2, <2>4
  <2>8. ASSUME NEW k \in DOMAIN saved
        PROVE  /\ k < rowAt => allRecords'[k] = after(k)
               /\ k = rowAt => Rest(allRecords[k])' = after(k)
               /\ k > rowAt => allRecords'[k] = saved[k]
    BY <1>2, <1>3, <2>1, <2>4, <2>5, <2>6
  <2> QED
    BY <1>2, <2>1, <2>7, <2>8 DEF UpdateInv, after
<1> QED
  BY <1>1, <1>4, <1>5, <1>6

LEMMA BlankKept ==
  ASSUME TypeOK, Loop, query.op = "delete", contract = "ethereum", BlankInv
  PROVE  BlankInv'
<1> DEFINE has(k) == Table!Has(saved[k], query.filter)
<1>1. EndRow \/ Pass \/ BlankCell
  BY DEF Loop, SelectCell, UpdateCell, SweepRow
<1>2. /\ query' = query /\ saved' = saved /\ DOMAIN allRecords = DOMAIN saved
      /\ rowAt \in DOMAIN saved /\ rowAt \in Nat /\ cellAt \in Nat \ {0}
      /\ saved \in Seq(Seq(Cell)) /\ DOMAIN saved \subseteq Nat
  BY RoundFacts DEF BlankInv, TypeOK
<1>3. /\ \A k \in DOMAIN saved :
            k < rowAt => allRecords[k] = IF has(k) THEN <<>> ELSE saved[k]
      /\ \/ allRecords[rowAt] = saved[rowAt] /\ PassedBy(saved[rowAt])
         \/ allRecords[rowAt] = <<>> /\ has(rowAt)
      /\ \A k \in DOMAIN saved : k > rowAt => allRecords[k] = saved[k]
  BY <1>2 DEF BlankInv
<1>4. CASE EndRow
  <2>1. allRecords' = allRecords /\ rowAt' = rowAt + 1 /\ cellAt' = 1
    BY <1>4, RoundFacts
  <2>2. allRecords[rowAt] = IF has(rowAt) THEN <<>> ELSE saved[rowAt]
    <3>1. CASE allRecords[rowAt] = saved[rowAt] /\ PassedBy(saved[rowAt])
      <4>1. \A j \in DOMAIN saved[rowAt] : j < cellAt
        BY <1>4, <3>1, RoundFacts
      <4>2. ~has(rowAt)
        BY <3>1, <4>1 DEF PassedBy, Table!Has
      <4> QED
        BY <3>1, <4>2
    <3> QED
      BY <1>3, <3>1
  <2>3. ASSUME NEW k \in DOMAIN saved PROVE PassedBy(saved[k])'
    <3>1. DOMAIN saved[k] \subseteq Nat \ {0}
      BY <1>2
    <3> QED
      BY <1>2, <2>1, <3>1 DEF PassedBy
  <2>4. \A k \in DOMAIN saved : (k < rowAt + 1 <=> k < rowAt \/ k = rowAt)
                              /\ (k = rowAt + 1 \/ k > rowAt + 1 => k > rowAt)
    BY <1>2
  <2> HIDE DEF has
  <2>5. ASSUME NEW k \in DOMAIN saved
        PROVE  /\ k < rowAt + 1 => allRecords[k] = IF has(k) THEN <<>> ELSE saved[k]
               /\ k = rowAt + 1 => allRecords[k] = saved[k]
               /\ k > rowAt + 1 => allRecords[k] = saved[k]
    BY <1>3, <2>2, <2>4
  <2> QED
    BY <1>2, <2>1, <2>3, <2>5 DEF BlankInv, has
<1>5. CASE Pass
  <2>1. /\ allRecords' = allRecords /\ rowAt' = rowAt /\ cellAt' = cellAt + 1
        /\ cellAt \in DOMAIN allRecords[rowAt]
        /\ allRecords[rowAt][cellAt] # query.filter
    BY <1>5, RoundFacts
  <2>2. allRecords[rowAt] = saved[rowAt] /\ PassedBy(saved[rowAt])
    <3>1. DOMAIN <<>> = {}
      OBVIOUS
    <3> QED
      BY <1>3, <2>1, <3>1
  <2>3. PassedBy(saved[rowAt])'
    <3>1. DOMAIN saved[rowAt] \subseteq Nat
      BY <1>2
    <3>2. \A j \in DOMAIN saved[rowAt] : j < cellAt + 1 => j < cellAt \/ j = cellAt
      BY <1>2, <3>1
    <3> QED
      BY <1>2, <2>1, <2>2, <3>2 DEF PassedBy
  <2> QED
    BY <1>2, <1>3, <2>1, <2>2, <2>3 DEF BlankInv
<1>6. CASE BlankCell
  <2>1. /\ rowAt' = rowAt /\ cellAt' = cellAt + 1
        /\ cellAt \in DOMAIN allRecords[rowAt] /\ allRecords[rowAt][cellAt] = query.filter
    BY <1>6, RoundFacts
  <2>2. has(rowAt)
    BY <1>3, <2>1 DEF Table!Has
  <2>3. /\ DOMAIN allRecords' = DOMAIN allRecords
        /\ \A k \in DOMAIN allRecords :
              allRecords'[k] = IF k = rowAt THEN <<>> ELSE allRecords[k]
    <3>1. Rewrite(<<>>) /\ <<>> \in Seq(Cell)
      BY <1>6 DEF BlankCell
    <3> QED
      BY <1>2, <3>1, RoundFacts, RewriteEffect
  <2> QED
    BY <1>2, <1>3, <2>1, <2>2, <2>3 DEF BlankInv
<1> QED
  BY <1>1, <1>4, <1>5, <1>6

LEMMA PlacesAreFinite ==
  ASSUME NEW S, NEW s \in Seq(S), NEW row
  PROVE  IsFiniteSet(Places(s, row)) /\ Cardinality(Places(s, row)) \in Nat
<1>1. Places(s, row) \in SUBSET (1..Len(s))
  BY DEF Places
<1>2. IsFiniteSet(1..Len(s))
  BY FS_Interval
<1> QED
  BY <1>1, <1>2, FS_Subset, FS_CardinalityType

(* A record that is moved over another one is there as often as before.    *)
LEMMA MovedKeepsCount ==
  ASSUME NEW S, NEW s \in Seq(S), NEW i \in DOMAIN s, NEW row, s[i] # row,
         NEW t, DOMAIN t = 1..(Len(s) - 1),
         \A k \in 1..(Len(s) - 1) : t[k] = IF k = i THEN s[Len(s)] ELSE s[k]
  PROVE  Cardinality(Places(t, row)) = Cardinality(Places(s, row))
<1> DEFINE n == Len(s)
           P == Places(s, row)
<1>1. n \in Nat /\ i \in 1..n /\ DOMAIN s = 1..n
  OBVIOUS
<1>2. \A k : k \in Places(t, row) <=>
        k \in 1..(n - 1) /\ (IF k = i THEN s[n] ELSE s[k]) = row
  BY DEF Places
<1>3. \A k : k \in P <=> k \in 1..n /\ s[k] = row
  BY <1>1 DEF Places
<1>4. IsFiniteSet(P) /\ Cardinality(P) \in Nat
  BY PlacesAreFinite
<1>5. \A k : k \in 1..(n - 1) <=> k \in 1..n /\ k # n
  BY <1>1
<1> HIDE DEF P, n
<1>6. CASE s[n] = row
  <2>1. n \in P /\ i \notin P /\ i # n
    BY <1>1, <1>3, <1>6
  <2>2. Places(t, row) = (P \ {n}) \cup {i}
    BY <1>1, <1>2, <1>3, <1>5, <1>6, <2>1
  <2>3. IsFiniteSet(P \ {n}) /\ Cardinality(P \ {n}) = Cardinality(P) - 1
    BY <1>4, <2>1, FS_RemoveElement
  <2>4. Cardinality((P \ {n}) \cup {i}) = Cardinality(P \ {n}) + 1
    BY <2>1, <2>3, FS_AddElement
  <2> QED
    BY <1>4, <2>2, <2>3, <2>4 DEF P
<1>7. CASE s[n] # row
  <2>1. Places(t, row) = P
    BY <1>1, <1>2, <1>3, <1>5, <1>7
  <2> QED
    BY <2>1 DEF P
<1> QED
  BY <1>6, <1>7

LEMMA SweepKept ==
  ASSUME TypeOK, Loop, query.op = "delete", contract = "hedera", SweepInv
  PROVE  SweepInv'
<1>1. EndRow \/ Pass \/ SweepRow
  BY DEF Loop, SelectCell, UpdateCell, BlankCell
<1>2. /\ query' = query /\ saved' = saved
      /\ rowAt \in DOMAIN allRecords /\ rowAt \in Nat /\ cellAt \in Nat \ {0}
      /\ allRecords \in Seq(Seq(Cell)) /\ DOMAIN allRecords \subseteq Nat
      /\ DOMAIN allRecords = 1..Len(allRecords) /\ Len(allRecords) \in Nat
      /\ \A k \in DOMAIN allRecords : DOMAIN allRecords[k] \subseteq Nat \ {0}
  <2>1. allRecords \in Seq(Seq(Cell))
    BY RoundFacts
  <2>2. \A k \in DOMAIN allRecords : DOMAIN allRecords[k] \subseteq Nat \ {0}
    BY <2>1
  <2> QED
    BY <2>1, <2>2, RoundFacts
<1>3. /\ \A k \in DOMAIN allRecords :
            k < rowAt => ~Table!Has(allRecords[k], query.filter)
      /\ PassedBy(allRecords[rowAt])
      /\ Range(allRecords) \subseteq Range(saved)
      /\ \A row \in Range(saved) : ~Table!Has(row, query.filter) =>
            Cardinality(Places(allRecords, row)) = Cardinality(Places(saved, row))
  BY <1>2 DEF SweepInv
<1>4. CASE EndRow
  <2>1. /\ allRecords' = allRecords /\ rowAt' = rowAt + 1 /\ cellAt' = 1
        /\ \A j \in DOMAIN allRecords[rowAt] : j < cellAt
    BY <1>4, RoundFacts
  <2>2. ~Table!Has(allRecords[rowAt], query.filter)
    BY <1>3, <2>1 DEF PassedBy, Table!Has
  <2>3. \A k \in DOMAIN allRecords : k < rowAt + 1 => k < rowAt \/ k = rowAt
    BY <1>2
  <2>4. ASSUME NEW k \in DOMAIN allRecords
        PROVE  /\ k < rowAt' => ~Table!Has(allRecords[k], query.filter)
               /\ PassedBy(allRecords[k])'
    <3>1. PassedBy(allRecords[k])'
      BY <1>2, <2>1 DEF PassedBy
    <3> QED
      BY <1>3, <2>1, <2>2, <2>3, <3>1
  <2> QED
    BY <1>2, <1>3, <2>1, <2>4 DEF SweepInv
<1>5. CASE Pass
  <2>1. /\ allRecords' = allRecords /\ rowAt' = rowAt /\ cellAt' = cellAt + 1
        /\ allRecords[rowAt][cellAt] # query.filter
    BY <1>5, RoundFacts
  <2>2. \A j \in DOMAIN allRecords[rowAt] : j < cellAt + 1 => j < cellAt \/ j = cellAt
    BY <1>2
  <2>3. PassedBy(allRecords[rowAt])'
    BY <1>2, <1>3, <2>1, <2>2 DEF PassedBy
  <2> QED
    BY <1>2, <1>3, <2>1, <2>3 DEF SweepInv
<1>6. CASE SweepRow
  <2> DEFINE n == Len(allRecords)
  <2>1. /\ DOMAIN allRecords' = 1..(n - 1)
        /\ \A k \in 1..(n - 1) :
              allRecords'[k] = IF k = rowAt THEN allRecords[n] ELSE allRecords[k]
        /\ rowAt' = rowAt /\ cellAt' = 1
        /\ n \in 1..n /\ 1..(n - 1) \subseteq 1..n
    <3>1. n \in 1..n /\ 1..(n - 1) \subseteq 1..n
      BY <1>2
    <3> QED
      BY <1>2, <1>6, <3>1, SweepEffect DEF SweepRow
  <2>2. Table!Has(allRecords[rowAt], query.filter)
    BY <1>6, RoundFacts DEF Table!Has
  <2>3. Range(allRecords') \subseteq Range(allRecords)
    BY <1>2, <2>1 DEF Range
  <2>4. ASSUME NEW row \in Range(saved), ~Table!Has(row, query.filter)
        PROVE  Cardinality(Places(allRecords', row)) = Cardinality(Places(saved, row))
    <3>1. allRecords[rowAt] # row
      BY <2>2, <2>4
    <3>2. Cardinality(Places(allRecords', row)) = Cardinality(Places(allRecords, row))
      <4>1. /\ DOMAIN allRecords' = 1..(Len(allRecords) - 1)
            /\ \A k \in 1..(Len(allRecords) - 1) : allRecords'[k] =
                  IF k = rowAt THEN allRecords[Len(allRecords)] ELSE allRecords[k]
        BY <2>1
      <4>2. allRecords \in Seq(Seq(Cell)) /\ rowAt \in DOMAIN allRecords
        BY <1>2
      <4> QED
        BY <3>1, <4>1, <4>2, MovedKeepsCount
    <3> QED
      BY <1>3, <2>4, <3>2
  <2>5. ASSUME NEW k \in DOMAIN allRecords'
        PROVE  /\ k < rowAt => ~Table!Has(allRecords'[k], query.filter)
               /\ PassedBy(allRecords[k])'
    <3>1. DOMAIN allRecords'[k] \subseteq Nat \ {0}
      <4>1. \E l \in DOMAIN allRecords : allRecords'[k] = allRecords[l]
        BY <1>2, <2>1
      <4> QED
        BY <1>2, <4>1
    <3>2. PassedBy(allRecords[k])'
      BY <2>1, <3>1 DEF PassedBy
    <3>3. k < rowAt => allRecords'[k] = allRecords[k] /\ k \in DOMAIN allRecords
      <4>1. k \in 1..(n - 1) /\ k \in 1..n /\ (k < rowAt => k # rowAt)
        BY <1>2, <2>1
      <4> QED
        BY <1>2, <2>1, <4>1
    <3> QED
      BY <1>3, <3>2, <3>3
  <2> QED
    BY <1>2, <1>3, <2>1, <2>3, <2>4, <2>5 DEF SweepInv
<1> QED
  BY <1>1, <1>4, <1>5, <1>6

----------------------------------------------------------------------------
(* The inductive invariant holds.                                          *)

LEMMA BeginEstablishes ==
  ASSUME ContractInv, NEW q \in Queries, Begin(q), contract' = contract
  PROVE  LoopInv'
<1>1. /\ q.table \in Tables
      /\ query' = q /\ rowAt' = 1 /\ cellAt' = 1 /\ results' = <<>>
      /\ saved' = tables[q.table] /\ tables' = tables
  BY QueryFields DEF Begin, ContractInv, IdleInv
<1>2. allRecords' = saved' /\ saved' \in Seq(Seq(Cell))
  BY <1>1 DEF allRecords, ContractInv, TypeOK
<1>3. DOMAIN saved' \subseteq Nat \ {0}
      /\ \A k \in DOMAIN saved' : saved'[k] \in Seq(Cell)
  BY <1>2
<1>4. \A k \in DOMAIN saved' : k >= 1 /\ ~(k < 1) /\ DOMAIN saved'[k] \subseteq Nat \ {0}
  BY <1>3
<1>5. SelectInv'
  <2>1. \A k \in DOMAIN saved' : ~Seen(k)'
    BY <1>1, <1>4 DEF Seen
  <2>2. Range(<<>>) = {}
    BY DEF Range
  <2> QED
    BY <1>1, <1>2, <2>1, <2>2 DEF SelectInv
<1>6. ASSUME q.op = "update" PROVE UpdateInv'
  <2>1. ASSUME NEW k \in DOMAIN saved'
        PROVE  Rest(allRecords[k])' = Table!Changed(saved'[k], q.set, q.filter)
    <3>1. Rest(allRecords[k])' =
             IF \E j \in DOMAIN saved'[k] : j >= 1 /\ saved'[k][j] = q.filter
             THEN SetField(saved'[k], q.set) ELSE saved'[k]
      BY <1>1, <1>2 DEF Rest
    <3>2. saved'[k] \in Seq(Cell) /\ q.set \in Cell
      BY <1>3, <1>6, QueryFields
    <3> QED
      BY <3>1, <3>2, RestOfWhole
  <2> QED
    BY <1>1, <1>2, <1>4, <2>1 DEF UpdateInv
<1>7. \A k \in DOMAIN saved' : PassedBy(saved[k])' /\ PassedBy(allRecords[k])'
  BY <1>1, <1>2, <1>4 DEF PassedBy
<1>8. BlankInv'
  BY <1>1, <1>2, <1>4, <1>7 DEF BlankInv
<1>9. SweepInv'
  BY <1>1, <1>2, <1>4, <1>7 DEF SweepInv
<1> QED
  BY <1>1, <1>5, <1>6, <1>8, <1>9 DEF LoopInv

LEMMA StepKeepsInv == ContractInv /\ [Next]_vars => ContractInv'
<1> SUFFICES ASSUME ContractInv, [Next]_vars PROVE ContractInv'
  OBVIOUS
<1>1. TypeOK /\ TypeOK' /\ IdleInv /\ LoopInv
  BY StepKeepsType DEF ContractInv
<1>2. ASSUME NEW t \in Tables, NEW record \in Rows, insertRecord(t, record)
      PROVE  IdleInv' /\ LoopInv'
  BY <1>1, <1>2 DEF insertRecord, local, IdleInv, LoopInv
<1>3. ASSUME NEW q \in Queries, Begin(q), contract' = contract
      PROVE  IdleInv' /\ LoopInv'
  BY <1>1, <1>3, BeginEstablishes, QueryFields DEF Begin, IdleInv
<1>4. ASSUME Loop, contract' = contract
      PROVE  IdleInv' /\ LoopInv'
  <2>1. query # NoQuery /\ query' = query
    BY <1>1, <1>4, RoundFacts
  <2> QED
    BY <1>1, <1>4, <2>1, SelectKept, UpdateKept, BlankKept, SweepKept DEF IdleInv, LoopInv
<1>5. ASSUME Return \/ Revert
      PROVE  IdleInv' /\ LoopInv'
  BY <1>5 DEF Return, Revert, End, IdleInv, LoopInv
<1>6. CASE UNCHANGED vars
  <2>1. /\ contract' = contract /\ tables' = tables /\ query' = query /\ rowAt' = rowAt
        /\ cellAt' = cellAt /\ results' = results /\ saved' = saved
    BY <1>6 DEF vars, local
  <2>2. SelectInv => SelectInv'
    BY <2>1 DEF SelectInv, Seen, allRecords
  <2>3. UpdateInv => UpdateInv'
    BY <2>1 DEF UpdateInv, Rest, allRecords
  <2>4. BlankInv => BlankInv'
    BY <2>1 DEF BlankInv, PassedBy, allRecords
  <2>5. SweepInv => SweepInv'
    BY <2>1 DEF SweepInv, PassedBy, allRecords, Places
  <2>6. IdleInv'
    BY <1>1, <2>1 DEF IdleInv
  <2>7. LoopInv'
    BY <1>1, <2>1, <2>2, <2>3, <2>4, <2>5 DEF LoopInv
  <2> QED
    BY <1>1, <2>6, <2>7 DEF ContractInv
<1>7. ASSUME Next
      PROVE  IdleInv' /\ LoopInv'
  <2>1. contract' = contract
    BY <1>7 DEF Next
  <2> QED
    BY <1>2, <1>3, <1>4, <1>5, <1>7, <2>1 DEF Next
<1> QED
  BY <1>1, <1>6, <1>7 DEF ContractInv

LEMMA ContractSpecInv == Spec => []ContractInv
<1>1. Init => ContractInv
  BY TypeHoldsAtFirst DEF Init, ContractInv, IdleInv, LoopInv
<1> QED
  BY <1>1, StepKeepsInv, PTL DEF Spec

----------------------------------------------------------------------------
(* What an array is as a bag.                                              *)

LEMMA RowsOfCounts ==
  ASSUME NEW s
  PROVE  RowsOf(s) = [row \in Range(s) \ {<<>>} |-> Cardinality(Places(s, row))]
<1>1. {s[k] : k \in {l \in DOMAIN s : s[l] # <<>>}} = Range(s) \ {<<>>}
  BY DEF Range
<1>2. ASSUME NEW row \in Range(s) \ {<<>>}
      PROVE  {k \in {l \in DOMAIN s : s[l] # <<>>} : s[k] = row} = Places(s, row)
  BY DEF Places
<1> QED
  BY <1>1, <1>2 DEF RowsOf

(* A select finds the rows of its table that have the value, in whatever   *)
(* order and number, and no blanked record (SelectFindsRows).              *)
THEOREM ContractSelects == Spec => []SelectFindsRows
<1>1. ContractInv => SelectFindsRows
  <2> SUFFICES ASSUME ContractInv, query # NoQuery, query.op = "select", ~AtRow
               PROVE  Range(results) =
                        {row \in DOMAIN RowsOf(saved) : Table!Has(row, query.filter)}
    BY DEF SelectFindsRows
  <2>1. /\ allRecords = saved
        /\ Range(results) = {saved[k] : k \in {l \in DOMAIN saved : Seen(l)}}
        /\ saved \in Seq(Seq(Cell)) /\ rowAt \in Nat
    BY DEF ContractInv, LoopInv, SelectInv, TypeOK
  <2>2. \A k \in DOMAIN saved : k < rowAt
    BY <2>1 DEF AtRow
  <2>3. \A k \in DOMAIN saved : Seen(k) <=> Table!Has(saved[k], query.filter)
    BY <2>2 DEF Seen, Table!Has
  <2>4. DOMAIN RowsOf(saved) = Range(saved) \ {<<>>}
    BY RowsOfCounts
  <2>5. ~Table!Has(<<>>, query.filter)
    BY DEF Table!Has
  <2> QED
    BY <2>1, <2>3, <2>4, <2>5 DEF Range
<1> QED
  BY <1>1, ContractSpecInv, PTL

(* Rows of an array numbered one by one are the places of the array.       *)
PlacesIn(records, V) == {k \in DOMAIN records : records[k] \in V}
Numbered(records, V) ==
    UNION {{v} \X (1..Cardinality(Places(records, v))) : v \in V}

LEMMA CountByValue ==
  ASSUME NEW S, NEW s \in Seq(S), NEW V, V \subseteq Range(s)
  PROVE  Cardinality(PlacesIn(s, V)) = Cardinality(Numbered(s, V))
<1> DEFINE K == {k \in DOMAIN s : s[k] \in V}
           size(v) == Cardinality(Places(s, v))
           I == UNION {{v} \X (1..size(v)) : v \in V}
           numbering == [v \in V |-> CHOOSE b : b \in Bijection(1..size(v), Places(s, v))]
           G == [p \in I |-> numbering[p[1]][p[2]]]
<1>1. \A v \in V : IsFiniteSet(Places(s, v)) /\ size(v) \in Nat
  BY PlacesAreFinite
<1>2. ASSUME NEW v \in V
      PROVE  numbering[v] \in Bijection(1..size(v), Places(s, v))
  <2>1. Bijection(1..size(v), Places(s, v)) # {}
    BY <1>1, FS_CardinalityType DEF ExistsBijection
  <2>2. \E b : b \in Bijection(1..size(v), Places(s, v))
    BY <2>1
  <2> QED
    BY <2>2
<1>3. IsFiniteSet(K)
  <2>1. K \in SUBSET (1..Len(s))
    OBVIOUS
  <2> QED
    BY <2>1, FS_Interval, FS_Subset
<1>4. \A p \in I : p[1] \in V /\ p[2] \in 1..size(p[1]) /\ p = <<p[1], p[2]>>
  OBVIOUS
<1>5. \A v \in V : \A m \in 1..size(v) :
         <<v, m>> \in I /\ <<v, m>>[1] = v /\ <<v, m>>[2] = m
  OBVIOUS
<1> HIDE DEF numbering, size, I
<1>6. ASSUME NEW v \in V
      PROVE  /\ \A m \in 1..size(v) : numbering[v][m] \in Places(s, v)
             /\ \A m, l \in 1..size(v) : numbering[v][m] = numbering[v][l] => m = l
             /\ \A k \in Places(s, v) : \E m \in 1..size(v) : numbering[v][m] = k
  <2>1. /\ numbering[v] \in [1..size(v) -> Places(s, v)]
        /\ IsInjective(numbering[v])
        /\ \A k \in Places(s, v) : \E m \in 1..size(v) : numbering[v][m] = k
    BY <1>2 DEF Bijection, Injection, Surjection
  <2>2. DOMAIN numbering[v] = 1..size(v)
    BY <2>1
  <2> QED
    BY <2>1, <2>2 DEF IsInjective
<1>7. \A v : \A k \in Places(s, v) : k \in DOMAIN s /\ s[k] = v
  BY DEF Places
<1>8. G \in [I -> K]
  BY <1>4, <1>6, <1>7
<1>9. ASSUME NEW p \in I, NEW q \in I, G[p] = G[q]
      PROVE  p = q
  <2>1. G[p] = numbering[p[1]][p[2]] /\ G[q] = numbering[q[1]][q[2]]
    OBVIOUS
  <2>2. s[G[p]] = p[1] /\ s[G[q]] = q[1]
    BY <1>4, <1>6, <1>7, <2>1
  <2>3. p[1] = q[1]
    BY <1>9, <2>2
  <2>4. p[2] = q[2]
    BY <1>4, <1>6, <1>9, <2>1, <2>3
  <2> QED
    BY <1>4, <2>3, <2>4
<1>10. ASSUME NEW k \in K
       PROVE  \E p \in I : G[p] = k
  <2>1. s[k] \in V /\ k \in Places(s, s[k])
    BY DEF Places
  <2>2. PICK m \in 1..size(s[k]) : numbering[s[k]][m] = k
    BY <1>6, <2>1
  <2>3. <<s[k], m>> \in I /\ G[<<s[k], m>>] = k
    BY <1>5, <2>1, <2>2
  <2> QED
    BY <2>3
<1>11. G \in Injection(I, K) /\ G \in Surjection(I, K)
  <2> HIDE DEF G, K
  <2>1. DOMAIN G = I
    BY <1>8
  <2> QED
    BY <1>8, <1>9, <1>10, <2>1 DEF Injection, Surjection, IsInjective
<1> HIDE DEF G, K
<1>12. Cardinality(I) = Cardinality(K)
  BY <1>3, <1>11, FS_Injection
<1> QED
  BY <1>12 DEF K, I, size, PlacesIn, Numbered

(* The abstract specification counts and adds as this module does.         *)
LEMMA SameCounting == \A S : Table!Cardinality(S) = Cardinality(S)
BY DEF Table!Cardinality, Cardinality

LEMMA RowsOfNothing == RowsOf(<<>>) = Table!EmptyBag
<1>1. Range(<<>>) \ {<<>>} = {}
  BY DEF Range
<1> QED
  BY <1>1, RowsOfCounts DEF Table!EmptyBag, Table!SetToBag

\* A bag with one row more.
OneMore(bag, row) ==
    [r \in (DOMAIN bag) \cup {row} |->
        (IF r \in DOMAIN bag THEN bag[r] ELSE 0) + (IF r = row THEN 1 ELSE 0)]

LEMMA InsertAddsOne ==
  ASSUME NEW bag, NEW row
  PROVE  Table!(+)(bag, Table!SetToBag({row})) = OneMore(bag, row)
BY DEF Table!(+), Table!SetToBag, OneMore

LEMMA RowsOfAppended ==
  ASSUME NEW S, NEW s \in Seq(S), NEW record \in S
  PROVE  RowsOf(Append(s, record)) = IF record = <<>> THEN RowsOf(s)
                                     ELSE OneMore(RowsOf(s), record)
<1> DEFINE n == Len(s)
           t == Append(s, record)
<1>1. Range(t) = Range(s) \cup {record}
  BY RangeOfAppend
<1>2. n \in Nat /\ DOMAIN s = 1..n /\ n + 1 \notin 1..n /\ 1..(n + 1) = (1..n) \cup {n + 1}
  OBVIOUS
<1>3. DOMAIN t = 1..(n + 1) /\ t[n + 1] = record /\ \A k \in 1..n : t[k] = s[k]
  BY <1>2
<1> HIDE DEF t, n
<1>4. ASSUME NEW row
      PROVE  Places(t, row) = IF row = record THEN Places(s, row) \cup {n + 1} ELSE Places(s, row)
  BY <1>2, <1>3 DEF Places
<1>5. ASSUME NEW row
      PROVE  Cardinality(Places(t, row)) =
                Cardinality(Places(s, row)) + (IF row = record THEN 1 ELSE 0)
  <2>1. IsFiniteSet(Places(s, row)) /\ Cardinality(Places(s, row)) \in Nat
    BY PlacesAreFinite
  <2>2. n + 1 \notin Places(s, row)
    BY <1>2 DEF Places
  <2>3. Cardinality(Places(s, row) \cup {n + 1}) = Cardinality(Places(s, row)) + 1
    BY <2>1, <2>2, FS_AddElement
  <2>4. CASE row = record
    BY <1>4, <2>3, <2>4
  <2>5. CASE row # record
    BY <1>4, <2>1, <2>5
  <2> QED
    BY <2>4, <2>5
<1>6. ASSUME NEW row, row \notin Range(s)
      PROVE  Cardinality(Places(s, row)) = 0
  <2>1. Places(s, row) = {}
    BY <1>6 DEF Places, Range
  <2> QED
    BY <2>1, FS_EmptySet
<1>7. /\ RowsOf(t) = [row \in Range(t) \ {<<>>} |-> Cardinality(Places(t, row))]
      /\ RowsOf(s) = [row \in Range(s) \ {<<>>} |-> Cardinality(Places(s, row))]
  BY RowsOfCounts
<1>8. CASE record = <<>>
  <2>1. \A row \in Range(s) \ {<<>>} : Cardinality(Places(t, row)) = Cardinality(Places(s, row))
    BY <1>4, <1>8
  <2>2. Range(t) \ {<<>>} = Range(s) \ {<<>>}
    BY <1>1, <1>8
  <2> QED
    BY <1>7, <1>8, <2>1, <2>2 DEF t
<1>9. CASE record # <<>>
  <2>1. Range(t) \ {<<>>} = DOMAIN RowsOf(s) \cup {record}
    BY <1>1, <1>7, <1>9
  <2>2. ASSUME NEW row \in Range(t) \ {<<>>}
        PROVE  Cardinality(Places(t, row)) =
                  (IF row \in DOMAIN RowsOf(s) THEN RowsOf(s)[row] ELSE 0)
                     + (IF row = record THEN 1 ELSE 0)
    BY <1>5, <1>6, <1>7
  <2>3. RowsOf(t) = OneMore(RowsOf(s), record)
    BY <1>7, <2>1, <2>2 DEF OneMore
  <2> QED
    BY <1>9, <2>3 DEF t
<1> QED
  BY <1>8, <1>9

LEMMA RowsOfDeleted ==
  ASSUME NEW S, NEW s \in Seq(S), NEW t \in Seq(S), NEW filter,
         \A row \in Range(t) : ~Table!Has(row, filter),
         Range(t) \ {<<>>} \subseteq Range(s),
         \A row \in Range(s) \ {<<>>} : ~Table!Has(row, filter) =>
            Cardinality(Places(t, row)) = Cardinality(Places(s, row))
  PROVE  RowsOf(t) = Table!Kept(RowsOf(s), filter)
<1>1. /\ RowsOf(t) = [row \in Range(t) \ {<<>>} |-> Cardinality(Places(t, row))]
      /\ RowsOf(s) = [row \in Range(s) \ {<<>>} |-> Cardinality(Places(s, row))]
  BY RowsOfCounts
<1>2. ASSUME NEW row \in Range(s) \ {<<>>}, ~Table!Has(row, filter)
      PROVE  row \in Range(t)
  <2>1. /\ IsFiniteSet(Places(s, row)) /\ IsFiniteSet(Places(t, row))
    BY PlacesAreFinite
  <2>2. Places(s, row) # {}
    BY DEF Places, Range
  <2>3. Cardinality(Places(t, row)) = Cardinality(Places(s, row))
    BY <1>2
  <2>4. Places(t, row) # {}
    BY <2>1, <2>2, <2>3, FS_EmptySet
  <2> QED
    BY <2>4 DEF Places, Range
<1>3. Range(t) \ {<<>>} = {r \in DOMAIN RowsOf(s) : ~Table!Has(r, filter)}
  BY <1>1, <1>2
<1> QED
  BY <1>1, <1>3 DEF Table!Kept

LEMMA RowsOfUpdated ==
  ASSUME NEW s \in Seq(Seq(Cell)), NEW cell \in Cell, NEW filter, NEW t,
         DOMAIN t = DOMAIN s,
         \A k \in DOMAIN s : t[k] = Table!Changed(s[k], cell, filter)
  PROVE  RowsOf(t) = Table!Updated(RowsOf(s), cell, filter)
<1> DEFINE after(row) == Table!Changed(row, cell, filter)
           B == RowsOf(s)
<1>1. /\ RowsOf(t) = [row \in Range(t) \ {<<>>} |-> Cardinality(Places(t, row))]
      /\ B = [row \in Range(s) \ {<<>>} |-> Cardinality(Places(s, row))]
  BY RowsOfCounts
<1>2. /\ after(<<>>) = <<>>
      /\ \A k \in DOMAIN s : s[k] # <<>> => after(s[k]) # <<>>
  <2>1. after(<<>>) = <<>>
    BY DEF Table!Changed, Table!Has
  <2>2. ASSUME NEW row \in Seq(Cell), row # <<>> PROVE after(row) # <<>>
    <3>1. Table!With(row, cell) \in Seq(Cell)
          /\ Len(Table!With(row, cell)) = Len(row)
      BY SetFieldIsWith
    <3>2. Len(row) # 0
      BY <2>2
    <3>3. Table!With(row, cell) # <<>>
      BY <3>1, <3>2
    <3> QED
      BY <2>2, <3>3 DEF Table!Changed
  <2> QED
    BY <2>1, <2>2
<1> HIDE DEF after, B
<1>3. /\ \A k \in DOMAIN s : t[k] = after(s[k])
      /\ DOMAIN B = Range(s) \ {<<>>}
      /\ \A row \in DOMAIN B : B[row] = Cardinality(Places(s, row))
  BY <1>1 DEF after
<1>4. Range(t) \ {<<>>} = {after(row) : row \in DOMAIN B}
  BY <1>2, <1>3 DEF Range
<1>5. ASSUME NEW new \in Range(t) \ {<<>>}
      PROVE  Cardinality(Places(t, new)) =
                Cardinality({one \in Table!Instances(B) : after(one[1]) = new})
  <2> DEFINE V == {row \in DOMAIN B : after(row) = new}
  <2>1. Places(t, new) = PlacesIn(s, V)
    BY <1>2, <1>3 DEF Places, PlacesIn, Range
  <2>2. {one \in Table!Instances(B) : after(one[1]) = new} = Numbered(s, V)
    <3>1. Table!Instances(B) = UNION {{v} \X (1..Cardinality(Places(s, v))) : v \in DOMAIN B}
      BY <1>3 DEF Table!Instances
    <3> DEFINE mine(v) == {v} \X (1..Cardinality(Places(s, v)))
    <3>2. \A v : \A one \in mine(v) : one[1] = v
      OBVIOUS
    <3> HIDE DEF mine
    <3>3. {one \in UNION {mine(v) : v \in DOMAIN B} : after(one[1]) = new} =
             UNION {mine(v) : v \in V}
      BY <3>2
    <3> QED
      BY <3>1, <3>3 DEF mine, Numbered
  <2>3. V \subseteq Range(s)
    BY <1>3
  <2> HIDE DEF V
  <2>4. Cardinality(PlacesIn(s, V)) = Cardinality(Numbered(s, V))
    BY <2>3, CountByValue
  <2> QED
    BY <2>1, <2>2, <2>4
<1>6. RowsOf(t) = [new \in {after(row) : row \in DOMAIN B} |->
                     Cardinality({one \in Table!Instances(B) : after(one[1]) = new})]
  BY <1>1, <1>4, <1>5
<1> QED
  BY <1>6, SameCounting DEF after, B, Table!Updated

----------------------------------------------------------------------------
(* The contracts implement the bag of rows.                                *)

LEMMA InsertImplements ==
  ASSUME TypeOK, NEW t \in Tables, NEW record \in Rows, insertRecord(t, record)
  PROVE  Table!InsertRow(t, record)
<1>1. /\ query = NoQuery /\ query' = query /\ saved' = saved
      /\ tables' = [tables EXCEPT ![t] = Append(@, record)]
  BY DEF insertRecord, local
<1>2. /\ tables[t] \in Seq(Seq(Cell)) /\ record \in Seq(Cell)
      /\ tables' = [u \in Tables |-> IF u = t THEN Append(tables[t], record) ELSE tables[u]]
  BY <1>1, RowsAssumption DEF TypeOK
<1>3. /\ \A u \in Tables : TableRows[u] = RowsOf(tables[u])
      /\ \A u \in Tables : TableRows'[u] = RowsOf(tables'[u])
      /\ DOMAIN TableRows = Tables
      /\ TableRows' = [u \in Tables |-> RowsOf(tables'[u])]
  BY <1>1 DEF TableRows, Committed
<1>4. TableRows'[t] = IF record = <<>> THEN TableRows[t] ELSE OneMore(TableRows[t], record)
  BY <1>2, <1>3, RowsOfAppended
<1>5. TableRows' = [TableRows EXCEPT ![t] = TableRows'[t]]
  BY <1>2, <1>3 DEF TableRows
<1>6. TableRows'[t] = IF record = Table!NoRow THEN TableRows[t]
                      ELSE Table!(+)(TableRows[t], Table!SetToBag({record}))
  BY <1>4, InsertAddsOne DEF Table!NoRow
<1> QED
  BY <1>5, <1>6 DEF Table!InsertRow

(* As long as a call has not returned, and when it is undone, the tables   *)
(* hold what they held when it began.                                      *)
LEMMA CallsChangeNothingBefore ==
  ASSUME TypeOK, (\E q \in Queries : Begin(q)) \/ Loop \/ Revert
  PROVE  TableRows' = TableRows
<1>1. ASSUME NEW q \in Queries, Begin(q)
      PROVE  \A t \in Tables : Committed(t)' = Committed(t)
  BY <1>1, QueryFields DEF Begin, Committed
<1>2. ASSUME Loop
      PROVE  \A t \in Tables : Committed(t)' = Committed(t)
  <2>1. query # NoQuery /\ query' = query /\ saved' = saved
    BY <1>2, RoundFacts
  <2>2. ASSUME NEW t \in Tables, t # query.table
        PROVE  tables'[t] = tables[t]
    BY <1>2, <2>2 DEF Loop, EndRow, Pass, SelectCell, UpdateCell, BlankCell, SweepRow,
       Rewrite, TypeOK
  <2> QED
    BY <2>1, <2>2 DEF Committed
<1>3. ASSUME Revert
      PROVE  \A t \in Tables : Committed(t)' = Committed(t)
  BY <1>3 DEF Revert, End, Committed, TypeOK
<1> QED
  BY <1>1, <1>2, <1>3 DEF TableRows

LEMMA ReturnImplements ==
  ASSUME ContractInv, Return
  PROVE  [Table!TableNext]_TableRows
<1> DEFINE t == query.table
           s == saved
           r == tables[t]
<1>1. /\ query \in Queries /\ query # NoQuery /\ query' = NoQuery /\ tables' = tables
      /\ t \in Tables /\ query.filter \in Cell
      /\ query.op \in {"select", "update", "delete"}
      /\ query.op = "update" => query.set \in Cell
      /\ s \in Seq(Seq(Cell)) /\ r \in Seq(Seq(Cell)) /\ allRecords = r
      /\ rowAt \in Nat /\ ~(rowAt <= Len(r))
      /\ contract \in {"ethereum", "hedera"}
      /\ LoopInv
  BY QueryFields DEF Return, End, AtRow, ContractInv, TypeOK, allRecords
<1>2. \A k \in DOMAIN r : k < rowAt
  BY <1>1
<1>3. /\ TableRows' = [TableRows EXCEPT ![t] = RowsOf(r)]
      /\ TableRows[t] = RowsOf(s)
      /\ DOMAIN TableRows = Tables
      /\ RowsOf(r) = RowsOf(s) => TableRows' = TableRows
  <2>1. /\ TableRows = [u \in Tables |-> IF u = t THEN RowsOf(s) ELSE RowsOf(tables[u])]
        /\ TableRows' = [u \in Tables |-> RowsOf(tables[u])]
    BY <1>1 DEF TableRows, Committed
  <2> QED
    BY <1>1, <2>1
<1>4. CASE query.op = "select"
  BY <1>1, <1>3, <1>4 DEF LoopInv, SelectInv
<1>5. CASE query.op = "update"
  <2>1. /\ DOMAIN r = DOMAIN s
        /\ \A k \in DOMAIN s : r[k] = Table!Changed(s[k], query.set, query.filter)
    BY <1>1, <1>2, <1>5 DEF LoopInv, UpdateInv
  <2>2. query.set \in Cell
    BY <1>1, <1>5
  <2>3. RowsOf(r) = Table!Updated(RowsOf(s), query.set, query.filter)
    BY <1>1, <2>1, <2>2, RowsOfUpdated
  <2>4. TableRows' = [TableRows EXCEPT ![t] = Table!Updated(@, query.set, query.filter)]
    BY <1>3, <2>3
  <2>5. Table!UpdateRows(t, query.set, query.filter)
    BY <2>4 DEF Table!UpdateRows
  <2> QED
    BY <1>1, <2>2, <2>5 DEF Table!TableNext
<1>6. CASE query.op = "delete"
  <2>1. /\ \A row \in Range(r) : ~Table!Has(row, query.filter)
        /\ Range(r) \ {<<>>} \subseteq Range(s)
        /\ \A row \in Range(s) \ {<<>>} : ~Table!Has(row, query.filter) =>
              Cardinality(Places(r, row)) = Cardinality(Places(s, row))
    <3>1. CASE contract = "ethereum"
      <4>1. /\ DOMAIN r = DOMAIN s
            /\ \A k \in DOMAIN s : r[k] = IF Table!Has(s[k], query.filter)
                                          THEN <<>> ELSE s[k]
        BY <1>1, <1>2, <1>6, <3>1 DEF LoopInv, BlankInv
      <4>2. ~Table!Has(<<>>, query.filter)
        BY DEF Table!Has
      <4> HIDE DEF r, s
      <4>3. ASSUME NEW row \in Range(s) \ {<<>>}, ~Table!Has(row, query.filter)
            PROVE  Places(r, row) = Places(s, row)
        BY <4>1, <4>3 DEF Places
      <4> QED
        BY <4>1, <4>2, <4>3 DEF Range
    <3>2. CASE contract = "hedera"
      <4>1. /\ \A k \in DOMAIN r : ~Table!Has(r[k], query.filter)
            /\ Range(r) \subseteq Range(s)
            /\ \A row \in Range(s) : ~Table!Has(row, query.filter) =>
                  Cardinality(Places(r, row)) = Cardinality(Places(s, row))
        BY <1>1, <1>2, <1>6, <3>2 DEF LoopInv, SweepInv
      <4> QED
        BY <4>1 DEF Range
    <3> QED
      BY <1>1, <3>1, <3>2
  <2>2. RowsOf(r) = Table!Kept(RowsOf(s), query.filter)
    BY <1>1, <2>1, RowsOfDeleted
  <2>3. TableRows' = [TableRows EXCEPT ![t] = Table!Kept(@, query.filter)]
    BY <1>3, <2>2
  <2>4. Table!DeleteRows(t, query.filter)
    BY <2>3 DEF Table!DeleteRows
  <2> QED
    BY <1>1, <2>4 DEF Table!TableNext
<1> QED
  BY <1>1, <1>4, <1>5, <1>6

(* Whatever the contract, its calls do to the bag of a table's rows what   *)
(* insert, update and delete do to it, at the moment they return and at no *)
(* other; a call that is undone has done nothing (ImplementsTable).        *)
THEOREM ContractsImplementTable == Spec => ImplementsTable
<1>1. Init => Table!TableInit
  <2> SUFFICES ASSUME Init PROVE TableRows = [t \in Tables |-> Table!EmptyBag]
    BY DEF Table!TableInit
  <2>1. \A t \in Tables : Committed(t) = <<>>
    BY DEF Init, Committed
  <2> QED
    BY <2>1, RowsOfNothing DEF TableRows
<1>2. ContractInv /\ [Next]_vars => [Table!TableNext]_TableRows
  <2> SUFFICES ASSUME ContractInv, [Next]_vars PROVE [Table!TableNext]_TableRows
    OBVIOUS
  <2>1. TypeOK
    BY DEF ContractInv
  <2>2. ASSUME NEW t \in Tables, NEW record \in Rows, insertRecord(t, record)
        PROVE  Table!TableNext
    BY <2>1, <2>2, InsertImplements DEF Table!TableNext
  <2>3. CASE UNCHANGED vars
    BY <2>3 DEF vars, local, TableRows, Committed
  <2>4. CASE Next
    BY <2>1, <2>2, <2>4, CallsChangeNothingBefore, ReturnImplements DEF Next
  <2> QED
    BY <2>3, <2>4
<1> QED
  BY <1>1, <1>2, ContractSpecInv, PTL DEF Spec, ImplementsTable, Table!TableSpec
=============================================================================
