---------------------------- MODULE FabricProofs ----------------------------
(***************************************************************************)
(* Proofs about FabricContract: its types, and that its transactions take  *)
(* effect one at a time as KeyedTable's calls, for every set of tables,    *)
(* fields, values, calls and transactions.                                 *)
(***************************************************************************)
EXTENDS FabricContract, TLAPS

(***************************************************************************)
(* The inductive invariant. What a transaction is going to write is what   *)
(* the contract makes of what it read, and a version is given to one record*)
(* only: where the versions are those that were read, so are the records.  *)
(***************************************************************************)
Hits(t) == {k \in DOMAIN tx[t].reads : Holds(tx[t].call.where, tx[t].reads[k].record)}

WritesFromReads(t) ==
    CASE tx[t].call.op = "insert" -> tx[t].writes = InsertWrites(tx[t].call)
      [] tx[t].call.op = "update" ->
            tx[t].writes = [k \in Hits(t) |-> Overlaid(tx[t].reads[k].record, tx[t].call.row)]
      [] tx[t].call.op = "delete" -> tx[t].writes = [k \in Hits(t) |-> Deleted]

Endorsed(t) ==
    /\ tx[t].call \in Calls
    /\ tx[t].call.op \in {"insert", "update", "delete"}
    /\ WritesFromReads(t)

VersionIsOld(s) == s.version <= height

SameVersionSameRecord(t) ==
    \A k \in DOMAIN tx[t].reads \cap DOMAIN world :
       tx[t].reads[k].version = world[k].version => tx[t].reads[k] = world[k]

\* A transaction that is as it should be in the world as it is.
Fits(t) ==
    /\ DOMAIN tx[t] = {"pc", "call", "reads", "writes"}
    /\ tx[t].pc \in {"idle", "endorsed", "committed", "invalid", "failed", "answered"}
    /\ tx[t].call \in Calls \cup {NoCall}
    /\ DOMAIN tx[t].reads \subseteq Key
    /\ \A k \in DOMAIN tx[t].reads : tx[t].reads[k] \in Stored
    /\ DOMAIN tx[t].writes \subseteq Key
    /\ \A k \in DOMAIN tx[t].writes : tx[t].writes[k] \in Record \cup {Deleted}
    /\ \A k \in DOMAIN tx[t].reads : VersionIsOld(tx[t].reads[k])
    /\ SameVersionSameRecord(t)
    /\ tx[t].pc = "endorsed" => Endorsed(t)

\* The world itself.
WorldFits ==
    /\ DOMAIN world \subseteq Key
    /\ \A k \in DOMAIN world : world[k] \in Stored
    /\ height \in Nat
    /\ DOMAIN tx = Txs
    /\ \A k \in DOMAIN world : VersionIsOld(world[k])

IInv == WorldFits /\ \A t \in Txs : Fits(t)

----------------------------------------------------------------------------
(* The operators on records give records.                                  *)

LEMMA RecordOfType ==
  ASSUME NEW row \in Row
  PROVE  RecordOf(row) \in Record
<1> DEFINE F == {row.fields[i] : i \in Counting(row)}
<1>1. F \in SUBSET FieldNames
  BY DEF Row, Counting
<1>2. ASSUME NEW f \in F
      PROVE  row.values[CHOOSE i \in Counting(row) : row.fields[i] = f] \in Texts
  <2>1. \E i \in Counting(row) : row.fields[i] = f
    OBVIOUS
  <2>2. (CHOOSE i \in Counting(row) : row.fields[i] = f) \in DOMAIN row.values
    BY <2>1 DEF Counting
  <2> QED
    BY <2>2 DEF Row
<1>3. RecordOf(row) \in [F -> Texts]
  BY <1>2 DEF RecordOf
<1> QED
  BY <1>1, <1>3 DEF Record

LEMMA RecordShape ==
  ASSUME NEW r \in Record
  PROVE  /\ DOMAIN r \in SUBSET FieldNames
         /\ \A f \in DOMAIN r : r[f] \in Texts
  BY DEF Record

LEMMA OverlaidType ==
  ASSUME NEW r \in Record, NEW row \in Row
  PROVE  Overlaid(r, row) \in Record
<1> DEFINE F == (DOMAIN r \ Given(row)) \cup DOMAIN RecordOf(row)
<1>1. DOMAIN RecordOf(row) \subseteq Given(row)
  BY DEF RecordOf, Given, Counting
<1>2. F \in SUBSET FieldNames
  BY RecordOfType, RecordShape
<1>3. ASSUME NEW f \in F
      PROVE  (IF f \in Given(row) THEN RecordOf(row)[f] ELSE r[f]) \in Texts
  BY RecordOfType, RecordShape, <1>1
<1>4. Overlaid(r, row) \in [F -> Texts]
  BY <1>3 DEF Overlaid
<1> QED
  BY <1>2, <1>4 DEF Record

LEMMA KeyType ==
  ASSUME NEW c \in Calls
  PROVE  KeyOf(c.table, c.row) \in Key
  BY CallsAssumption DEF KeyOf, Key, FabricCall, Row

----------------------------------------------------------------------------
(* What the contract computes has the types the channel stores.            *)

LEMMA ScanFacts ==
  ASSUME NEW n
  PROVE  /\ DOMAIN Scan(n) = {key \in DOMAIN world : key[1] = n}
         /\ \A k \in DOMAIN Scan(n) : Scan(n)[k] = world[k]
  BY DEF Scan

LEMMA InvTypeOK == IInv => FabricTypeOK
  BY DEF IInv, WorldFits, Fits, FabricTypeOK

LEMMA MatchingFacts ==
  ASSUME NEW c
  PROVE  /\ Matching(c) \subseteq DOMAIN Scan(c.table)
         /\ Matching(c) \subseteq DOMAIN world
<1>1. Matching(c) \subseteq DOMAIN Scan(c.table)
  BY DEF Matching
<1> QED
  BY <1>1, ScanFacts

LEMMA StoredTypes ==
  ASSUME FabricTypeOK
  PROVE  /\ \A k \in DOMAIN world :
               k \in Key /\ world[k].record \in Record /\ world[k].version \in Nat
         /\ \A t \in Txs : \A k \in DOMAIN tx[t].reads :
               /\ k \in Key
               /\ tx[t].reads[k].record \in Record
               /\ tx[t].reads[k].version \in Nat
  BY DEF FabricTypeOK, Stored

LEMMA WritesType ==
  ASSUME FabricTypeOK, NEW c \in Calls, c.op \in {"insert", "update", "delete"}
  PROVE  /\ DOMAIN Writes(c) \subseteq Key
         /\ \A k \in DOMAIN Writes(c) : Writes(c)[k] \in Record \cup {Deleted}
<1> c.row \in Row
  BY CallsAssumption DEF FabricCall
<1>1. CASE c.op = "insert"
  <2>1. Writes(c) = InsertWrites(c)
    BY <1>1 DEF Writes
  <2>2. KeyOf(c.table, c.row) \in Key /\ RecordOf(c.row) \in Record
    BY KeyType, RecordOfType
  <2> QED
    BY <2>1, <2>2 DEF InsertWrites
<1>2. CASE c.op = "update"
  <2>1. Writes(c) = UpdateWrites(c)
    BY <1>2 DEF Writes
  <2>2. \A k \in Matching(c) : k \in Key /\ world[k].record \in Record
    BY MatchingFacts, StoredTypes
  <2>3. \A k \in Matching(c) : Overlaid(world[k].record, c.row) \in Record
    BY <2>2, OverlaidType
  <2> QED
    BY <2>1, <2>2, <2>3 DEF UpdateWrites
<1>3. CASE c.op = "delete"
  <2>1. Writes(c) = DeleteWrites(c)
    BY <1>3 DEF Writes
  <2> QED
    BY <2>1, MatchingFacts, StoredTypes DEF DeleteWrites
<1> QED
  BY <1>1, <1>2, <1>3

----------------------------------------------------------------------------
(* At the start nothing has been submitted.                                *)
LEMMA InitInv == FabricInit => IInv
<1> SUFFICES ASSUME FabricInit PROVE IInv
  OBVIOUS
<1>1. \A t \in Txs : tx[t] = Unsubmitted
  BY DEF FabricInit
<1>2. DOMAIN world = {} /\ \A t \in Txs : DOMAIN tx[t].reads = {} /\ DOMAIN tx[t].writes = {}
  BY <1>1 DEF FabricInit, Unsubmitted
<1>4. \A t \in Txs : Fits(t)
  BY <1>1, <1>2 DEF Fits, SameVersionSameRecord, Unsubmitted
<1>5. WorldFits
  BY <1>2 DEF FabricInit, WorldFits
<1> QED
  BY <1>4, <1>5 DEF IInv

----------------------------------------------------------------------------
(* Steps that leave the world alone and set one transaction to something   *)
(* that is as the invariant wants it.                                      *)

\* What is true of a transaction depends on it and on the world alone.
LEMMA OneTxChanges ==
  ASSUME IInv, UNCHANGED <<world, height>>, NEW t \in Txs,
         tx' = [tx EXCEPT ![t] = tx'[t]], Fits(t)'
  PROVE  IInv'
<1>1. WorldFits'
  BY DEF IInv, WorldFits, VersionIsOld
<1>2. ASSUME NEW u \in Txs PROVE Fits(u)'
  <2>1. CASE u = t
    BY <2>1
  <2>2. CASE u # t
    <3>1. tx'[u] = tx[u] /\ Fits(u)
      BY <2>2 DEF IInv, WorldFits
    <3> QED
      BY <3>1 DEF Fits, VersionIsOld, SameVersionSameRecord, Endorsed, WritesFromReads, Hits
  <2> QED
    BY <2>1, <2>2
<1> QED
  BY <1>1, <1>2 DEF IInv

LEMMA EndorseKeepsInv ==
  ASSUME IInv, NEW t \in Txs, NEW c \in Calls, Endorse(t, c)
  PROVE  IInv'
<1> DEFINE new == [pc |-> "endorsed", call |-> c, reads |-> Reads(c), writes |-> Writes(c)]
<1>1. tx'[t] = new /\ tx' = [tx EXCEPT ![t] = tx'[t]] /\ UNCHANGED <<world, height>>
  BY DEF Endorse, IInv, WorldFits
<1>2. c.op \in {"insert", "update", "delete"}
  BY CallsAssumption DEF Endorse, FabricCall
<1>3. FabricTypeOK
  BY InvTypeOK
<1>4. \A k \in DOMAIN Reads(c) : k \in DOMAIN world /\ Reads(c)[k] = world[k]
  <2>1. CASE Scans(c)
    BY <2>1, ScanFacts DEF Reads
  <2>2. CASE ~Scans(c)
    BY <2>2 DEF Reads
  <2> QED
    BY <2>1, <2>2
<1>5. \A k \in DOMAIN Reads(c) :
         k \in Key /\ Reads(c)[k] \in Stored /\ VersionIsOld(Reads(c)[k])
  BY <1>4 DEF IInv, WorldFits
<1>6. SameVersionSameRecord(t)'
  BY <1>1, <1>4 DEF SameVersionSameRecord
<1>7. Endorsed(t)'
  <2> DEFINE hits == {k \in DOMAIN Reads(c) : Holds(c.where, Reads(c)[k].record)}
  <2>1. Hits(t)' = hits
    BY <1>1 DEF Hits
  <2>2. c.op # "insert" => hits = Matching(c)
    <3>1. c.op # "insert" => Reads(c) = Scan(c.table)
      BY DEF Reads, Scans
    <3>2. Matching(c) = {k \in DOMAIN Scan(c.table) : Holds(c.where, Scan(c.table)[k].record)}
      BY ScanFacts DEF Matching
    <3> QED
      BY <3>1, <3>2
  <2>3. CASE c.op = "insert"
    <3>1. tx'[t].call = c /\ tx'[t].writes = Writes(c)
      BY <1>1
    <3>2. Writes(c) = InsertWrites(c)
      BY <2>3 DEF Writes
    <3>3. WritesFromReads(t)'
      BY <2>3, <3>1, <3>2 DEF WritesFromReads, InsertWrites
    <3> QED
      BY <1>2, <3>1, <3>3 DEF Endorsed
  <2>4. CASE c.op = "update"
    <3>1. Writes(c) = [k \in hits |-> Overlaid(world[k].record, c.row)]
      BY <2>2, <2>4 DEF Writes, UpdateWrites
    <3>2. Writes(c) = [k \in hits |-> Overlaid(Reads(c)[k].record, c.row)]
      BY <3>1, <1>4
    <3>3. tx'[t].call = c /\ tx'[t].reads = Reads(c) /\ tx'[t].writes = Writes(c)
      BY <1>1
    <3>4. WritesFromReads(t)'
      BY <2>1, <2>4, <3>2, <3>3 DEF WritesFromReads
    <3> QED
      BY <1>2, <3>3, <3>4 DEF Endorsed
  <2>5. CASE c.op = "delete"
    <3>1. Writes(c) = [k \in hits |-> Deleted]
      BY <2>2, <2>5 DEF Writes, DeleteWrites
    <3>2. tx'[t].call = c /\ tx'[t].reads = Reads(c) /\ tx'[t].writes = Writes(c)
      BY <1>1
    <3>3. WritesFromReads(t)'
      BY <2>1, <2>5, <3>1, <3>2 DEF WritesFromReads
    <3> QED
      BY <1>2, <3>2, <3>3 DEF Endorsed
  <2> QED
    BY <1>2, <2>3, <2>4, <2>5
<1>8. Fits(t)'
  <2>2. \A k \in DOMAIN tx'[t].reads : VersionIsOld(tx[t].reads[k])'
    BY <1>1, <1>5 DEF VersionIsOld
  <2>3. /\ DOMAIN Writes(c) \subseteq Key
        /\ \A k \in DOMAIN Writes(c) : Writes(c)[k] \in Record \cup {Deleted}
    BY <1>2, <1>3, WritesType
  <2> QED
    BY <1>1, <1>5, <1>6, <1>7, <2>2, <2>3 DEF Fits
<1> QED
  BY <1>1, <1>8, OneTxChanges

\* A transaction that came to nothing, or only answered.
LEMMA EndorseFailsKeepsInv ==
  ASSUME IInv, NEW t \in Txs, NEW c \in Calls, EndorseFails(t, c)
  PROVE  IInv'
<1>1. /\ tx'[t] = [Unsubmitted EXCEPT !.pc = "failed", !.call = c]
      /\ tx' = [tx EXCEPT ![t] = tx'[t]]
      /\ UNCHANGED <<world, height>>
  BY DEF EndorseFails, IInv, WorldFits
<1>2. Fits(t)'
  BY <1>1 DEF Fits, Unsubmitted, SameVersionSameRecord
<1> QED
  BY <1>1, <1>2, OneTxChanges

LEMMA EvaluateKeepsInv ==
  ASSUME IInv, NEW t \in Txs, NEW c \in Calls, Evaluate(t, c)
  PROVE  IInv'
<1> DEFINE answer == [k \in Matching(c) |-> world[k]]
<1>1. /\ tx'[t] = [pc |-> "answered", call |-> c, writes |-> <<>>, reads |-> answer]
      /\ tx' = [tx EXCEPT ![t] = tx'[t]]
      /\ UNCHANGED <<world, height>>
  BY DEF Evaluate, IInv, WorldFits
<1>2. \A k \in DOMAIN answer : /\ k \in DOMAIN world /\ answer[k] = world[k]
                               /\ k \in Key /\ answer[k] \in Stored /\ VersionIsOld(answer[k])
  BY MatchingFacts DEF IInv, WorldFits
<1>3. SameVersionSameRecord(t)'
  BY <1>1, <1>2 DEF SameVersionSameRecord
<1>4. \A k \in DOMAIN tx'[t].reads : VersionIsOld(tx[t].reads[k])'
  BY <1>1, <1>2 DEF VersionIsOld
<1>5. Fits(t)'
  BY <1>1, <1>2, <1>3, <1>4 DEF Fits
<1> QED
  BY <1>1, <1>5, OneTxChanges

LEMMA InvalidateKeepsInv ==
  ASSUME IInv, NEW t \in Txs, Invalidate(t)
  PROVE  IInv'
<1>1. /\ tx' = [tx EXCEPT ![t] = tx'[t]]
      /\ tx'[t] = [tx[t] EXCEPT !.pc = "invalid"]
      /\ UNCHANGED <<world, height>>
  BY DEF Invalidate, IInv, WorldFits
<1>2. Fits(t)
  BY DEF IInv
<1>3. /\ tx'[t].pc = "invalid"
      /\ DOMAIN tx'[t] = DOMAIN tx[t]
      /\ tx'[t].call = tx[t].call
      /\ tx'[t].reads = tx[t].reads
      /\ tx'[t].writes = tx[t].writes
  BY <1>1, <1>2 DEF Fits
<1>4. Fits(t)'
  BY <1>1, <1>2, <1>3 DEF Fits, VersionIsOld, SameVersionSameRecord
<1> QED
  BY <1>1, <1>4, OneTxChanges

----------------------------------------------------------------------------
(* A commit: what is written has a version nobody has read.                *)

Gone(t) == {k \in DOMAIN tx[t].writes : tx[t].writes[k] = Deleted}

LEMMA CommitWorld ==
  ASSUME IInv, NEW t \in Txs, Commit(t)
  PROVE  /\ height' = height + 1
         /\ DOMAIN world' = (DOMAIN world \cup DOMAIN tx[t].writes) \ Gone(t)
         /\ \A k \in DOMAIN world' :
               IF k \in DOMAIN tx[t].writes
               THEN world'[k] = [record |-> tx[t].writes[k], version |-> height + 1]
               ELSE k \in DOMAIN world /\ world'[k] = world[k]
         /\ \A k \in DOMAIN world' \cap DOMAIN tx[t].writes :
               world'[k].record = tx[t].writes[k] /\ world'[k].version = height + 1
<1>1. /\ height' = height + 1
      /\ DOMAIN world' = (DOMAIN world \cup DOMAIN tx[t].writes) \ Gone(t)
  BY DEF Commit, Gone
<1>2. \A k \in DOMAIN world' :
         IF k \in DOMAIN tx[t].writes
         THEN world'[k] = [record |-> tx[t].writes[k], version |-> height + 1]
         ELSE k \in DOMAIN world /\ world'[k] = world[k]
  BY DEF Commit, Gone
<1>3. \A k \in DOMAIN world' \cap DOMAIN tx[t].writes :
         world'[k].record = tx[t].writes[k] /\ world'[k].version = height + 1
  BY <1>2
<1> QED
  BY <1>1, <1>2, <1>3

LEMMA CommitTx ==
  ASSUME IInv, NEW t \in Txs, Commit(t)
  PROVE  /\ DOMAIN tx' = Txs
         /\ tx'[t].pc = "committed"
         /\ \A u \in Txs :
               /\ u # t => tx'[u] = tx[u]
               /\ DOMAIN tx'[u] = DOMAIN tx[u]
               /\ tx'[u].call = tx[u].call
               /\ tx'[u].reads = tx[u].reads
               /\ tx'[u].writes = tx[u].writes
  BY DEF Commit, IInv, WorldFits, Fits

LEMMA CommitKeepsInv ==
  ASSUME IInv, NEW t \in Txs, Commit(t)
  PROVE  IInv'
<1>1. height \in Nat /\ height' = height + 1
  BY CommitWorld DEF IInv, WorldFits
<1>2. Fits(t)
  BY DEF IInv
<1>3. ASSUME NEW k \in DOMAIN world'
      PROVE  k \in Key /\ world'[k] \in Stored /\ VersionIsOld(world[k])'
  <2>1. CASE k \in DOMAIN tx[t].writes
    <3>1. world'[k] = [record |-> tx[t].writes[k], version |-> height + 1]
      BY <2>1, CommitWorld
    <3>2. tx[t].writes[k] # Deleted
      BY <2>1, CommitWorld DEF Gone
    <3>3. k \in Key /\ tx[t].writes[k] \in Record
      BY <1>2, <2>1, <3>2 DEF Fits
    <3> QED
      BY <1>1, <3>1, <3>3 DEF Stored, VersionIsOld
  <2>2. CASE k \notin DOMAIN tx[t].writes
    <3>1. k \in DOMAIN world /\ world'[k] = world[k]
      BY <2>2, CommitWorld
    <3>2. k \in Key /\ world[k] \in Stored /\ VersionIsOld(world[k])
      BY <3>1 DEF IInv, WorldFits
    <3>3. world[k].version \in Nat
      BY <3>2 DEF Stored
    <3> QED
      BY <1>1, <3>1, <3>2, <3>3 DEF VersionIsOld
  <2> QED
    BY <2>1, <2>2
<1>4. WorldFits'
  BY <1>1, <1>3, CommitTx DEF WorldFits
<1>5. ASSUME NEW u \in Txs PROVE Fits(u)'
  <2>1. Fits(u)
    BY DEF IInv
  <2>2. \A k \in DOMAIN tx[u].reads :
           tx[u].reads[k].version \in Nat /\ tx[u].reads[k].version <= height
    BY <2>1 DEF Fits, Stored, VersionIsOld
  <2>3. \A k \in DOMAIN tx'[u].reads : VersionIsOld(tx[u].reads[k])'
    BY <1>1, <2>2, CommitTx DEF VersionIsOld
  <2>4. ASSUME NEW k \in DOMAIN tx'[u].reads \cap DOMAIN world',
               tx'[u].reads[k].version = world'[k].version
        PROVE  tx'[u].reads[k] = world'[k]
    <3>1. tx'[u].reads = tx[u].reads
      BY CommitTx
    <3>2. k \notin DOMAIN tx[t].writes
      <4>1. tx[u].reads[k].version = world'[k].version /\ k \in DOMAIN tx[u].reads
        BY <2>4, <3>1
      <4>2. tx[u].reads[k].version \in Nat /\ tx[u].reads[k].version <= height
        BY <2>2, <4>1
      <4>3. k \in DOMAIN tx[t].writes => world'[k].version = height + 1
        BY CommitWorld
      <4> QED
        BY <1>1, <4>1, <4>2, <4>3
    <3>3. k \in DOMAIN world /\ world'[k] = world[k]
      BY <3>2, CommitWorld
    <3> QED
      BY <2>1, <2>4, <3>1, <3>3 DEF Fits, SameVersionSameRecord
  <2>5. SameVersionSameRecord(u)'
    BY <2>4 DEF SameVersionSameRecord
  <2>6. tx'[u].pc = "endorsed" => tx'[u] = tx[u]
    BY CommitTx
  <2>7. (tx[u].pc = "endorsed" => Endorsed(u))'
    BY <2>1, <2>6 DEF Fits, Endorsed, WritesFromReads, Hits
  <2>8. tx'[u].pc \in {"idle", "endorsed", "committed", "invalid", "failed", "answered"}
    BY <2>1, CommitTx DEF Fits
  <2> QED
    BY <2>1, <2>3, <2>5, <2>7, <2>8, CommitTx DEF Fits
<1> QED
  BY <1>4, <1>5 DEF IInv

LEMMA NextKeepsInv == IInv /\ [FabricNext]_fabricVars => IInv'
<1> SUFFICES ASSUME IInv, [FabricNext]_fabricVars PROVE IInv'
  OBVIOUS
<1>1. ASSUME NEW t \in Txs, NEW c \in Calls, Endorse(t, c) PROVE IInv'
  BY <1>1, EndorseKeepsInv
<1>2. ASSUME NEW t \in Txs, NEW c \in Calls, EndorseFails(t, c) PROVE IInv'
  BY <1>2, EndorseFailsKeepsInv
<1>3. ASSUME NEW t \in Txs, NEW c \in Calls, Evaluate(t, c) PROVE IInv'
  BY <1>3, EvaluateKeepsInv
<1>4. ASSUME NEW t \in Txs, Commit(t) PROVE IInv'
  BY <1>4, CommitKeepsInv
<1>5. ASSUME NEW t \in Txs, Invalidate(t) PROVE IInv'
  BY <1>5, InvalidateKeepsInv
<1>6. CASE UNCHANGED fabricVars
  <2>1. UNCHANGED <<world, height, tx>>
    BY <1>6 DEF fabricVars
  <2>2. WorldFits'
    BY <2>1 DEF IInv, WorldFits, VersionIsOld
  <2>3. ASSUME NEW t \in Txs PROVE Fits(t)'
    <3>1. Fits(t)
      BY DEF IInv
    <3> QED
      BY <2>1, <3>1 DEF Fits, VersionIsOld, SameVersionSameRecord, Endorsed,
                        WritesFromReads, Hits
  <2> QED
    BY <2>2, <2>3 DEF IInv
<1> QED
  BY <1>1, <1>2, <1>3, <1>4, <1>5, <1>6 DEF FabricNext

LEMMA FabricInvariant == FabricSpec => []IInv
<1> QED
  BY InitInv, NextKeepsInv, PTL DEF FabricSpec

(* Every state of the contract and its channel has its type: what is       *)
(* written is always a record under a key of the table's values.           *)
THEOREM FabricTypeCorrect == FabricSpec => []FabricTypeOK
<1> QED
  BY FabricInvariant, InvTypeOK, PTL

----------------------------------------------------------------------------
(* A commit is a call of the keyed table, and nothing else changes it.     *)

LEMMA ReadsAreTheWorld ==
  ASSUME IInv, NEW t \in Txs, tx[t].pc = "endorsed", ReadsAreCurrent(t), Scans(tx[t].call)
  PROVE  /\ DOMAIN tx[t].reads = {k \in DOMAIN world : k[1] = tx[t].call.table}
         /\ \A k \in DOMAIN tx[t].reads : tx[t].reads[k] = world[k]
<1>1. /\ DOMAIN Scan(tx[t].call.table) = DOMAIN tx[t].reads
      /\ \A k \in DOMAIN tx[t].reads :
            Scan(tx[t].call.table)[k].version = tx[t].reads[k].version
  BY DEF ReadsAreCurrent
<1>2. SameVersionSameRecord(t)
  BY DEF IInv, Fits
<1>3. \A k \in DOMAIN tx[t].reads : k \in DOMAIN world /\ world[k].version = tx[t].reads[k].version
  BY <1>1, ScanFacts
<1> QED
  BY <1>1, <1>2, <1>3, ScanFacts DEF SameVersionSameRecord

\* KeyedTable has the operators on records for itself: they are the same.
LEMMA SameFilter ==
  ASSUME NEW w, NEW r
  PROVE  Shown!Holds(w, r) <=> Holds(w, r)
  BY DEF Shown!Holds, Holds, Shown!Record, Record

LEMMA SameRecords ==
  ASSUME NEW n, NEW r, NEW row
  PROVE  /\ Shown!KeyOf(n, row) = KeyOf(n, row)
         /\ Shown!RecordOf(row) = RecordOf(row)
         /\ Shown!Overlaid(r, row) = Overlaid(r, row)
<1>1. Shown!RecordOf(row) = RecordOf(row)
  BY DEF Shown!RecordOf, RecordOf, Shown!Counting, Counting
<1>2. Shown!Given(row) = Given(row)
  BY DEF Shown!Given, Given
<1> QED
  BY <1>1, <1>2 DEF Shown!Overlaid, Overlaid, Shown!KeyOf, KeyOf

LEMMA HitsAreChosen ==
  ASSUME IInv, NEW t \in Txs, tx[t].pc = "endorsed", ReadsAreCurrent(t), Scans(tx[t].call)
  PROVE  Hits(t) = Shown!Chosen(tx[t].call.table, tx[t].call.where)
<1>1. Hits(t) = {k \in DOMAIN tx[t].reads : Holds(tx[t].call.where, world[k].record)}
  BY ReadsAreTheWorld DEF Hits
<1>2. Hits(t) = {k \in DOMAIN world : /\ k[1] = tx[t].call.table
                                      /\ Holds(tx[t].call.where, world[k].record)}
  BY <1>1, ReadsAreTheWorld
<1>3. Shown!Chosen(tx[t].call.table, tx[t].call.where) =
         {k \in DOMAIN world : /\ k[1] = tx[t].call.table
                               /\ Shown!Holds(tx[t].call.where, world[k].record)}
  BY DEF Shown!Chosen
<1> QED
  BY <1>2, <1>3, SameFilter

LEMMA CommitIsACall ==
  ASSUME IInv, NEW t \in Txs, Commit(t)
  PROVE  Shown!KeyedNext
<1> DEFINE c == tx[t].call
           view == [k \in DOMAIN world |-> world[k].record]
<1>1. Endorsed(t) /\ tx[t].pc = "endorsed" /\ ReadsAreCurrent(t)
  BY DEF Commit, IInv, Fits
<1>2. c \in Calls /\ c.row \in Row
  BY <1>1, CallsAssumption DEF Endorsed, FabricCall
<1>3. c.op \in {"insert", "update", "delete"} /\ WritesFromReads(t)
  BY <1>1 DEF Endorsed
<1>4. CASE c.op = "insert"
  <2>1. /\ DOMAIN tx[t].writes = {KeyOf(c.table, c.row)}
        /\ tx[t].writes[KeyOf(c.table, c.row)] = RecordOf(c.row)
    BY <1>3, <1>4 DEF WritesFromReads, InsertWrites
  <2>2. Gone(t) = {}
    BY <1>2, <2>1, RecordOfType, DeletedAssumption DEF Gone
  <2>3. DOMAIN world' = DOMAIN world \cup {KeyOf(c.table, c.row)}
    BY <2>1, <2>2, CommitWorld
  <2>4. \A k \in DOMAIN world' :
           world'[k].record = IF k = KeyOf(c.table, c.row) THEN RecordOf(c.row) ELSE view[k]
    <3> SUFFICES ASSUME NEW k \in DOMAIN world'
                 PROVE  world'[k].record = IF k = KeyOf(c.table, c.row)
                                           THEN RecordOf(c.row) ELSE view[k]
      OBVIOUS
    <3>1. CASE k = KeyOf(c.table, c.row)
      BY <2>1, <3>1, CommitWorld
    <3>2. CASE k # KeyOf(c.table, c.row)
      BY <2>1, <3>2, CommitWorld
    <3> QED
      BY <3>1, <3>2
  <2>5. view' = [k \in DOMAIN view \cup {KeyOf(c.table, c.row)} |->
                   IF k = KeyOf(c.table, c.row) THEN RecordOf(c.row) ELSE view[k]]
    BY <2>3, <2>4
  <2>6. Shown!InsertRow(c.table, c.row)
    BY <2>5, SameRecords DEF Shown!InsertRow
  <2> QED
    BY <1>2, <1>4, <2>6 DEF Shown!KeyedNext, Shown!InsertRow
<1>5. CASE c.op = "update"
  <2> DEFINE hits == Shown!Chosen(c.table, c.where)
  <2>1. Hits(t) = hits /\ \A k \in Hits(t) : tx[t].reads[k] = world[k] /\ k \in DOMAIN world
    BY <1>1, <1>5, HitsAreChosen, ReadsAreTheWorld DEF Scans, Hits
  <2>2. /\ DOMAIN tx[t].writes = hits
        /\ \A k \in hits : tx[t].writes[k] = Overlaid(view[k], c.row)
    <3>1. tx[t].writes = [k \in Hits(t) |-> Overlaid(tx[t].reads[k].record, c.row)]
      BY <1>3, <1>5 DEF WritesFromReads
    <3> QED
      BY <2>1, <3>1
  <2>3. \A k \in hits : view[k] \in Record
    BY <2>1, InvTypeOK, StoredTypes
  <2>4. Gone(t) = {}
    BY <1>2, <2>2, <2>3, OverlaidType, DeletedAssumption DEF Gone
  <2>5. DOMAIN world' = DOMAIN world
    <3>1. hits \subseteq DOMAIN world
      BY <2>1
    <3> HIDE DEF hits
    <3> QED
      BY <2>2, <2>4, <3>1, CommitWorld
  <2>6. \A k \in DOMAIN world' :
           world'[k].record = IF k \in hits THEN Overlaid(view[k], c.row) ELSE view[k]
    <3> SUFFICES ASSUME NEW k \in DOMAIN world'
                 PROVE  world'[k].record = IF k \in hits
                                           THEN Overlaid(view[k], c.row) ELSE view[k]
      OBVIOUS
    <3> HIDE DEF hits
    <3>1. CASE k \in hits
      BY <2>2, <3>1, CommitWorld
    <3>2. CASE k \notin hits
      BY <2>2, <3>2, CommitWorld
    <3> QED
      BY <3>1, <3>2
  <2>7. view' = [k \in DOMAIN view |-> IF k \in hits THEN Overlaid(view[k], c.row) ELSE view[k]]
    BY <2>5, <2>6
  <2>8. Shown!UpdateRows(c.table, c.row, c.where)
    BY <2>7, SameRecords DEF Shown!UpdateRows
  <2> QED
    BY <1>2, <1>5, <2>8 DEF Shown!KeyedNext, Shown!UpdateRows
<1>6. CASE c.op = "delete"
  <2> DEFINE hits == Shown!Chosen(c.table, c.where)
  <2>1. Hits(t) = hits
    BY <1>1, <1>6, HitsAreChosen DEF Scans
  <2>2. tx[t].writes = [k \in hits |-> Deleted]
    BY <1>3, <1>6, <2>1 DEF WritesFromReads
  <2>3. Gone(t) = hits
    BY <2>2 DEF Gone
  <2>4. DOMAIN world' = DOMAIN world \ hits
    BY <2>2, <2>3, CommitWorld
  <2>5. \A k \in DOMAIN world' : world'[k] = world[k]
    BY <2>2, <2>4, CommitWorld
  <2>6. view' = [k \in DOMAIN view \ hits |-> view[k]]
    BY <2>4, <2>5
  <2>7. Shown!DeleteRows(c.table, c.where)
    BY <2>6 DEF Shown!DeleteRows
  <2> QED
    BY <1>2, <1>6, <2>7 DEF Shown!KeyedNext, Shown!DeleteRows
<1> QED
  BY <1>3, <1>4, <1>5, <1>6

LEMMA StepIsACallOrNothing ==
  ASSUME IInv, [FabricNext]_fabricVars
  PROVE  [Shown!KeyedNext]_([k \in DOMAIN world |-> world[k].record])
<1>1. ASSUME NEW t \in Txs, Commit(t) PROVE Shown!KeyedNext
  BY <1>1, CommitIsACall
<1>2. CASE UNCHANGED world
  BY <1>2
<1>3. UNCHANGED world \/ \E t \in Txs : Commit(t)
  BY DEF FabricNext, fabricVars, Endorse, EndorseFails, Evaluate, Invalidate
<1> QED
  BY <1>1, <1>2, <1>3

(* Transactions take effect one at a time, in the order they commit, each  *)
(* as the table is then: no update computed before other transactions      *)
(* changed the table is ever written (sqlContract.js:54-69).               *)
THEOREM FabricImplementsKeyedTable == FabricSpec => ImplementsKeyedTable
<1>1. FabricInit => Shown!KeyedInit
  BY DEF FabricInit, Shown!KeyedInit
<1>2. IInv /\ [FabricNext]_fabricVars
        => [Shown!KeyedNext]_([k \in DOMAIN world |-> world[k].record])
  BY StepIsACallOrNothing
<1> QED
  BY <1>1, <1>2, FabricInvariant, PTL DEF FabricSpec, ImplementsKeyedTable, Shown!KeyedSpec
=============================================================================
