--------------------------- MODULE FabricContract ---------------------------
(***************************************************************************)
(* adapters/contracts/hyperledger/sqlContract.js on a Fabric channel. The  *)
(* contract's functions run when a transaction is endorsed: against the    *)
(* world state of that moment, and without changing it - getState records  *)
(* what was read, putState and deleteState what is to be written. Later,   *)
(* in the order of the channel, the transaction commits: its writes are    *)
(* made as they were computed if what it read is still what is there, and  *)
(* it is invalid otherwise. Between the two other transactions commit.     *)
(*                                                                         *)
(* The endorsement is the contract's, the validation is Fabric's, here as  *)
(* the contract relies on it.                                              *)
(***************************************************************************)
EXTENDS FabricRecords

CONSTANTS
    Txs,        \* transactions, each submitted at most once
    Deleted,    \* what deleteState puts into the write set
    NoCall

ASSUME DeletedAssumption == Deleted \notin Record
ASSUME NoCallAssumption == NoCall \notin FabricCall

VARIABLES
    world,    \* the world state: from keys to [record, version]
    height,   \* how many transactions committed: the next version's number
    tx        \* what became of each transaction

fabricVars == <<world, height, tx>>

Stored == [record: Record, version: Nat]

Unsubmitted == [pc |-> "idle", call |-> NoCall, reads |-> <<>>, writes |-> <<>>]

FabricTypeOK ==
    /\ DOMAIN world \subseteq Key
    /\ \A k \in DOMAIN world : world[k] \in Stored
    /\ height \in Nat
    /\ DOMAIN tx = Txs
    /\ \A t \in Txs :
          /\ DOMAIN tx[t] = {"pc", "call", "reads", "writes"}
          /\ tx[t].pc \in {"idle", "endorsed", "committed", "invalid", "failed", "answered"}
          /\ tx[t].call \in Calls \cup {NoCall}
          /\ DOMAIN tx[t].reads \subseteq Key
          /\ \A k \in DOMAIN tx[t].reads : tx[t].reads[k] \in Stored
          /\ DOMAIN tx[t].writes \subseteq Key
          /\ \A k \in DOMAIN tx[t].writes : tx[t].writes[k] \in Record \cup {Deleted}

FabricInit ==
    /\ world = <<>>
    /\ height = 0
    /\ tx = [t \in Txs |-> Unsubmitted]

----------------------------------------------------------------------------
(* The contract's functions.                                               *)

(* getStateByPartialCompositeKey(table, []): all there is of the table.    *)
Scan(table) ==
    [k \in {key \in DOMAIN world : key[1] = table} |-> world[k]]

\* Mutant of Scans: updates find their rows by a query that is not recorded.
ScansToDelete(c) == c.op = "delete"

\* Inserts put without looking; the others go over the whole table.
Scans(c) == c.op # "insert"

Reads(c) == IF Scans(c) THEN Scan(c.table) ELSE <<>>

Matching(c) == {k \in DOMAIN Scan(c.table) : Holds(c.where, world[k].record)}

(* Object.entries(null) throws, at the first record there is.              *)
Throws(c) ==
    /\ c.op # "insert"
    /\ c.where = NullWhere
    /\ DOMAIN Scan(c.table) # {}

\* Mutant of InsertWrites: the two lists are put instead of the record.
InsertPutsLists(c) == [k \in {KeyOf(c.table, c.row)} |-> c.row]

InsertWrites(c) == [k \in {KeyOf(c.table, c.row)} |-> RecordOf(c.row)]

UpdateWrites(c) == [k \in Matching(c) |-> Overlaid(world[k].record, c.row)]

DeleteWrites(c) == [k \in Matching(c) |-> Deleted]

Writes(c) ==
    CASE c.op = "insert" -> InsertWrites(c)
      [] c.op = "update" -> UpdateWrites(c)
      [] c.op = "delete" -> DeleteWrites(c)

Endorse(t, c) ==
    /\ tx[t].pc = "idle"
    /\ c.op # "select"
    /\ ~Throws(c)
    /\ tx' = [tx EXCEPT ![t] = [pc |-> "endorsed", call |-> c,
                                reads |-> Reads(c), writes |-> Writes(c)]]
    /\ UNCHANGED <<world, height>>

EndorseFails(t, c) ==
    /\ tx[t].pc = "idle"
    /\ Throws(c)
    /\ tx' = [tx EXCEPT ![t] = [Unsubmitted EXCEPT !.pc = "failed", !.call = c]]
    /\ UNCHANGED <<world, height>>

(* select is evaluated, not submitted: nothing is ordered or committed.    *)
Evaluate(t, c) ==
    /\ tx[t].pc = "idle"
    /\ c.op = "select"
    /\ ~Throws(c)
    /\ tx' = [tx EXCEPT ![t] = [pc |-> "answered", call |-> c, writes |-> <<>>,
                                reads |-> [k \in Matching(c) |-> world[k]]]]
    /\ UNCHANGED <<world, height>>

----------------------------------------------------------------------------
(* Fabric validates and commits, in the order of the channel.              *)

(* What was read is there with the versions it had, and nothing new.       *)
ReadsAreCurrent(t) ==
    \/ ~Scans(tx[t].call)
    \/ LET scanned == Scan(tx[t].call.table)
       IN  /\ DOMAIN scanned = DOMAIN tx[t].reads
           /\ \A k \in DOMAIN scanned : scanned[k].version = tx[t].reads[k].version

Commit(t) ==
    /\ tx[t].pc = "endorsed"
    /\ ReadsAreCurrent(t)
    /\ LET writes == tx[t].writes
           gone == {k \in DOMAIN writes : writes[k] = Deleted}
       IN  world' = [k \in (DOMAIN world \cup DOMAIN writes) \ gone |->
                        IF k \in DOMAIN writes
                        THEN [record |-> writes[k], version |-> height + 1]
                        ELSE world[k]]
    /\ height' = height + 1
    /\ tx' = [tx EXCEPT ![t].pc = "committed"]

Invalidate(t) ==
    /\ tx[t].pc = "endorsed"
    /\ ~ReadsAreCurrent(t)
    /\ tx' = [tx EXCEPT ![t].pc = "invalid"]
    /\ UNCHANGED <<world, height>>

FabricNext ==
    \/ \E t \in Txs, c \in Calls : Endorse(t, c) \/ EndorseFails(t, c) \/ Evaluate(t, c)
    \/ \E t \in Txs : Commit(t) \/ Invalidate(t)

FabricSpec == FabricInit /\ [][FabricNext]_fabricVars

----------------------------------------------------------------------------
Shown == INSTANCE KeyedTable WITH
            rows <- [k \in DOMAIN world |-> world[k].record]

(* Transactions take effect one at a time, in the order they commit, each  *)
(* as the table is then: an update computed before another transaction     *)
(* changed the table neither brings back a row deleted since nor undoes    *)
(* what another update wrote, and changes every row that matches when it   *)
(* commits (sqlContract.js:54-69 reads long before its writes are made).   *)
ImplementsKeyedTable == Shown!KeyedSpec
=============================================================================
