---------------------------- MODULE MCContracts -----------------------------
(***************************************************************************)
(* Instances of the three contracts for TLC. What is deployed is either a  *)
(* Solidity contract on its chain or the Fabric contract on a channel.     *)
(***************************************************************************)
EXTENDS SqlContract, FabricContract

CONSTANTS a, b, x, y, n, m

C(f, v) == [field |-> f, value |-> v]

\* No cell, one, two, and a field given twice.
MCRows == {<<>>, <<C(a, x)>>, <<C(b, y), C(a, x)>>, <<C(a, x), C(a, y)>>}

R(fields, values) == [fields |-> fields, values |-> values]
None == R(<<>>, <<>>)
Submit(op, table, row, where) == [op |-> op, table |-> table, row |-> row, where |-> where]

\* Rows of the same values under other names, a value missing, a table of
\* its own; updates of what they filter by and of one field of two; filters
\* that hold for every record, for some, for none, and the one that throws.
MCCalls ==
    {Submit("insert", n, R(<<a, b>>, <<x, x>>), NullWhere),
     Submit("insert", n, R(<<b, a>>, <<x, x>>), NullWhere),
     Submit("insert", n, R(<<a, b>>, <<y>>), NullWhere),
     Submit("insert", m, R(<<a>>, <<x>>), NullWhere),
     Submit("update", n, R(<<a>>, <<y>>), [f \in {a} |-> x]),
     Submit("update", n, R(<<b, b>>, <<x, y>>), <<>>),
     Submit("update", n, R(<<a>>, <<y>>), NullWhere),
     Submit("delete", n, None, [f \in {a} |-> y]),
     Submit("delete", n, None, AstWhere),
     Submit("select", n, None, [f \in {b} |-> x]),
     Submit("select", n, None, NullWhere)}

\* Transactions differ only in what is made of them.
MCSymmetry == Permutations(Txs)

VARIABLE deployed

mcVars == <<deployed, vars, fabricVars>>

MCInit ==
    /\ Init
    /\ FabricInit
    /\ \/ deployed = "solidity"
       \/ deployed = "fabric" /\ contract = "hedera"

MCNext ==
    /\ UNCHANGED deployed
    /\ \/ deployed = "solidity" /\ Next /\ UNCHANGED fabricVars
       \/ deployed = "fabric" /\ FabricNext /\ UNCHANGED vars

MCSpec == MCInit /\ [][MCNext]_mcVars
=============================================================================
