-------------------------- MODULE MCSqlInterpreter --------------------------
(* Instances of the interpreter for TLC.                                   *)
EXTENDS SqlInterpreter, TLC

AstOf(type, columns, rows) ==
    [type |-> type, action |-> "none", table |-> TRUE, columns |-> columns,
     rows |-> rows, length |-> Undefined]

\* The texts clients send, named after what they say.
MCParse ==
    [select        |-> AstOf("select", 1, "none"),
     other_select  |-> AstOf("select", 2, "none"),
     insert        |-> AstOf("insert", 2, "list"),
     insert_length |-> [AstOf("insert", 1, "list") EXCEPT !.length = 1],
     insert_select |-> AstOf("insert", 0, "query"),
     update        |-> AstOf("update", 0, "none"),
     delete        |-> AstOf("delete", 0, "none"),
     create        |-> AstOf("create", 0, "none"),
     grant         |-> AstOf("grant", 0, "none"),
     merge         |-> AstOf("merge", 0, "none"),
     analyze       |-> AstOf("analyze", 0, "none"),
     select_no_table |-> [AstOf("select", 1, "none") EXCEPT !.table = FALSE],
     commit        |-> [AstOf("transaction", 0, "none") EXCEPT
                           !.action = "commit", !.table = FALSE],
     savepoint     |-> AstOf("savepoint_expr", 0, "none"),
     nonsense      |-> ParseError]

MCLower ==
    [n \in DOMAIN SUPPORTED_ADAPTERS \cup {"SQLite", "mongodb"} |->
        IF n = "SQLite" THEN "sqlite" ELSE n]

Number(ms) == [form |-> "number", ms |-> ms, scale |-> 1]

With(useCache, ttl) == [useCache |-> useCache, cacheTTL |-> ttl, list |-> "none"]
NoOptions == With(TRUE, Number(0))
Uncached == With(FALSE, Number(0))
MySql == [NoOptions EXCEPT !.list = "mysql"]

Send(sql, adapter, options) == [sql |-> sql, adapter |-> adapter, options |-> options]

MCDefaultTtl == Number(1)
MCKeys == {Key(s) : s \in Statements}
MCTtls == {TtlOf(s) : s \in Statements}
MCValues == Row

(* Reads and writes of one table: other options do not share an entry.     *)
CacheStatements ==
    {Send("select", "sqlite", NoOptions),
     Send("select", "sqlite", Uncached),
     Send("select", "sqlite", MySql),
     Send("insert", "sqlite", NoOptions)}

(* Every kind of statement and every adapter, accepted and refused. The two*)
(* spellings of an adapter share an entry, its two names do not.           *)
DispatchStatements ==
    {Send(q, a, NoOptions) : q \in DOMAIN MCParse, a \in {"database", "redis"}}
       \cup {Send(q, "hedera", NoOptions) : q \in {"select", "insert", "update"}}
       \cup {Send(q, "kafka", NoOptions) : q \in {"select", "insert", "delete"}}
       \cup {Send("select", a, NoOptions) : a \in {"ethereum", "hyperledger", "mongodb"}}
       \cup {Send("select", a, NoOptions) : a \in {"sqlite", "SQLite"}}
       \cup {Send("select", "redis", Uncached)}

\* Hyperledger never is: its connection profile was not found.
MCInitialised == Adapters \ {"hyperledger"}

\* One statement by itself.
OneRead == {Send("select", "redis", NoOptions)}
OneInsert == {Send("insert", "sqlite", NoOptions)}

RequestSymmetry == Permutations(Requests)
=============================================================================
