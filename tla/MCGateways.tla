----------------------------- MODULE MCGateways -----------------------------
(* Instances of the gateways over the interpreter for TLC.                 *)
EXTENDS Gateways, TLC

AstOf(type, columns, rows) ==
    [type |-> type, action |-> "none", table |-> TRUE, columns |-> columns,
     rows |-> rows, length |-> Undefined]

MCParse == [select |-> AstOf("select", 1, "none"),
            update |-> AstOf("update", 0, "none"),
            nonsense |-> ParseError]

\* A comment goes; a filter with AND looks like an injection to validateSql.
MCSanitized ==
    [t \in {"select", "select --", "update", "nonsense", "select where and"} |->
        IF t \in {"select --", "select where and"} THEN "select" ELSE t]
MCRefusedTexts == {"select where and"}

MCLower == [n \in DOMAIN SUPPORTED_ADAPTERS \cup {"SQLite", "mongodb"} |->
               IF n = "SQLite" THEN "sqlite" ELSE n]

Number(ms) == [form |-> "number", ms |-> ms, scale |-> 1]
Uncached == [useCache |-> FALSE, cacheTTL |-> Number(0), list |-> "none"]

MCDefaultTtl == Number(1)
MCKeys == {Key(s) : s \in Statements}
MCTtls == {TtlOf(s) : s \in Statements}
MCValues == Row
MCInitialised == Adapters \ {"hyperledger"}

MCStatements ==
    {[sql |-> q, adapter |-> "sqlite", options |-> Uncached] : q \in DOMAIN MCParse}

PostOf(sql, adapter, options) == [sql |-> sql, adapter |-> adapter, options |-> options]
Ask(token, post) == [path |-> "execute", token |-> token, post |-> post]

\* A token that expires meanwhile, and one that does not.
MCSent ==
    {Ask(2, PostOf("select --", "SQLite", Uncached)),
     Ask(9, PostOf("update", "sqlite", Uncached)),
     Ask(9, PostOf("nonsense", "sqlite", Uncached)),
     Ask(9, PostOf("select where and", "mongodb", NotAnObject)),
     [Ask(NoToken, PostOf("select", "sqlite", Uncached)) EXCEPT !.path = "health"],
     [Ask(NoToken, PostOf("select", "sqlite", Uncached)) EXCEPT !.path = "auth"]}

\* Requests and clients have nothing of their own.
MCSymmetry == Permutations(Requests) \cup Permutations(Clients)

MCLimit == [api |-> 1, auth |-> 1]
MCWindowMs == [api |-> 2, auth |-> 3]
=============================================================================
