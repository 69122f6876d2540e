---------------------------- MODULE SqlDispatch -----------------------------
(***************************************************************************)
(* From a parsed statement to the backend call it becomes: what            *)
(* sqlvm/sqlInterpreter.js extracts from the AST, which statements it      *)
(* accepts, which arguments it hands to which adapter, and which of those  *)
(* calls the adapters of adapters/*.js turn down before any backend sees   *)
(* them. Pure operators; SqlInterpreter uses them.                         *)
(*                                                                         *)
(* An AST keeps what later steps tell apart: the lower-cased type, the     *)
(* action of a TRANSACTION statement, whether it names a table, how many   *)
(* columns it lists, whether it carries rows of values and, for the client *)
(* that calls a column "length", the number its first row has there.       *)
(***************************************************************************)
EXTENDS Integers

AstTypes == STRING

\* What reading "length" gives when it is no number of columns.
Undefined == -1

Ast ==
    {a \in [type: AstTypes, action: STRING, table: BOOLEAN, columns: Nat,
            rows: {"none", "list", "query"}, length: Nat \cup {Undefined}] :
        a.length # Undefined => a.rows = "list" /\ a.columns > 0}

(* What a JavaScript argument looks like to the adapters: they test it for *)
(* null, read its length and call array methods on it. An object has the   *)
(* length somebody gave it as a property of that name.                     *)
Null == [kind |-> "null", length |-> Undefined]
List(n) == [kind |-> "array", length |-> n]
Object(n) == [kind |-> "object", length |-> n]

----------------------------------------------------------------------------
(* extractSQLComponents. node-sql-parser has no SAVEPOINT: it reads it as  *)
(* an expression over a column of that name (type "savepoint_expr" here).  *)

ExtractType(ast) ==
    IF ast.type = "savepoint_expr" THEN "savepoint"
    ELSE IF ast.type = "transaction" /\ ast.action \in {"begin", "commit", "rollback"}
         THEN ast.action
         ELSE ast.type

(* "values" starts as an empty array and becomes an OBJECT from column     *)
(* names to the first row's values as soon as the AST has a list of rows:  *)
(* a column called "length" is the object's length.                        *)
ExtractSQLComponents(ast) ==
    [type   |-> ExtractType(ast),
     table  |-> ast.type # "savepoint_expr" /\ ast.table,
     fields |-> List(IF ast.type = "savepoint_expr" THEN 0 ELSE ast.columns),
     values |-> IF ast.rows = "list" THEN Object(ast.length) ELSE List(0)]

----------------------------------------------------------------------------
(* validateSQLComponents.                                                  *)

DmlTypes == {"select", "insert", "update", "delete", "merge", "call", "explain", "describe"}
DdlTypes == {"create", "alter", "drop", "truncate", "rename", "comment"}
DclTypes == {"grant", "revoke", "deny"}
TclTypes == {"commit", "rollback", "savepoint", "set", "start", "begin", "end", "transaction"}

ValidTypes == DmlTypes \cup DdlTypes \cup DclTypes \cup TclTypes

\* Mutant of ValidSQLComponents: no table is asked for.
ValidTypeOnly(c) == c.type \in ValidTypes

ValidSQLComponents(c) ==
    /\ c.type \in ValidTypes
    /\ c.type \in DmlTypes \ {"call", "explain", "describe"} => c.table

----------------------------------------------------------------------------
(* The call execute() makes for each group of statements.                  *)

CallFor(c) ==
    IF c.type \in {"create", "alter", "drop", "truncate", "rename"} THEN
        [type |-> c.type, table |-> c.table, fields |-> Null, values |-> Object(Undefined)]
    ELSE IF c.type \in {"grant", "revoke"} THEN
        [type |-> c.type, table |-> c.table, fields |-> List(0), values |-> List(0)]
    ELSE IF c.type \in {"commit", "rollback", "savepoint", "start", "begin", "end"} THEN
        [type |-> c.type, table |-> FALSE, fields |-> Null, values |-> Object(Undefined)]
    ELSE c

----------------------------------------------------------------------------
(* The adapters.                                                           *)

Adapters == {"db", "redis", "kafka", "hedera", "ethereum", "hyperledger"}

\* SUPPORTED_ADAPTERS: the name of a request to the module that serves it.
SUPPORTED_ADAPTERS ==
    [database |-> "db", sqlite |-> "db", redis |-> "redis", kafka |-> "kafka",
     hedera |-> "hedera", ethereum |-> "ethereum", hyperledger |-> "hyperledger"]

\* The cases of each adapter's switch; everything else throws.
Operations(adapter) ==
    IF adapter = "kafka" THEN {"insert", "select"}
                         ELSE {"select", "insert", "update", "delete"}

(* redisAdapter.js: both are there, their lengths are equal, and the fields*)
(* are reduced. The values may be anything that has that length.           *)
SameLength(call) ==
    /\ call.fields.kind = "array"
    /\ call.values.kind # "null"
    /\ call.fields.length = call.values.length

\* hederaAdapter.js: fields.join(',') and values.join(',').
Joinable(call) == call.fields.kind = "array" /\ call.values.kind = "array"

(* The call gets past the adapter's own checks and goes to the backend.    *)
(* "initialised" is the set of adapters whose client the process set up.   *)
AdapterAccepts(adapter, call, initialised) ==
    /\ adapter \in initialised
    /\ call.type \in Operations(adapter)
    /\ call.type \in {"insert", "update"} =>
          /\ adapter = "redis" => SameLength(call)
          /\ adapter = "hedera" => Joinable(call)

Stores == {"sqlite", "mysql", "postgres"} \cup (Adapters \ {"db"})

(* dbAdapter.execute takes the options for the name of a database: it uses *)
(* them only when their string form is a configured name, which that of an *)
(* object never is and that of a one-element array may be.                 *)
StoreOf(adapter, options) ==
    IF adapter # "db" THEN adapter
    ELSE IF options.list \in {"mysql", "postgres"} THEN options.list ELSE "sqlite"
=============================================================================
