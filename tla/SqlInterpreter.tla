--------------------------- MODULE SqlInterpreter ---------------------------
(***************************************************************************)
(* execute() of sqlvm/sqlInterpreter.js, called by any number of clients   *)
(* at once, over the query cache and the backends.                         *)
(*                                                                         *)
(* JavaScript runs one callback at a time: what execute() does up to its   *)
(* "await" is one action (Reject, AnswerFromCache, CallAdapter or          *)
(* AdapterThrows) and what it does after it is another (Resume). In        *)
(* between the backend acts (BackendReply), the answer travels, the clock  *)
(* moves and other requests run.                                           *)
(***************************************************************************)
EXTENDS QueryCache, SqlDispatch

CONSTANTS
    Requests,     \* the calls of execute(), each made at most once
    Statements,   \* what clients send: records [sql, adapter, options]
    Parse,        \* parseSQL: from the text of a statement to its AST
    ParseError,   \* parseSQL threw
    Lower,        \* toLowerCase, on the adapter names clients use
    Initialised,  \* the adapters whose client was set up at start
    DefaultTtl,   \* QUERY_CACHE_TTL
    MaxVersion,   \* bound: a store is written at most that many times
    NoStatement,  \* of a request not made yet
    Ack, Failure  \* what a write that succeeded and a call that failed give

VARIABLES store, \* each backend store's version
          req    \* what became of each request

vars == <<now, order, entry, stats, store, req>>

----------------------------------------------------------------------------
(* What clients send.                                                      *)

(* options: useCache, cacheTTL (0 when absent) and, for the unusual client *)
(* that sends a one-element array, the name in it.                         *)
Options == [useCache: BOOLEAN, cacheTTL: Ttl, list: STRING]

Statement == [sql: DOMAIN Parse, adapter: DOMAIN Lower, options: Options]

ASSUME StatementAssumption == Statements \subseteq Statement
ASSUME ParseAssumption == \A q \in DOMAIN Parse : Parse[q] \in Ast \cup {ParseError}
ASSUME VersionAssumption == MaxVersion \in Nat
ASSUME AdapterAssumption == Initialised \subseteq Adapters

(* What a read gives: which store answered which query, and the state the  *)
(* store was in.                                                           *)
Row == [store: Stores, sql: DOMAIN Parse, version: 0..MaxVersion]

ASSUME ResultAssumption == \A x \in {NoValue, Ack, Failure} : x \notin Row
ASSUME OutcomeAssumption == Ack # Failure

Adapter(s) == SUPPORTED_ADAPTERS[Lower[s.adapter]]
Components(s) == ExtractSQLComponents(Parse[s.sql])
Call(s) == CallFor(Components(s))
Store(s) == StoreOf(Adapter(s), s.options)

Valid(s) ==
    /\ Lower[s.adapter] \in DOMAIN SUPPORTED_ADAPTERS
    /\ Parse[s.sql] # ParseError
    /\ ValidSQLComponents(Components(s))

IsSelect(s) == Components(s).type = "select"

\* Mutants of Cacheable: one of its two conditions is dropped.
CacheableAnyType(s) == s.options.useCache
CacheableAlways(s) == IsSelect(s)

Cacheable(s) == IsSelect(s) /\ s.options.useCache

Accepted(s) == AdapterAccepts(Adapter(s), Call(s), Initialised)

----------------------------------------------------------------------------
(* The process has one cache, of rows. generateKey joins the lower-cased   *)
(* adapter name, the text of the statement as received and the options.    *)

\* Mutants of Key: the options or the adapter are left out.
KeyWithoutOptions(s) == [adapter |-> Lower[s.adapter], sql |-> s.sql]
KeyWithoutAdapter(s) == [sql |-> s.sql, options |-> s.options]

Key(s) == [adapter |-> Lower[s.adapter], sql |-> s.sql, options |-> s.options]

\* options.cacheTTL || undefined, and the default of set()'s parameter.
TtlOf(s) ==
    IF s.options.cacheTTL.ms = 0 /\ s.options.cacheTTL.form = "number"
    THEN DefaultTtl ELSE s.options.cacheTTL

ASSUME CacheUseAssumption ==
    /\ Keys = {Key(s) : s \in Statements}
    /\ Ttls = {TtlOf(s) : s \in Statements}
    /\ Values = Row

----------------------------------------------------------------------------
Unmade == [pc |-> "idle", stmt |-> NoStatement, via |-> "none",
           result |-> NoValue, finished |-> StartTime, base |-> 0]

TypeOK ==
    /\ CacheTypeOK
    /\ store \in [Stores -> 0..MaxVersion]
    /\ req \in [Requests ->
          [pc: {"idle", "called", "replied", "done", "failed"},
           stmt: Statements \cup {NoStatement},
           via: {"none", "cache", "backend"},
           result: Row \cup {NoValue, Ack, Failure},
           finished: StartTime..MaxTime,
           base: 0..MaxVersion]]

Init ==
    /\ CacheInit
    /\ store = [b \in Stores |-> 0]
    /\ req = [r \in Requests |-> Unmade]

Become(r, pc, s, via, result, base) ==
    req' = [req EXCEPT ![r] =
              [pc |-> pc, stmt |-> s, via |-> via, result |-> result,
               finished |-> now, base |-> base]]

\* The version of the store the statement is about, for the properties only.
Current(s) == store[Store(s)]

(* No such adapter, no AST, or validateSQLComponents throws.               *)
Reject(r, s) ==
    /\ req[r].pc = "idle"
    /\ ~Valid(s)
    /\ Become(r, "failed", s, "none", Failure, 0)
    /\ UNCHANGED <<now, order, entry, stats, store>>

AnswerFromCache(r, s) ==
    /\ req[r].pc = "idle"
    /\ Valid(s)
    /\ Cacheable(s)
    /\ GetHit(Key(s))
    /\ Become(r, "done", s, "cache", Lookup(Key(s)), Current(s))
    /\ UNCHANGED <<now, store>>

\* Mutant of CacheMissed: every SELECT looks.
EverySelectMissed(s) ==
    IF IsSelect(s)
    THEN GetAbsent(Key(s)) \/ GetExpired(Key(s))
    ELSE UNCHANGED <<order, entry, stats>>

\* A SELECT that may be cached has looked and found nothing; others do not look.
CacheMissed(s) ==
    IF Cacheable(s)
    THEN GetAbsent(Key(s)) \/ GetExpired(Key(s))
    ELSE UNCHANGED <<order, entry, stats>>

CallAdapter(r, s) ==
    /\ req[r].pc = "idle"
    /\ Valid(s)
    /\ Accepted(s)
    /\ CacheMissed(s)
    /\ Become(r, "called", s, "backend", NoValue, Current(s))
    /\ UNCHANGED <<now, store>>

\* Mutant of AdapterThrows: the adapter is asked before the cache.
AdapterThrowsFirst(r, s) ==
    /\ req[r].pc = "idle"
    /\ Valid(s)
    /\ ~Accepted(s)
    /\ Become(r, "failed", s, "none", Failure, Current(s))
    /\ UNCHANGED <<now, order, entry, stats, store>>

(* The adapter turns the call down; the lookup has been counted all the    *)
(* same.                                                                   *)
AdapterThrows(r, s) ==
    /\ req[r].pc = "idle"
    /\ Valid(s)
    /\ ~Accepted(s)
    /\ CacheMissed(s)
    /\ Become(r, "failed", s, "none", Failure, Current(s))
    /\ UNCHANGED <<now, store>>

----------------------------------------------------------------------------
(* The backend acts on the call, at any time after it was made. A call     *)
(* that fails may have had its effect or not.                              *)

Reply(r, result) == req' = [req EXCEPT ![r].pc = "replied", ![r].result = result]

Write(s) ==
    /\ Current(s) < MaxVersion
    /\ store' = [store EXCEPT ![Store(s)] = @ + 1]

BackendReads(r) ==
    /\ req[r].pc = "called"
    /\ IsSelect(req[r].stmt)
    /\ Reply(r, [store |-> Store(req[r].stmt), sql |-> req[r].stmt.sql,
                 version |-> Current(req[r].stmt)])
    /\ UNCHANGED <<now, order, entry, stats, store>>

BackendWrites(r) ==
    /\ req[r].pc = "called"
    /\ ~IsSelect(req[r].stmt)
    /\ Write(req[r].stmt)
    /\ Reply(r, Ack)
    /\ UNCHANGED <<now, order, entry, stats>>

BackendFails(r) ==
    /\ req[r].pc = "called"
    /\ \/ UNCHANGED store
       \/ ~IsSelect(req[r].stmt) /\ Write(req[r].stmt)
    /\ Reply(r, Failure)
    /\ UNCHANGED <<now, order, entry, stats>>

BackendReply(r) == BackendReads(r) \/ BackendWrites(r) \/ BackendFails(r)

----------------------------------------------------------------------------
(* The await returns or throws.                                            *)

Settle(r, pc) == req' = [req EXCEPT ![r].pc = pc, ![r].finished = now]

ResumeWithResult(r) ==
    /\ req[r].pc = "replied"
    /\ req[r].result # Failure
    /\ IF Cacheable(req[r].stmt)
       THEN Set(Key(req[r].stmt), req[r].result, TtlOf(req[r].stmt))
       ELSE UNCHANGED <<order, entry, stats>>
    /\ Settle(r, "done")
    /\ UNCHANGED <<now, store>>

\* Mutants of ResumeWithError: a call that failed is made again; the outcome
\* is cached whatever it is.
ResumeRetrying(r) ==
    /\ req[r].pc = "replied"
    /\ req[r].result = Failure
    /\ req' = [req EXCEPT ![r].pc = "called", ![r].result = NoValue]
    /\ UNCHANGED <<now, order, entry, stats, store>>

ResumeCachingError(r) ==
    /\ req[r].pc = "replied"
    /\ req[r].result = Failure
    /\ IF Cacheable(req[r].stmt)
       THEN Set(Key(req[r].stmt), Failure, TtlOf(req[r].stmt))
       ELSE UNCHANGED <<order, entry, stats>>
    /\ Settle(r, "failed")
    /\ UNCHANGED <<now, store>>

ResumeWithError(r) ==
    /\ req[r].pc = "replied"
    /\ req[r].result = Failure
    /\ Settle(r, "failed")
    /\ UNCHANGED <<now, order, entry, stats, store>>

Resume(r) == ResumeWithResult(r) \/ ResumeWithError(r)

TimePasses == Tick /\ UNCHANGED <<store, req>>

Next ==
    \/ \E r \in Requests, s \in Statements :
          \/ Reject(r, s)
          \/ AnswerFromCache(r, s)
          \/ CallAdapter(r, s)
          \/ AdapterThrows(r, s)
    \/ \E r \in Requests : BackendReply(r)
    \/ \E r \in Requests : Resume(r)
    \/ TimePasses

Spec == Init /\ [][Next]_vars

(* The event loop runs every callback that is ready. Nothing makes a       *)
(* client call or a backend answer.                                        *)
FairSpec == Spec /\ \A r \in Requests : WF_vars(Resume(r))

----------------------------------------------------------------------------
(* What execute() promises its callers.                                    *)

(* Every answer from the cache is the answer an earlier backend read gave  *)
(* to the same text, adapter and options, it shows the store no older than *)
(* when that read was asked for, and it is given no later than that read's *)
(* answer plus its time to live - in spite of concurrent misses of one key,*)
(* late answers overwriting newer entries, evictions and writes            *)
(* (sqlInterpreter.js:357-363, 425-430 around the await at 370).           *)
RepeatsRead(r, q) ==
    /\ req[q].pc = "done"
    /\ req[q].via = "backend"
    /\ Key(req[q].stmt) = Key(req[r].stmt)
    /\ req[q].result = req[r].result
    /\ req[q].result.version >= req[q].base
    /\ req[q].finished <= req[r].finished
    /\ req[r].finished <= Expiry(req[q].finished, TtlOf(req[q].stmt))

CachedAnswersRepeatReads ==
    \A r \in Requests :
       req[r].pc = "done" /\ req[r].via = "cache" =>
          \E q \in Requests : RepeatsRead(r, q)

(* Two requests share an entry only when they ask the same of the same     *)
(* store: what a SELECT returns was read from the store its adapter name   *)
(* and options lead to, for its own text, whoever's read it was            *)
(* (generateKey, cache.js:31-35).                                          *)
AnswersFromRoutedStore ==
    \A r \in Requests :
       req[r].pc = "done" /\ IsSelect(req[r].stmt) =>
          /\ req[r].result \in Row
          /\ req[r].result.store = Store(req[r].stmt)
          /\ req[r].result.sql = req[r].stmt.sql

(* A client that asks not to use the cache reads its own writes, and       *)
(* everybody else's that were there before it asked: useCache = false also *)
(* keeps it from what others cached (sqlInterpreter.js:357).               *)
UncachedReadsAreCurrent ==
    \A r \in Requests :
       /\ req[r].pc = "done"
       /\ IsSelect(req[r].stmt)
       /\ ~req[r].stmt.options.useCache
       => req[r].result.version >= req[r].base

(* getStats() tells what happened: a hit for every request the cache       *)
(* answered, a miss for every SELECT that looked and had to go on to the   *)
(* adapter, also when the adapter turned it down, and nothing for the rest.*)
StatsAccountForRequests ==
    /\ stats.hits = Cardinality({r \in Requests : req[r].via = "cache"})
    /\ stats.misses = Cardinality({r \in Requests :
                          /\ req[r].pc # "idle"
                          /\ req[r].via # "cache"
                          /\ Valid(req[r].stmt)
                          /\ Cacheable(req[r].stmt)})

(* A call that failed leaves the cache as it was: only the answer of a     *)
(* backend read that succeeded is ever stored, at the moment its own       *)
(* request is settled (sqlInterpreter.js:425-430 is skipped by a throw).   *)
OnlySettledReadsAreStored ==
    [][\A k \in DOMAIN entry' :
          k \notin DOMAIN entry \/ entry'[k] # entry[k] =>
             \E r \in Requests :
                /\ req[r].pc = "replied" /\ req'[r].pc = "done"
                /\ Cacheable(req[r].stmt) /\ Key(req[r].stmt) = k
                /\ entry'[k].value = req[r].result]_vars

(* What a store has seen is what callers were told: a write that was       *)
(* acknowledged is there, one that failed may be there, and none is there  *)
(* twice, whatever else was going on. execute() makes every call once and  *)
(* tells its outcome as it is (sqlInterpreter.js:411-441).                 *)
Attempted(b) ==
    {r \in Requests : /\ req[r].via = "backend"
                      /\ req[r].pc \in {"replied", "done", "failed"}
                      /\ ~IsSelect(req[r].stmt)
                      /\ Store(req[r].stmt) = b}

Acknowledged(b) == {r \in Attempted(b) : req[r].result = Ack}

WritesHappenOnce ==
    \A b \in Stores :
       /\ Cardinality(Acknowledged(b)) <= store[b]
       /\ store[b] <= Cardinality(Attempted(b))

(* What gets to a backend is what the client wrote, and it is DML that     *)
(* names its table: a statement keeps its type and its columns through     *)
(* extraction, validation and dispatch, and DDL, DCL, TCL and the rest end *)
(* in the default branch of every adapter (sqlInterpreter.js:38-264,       *)
(* 366-422 and the switches of the adapters).                             *)
Dml == {"select", "insert", "update", "delete"}

Arrivable(s) ==
    /\ Parse[s.sql].type \in Dml
    /\ Parse[s.sql].table = TRUE
    /\ Call(s).type = Parse[s.sql].type
    /\ Call(s).fields = List(Parse[s.sql].columns)

OnlyDmlArrives == \A r \in Requests : req[r].via = "backend" => Arrivable(req[r].stmt)

(* Seen by its callers, execute() with its cache is a service without one  *)
(* that may give an answer again for a while: whatever is looked up,       *)
(* filled, overwritten and evicted in between, each statement is refused   *)
(* with nothing done, or has its effect once at most and before its caller *)
(* is told, or gets the answer that a SELECT of the same text settled, from*)
(* the same store, no longer ago than that one's time to live; what was    *)
(* read with useCache = false is given to nobody else                      *)
(* (sqlInterpreter.js:340-441).                                            *)
SettledAnswer(q) ==
    [question |-> [store |-> Store(req[q].stmt), sql |-> req[q].stmt.sql],
     result   |-> req[q].result,
     until    |-> Expiry(req[q].finished, TtlOf(req[q].stmt))]

Given == {SettledAnswer(q) : q \in {r \in Requests : /\ req[r].pc = "done"
                                                /\ req[r].via = "backend"
                                                /\ Cacheable(req[r].stmt)}}

Called == [r \in Requests |-> [pc |-> req[r].pc, stmt |-> req[r].stmt,
                               result |-> req[r].result]]

Service == INSTANCE SqlService WITH
    call <- Called, answers <- Given, Understood <- Valid, Taken <- Accepted

ImplementsService == Service!ServiceSpec

----------------------------------------------------------------------------
(* What documents, comments and tests say and the code does not do.        *)

(* "Configurable timeouts for all external services" (README.md:209): a    *)
(* call of an adapter ends, whatever the backend does.                     *)
EveryCallEnds ==
    \A r \in Requests : req[r].pc = "called" ~> req[r].pc \in {"done", "failed"}

(* "expect(args[3]).to.deep.equal(['John', 'john@example.com'])"           *)
(* (test/unit/sqlInterpreter.test.js:45): the values of an INSERT reach    *)
(* the adapter as an array, one value for each column.                     *)
InsertValuesAreAnArray ==
    \A r \in Requests :
       /\ req[r].pc # "idle"
       /\ Valid(req[r].stmt)
       /\ Parse[req[r].stmt.sql].type = "insert"
       /\ Parse[req[r].stmt.sql].rows = "list"
       => Call(req[r].stmt).values = List(Parse[req[r].stmt.sql].columns)
=============================================================================
