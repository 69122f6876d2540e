# Universal SQL VMM in TLA+

Universal SQL VMM takes SQL statements over REST, gRPC, MQTT and WebSocket and
runs each against one of six backends: relational databases (through knex),
Redis, Kafka, and contracts on Hedera, Ethereum and Hyperledger Fabric. Reads
are answered from a cache when they can be. This directory models its logic in
TLA+, checks the models with TLC and proves the most important results for
every value of the constants with TLAPS.

Contents: [the system](#the-system), [the modules](#the-modules),
[the runs](#the-runs), [fairness](#fairness), [the proofs](#the-proofs),
[what the code does not do](#what-the-code-does-not-do),
[what is left out](#what-is-left-out), [the plan](#the-plan),
[how to run](#how-to-run).

## The system

Everything runs in one Node.js process: one thread, callbacks run to
completion, and the interleavings are those at every `await` and callback.

| Component | State | Operations | What is hard | What makes it correct |
| --- | --- | --- | --- | --- |
| query cache, `utils/cache.js` | a `Map` (insertion ordered), `stats`, `ttl`, `maxSize` | `get`, `set`, `clear`, `getStats` | eviction at the limit, expiry, the order of a `Map` | stays within its limit, true statistics, loses nothing but by expiry, `clear`, overwriting, eviction |
| interpreter, `sqlvm/sqlInterpreter.js` | none of its own; the cache | `execute` | state read before the `await` and used after it; concurrent misses; failures halfway | a cached answer is an earlier answer to the same request, young enough; errors leave no trace; every answered call settles |
| dispatch (same file) | none | `extractSQLComponents`, `validateSQLComponents`, the six kinds of adapter call | the shape of the arguments | each accepted statement reaches the right backend in the shape it wants |
| `adapters/dbAdapter.js` | `connectionPools` | `execute`, `closeAllPools` | pools made during shutdown, queries that outlive their client | pools are destroyed once nobody can need them |
| `adapters/redisAdapter.js` | the connection | `execute` | the connection is given up after three retries | |
| `adapters/kafkaAdapter.js` | one producer, one consumer with its topics and listeners | `execute`: INSERT publishes, SELECT waits | all SELECTs share the consumer; messages of several topics; listeners stay | the first match since it listened answers a SELECT |
| `adapters/hederaAdapter.js`, `ethereumAdapter.js`, `hyperledgerAdapter.js` | a client | `execute` | a call that fails may have had its effect | |
| Solidity contracts, `adapters/contracts/{ethereum,hedera}` | an array of records for each table | insert, select, update, delete | deletion inside a loop over the array | a table is a bag of rows |
| Fabric contract, `adapters/contracts/hyperledger` | world state, composite keys | insert, select, update, delete | keys made of values; transactions computed on a state of before | each transaction takes effect at once, on the rows there are when it commits, or not at all |
| REST gateway, `index.js` | the HTTP server | `/execute`, `/health`, the limiter of `/auth` | the order of the middleware, errors after an `await` | nothing runs unauthenticated or twice; the answer tells what came of the request; none is left without one |
| gRPC, MQTT, WebSocket gateways | a server or client each | authenticate, execute, answer | errors in callbacks, tokens that expire | a request that is turned down has no effect |
| shutdown, `index.js` | timers, servers, pools | SIGTERM, SIGINT | two shutdowns at once, open connections, one step that fails | ends; exit 0 is clean |
| rate limiter, `security/rateLimiter.js` | a counter for each client and limiter | two middlewares, for all of REST and for `/auth` | boundaries of windows, clients that share the store | no more than twice the limit in any window's length; refusals only to who used the limit |
| timeout manager, `utils/timeoutManager.js` | timers | `executeWithTimeout` (nothing calls it) | a late answer | |
| JWT, validator, sanitizer, error handler, HTTPS, logger | next to none | text and file processing | where they stand in the chain | |

Gateways call `execute`; `execute` calls the cache and one adapter; adapters
call backends, and nothing calls back but the Kafka consumer. The cache, the
pools, the Kafka consumer and the limiters' stores are shared by all requests.

`PROJECT.json` lists each component with its status, and under "hazards" the
places where this code can go wrong in ways a test would hardly reach, with the
properties that watch them.

## The modules

    LossyMemo  <--implements--  QueryCache          SqlDispatch
                                     ^                   ^
                                     +--- SqlInterpreter-+       KafkaAdapter
                                             ^      ^            Shutdown
                            implements and   |      |
                            extends:      Gateways -+- RateLimiter

    SqlService     <--implements--  SqlInterpreter
    ContractTable  <--implements--  SqlContract
    KeyedTable     <--implements--  FabricContract     (both over FabricRecords)

**QueryCache** is `utils/cache.js`. The `Map` is two variables, because a `Map`
enumerates its keys by first insertion and eviction takes the first: `order`
(the keys in that order) and `entry` (a function on the keys present). `now` is
`Date.now()`. `Get`, `Set` and `Clear` are the methods, each atomic since each
runs to completion. `Expiry` is `Date.now() + ttl` as JavaScript computes it:
a sum when `ttl` is a number, a concatenation otherwise, since a `cacheTTL` in a
request's options is not checked for its type. With a text of digits the result is
compared as a number far in the future; with another text or an object it is NaN, and
an entry with that expiry is never dropped (`NeverExpires`, past the clock's last value).
`MaxSize` is any integer but 0, since `parseInt` of the environment variable may
give a negative number and the constructor replaces only 0 and NaN.

**LossyMemo** is what a cache promises: the last value remembered under a key
until its expiry, with at most one other key forgotten per `Remember`, and only
when MaxSize are held. `QueryCache!ImplementsMemo` is the refinement.

**SqlDispatch** holds the pure part of the interpreter: what it extracts from a
syntax tree, which types it accepts, what it hands to the adapters and which of
those calls the adapters refuse. An AST keeps only what later steps distinguish.
Arguments are "null", an "array" with its length, or an "object", whose length is what
an INSERT gave a column called `length`, if any.

**SqlInterpreter** composes the two with requests and backends. A request's `pc`
goes idle, called, replied, done or failed. What `execute` does before its
`await` is one action (`Reject`, `AnswerFromCache`, `CallAdapter`,
`AdapterThrows`), what it does after it another (`ResumeWithResult`,
`ResumeWithError`); in between the backend acts (`BackendReads`,
`BackendWrites`, `BackendFails`), the answer travels and anything else may
happen. A store is a version number: a write makes a new one and a read returns
[store, sql, version], so a property can say what a read saw. `base` (the
version when a request was made) and `finished` (when it was settled) are there
for the properties alone. A call that fails may have had its effect or not; the
Hedera adapter, which calls `getReceipt` on a promise, does so on every write.

**SqlService** is what `execute` promises its callers, without saying how. It has no
cache and no key: a statement is refused with nothing done, or has its effect at most
once, between the question and the answer; the answer of a SELECT that may be cached
may be given again, to the same question put to the same store, until it is too old;
an outcome never changes. `SqlInterpreter!ImplementsService` is the refinement. The
answers that may be given again are those of requests that are done, whatever the
cache still holds of them.

**KafkaAdapter** is `adapters/kafkaAdapter.js`: the shared consumer's topics, the
brokers' undelivered messages, what was delivered so far, and each call. A
listener is a SELECT's place (`since`) in the sequence of delivered messages.

**SqlContract** is both Solidity contracts; the variable `contract` says which.
A call is as many steps as its two loops have rounds, over the records of the table
(`rowAt`) and the cells of one (`cellAt`): `Begin`, then `EndRow`, `Pass` or what is
done at a cell that matches, until `Return`. insert, update and select are the same
code in both. Deletion is not: `BlankCell` leaves an empty record in place, `SweepRow`
moves the last record into the hole, shortens the array and stays where it is.
`Revert` is what the chain does when a call runs out of gas after any round: it puts
back `saved`, the array as the call found it. **ContractTable** is the bag of rows
that both implement; a call takes effect in it when it returns.

**FabricRecords** is what the Fabric contract makes of its arguments: keys of the
table and all values of a row, records of fields and values (the last of two
values counts, a field without one is left out), an update laid over a record,
`every()` over a filter. A filter is a record, `NullWhere` (there was no WHERE:
`Object.entries(null)` throws at the first row) or `AstWhere` (the syntax tree the
interpreter passes, which no row has). **FabricContract** runs the contract's four
functions as Fabric does: `Endorse` computes reads and writes on the world state of
that moment and changes nothing; `Commit` makes those writes later, if the table
that was scanned still has the keys and versions that were read, and `Invalidate`
drops them otherwise. That validation is Fabric's (external in the map), the
writes are the contract's. **KeyedTable** is what a caller may think: rows under
the values they were inserted with, and calls that take effect at one moment.
`FabricContract!ImplementsKeyedTable` is the refinement.

**RateLimiter** is the two limiters of `security/rateLimiter.js`, `window` the
counter and the end of the window of each client in each.

**Gateways** puts REST, gRPC, WebSocket and MQTT before `SqlInterpreter` and shares
its requests. `gate` says where a request is: unmade, counted (past the limiter of
all REST requests), executing, answered, or ignored. A limiter waits for its store,
so counting is a step; authentication, validation, sanitizing and `execute()` up
to its `await` are one turn of the event loop (`Executed`, `NotExecuted`), and the
answer is another (`RestAnswers`). A token is the time at which it expires.
`sanitizeSql` and the patterns of `validateSql` are the constants `Sanitized` and
`RefusedTexts`. `GrpcCall`, `WebSocketMessage` and `MqttMessage` are what the other
gateways do today, see [below](#what-the-code-does-not-do). The composition is
shown to implement the interpreter's specification (`ImplementsInterpreter`), so
that what is shown of the interpreter for clients that may send anything holds for
the clients of the gateways. `passed` and `refused`, the times at which a request
got past a limiter or did not, are there for the properties alone.

**Shutdown** is what follows a signal in `index.js`, with the pools of
`dbAdapter.js`: each signal has a `gracefulShutdown` of its own (variable
`handler`). Clients keep, use and drop connections meanwhile, and a query outlives
a client that hangs up ("orphan"). The other servers' parts are what the waits
depend on: gRPC calls in progress, WebSocket connections counted by the HTTP
server, whether the MQTT client has a `close`.

The MC modules give constants their values for TLC. Operators introduced by a
comment "Mutant of ..." are never used by the models: each is a plausible
mistake in the code, and with it in place of the original the property named in
`PROJECT.json` "mutants" fails, which shows that the property depends on the code.

## The runs

| Run | Instance | What it shows |
| --- | --- | --- |
| `query_cache` | 3 keys, 2 values, limit 2, 3 instants, 2 lookups; times to live 0, 1, a text of digits and one that is neither | `CacheTypeOK`, `SizeBounded`, `ImplementsMemo` |
| `interpreter_cache` | 3 requests, one cache entry, 3 instants; reads of one table that may be cached, uncached, and of another database, and writes | `CachedAnswersRepeatReads`, `AnswersFromRoutedStore`, `UncachedReadsAreCurrent`, `StatsAccountForRequests`, `WritesHappenOnce`, `OnlySettledReadsAreStored`, `ImplementsService` |
| `interpreter_dispatch` | 2 requests; 15 kinds of statement, 7 adapters (one unknown, one not set up), one of them under two names and two spellings | `AnswersFromRoutedStore` across adapters, `StatsAccountForRequests` on every path, `OnlyDmlArrives` |
| `kafka` | 2 SELECTs, 1 INSERT, 2 topics, 2 messages | `FirstMatchAnswers`, `OnlyAskedTopics` |
| `contracts` | either Solidity contract round by round, up to 3 records of 4 kinds, 2 fields, 2 values, a record with a repeated field and one without any, calls undone after any round; or 4 Fabric transactions of 11 kinds on 2 tables | `ImplementsTable`, `SelectFindsRows`, `EveryRoundGetsOn`, `ImplementsKeyedTable`, `FabricTypeOK` |
| `gateways` | 3 requests of 2 clients over all gateways; limit 1 in windows of 2 and 3 ticks, 3 instants; texts the sanitizer changes, the validator refuses or the parser cannot read; tokens that are missing, expire or last | `AnswersTellOutcome`, `LimitsAreKept`, `RefusedOnlyAtLimit`, `NoRequestIsLeft`, `ImplementsInterpreter`, `GatewayTypeOK` |
| `shutdown` | 2 clients, 2 pools, 1 gRPC call, 2 signals, the MQTT client of TEST_MODE | `CleanExit`, `NobodyWaitsOnClosedPool`, `SignalEndsProcess` |
| `query_cache_eviction`, `no_timeout`, `insert_values`, `kafka_where`, `shutdown_mqtt` | as small as the counterexample allows | see [below](#what-the-code-does-not-do) |

The bounds, and why they are enough:

- `MaxSize` 2 of 3 keys makes each of eviction, overwriting in a full cache and
  refilling after an expiry happen; the theorems cover all other sizes.
- Three requests are what a stale fill takes: a slow read, a write, and a reader
  of what the slow one stored. The write and the fill can happen in every order,
  two misses of one key can overlap and a third request can read their entry.
- `MaxTime` 3 from `StartTime` 1 lets an entry of time to live 1 be served at its
  expiry and dropped after it. `StartTime` is not 0 so that a concatenated expiry
  differs from a sum.
- `MaxLookups` (the cache alone) bounds statistics. `MaxVersion` 3 blocks
  nothing: three requests make at most three writes. `MaxMessages`, `MaxRecords`
  bound the data.
- Four transactions are what an update endangered by others takes: an insert, an
  update endorsed, an insert or delete committed meanwhile, and one more to see
  what the table then is. One set of values is inserted under two orders of the
  fields, so that keys collide.
- A limit of 1 with three requests is the smallest at which twice the limit can be
  exceeded. Three instants let the window of `api` end and begin again while that
  of `auth` lasts; the theorems cover all limits and windows.
- `RequestSymmetry` permutes requests, which no constant tells apart; the two
  runs of the interpreter that use it check no liveness.
- Deadlock is not checked: every client may stop sending, and a process that
  has exited does nothing.

## Fairness

- `SqlInterpreter!FairSpec`: weak fairness of `Resume` for each request. Node's
  event loop runs the continuation of every promise that is settled. Backends
  and clients are not fair: nothing in the code makes them answer or ask. Only
  `no_timeout` uses it.
- `Shutdown!FairSpec`: weak fairness of `TimerFires` for each signal. A timer that
  is armed fires; nothing else is assumed, so connections may stay open and
  queries run for ever.

The provers do not know ENABLED. The theorems about liveness therefore state fairness
with the guard of the action written out: `TimerIsFair`, `ResumeIsFair`, and for the
callbacks of the REST chain `TurnIsFair`, each of the form "infinitely often the guard is
false, or infinitely often the action happens". Weak fairness is the same with "the
action is enabled" for the guard. That the two agree has two halves: the guard is a
conjunct of the action, and where it holds the action can be taken. The second half is
a theorem for each: `ArmedTimerCanFire`, `RepliedCanResume` and `ReadyTurnCanRun` say
that the step that gives every variable a certain value, written as assignments alone,
is a step of the action that changes something.

That backends answer (`BackendAnswers`) is a hypothesis of two theorems and fairness
of none of the specifications: nothing in the code makes them.

## The proofs

`QueryCacheProofs`, `SqlInterpreterProofs`, `SqlContractProofs`, `FabricProofs`,
`KafkaProofs`, `ShutdownProofs`, `RateLimiterProofs` and `GatewaysProofs` hold them.
They assume of the constants only the named ASSUMEs of the modules; the theorems
that assume more of them say so in their statement, and are about
[causes](#the-causes-of-what-the-code-does-not-do). Those about liveness have the
[fairness](#fairness) they need among their hypotheses.

**The cache** (`CacheTypeCorrect`, `CacheSizeBounded`). The inductive invariant is
`CacheInv == CacheTypeOK /\ SizeBounded`. Types alone are not inductive, since
`GetExpired` removes the position of a key that must occur in `order`; that the
halves of the `Map` agree and that no key occurs twice gives it. Lemmas
`RemoveAtProperties`, `RemoveAtRange` and `KeptProperties` say what deleting does
to `order`; one lemma per operation keeps the invariant, and is stated without the
specification around it, so that the interpreter's proof uses it too. The limit
is proved for every `MaxSize`, negative ones included: it is then one entry.

**The refinement** (`CacheImplementsMemo`). Every step of the cache is a step of
LossyMemo or leaves the memo alone. The one fact needed beyond the invariant is
that `Len(order)`, which `set` compares with the limit, is the number of keys
(`SizeIsCardinality`).

**The interpreter** (`TypeCorrect`, `CacheStaleness`, `RoutedAnswers`,
`BypassIsCurrent`). The invariant `IInv` adds to types and the cache's:
`RequestOK`, what is true of a request in each state (a reply in flight came from
the request's own store for its own text, at a version no older than when it was
made), and `EntriesFromReads`, which is what makes `CachedAnswersRepeatReads`
inductive: every entry in the cache was put there by a request that is now done,
has the same key and answer, and set the entry's expiry. A cached answer then
repeats the read that made the entry. That request is never changed again, so the
witness stays. `RoutedAnswers` follows since equal keys mean equal text, adapter
and options, hence an equal store; `BypassIsCurrent` since versions only grow.

**The interpreter as a service** (`InterpreterImplementsService`). The refinement maps the
answers that may be given again to those of requests that are done and cacheable, each
until the expiry its entry was set with. A hit is then a step of SqlService because of
`CachedAnswersRepeatReads`: the entry's request is one of these, and equal keys are
equal questions to one store. Evictions and overwriting do not show, since the service
may give an answer again and need not.

**Writes** (`WritesAreNotRepeated`). A store's version lies between the number of writes
that were acknowledged and of those that were tried. `WriteInv` adds that both sets are
finite. A write moves its store on and its request into the set of those tried in one
step (`BackendWrites`), with or without an answer; a failure comes back as it is and
nothing is called again.

**What reaches a backend** (`WhatReachesABackend`, of `OnlyDmlArrives`). A request that called its adapter has a
statement that was understood and taken (`CallsAreAccepted`). Followed through
extraction, validation, the arguments and the adapters' own checks, that leaves only
DML that names a table, and it arrives with the type and the number of columns the
client wrote. Nothing is said of the values of an INSERT: see
[below](#what-the-code-does-not-do).

**The cache in use** (`InterpreterUsesMemo`). The steps of the interpreter that touch the
cache are `Get` and `Set` of the cache alone, so that the lemmas of its refinement apply:
inside the interpreter too it forgets only what a LossyMemo may.

**The Solidity contracts** (`ContractTypeCorrect`, `ContractLoopsGetOn`, `ContractSelects`,
`ContractsImplementTable`, in `SqlContractProofs`). `ContractInv` says what each loop has
done so far. Of an update (`UpdateInv`): records before `rowAt` are as they will be,
those after it as they were, and the one at `rowAt` will be if the rest of the loop
sees the filter in it. An update that changes the field it filters by makes the
last part necessary: the loop may meet in a changed record a cell it has just written,
and writing again changes nothing. Of a deletion that blanks (`BlankInv`) it is the same
with empty records. Of one that moves records (`SweepInv`) positions say nothing;
instead every row that is not to go is there as often as it was, and no record before
`rowAt` is to go. That a step keeps these numbers needs two records to be exchanged
for one another (`MovedKeepsCount`). At the end of a call the array is compared with
the bag: `CountByValue` numbers the records of each kind and shows by a bijection that
the counts of an array are those of the bag of its rows, so that no induction over
the array is needed. `RoundGetsOn` gives `EveryRoundGetsOn`: what is left of the loops
gets smaller in every round, for arrays of every length, also in the loop that shortens
the array it runs over and stays where it is.

**The shutdown** (`ShutdownTypeCorrect`, `ExitZeroIsClean`, `PoolsGoLast`, in
`ShutdownProofs`). The invariant is that a wait, once over, stays over
(`WaitsAreOver`): past the first there is no connection and none can come, past
the second no gRPC call either. So no pool is opened behind the back of a
handler that destroys pools (`OnlyPoolsPhaseDestroys`, `DoneWithPool`), whichever
handlers run beside it, and a pool in destruction has only queries whose client
has gone. `QueriesHavePools` says that destroy() is never over before they are.

**A signal ends the process** (`SignalsEndTheProcess`, of `SignalEndsProcess`). A signal
arms a timer of its own, and no step disarms it but those that end the process
(`TimerStaysArmed`): a shutdown that fails halfway, or one that another overtakes, leaves
it as it is. Since it stays armed it fires.

**The interpreter's steps and statistics** (`OnlyReadsAreStored`, `StatsAreTrue`).
That only a read that came back is stored, and as itself, is an action property:
each step that changes an entry for other than expiry is the continuation of one
request. For the statistics the invariant (`StatsInv`) says that the sets counted are
finite, whatever the set of requests is, and that a request not yet made is in
neither; they then grow by the one request that starts (`OneIsCounted`).

**The Kafka adapter** (`KafkaTypeCorrect`, `SelectsGetTheirFirstMatch`,
`ConsumerGetsAskedTopics`). Beside the property itself the invariant `KInv` has that a
listener's place is one the consumer has reached, and that every topic of the
consumer is that of a SELECT which has made its call and keeps its topic. A
delivery appends one message: it is either the first a listener takes or no
message for it, and answered calls stay as they are.

**The Fabric contract** (`FabricTypeCorrect`, `FabricImplementsKeyedTable`). What an
endorsed transaction is going to write is what its call makes of what it read, and a
record read at some version is the record there as long as the version is the same
(`SameVersionSameRecord`, since each commit takes a new version). When the read set
is current, the scan as it was is the table as it is, so the writes are what the
call would do now.

**The gateways** (`GatewaysTypeCorrect`, `GatewaysAnswerTruly`,
`GatewaysImplementInterpreter`, and through it `GatewaysCacheStaleness`,
`GatewaysRoutedAnswers`, `GatewaysImplementService` and `GatewaysWritesAreNotRepeated`). The invariant adds to types and `AnswersTellOutcome` that a
request which was counted is one that a client may send. The assumption
`StatementsAssumption`, that what passes validation is a statement of the
interpreter once sanitized, then makes every execution one of its steps.

**Nobody is left without an answer** (`SomebodyIsAtWork`, `ReadyTurnCanRun`,
`RequestsAreAnswered`). `NoRequestIsLeft` says ENABLED, so it is proved in two parts. By
the invariant a request without an answer waits for its backend, for its own
continuation, or for its turn in the chain (`TurnIsReady`). `ReadyTurnCanRun` then takes
every case of what was sent, of its token, of its statement and of what the cache holds,
and finds a branch for it; `Turn` is that turn with its effect on every variable. With
fairness of both kinds of callback and backends that answer, a request that was counted
is answered: it gets through the chain or to `execute()` (`RestStepServes`), `execute()`
ends (`CallGoesOn`, `ResumeEnds`) and stays at its end until the chain is resumed
(`ChainGoesOn`).

**The rate limiters** (`LimitsHold`, `RefusalsAreEarned`). The bound of twice the limit
is not inductive. `WindowInv` adds that what passed in the present window is what it
counted, up to the limit; that nothing passed after its end; and that no more than
the limit passed in the stretch of a window's length before it began. A stretch that
ends in the present window reaches into these two only. When a new window begins, the
old one takes the place of what was before it. The lemmas are about one client's
times of passing and one window, without the gateways around them.

### The causes of what the code does not do

Four of the five counterexamples [below](#what-the-code-does-not-do) have a theorem
that tells their cause: without it the property holds, or with it the failure is
no accident of the small instance.

- `EvictsOldestUnlessOverwritten`: where all entries have one time to live, a number,
  and `set` never meets its own key, the oldest entries do go first (`EvictsOldest`).
  The order of the `Map` is then that of the expiries (`Ordered`), and none is later
  than one made now would be.
- `FieldFiltersAreApplied`: if filters were objects from columns to values,
  `WhereIsApplied` would hold. `SyntaxTreeIsNeverAnswered`: with the syntax trees that
  do arrive a SELECT is never answered, whatever is published.
- `CompletesWithoutMqttPackage`: with any other MQTT client a shutdown that has its
  time completes (`CompletesInTime`). `MqttPackageNeverExitsZero`: with that of the
  package no pool is ever destroyed and the process never exits 0, whatever the
  signals and the clients do.
- `CallsEndIfBackendsAnswer`: where backends answer every call ends (`EveryCallEnds`),
  whatever other requests, evictions and failures do. A backend that does not answer is
  all that a timeout would have to deal with.

### What is model-checked only

`NoRequestIsLeft` in the form that says ENABLED, and that the counterexamples are ones:
a proof shows no behaviour. Every other property of a passing run is a theorem, the two
halves of `NoRequestIsLeft` included, and `SignalEndsProcess` with fairness as described
[above](#fairness).

What TLC would take too long for and only the proofs say: `RequestsAreAnswered`, since
the run `gateways` uses symmetry, under which liveness cannot be checked. That the loops
of the Solidity contracts end is proved as far as each round leaves less to do
(`EveryRoundGetsOn`); that they end after finitely many takes an induction, which is out
of the prover's reach.

## What the code does not do

Five runs end in a counterexample: a comment, a document or a test says one thing
and the code does another.

1. `EvictsOldest`: "Evict oldest entries if cache is full" (`utils/cache.js:81`).
   A key that is set again keeps its place in the `Map`, so a fresh entry under
   the first key goes before all older ones.
2. `EveryCallEnds`: "Configurable timeouts for all external services"
   (`README.md:209`). `utils/timeoutManager.js` is never called; a backend that
   does not answer holds its request for ever.
3. `InsertValuesAreAnArray`: `test/unit/sqlInterpreter.test.js:45` expects the
   values of an INSERT as an array; the interpreter makes an object of them. Hedera
   refuses it, since it has no `join`. Redis compares its `length`, which is undefined,
   with the number of columns and refuses it as well, though `test/e2e/e2eTest.js:45-53`
   expects an INSERT on Redis to succeed (`interpreter_dispatch` has these as
   `AdapterThrows`). The exception is a statement with a column called `length` whose
   value is the number of its columns: Redis takes it, and would store every column as
   undefined, because it reads the values by position (`insert_length` in that run).
4. `WhereIsApplied`: "True if message matches filter" (`kafkaAdapter.js:10`). The
   filter that arrives is the syntax tree of the WHERE expression, whose keys no
   message has.
5. `CompletesInTime`: "Return client instance for graceful shutdown"
   (`mqttServer.js:41`). The mqtt package's client has no `close`, so outside
   TEST_MODE the shutdown fails at that step and the pools are never destroyed.
   For the same reason `CleanExit` says something only of TEST_MODE or of a
   start at which MQTT failed.

The models show more of this kind, as they do what the code does; no run of its own
is spent on these:

- `security.js` does not export `validateInput`, which the gRPC, WebSocket and MQTT
  gateways import. Every call over gRPC with a valid token is answered
  UNAUTHENTICATED, since the TypeError is thrown inside the `try` of `authenticate`
  (`grpc/grpcServer.js:62`); every WebSocket message gets an error.
- `startMQTTServer` returns before it registers its handler of messages
  (`mqtt/mqttServer.js:42`): they are ignored (`MqttMessage`).
- The error handler is registered before the routes (`index.js:32`), so that their
  errors pass it by: 500 by Express, where `handleError` would make 401 or 400 of
  them (`NotExecuted`).
- "Create a store with sliding window" (`rateLimiter.js:7`): windows are fixed, and
  twice the limit passes around their boundary, which is what `LimitsAreKept` allows.
- "Insert a new record" (Fabric `sqlContract.js:28`): the same values again replace
  the row, and one that was updated since too (`KeyedTable!InsertRow`).
- In `hyperledgerAdapter.js:98` the name `gateway` is out of scope in `finally`; no
  connection is ever closed.

## What is left out

- Parsing: `Parse` is a constant function from texts to ASTs. The three dialects,
  joins, grouping, ordering and limits (no adapter gets them) are not there.
- Columns named like something a JavaScript object inherits (`__proto__`). Of all
  names only `length` is told apart.
- Rows and WHERE in the interpreter: a store is a version number. Reads are
  never null, undefined or falsy, as no adapter returns that.
- The clock does not go back; `Date.now()` may, and then entries live longer.
- kafka-node may deliver a message twice and skip messages by its offsets.
- 30 seconds of the shutdown's timer: it may fire at any time after the signal.
- Solidity's require on lengths: a record is a sequence of cells. Gas is not counted:
  a call may be undone after any of its rounds (`Revert`).
- Fabric's endorsement by several peers and its ordering service: one world state,
  and commits in any order of the endorsed. The brackets and quotes that
  `JSON.stringify` leaves in names and values the contract splits at commas. Versions
  of the shim whose iterators `for await` cannot walk once they are awaited: there every
  select, update and delete throws and changes nothing.
- The limiters' stores when the clock jumps, and clients behind one address.
- When WebSocket connections are made and closed: a message may come from one that
  was made with a token valid at any time before.
- The timeout manager, since no code calls it; Redis's retries, which ioredis makes:
  to the interpreter it is a backend that fails or does not answer.
- The HTTPS server (files, certificates and options of Node's own), logging, HTTP
  headers, cryptography, migrations, scripts and deployment: input and output
  without states of their own.

## The plan

Done: QueryCache with LossyMemo, SqlDispatch, SqlInterpreter with SqlService,
KafkaAdapter, SqlContract with ContractTable, Shutdown; FabricContract with KeyedTable;
RateLimiter and Gateways over the interpreter; the proofs above.

What could still be added:

1. The connections of WebSocket clients composed with the shutdown, which waits for
   them; the shutdown has them as clients that upgrade and hang up at any time.
2. The contracts and the Kafka adapter behind the interpreter, in place of stores that
   are version numbers.

## How to run

    tlc -workers 2 -config QueryCache.cfg MCQueryCache
    tlapm SqlInterpreterProofs.tla

The module and configuration of each run are in `PROJECT.json`, "runs".
