------------------------ MODULE SqlInterpreterProofs ------------------------
(***************************************************************************)
(* Proofs about the interpreter and its cache, for every set of requests,  *)
(* statements, times to live and cache sizes.                              *)
(***************************************************************************)
EXTENDS SqlInterpreter, QueryCacheProofs, FiniteSetTheorems

----------------------------------------------------------------------------
(* The inductive invariant.                                                *)

\* The result of r is what a read of its own store gave, begun after r was.
OwnRead(r) ==
    /\ req[r].result \in Row
    /\ req[r].result.store = Store(req[r].stmt)
    /\ req[r].result.sql = req[r].stmt.sql
    /\ req[r].result.version >= req[r].base

RequestOK(r) ==
    /\ req[r].pc # "idle" => req[r].stmt \in Statements
    /\ req[r].finished <= now
    /\ req[r].pc \in {"called", "replied"} =>
          req[r].via = "backend" /\ Valid(req[r].stmt)
    /\ req[r].pc = "called" => req[r].base <= store[Store(req[r].stmt)]
    /\ req[r].pc = "replied" =>
          \/ req[r].result = Failure
          \/ IF IsSelect(req[r].stmt) THEN OwnRead(r) ELSE req[r].result = Ack
    /\ req[r].pc = "done" /\ IsSelect(req[r].stmt) =>
          \/ req[r].via = "backend" /\ OwnRead(r)
          \/ req[r].via = "cache" /\ Cacheable(req[r].stmt)

(* An entry is the answer of a settled read of its key and expires with it.*)
FilledBy(k, q) ==
    /\ req[q].pc = "done"
    /\ req[q].via = "backend"
    /\ IsSelect(req[q].stmt)
    /\ Key(req[q].stmt) = k
    /\ entry[k].value = req[q].result
    /\ entry[k].expiry = Expiry(req[q].finished, TtlOf(req[q].stmt))

EntriesFromReads == \A k \in DOMAIN entry : \E q \in Requests : FilledBy(k, q)

IInv ==
    /\ TypeOK
    /\ SizeBounded
    /\ \A r \in Requests : RequestOK(r)
    /\ EntriesFromReads
    /\ CachedAnswersRepeatReads

----------------------------------------------------------------------------
(* Facts about statements.                                                 *)

LEMMA StatementProperties ==
  ASSUME NEW s \in Statements
  PROVE  /\ s.sql \in DOMAIN Parse
         /\ Key(s) \in Keys
         /\ TtlOf(s) \in Ttl
         /\ Valid(s) => Store(s) \in Stores
<1>1. s.sql \in DOMAIN Parse
  BY StatementAssumption DEF Statement
<1>2. Key(s) \in Keys /\ TtlOf(s) \in Ttls
  BY CacheUseAssumption
<1>3. ASSUME Valid(s) PROVE Store(s) \in Stores
  <2>1. Lower[s.adapter] \in DOMAIN SUPPORTED_ADAPTERS
    BY <1>3 DEF Valid
  <2>2. Adapter(s) \in Adapters
    BY <2>1 DEF Adapter, SUPPORTED_ADAPTERS, Adapters
  <2> QED
    BY <2>2 DEF Store, StoreOf, Stores, Adapters
<1> QED
  BY <1>1, <1>2, <1>3, TtlAssumption

(* What makes sharing an entry safe: equal keys mean the same text, the    *)
(* same store and the same time to live.                                   *)
LEMMA KeyDetermines ==
  ASSUME NEW s \in Statements, NEW t \in Statements, Key(s) = Key(t)
  PROVE  /\ s.sql = t.sql
         /\ Store(s) = Store(t)
         /\ TtlOf(s) = TtlOf(t)
<1>1. /\ Lower[s.adapter] = Lower[t.adapter]
      /\ s.sql = t.sql
      /\ s.options = t.options
  BY DEF Key
<1> QED
  BY <1>1 DEF Store, Adapter, TtlOf

----------------------------------------------------------------------------
(* What a step leaves alone.                                               *)

LEMMA RequestKept ==
  ASSUME IInv, NEW q \in Requests, req'[q] = req[q], now' >= now, TypeOK',
         \A b \in Stores : store'[b] >= store[b]
  PROVE  RequestOK(q)'
<1>1. /\ RequestOK(q)
      /\ now \in Int /\ now' \in Int
      /\ req[q].finished \in Int
      /\ req[q].base \in Int
      /\ \A b \in Stores : store[b] \in Int /\ store'[b] \in Int
  BY CacheBoundAssumption, VersionAssumption DEF IInv, TypeOK, CacheTypeOK
<1>2. req'[q].finished <= now'
  BY <1>1 DEF RequestOK
<1>3. req'[q].pc = "called" => req'[q].base <= store'[Store(req'[q].stmt)]
  BY <1>1, StatementProperties DEF RequestOK
<1> QED
  BY <1>1, <1>2, <1>3 DEF RequestOK, OwnRead

(* One request moves, time stands still. What has to be shown of the step  *)
(* is only that the request that moved is in order, that an entry that is  *)
(* new is its own, and that an answer it got from the cache repeats a read.*)
LEMMA StepKeepsInv ==
  ASSUME IInv, NEW r \in Requests, TypeOK', SizeBounded',
         req[r].pc # "done",
         \A q \in Requests \ {r} : req'[q] = req[q],
         now' = now,
         \A b \in Stores : store'[b] >= store[b],
         RequestOK(r)',
         \A k \in DOMAIN entry' :
            \/ k \in DOMAIN entry /\ entry'[k] = entry[k]
            \/ FilledBy(k, r)',
         req'[r].pc = "done" /\ req'[r].via = "cache" =>
            \E q \in Requests : RepeatsRead(r, q)'
  PROVE  IInv'
<1>1. \A q \in Requests : req[q].pc = "done" => req'[q] = req[q]
  OBVIOUS
<1>2. \A q \in Requests : RequestOK(q)'
  <2>1. now' >= now
    BY CacheBoundAssumption DEF IInv, TypeOK, CacheTypeOK
  <2> QED
    BY <2>1, RequestKept
<1>3. EntriesFromReads'
  <2> SUFFICES ASSUME NEW k \in DOMAIN entry'
               PROVE  \E q \in Requests : FilledBy(k, q)'
    BY DEF EntriesFromReads
  <2>1. CASE k \in DOMAIN entry /\ entry'[k] = entry[k]
    <3>1. PICK q \in Requests : FilledBy(k, q)
      BY <2>1 DEF IInv, EntriesFromReads
    <3>2. FilledBy(k, q)'
      BY <1>1, <2>1, <3>1 DEF FilledBy
    <3> QED
      BY <3>2
  <2>2. CASE FilledBy(k, r)'
    BY <2>2
  <2> QED
    BY <2>1, <2>2
<1>4. CachedAnswersRepeatReads'
  <2> SUFFICES ASSUME NEW p \in Requests,
                      req'[p].pc = "done", req'[p].via = "cache"
               PROVE  \E q \in Requests : RepeatsRead(p, q)'
    BY DEF CachedAnswersRepeatReads
  <2>1. CASE p = r
    BY <2>1
  <2>2. CASE p # r
    <3>1. req'[p] = req[p]
      BY <2>2
    <3>2. PICK q \in Requests : RepeatsRead(p, q)
      BY <3>1 DEF IInv, CachedAnswersRepeatReads
    <3>3. RepeatsRead(p, q)'
      BY <1>1, <3>1, <3>2 DEF RepeatsRead
    <3> QED
      BY <3>3
  <2> QED
    BY <2>1, <2>2
<1> QED
  BY <1>2, <1>3, <1>4 DEF IInv

----------------------------------------------------------------------------
(* The two ways a request changes.                                         *)

ReqType ==
    [pc: {"idle", "called", "replied", "done", "failed"},
     stmt: Statements \cup {NoStatement},
     via: {"none", "cache", "backend"},
     result: Row \cup {NoValue, Ack, Failure},
     finished: StartTime..MaxTime,
     base: 0..MaxVersion]

LEMMA BecomeProperties ==
  ASSUME TypeOK, NEW r \in Requests, NEW s \in Statements,
         NEW pc \in {"idle", "called", "replied", "done", "failed"},
         NEW via \in {"none", "cache", "backend"},
         NEW result \in Row \cup {NoValue, Ack, Failure},
         NEW base \in 0..MaxVersion,
         Become(r, pc, s, via, result, base)
  PROVE  /\ req' \in [Requests -> ReqType]
         /\ req'[r] = [pc |-> pc, stmt |-> s, via |-> via, result |-> result,
                       finished |-> now, base |-> base]
         /\ \A q \in Requests \ {r} : req'[q] = req[q]
<1> DEFINE new == [pc |-> pc, stmt |-> s, via |-> via, result |-> result,
                   finished |-> now, base |-> base]
<1>1. new \in ReqType
  BY DEF TypeOK, CacheTypeOK, ReqType
<1>2. req \in [Requests -> ReqType] /\ req' = [req EXCEPT ![r] = new]
  BY DEF TypeOK, Become, ReqType
<1> HIDE DEF new
<1>3. /\ req' \in [Requests -> ReqType]
      /\ req'[r] = new
      /\ \A q \in Requests \ {r} : req'[q] = req[q]
  BY <1>1, <1>2
<1> QED
  BY <1>3 DEF new

LEMMA ReplyProperties ==
  ASSUME TypeOK, NEW r \in Requests, NEW result \in Row \cup {NoValue, Ack, Failure},
         Reply(r, result)
  PROVE  /\ req' \in [Requests -> ReqType]
         /\ req'[r] = [req[r] EXCEPT !.pc = "replied", !.result = result]
         /\ \A q \in Requests \ {r} : req'[q] = req[q]
<1> DEFINE new == [req[r] EXCEPT !.pc = "replied", !.result = result]
<1>1. req \in [Requests -> ReqType]
  BY DEF TypeOK, ReqType
<1>2. new \in ReqType
  <2>1. req[r] \in ReqType
    BY <1>1
  <2>2. [req[r] EXCEPT !.pc = "replied"] \in ReqType
    BY <2>1 DEF ReqType
  <2> QED
    BY <2>2 DEF ReqType
<1>3. req' = [req EXCEPT ![r] = new]
  BY <1>1 DEF Reply
<1> HIDE DEF new
<1>4. /\ req' \in [Requests -> ReqType]
      /\ req'[r] = new
      /\ \A q \in Requests \ {r} : req'[q] = req[q]
  BY <1>1, <1>2, <1>3
<1> QED
  BY <1>4 DEF new

LEMMA SettleProperties ==
  ASSUME TypeOK, NEW r \in Requests, NEW pc \in {"done", "failed"}, Settle(r, pc)
  PROVE  /\ req' \in [Requests -> ReqType]
         /\ req'[r] = [req[r] EXCEPT !.pc = pc, !.finished = now]
         /\ \A q \in Requests \ {r} : req'[q] = req[q]
<1> DEFINE new == [req[r] EXCEPT !.pc = pc, !.finished = now]
<1>1. req \in [Requests -> ReqType] /\ now \in StartTime..MaxTime
  BY DEF TypeOK, CacheTypeOK, ReqType
<1>2. new \in ReqType
  <2>1. req[r] \in ReqType
    BY <1>1
  <2>2. [req[r] EXCEPT !.pc = pc] \in ReqType
    BY <2>1 DEF ReqType
  <2> QED
    BY <1>1, <2>2 DEF ReqType
<1>3. req' = [req EXCEPT ![r] = new]
  BY <1>1 DEF Settle
<1> HIDE DEF new
<1>4. /\ req' \in [Requests -> ReqType]
      /\ req'[r] = new
      /\ \A q \in Requests \ {r} : req'[q] = req[q]
  BY <1>1, <1>2, <1>3
<1> QED
  BY <1>4 DEF new

\* A write only moves a store's version on.
LEMMA WriteProperties ==
  ASSUME TypeOK, NEW s \in Statements, Valid(s), Write(s)
  PROVE  /\ store' \in [Stores -> 0..MaxVersion]
         /\ \A b \in Stores : store'[b] >= store[b]
<1>1. /\ Store(s) \in Stores
      /\ store \in [Stores -> 0..MaxVersion]
      /\ store[Store(s)] < MaxVersion
      /\ store' = [store EXCEPT ![Store(s)] = store[Store(s)] + 1]
  BY StatementProperties DEF TypeOK, Write, Current
<1>2. store[Store(s)] + 1 \in 0..MaxVersion
  BY <1>1, VersionAssumption
<1> QED
  BY <1>1, <1>2, VersionAssumption

\* A lookup that missed.
LEMMA CacheMissedKeeps ==
  ASSUME IInv, NEW s \in Statements, CacheMissed(s), UNCHANGED now
  PROVE  /\ CacheInv'
         /\ \A k \in DOMAIN entry' : k \in DOMAIN entry /\ entry'[k] = entry[k]
<1>1. CacheInv
  BY DEF IInv, TypeOK, CacheInv
<1>2. CASE ~Cacheable(s)
  BY <1>1, <1>2 DEF CacheMissed, CacheInv, CacheTypeOK, SizeBounded, MapCoherent, Capacity
<1>3. CASE Cacheable(s)
  <2>1. Key(s) \in Keys /\ (GetAbsent(Key(s)) \/ GetExpired(Key(s)))
    BY <1>3, StatementProperties DEF CacheMissed
  <2>2. CacheInv'
    BY <1>1, <2>1, GetKeepsInv DEF Get
  <2>3. \A k \in DOMAIN entry' : k \in DOMAIN entry /\ entry'[k] = entry[k]
    BY <2>1 DEF GetAbsent, GetExpired, Restrict
  <2> QED
    BY <2>2, <2>3
<1> QED
  BY <1>2, <1>3

\* TypeOK and SizeBounded after a step, from its parts.
LEMMA TypeFromParts ==
  ASSUME CacheInv', store' \in [Stores -> 0..MaxVersion], req' \in [Requests -> ReqType]
  PROVE  TypeOK' /\ SizeBounded'
BY DEF TypeOK, CacheInv, ReqType

LEMMA CacheKept ==
  ASSUME IInv, UNCHANGED <<now, order, entry, stats>>
  PROVE  CacheInv'
BY DEF IInv, TypeOK, CacheInv, CacheTypeOK, SizeBounded, MapCoherent, Capacity

----------------------------------------------------------------------------
(* One lemma per action.                                                   *)

LEMMA RejectKeepsInv ==
  ASSUME IInv, NEW r \in Requests, NEW s \in Statements, Reject(r, s)
  PROVE  IInv'
<1>1. /\ Become(r, "failed", s, "none", Failure, 0)
      /\ UNCHANGED <<now, order, entry, stats, store>>
      /\ req[r].pc = "idle"
  BY DEF Reject
<1>2. TypeOK
  BY DEF IInv
<1>3. /\ req' \in [Requests -> ReqType]
      /\ req'[r] = [pc |-> "failed", stmt |-> s, via |-> "none", result |-> Failure,
                    finished |-> now, base |-> 0]
      /\ \A q \in Requests \ {r} : req'[q] = req[q]
  BY <1>1, <1>2, VersionAssumption, BecomeProperties
<1>4. TypeOK' /\ SizeBounded'
  BY <1>1, <1>2, <1>3, CacheKept, TypeFromParts DEF TypeOK
<1>5. RequestOK(r)'
  BY <1>1, <1>2, <1>3, CacheBoundAssumption DEF RequestOK, TypeOK, CacheTypeOK
<1>6. \A b \in Stores : store'[b] >= store[b]
  BY <1>1, <1>2, VersionAssumption DEF TypeOK
<1> QED
  BY <1>1, <1>3, <1>4, <1>5, <1>6, StepKeepsInv

LEMMA CallAdapterKeepsInv ==
  ASSUME IInv, NEW r \in Requests, NEW s \in Statements, CallAdapter(r, s)
  PROVE  IInv'
<1>1. /\ Become(r, "called", s, "backend", NoValue, Current(s))
      /\ CacheMissed(s)
      /\ UNCHANGED <<now, store>>
      /\ Valid(s)
      /\ req[r].pc = "idle"
  BY DEF CallAdapter
<1>2. TypeOK
  BY DEF IInv
<1>3. Store(s) \in Stores /\ Current(s) \in 0..MaxVersion
  BY <1>1, <1>2, StatementProperties DEF Current, TypeOK
<1>4. /\ req' \in [Requests -> ReqType]
      /\ req'[r] = [pc |-> "called", stmt |-> s, via |-> "backend", result |-> NoValue,
                    finished |-> now, base |-> Current(s)]
      /\ \A q \in Requests \ {r} : req'[q] = req[q]
  BY <1>1, <1>2, <1>3, BecomeProperties
<1>5. /\ CacheInv'
      /\ \A k \in DOMAIN entry' : k \in DOMAIN entry /\ entry'[k] = entry[k]
  BY <1>1, CacheMissedKeeps
<1>6. TypeOK' /\ SizeBounded'
  BY <1>1, <1>2, <1>4, <1>5, TypeFromParts DEF TypeOK
<1>7. \A b \in Stores : store'[b] >= store[b]
  BY <1>1, <1>2, VersionAssumption DEF TypeOK
<1>8. RequestOK(r)'
  <2>1. req'[r].finished <= now' /\ req'[r].base <= store'[Store(s)]
    BY <1>1, <1>2, <1>3, <1>4, CacheBoundAssumption, VersionAssumption
    DEF TypeOK, CacheTypeOK, Current
  <2> QED
    BY <1>1, <1>4, <2>1 DEF RequestOK
<1> QED
  BY <1>1, <1>4, <1>5, <1>6, <1>7, <1>8, StepKeepsInv

LEMMA AdapterThrowsKeepsInv ==
  ASSUME IInv, NEW r \in Requests, NEW s \in Statements, AdapterThrows(r, s)
  PROVE  IInv'
<1>1. /\ Become(r, "failed", s, "none", Failure, Current(s))
      /\ CacheMissed(s)
      /\ UNCHANGED <<now, store>>
      /\ Valid(s)
      /\ req[r].pc = "idle"
  BY DEF AdapterThrows
<1>2. TypeOK
  BY DEF IInv
<1>3. Store(s) \in Stores /\ Current(s) \in 0..MaxVersion
  BY <1>1, <1>2, StatementProperties DEF Current, TypeOK
<1>4. /\ req' \in [Requests -> ReqType]
      /\ req'[r] = [pc |-> "failed", stmt |-> s, via |-> "none", result |-> Failure,
                    finished |-> now, base |-> Current(s)]
      /\ \A q \in Requests \ {r} : req'[q] = req[q]
  BY <1>1, <1>2, <1>3, BecomeProperties
<1>5. /\ CacheInv'
      /\ \A k \in DOMAIN entry' : k \in DOMAIN entry /\ entry'[k] = entry[k]
  BY <1>1, CacheMissedKeeps
<1>6. TypeOK' /\ SizeBounded'
  BY <1>1, <1>2, <1>4, <1>5, TypeFromParts DEF TypeOK
<1>7. \A b \in Stores : store'[b] >= store[b]
  BY <1>1, <1>2, VersionAssumption DEF TypeOK
<1>8. RequestOK(r)'
  BY <1>1, <1>2, <1>4, CacheBoundAssumption DEF RequestOK, TypeOK, CacheTypeOK
<1> QED
  BY <1>1, <1>4, <1>5, <1>6, <1>7, <1>8, StepKeepsInv

(* The entry that answers was filled by a settled read of the same key, and*)
(* get() has just seen that it is not past its expiry.                     *)
LEMMA AnswerFromCacheKeepsInv ==
  ASSUME IInv, NEW r \in Requests, NEW s \in Statements, AnswerFromCache(r, s)
  PROVE  IInv'
<1>1. /\ Become(r, "done", s, "cache", Lookup(Key(s)), Current(s))
      /\ GetHit(Key(s))
      /\ UNCHANGED <<now, store, order, entry>>
      /\ Valid(s)
      /\ Cacheable(s)
      /\ req[r].pc = "idle"
  BY DEF AnswerFromCache, GetHit
<1>2. TypeOK
  BY DEF IInv
<1>3. /\ Key(s) \in DOMAIN entry
      /\ now <= entry[Key(s)].expiry
      /\ Lookup(Key(s)) = entry[Key(s)].value
  BY <1>1 DEF GetHit, Live, Lookup
<1>4. PICK q \in Requests : FilledBy(Key(s), q)
  BY <1>3 DEF IInv, EntriesFromReads
<1>5. RequestOK(q) /\ OwnRead(q)
  BY <1>4 DEF IInv, RequestOK, FilledBy
<1>6. Lookup(Key(s)) = req[q].result /\ Lookup(Key(s)) \in Row
  BY <1>3, <1>4, <1>5 DEF FilledBy, OwnRead
<1>7. Store(s) \in Stores /\ Current(s) \in 0..MaxVersion
  BY <1>1, <1>2, StatementProperties DEF Current, TypeOK
<1>8. /\ req' \in [Requests -> ReqType]
      /\ req'[r] = [pc |-> "done", stmt |-> s, via |-> "cache",
                    result |-> Lookup(Key(s)), finished |-> now, base |-> Current(s)]
      /\ \A p \in Requests \ {r} : req'[p] = req[p]
  BY <1>1, <1>2, <1>6, <1>7, BecomeProperties
<1>9. CacheInv'
  <2>1. CacheInv /\ Key(s) \in Keys /\ Get(Key(s))
    BY <1>1, StatementProperties DEF IInv, TypeOK, CacheInv, Get
  <2> QED
    BY <1>1, <2>1, GetKeepsInv
<1>10. TypeOK' /\ SizeBounded'
  BY <1>1, <1>2, <1>8, <1>9, TypeFromParts DEF TypeOK
<1>11. \A b \in Stores : store'[b] >= store[b]
  BY <1>1, <1>2, VersionAssumption DEF TypeOK
<1>12. RequestOK(r)'
  BY <1>1, <1>2, <1>8, CacheBoundAssumption DEF RequestOK, TypeOK, CacheTypeOK
<1>13. RepeatsRead(r, q)'
  <2>1. req'[q] = req[q]
    BY <1>1, <1>4, <1>8 DEF FilledBy
  <2> QED
    BY <1>1, <1>3, <1>4, <1>5, <1>6, <1>8, <2>1
    DEF RepeatsRead, FilledBy, RequestOK, OwnRead
<1> QED
  BY <1>1, <1>8, <1>10, <1>11, <1>12, <1>13, StepKeepsInv

LEMMA BackendReplyKeepsInv ==
  ASSUME IInv, NEW r \in Requests, BackendReply(r)
  PROVE  IInv'
<1>1. /\ req[r].pc = "called"
      /\ UNCHANGED <<now, order, entry, stats>>
  BY DEF BackendReply, BackendReads, BackendWrites, BackendFails
<1>2. TypeOK /\ RequestOK(r)
  BY DEF IInv
<1> DEFINE s == req[r].stmt
<1>3. /\ s \in Statements /\ Valid(s) /\ Store(s) \in Stores
      /\ req[r].via = "backend"
      /\ req[r].base <= store[Store(s)]
      /\ req[r].finished <= now
  BY <1>1, <1>2, StatementProperties DEF RequestOK
<1>4. PICK result \in Row \cup {NoValue, Ack, Failure} :
         /\ Reply(r, result)
         /\ UNCHANGED store \/ Write(s)
         /\ \/ result = Failure
            \/ /\ IsSelect(s)
               /\ result = [store |-> Store(s), sql |-> s.sql, version |-> store[Store(s)]]
            \/ ~IsSelect(s) /\ result = Ack
  <2>1. CASE BackendReads(r)
    <3>1. [store |-> Store(s), sql |-> s.sql, version |-> store[Store(s)]] \in Row
      BY <1>2, <1>3, StatementProperties DEF TypeOK, Row
    <3> QED
      BY <2>1, <3>1 DEF BackendReads, Current
  <2>2. CASE BackendWrites(r)
    BY <2>2 DEF BackendWrites
  <2>3. CASE BackendFails(r)
    BY <2>3 DEF BackendFails
  <2> QED
    BY <2>1, <2>2, <2>3 DEF BackendReply
<1>5. /\ req' \in [Requests -> ReqType]
      /\ req'[r] = [req[r] EXCEPT !.pc = "replied", !.result = result]
      /\ \A q \in Requests \ {r} : req'[q] = req[q]
  BY <1>2, <1>4, ReplyProperties
<1>6. /\ store' \in [Stores -> 0..MaxVersion]
      /\ \A b \in Stores : store'[b] >= store[b]
  <2>1. CASE UNCHANGED store
    BY <1>2, <2>1, VersionAssumption DEF TypeOK
  <2>2. CASE Write(s)
    BY <1>2, <1>3, <2>2, WriteProperties
  <2> QED
    BY <1>4, <2>1, <2>2
<1>7. TypeOK' /\ SizeBounded'
  BY <1>1, <1>5, <1>6, CacheKept, TypeFromParts
<1>8. RequestOK(r)'
  <2>1. req[r] \in ReqType
    BY <1>2 DEF TypeOK, ReqType
  <2>2. /\ req'[r].pc = "replied" /\ req'[r].stmt = s /\ req'[r].via = "backend"
        /\ req'[r].result = result /\ req'[r].base = req[r].base
        /\ req'[r].finished = req[r].finished
    BY <1>3, <1>5, <2>1 DEF ReqType
  <2>3. CASE result = Failure
    BY <1>1, <1>3, <2>2, <2>3 DEF RequestOK
  <2>4. CASE ~IsSelect(s) /\ result = Ack
    BY <1>1, <1>3, <2>2, <2>4 DEF RequestOK
  <2>5. CASE /\ IsSelect(s)
             /\ result = [store |-> Store(s), sql |-> s.sql, version |-> store[Store(s)]]
    <3>1. result \in Row
      BY <1>2, <1>3, <2>5, StatementProperties DEF TypeOK, Row
    <3>2. OwnRead(r)'
      BY <1>3, <2>2, <2>5, <3>1 DEF OwnRead
    <3> QED
      BY <1>1, <1>3, <2>2, <2>5, <3>2 DEF RequestOK
  <2> QED
    BY <1>4, <2>3, <2>4, <2>5
<1>9. req'[r].pc = "replied"
  <2>1. req[r] \in ReqType
    BY <1>2 DEF TypeOK, ReqType
  <2> QED
    BY <1>5, <2>1 DEF ReqType
<1> QED
  BY <1>1, <1>5, <1>6, <1>7, <1>8, <1>9, StepKeepsInv

(* The answer of a read enters the cache at the moment its request is      *)
(* settled, with an expiry counted from that moment.                       *)
LEMMA ResumeWithResultKeepsInv ==
  ASSUME IInv, NEW r \in Requests, ResumeWithResult(r)
  PROVE  IInv'
<1> DEFINE s == req[r].stmt
<1>1. /\ req[r].pc = "replied"
      /\ req[r].result # Failure
      /\ Settle(r, "done")
      /\ UNCHANGED <<now, store>>
  BY DEF ResumeWithResult
<1>2. TypeOK /\ CacheInv /\ RequestOK(r)
  BY DEF IInv, TypeOK, CacheInv
<1>3. /\ s \in Statements /\ Valid(s)
      /\ req[r].via = "backend"
      /\ IsSelect(s) => OwnRead(r)
  BY <1>1, <1>2 DEF RequestOK
<1>4. /\ req' \in [Requests -> ReqType]
      /\ req'[r] = [req[r] EXCEPT !.pc = "done", !.finished = now]
      /\ \A q \in Requests \ {r} : req'[q] = req[q]
  BY <1>1, <1>2, SettleProperties
<1>5. /\ req'[r].pc = "done" /\ req'[r].stmt = s /\ req'[r].via = "backend"
      /\ req'[r].result = req[r].result /\ req'[r].base = req[r].base
      /\ req'[r].finished = now
  <2>1. req[r] \in ReqType
    BY <1>2 DEF TypeOK, ReqType
  <2> QED
    BY <1>3, <1>4, <2>1 DEF ReqType
<1>6. RequestOK(r)'
  <2>1. req'[r].finished <= now'
    BY <1>1, <1>2, <1>5, CacheBoundAssumption DEF TypeOK, CacheTypeOK
  <2> QED
    BY <1>1, <1>3, <1>5, <2>1 DEF RequestOK, OwnRead
<1>7. /\ CacheInv'
      /\ \A k \in DOMAIN entry' :
            \/ k \in DOMAIN entry /\ entry'[k] = entry[k]
            \/ FilledBy(k, r)'
  <2>1. CASE ~Cacheable(s)
    <3>1. UNCHANGED <<now, order, entry, stats>>
      BY <1>1, <2>1 DEF ResumeWithResult
    <3> QED
      BY <3>1, CacheKept
  <2>2. CASE Cacheable(s)
    <3>1. /\ Set(Key(s), req[r].result, TtlOf(s))
          /\ Key(s) \in Keys /\ TtlOf(s) \in Ttl
          /\ IsSelect(s) /\ req[r].result \in Row
      BY <1>3, <2>2, StatementProperties DEF ResumeWithResult, Cacheable, OwnRead
    <3>2. req[r].result \in Values /\ req[r].result # NoValue
      BY <3>1, CacheUseAssumption, ValueAssumption
    <3>3. CacheInv'
      BY <1>1, <1>2, <3>1, <3>2, SetKeepsInv
    <3>4. /\ entry' = [j \in Range(Kept) \cup {Key(s)} |->
                         IF j = Key(s)
                         THEN [value |-> req[r].result, expiry |-> Expiry(now, TtlOf(s))]
                         ELSE entry[j]]
          /\ Range(Kept) \subseteq DOMAIN entry
      BY <1>2, <3>1, <3>2, KeptProperties DEF Set
    <3>5. ASSUME NEW k \in DOMAIN entry', k = Key(s)
          PROVE  FilledBy(k, r)'
      <4>1. /\ entry'[k].value = req[r].result
            /\ entry'[k].expiry = Expiry(now, TtlOf(s))
        BY <3>4, <3>5
      <4> QED
        BY <1>5, <3>1, <3>5, <4>1 DEF FilledBy
    <3>6. ASSUME NEW k \in DOMAIN entry', k # Key(s)
          PROVE  k \in DOMAIN entry /\ entry'[k] = entry[k]
      BY <3>4, <3>6
    <3> QED
      BY <3>3, <3>5, <3>6
  <2> QED
    BY <2>1, <2>2
<1>8. TypeOK' /\ SizeBounded'
  BY <1>1, <1>2, <1>4, <1>7, TypeFromParts DEF TypeOK
<1>9. \A b \in Stores : store'[b] >= store[b]
  BY <1>1, <1>2, VersionAssumption DEF TypeOK
<1> QED
  BY <1>1, <1>4, <1>5, <1>6, <1>7, <1>8, <1>9, StepKeepsInv

LEMMA ResumeWithErrorKeepsInv ==
  ASSUME IInv, NEW r \in Requests, ResumeWithError(r)
  PROVE  IInv'
<1>1. /\ req[r].pc = "replied"
      /\ Settle(r, "failed")
      /\ UNCHANGED <<now, order, entry, stats, store>>
  BY DEF ResumeWithError
<1>2. TypeOK /\ RequestOK(r)
  BY DEF IInv
<1>3. /\ req' \in [Requests -> ReqType]
      /\ req'[r] = [req[r] EXCEPT !.pc = "failed", !.finished = now]
      /\ \A q \in Requests \ {r} : req'[q] = req[q]
  BY <1>1, <1>2, SettleProperties
<1>4. /\ req'[r].pc = "failed" /\ req'[r].stmt = req[r].stmt
      /\ req'[r].finished = now
  <2>1. req[r] \in ReqType
    BY <1>2 DEF TypeOK, ReqType
  <2> QED
    BY <1>3, <2>1 DEF ReqType
<1>5. RequestOK(r)'
  <2>1. req'[r].finished <= now'
    BY <1>1, <1>2, <1>4, CacheBoundAssumption DEF TypeOK, CacheTypeOK
  <2> QED
    BY <1>1, <1>2, <1>4, <2>1 DEF RequestOK
<1>6. TypeOK' /\ SizeBounded'
  BY <1>1, <1>2, <1>3, CacheKept, TypeFromParts DEF TypeOK
<1>7. \A b \in Stores : store'[b] >= store[b]
  BY <1>1, <1>2, VersionAssumption DEF TypeOK
<1> QED
  BY <1>1, <1>3, <1>4, <1>5, <1>6, <1>7, StepKeepsInv

LEMMA TimePassesKeepsInv ==
  ASSUME IInv, TimePasses
  PROVE  IInv'
<1>1. UNCHANGED <<store, req, order, entry>> /\ Tick /\ now' = now + 1
  BY DEF TimePasses, Tick, mapVars
<1>2. TypeOK /\ CacheInv
  BY DEF IInv, TypeOK, CacheInv
<1>3. TypeOK' /\ SizeBounded'
  <2>1. CacheInv'
    BY <1>1, <1>2, TickKeepsInv
  <2> QED
    BY <1>1, <1>2, <2>1 DEF TypeOK, CacheInv
<1>4. \A q \in Requests : RequestOK(q)'
  <2>1. now' >= now
    BY <1>1, <1>2, CacheBoundAssumption DEF TypeOK, CacheTypeOK
  <2>2. \A b \in Stores : store'[b] >= store[b]
    BY <1>1, <1>2, VersionAssumption DEF TypeOK
  <2> QED
    BY <1>1, <1>3, <2>1, <2>2, RequestKept
<1>5. EntriesFromReads'
  BY <1>1 DEF IInv, EntriesFromReads, FilledBy
<1>6. CachedAnswersRepeatReads'
  BY <1>1 DEF IInv, CachedAnswersRepeatReads, RepeatsRead
<1> QED
  BY <1>3, <1>4, <1>5, <1>6 DEF IInv

LEMMA InitInv == Init => IInv
<1> SUFFICES ASSUME Init PROVE IInv
  OBVIOUS
<1>1. CacheInv /\ DOMAIN entry = {}
  BY CacheInitInv DEF Init, CacheInit
<1>2. \A r \in Requests : req[r] = Unmade
  BY DEF Init
<1>3. TypeOK
  <2>1. Unmade \in ReqType
    BY CacheBoundAssumption, VersionAssumption DEF Unmade, ReqType
  <2>2. req \in [Requests -> ReqType]
    BY <2>1 DEF Init
  <2>3. store \in [Stores -> 0..MaxVersion]
    BY VersionAssumption DEF Init
  <2> QED
    BY <1>1, <2>2, <2>3 DEF TypeOK, CacheInv, ReqType
<1>4. \A r \in Requests : RequestOK(r)
  BY <1>2, CacheBoundAssumption DEF RequestOK, Unmade, Init, CacheInit
<1>5. EntriesFromReads /\ CachedAnswersRepeatReads
  BY <1>1, <1>2 DEF EntriesFromReads, CachedAnswersRepeatReads, Unmade
<1> QED
  BY <1>1, <1>3, <1>4, <1>5 DEF IInv, CacheInv

LEMMA NextKeepsInv == IInv /\ [Next]_vars => IInv'
<1> SUFFICES ASSUME IInv, [Next]_vars PROVE IInv'
  OBVIOUS
<1>1. CASE \E r \in Requests, s \in Statements :
              \/ Reject(r, s)
              \/ AnswerFromCache(r, s)
              \/ CallAdapter(r, s)
              \/ AdapterThrows(r, s)
  BY <1>1, RejectKeepsInv, AnswerFromCacheKeepsInv, CallAdapterKeepsInv,
     AdapterThrowsKeepsInv
<1>2. CASE \E r \in Requests : BackendReply(r)
  BY <1>2, BackendReplyKeepsInv
<1>3. CASE \E r \in Requests : Resume(r)
  BY <1>3, ResumeWithResultKeepsInv, ResumeWithErrorKeepsInv DEF Resume
<1>4. CASE TimePasses
  BY <1>4, TimePassesKeepsInv
<1>5. CASE UNCHANGED vars
  BY <1>5
  DEF vars, IInv, TypeOK, CacheTypeOK, SizeBounded, MapCoherent, Capacity, RequestOK,
      OwnRead, EntriesFromReads, FilledBy, CachedAnswersRepeatReads, RepeatsRead
<1> QED
  BY <1>1, <1>2, <1>3, <1>4, <1>5 DEF Next

LEMMA SpecInv == Spec => []IInv
BY InitInv, NextKeepsInv, PTL DEF Spec

----------------------------------------------------------------------------
(* The interpreter, its cache and its requests keep their types (TypeOK).  *)
THEOREM TypeCorrect == Spec => []TypeOK
<1>1. IInv => TypeOK
  BY DEF IInv
<1> QED
  BY <1>1, SpecInv, PTL

(* Every answer from the cache repeats a read of the same text, adapter and*)
(* options that was settled no longer before than its time to live, and    *)
(* that saw the store no older than when it was asked for                  *)
(* (CachedAnswersRepeatReads), for any number of concurrent requests.      *)
THEOREM CacheStaleness == Spec => []CachedAnswersRepeatReads
<1>1. IInv => CachedAnswersRepeatReads
  BY DEF IInv
<1> QED
  BY <1>1, SpecInv, PTL

(* What a SELECT returns comes from the store its own adapter name and     *)
(* options lead to, and is the answer to its own text, whether the backend *)
(* or the cache answered (AnswersFromRoutedStore).                         *)
THEOREM RoutedAnswers == Spec => []AnswersFromRoutedStore
<1>1. IInv => AnswersFromRoutedStore
  <2> SUFFICES ASSUME IInv, NEW r \in Requests,
                      req[r].pc = "done", IsSelect(req[r].stmt)
               PROVE  /\ req[r].result \in Row
                      /\ req[r].result.store = Store(req[r].stmt)
                      /\ req[r].result.sql = req[r].stmt.sql
    BY DEF AnswersFromRoutedStore
  <2>1. RequestOK(r) /\ req[r].stmt \in Statements
    BY DEF IInv, RequestOK
  <2>2. CASE req[r].via = "backend"
    BY <2>1, <2>2 DEF RequestOK, OwnRead
  <2>3. CASE req[r].via # "backend"
    <3>1. PICK q \in Requests : RepeatsRead(r, q)
      BY <2>1, <2>3 DEF IInv, RequestOK, CachedAnswersRepeatReads
    <3>2. RequestOK(q) /\ req[q].stmt \in Statements
      BY <3>1 DEF IInv, RequestOK, RepeatsRead
    <3>3. /\ req[q].stmt.sql = req[r].stmt.sql
          /\ Store(req[q].stmt) = Store(req[r].stmt)
      BY <2>1, <3>1, <3>2, KeyDetermines DEF RepeatsRead
    <3>4. IsSelect(req[q].stmt)
      BY <3>3 DEF IsSelect, Components
    <3>5. OwnRead(q)
      BY <3>1, <3>2, <3>4 DEF RequestOK, RepeatsRead
    <3> QED
      BY <3>1, <3>3, <3>5 DEF RepeatsRead, OwnRead
  <2> QED
    BY <2>2, <2>3
<1> QED
  BY <1>1, SpecInv, PTL

(* A SELECT with useCache = false sees every write that was in its store   *)
(* when it was asked for (UncachedReadsAreCurrent).                        *)
THEOREM BypassIsCurrent == Spec => []UncachedReadsAreCurrent
<1>1. IInv => UncachedReadsAreCurrent
  BY DEF IInv, RequestOK, OwnRead, Cacheable, UncachedReadsAreCurrent
<1> QED
  BY <1>1, SpecInv, PTL

(***************************************************************************)
(* What enters the cache.                                                  *)
(***************************************************************************)
StoredBy(k, r) ==
    /\ req[r].pc = "replied" /\ req'[r].pc = "done"
    /\ Cacheable(req[r].stmt) /\ Key(req[r].stmt) = k
    /\ entry'[k].value = req[r].result

LEMMA ResumeStores ==
  ASSUME IInv, NEW r \in Requests, ResumeWithResult(r)
  PROVE  \A k \in DOMAIN entry' :
            k \notin DOMAIN entry \/ entry'[k] # entry[k] => StoredBy(k, r)
<1> DEFINE s == req[r].stmt
<1>1. /\ req[r].pc = "replied"
      /\ req[r].result # Failure
      /\ Settle(r, "done")
      /\ UNCHANGED <<now, store>>
  BY DEF ResumeWithResult
<1>2. TypeOK /\ CacheInv /\ RequestOK(r)
  BY DEF IInv, TypeOK, CacheInv
<1>3. /\ req' \in [Requests -> ReqType]
      /\ req'[r] = [req[r] EXCEPT !.pc = "done", !.finished = now]
      /\ \A q \in Requests \ {r} : req'[q] = req[q]
  BY <1>1, <1>2, SettleProperties
<1>4. req'[r].pc = "done"
  <2>1. req[r] \in ReqType
    BY <1>2 DEF TypeOK, ReqType
  <2> QED
    BY <1>3, <2>1 DEF ReqType
<1>5. CASE ~Cacheable(s)
  BY <1>5 DEF ResumeWithResult
<1>6. CASE Cacheable(s)
  <2>1. Set(Key(s), req[r].result, TtlOf(s))
    BY <1>6 DEF ResumeWithResult
  <2>2. req[r].result \in Row
    BY <1>1, <1>2, <1>6 DEF RequestOK, OwnRead, Cacheable
  <2>3. req[r].result # NoValue
    BY <2>2, CacheUseAssumption, ValueAssumption
  <2>4. /\ entry' = [j \in Range(Kept) \cup {Key(s)} |->
                       IF j = Key(s)
                       THEN [value |-> req[r].result, expiry |-> Expiry(now, TtlOf(s))]
                       ELSE entry[j]]
        /\ Range(Kept) \subseteq DOMAIN entry
    BY <1>2, <2>1, <2>3, KeptProperties DEF Set
  <2>5. ASSUME NEW k \in DOMAIN entry', k \notin DOMAIN entry \/ entry'[k] # entry[k]
        PROVE  k = Key(s) /\ entry'[k].value = req[r].result
    <3>1. k = Key(s)
      BY <2>4, <2>5
    <3> QED
      BY <2>4, <3>1
  <2> QED
    BY <1>1, <1>4, <1>6, <2>5 DEF StoredBy
<1> QED
  BY <1>5, <1>6

(* A call that fails leaves no entry: what enters the cache, whenever it   *)
(* does, is the answer of a read of the backend that has just been settled *)
(* (OnlySettledReadsAreStored; sqlInterpreter.js:424-441).                 *)
THEOREM OnlyReadsAreStored == Spec => OnlySettledReadsAreStored
<1> DEFINE Stored(k) == k \notin DOMAIN entry \/ entry'[k] # entry[k] =>
                           \E r \in Requests : StoredBy(k, r)
<1>1. ASSUME IInv, Next
      PROVE  \A k \in DOMAIN entry' : Stored(k)
  <2> SUFFICES ASSUME NEW k \in DOMAIN entry',
                      k \notin DOMAIN entry \/ entry'[k] # entry[k]
               PROVE  \E r \in Requests : StoredBy(k, r)
    OBVIOUS
  <2>1. ASSUME NEW s \in Statements, CacheMissed(s), UNCHANGED now PROVE FALSE
    BY <1>1, <2>1, CacheMissedKeeps
  <2>2. ASSUME NEW r \in Requests, NEW s \in Statements,
               \/ Reject(r, s)
               \/ AnswerFromCache(r, s)
               \/ CallAdapter(r, s)
               \/ AdapterThrows(r, s)
        PROVE  FALSE
    BY <2>1, <2>2 DEF Reject, AnswerFromCache, GetHit, CallAdapter, AdapterThrows
  <2>3. ASSUME NEW r \in Requests, BackendReply(r) \/ ResumeWithError(r) PROVE FALSE
    BY <2>3 DEF BackendReply, BackendReads, BackendWrites, BackendFails, ResumeWithError
  <2>4. ~TimePasses
    BY DEF TimePasses, Tick, mapVars
  <2>5. PICK r \in Requests : ResumeWithResult(r)
    BY <1>1, <2>2, <2>3, <2>4 DEF Next, Resume
  <2> QED
    BY <1>1, <2>5, ResumeStores
<1>2. IInv /\ [Next]_vars => [\A k \in DOMAIN entry' : Stored(k)]_vars
  BY <1>1
<1>3. OnlySettledReadsAreStored <=> [][\A k \in DOMAIN entry' : Stored(k)]_vars
  BY DEF OnlySettledReadsAreStored, StoredBy
<1> HIDE DEF Stored
<1> QED
  BY <1>2, <1>3, SpecInv, PTL DEF Spec

----------------------------------------------------------------------------
(* What the statistics count, and that the sets counted are finite: they   *)
(* begin empty and grow by one request at a time.                          *)

FromCache(r) == req[r].via = "cache"

Missed(r) ==
    /\ req[r].pc # "idle"
    /\ req[r].via # "cache"
    /\ Valid(req[r].stmt)
    /\ Cacheable(req[r].stmt)

Served == {r \in Requests : FromCache(r)}
Misses == {r \in Requests : Missed(r)}

StatsInv ==
    /\ IsFiniteSet(Served)
    /\ IsFiniteSet(Misses)
    /\ stats.hits = Cardinality(Served)
    /\ stats.misses = Cardinality(Misses)
    /\ \A r \in Requests : req[r].pc = "idle" => ~FromCache(r)

LEMMA StatsKept ==
  ASSUME StatsInv, stats'.hits = stats.hits, stats'.misses = stats.misses,
         \A q \in Requests : /\ req'[q].via = req[q].via
                             /\ req'[q].stmt = req[q].stmt
                             /\ req'[q].pc = "idle" <=> req[q].pc = "idle"
  PROVE  StatsInv'
<1>1. Served' = Served /\ Misses' = Misses
  BY DEF Served, Misses, FromCache, Missed
<1> QED
  BY <1>1 DEF StatsInv, FromCache

\* A request that was idle is counted once: as a hit, as a miss or not at all.
LEMMA OneIsCounted ==
  ASSUME StatsInv, NEW r \in Requests, req[r].pc = "idle", req'[r].pc # "idle",
         \A q \in Requests \ {r} : req'[q] = req[q],
         stats'.hits = stats.hits + (IF FromCache(r)' THEN 1 ELSE 0),
         stats'.misses = stats.misses + (IF Missed(r)' THEN 1 ELSE 0)
  PROVE  StatsInv'
<1>1. r \notin Served /\ r \notin Misses
  BY DEF StatsInv, Served, Misses, Missed
<1>2. Served' = IF FromCache(r)' THEN Served \cup {r} ELSE Served
  BY <1>1 DEF Served, FromCache
<1>3. Misses' = IF Missed(r)' THEN Misses \cup {r} ELSE Misses
  BY <1>1 DEF Misses, Missed
<1>4. /\ Cardinality(Served) \in Nat /\ Cardinality(Misses) \in Nat
      /\ IsFiniteSet(Served \cup {r}) /\ Cardinality(Served \cup {r}) = Cardinality(Served) + 1
      /\ IsFiniteSet(Misses \cup {r}) /\ Cardinality(Misses \cup {r}) = Cardinality(Misses) + 1
  BY <1>1, FS_AddElement, FS_CardinalityType DEF StatsInv
<1>5. IsFiniteSet(Served') /\ stats'.hits = Cardinality(Served')
  BY <1>2, <1>4 DEF StatsInv
<1>6. IsFiniteSet(Misses') /\ stats'.misses = Cardinality(Misses')
  BY <1>3, <1>4 DEF StatsInv
<1>7. \A q \in Requests : req'[q].pc = "idle" => req'[q].via # "cache"
  BY DEF StatsInv, FromCache
<1> QED
  BY <1>5, <1>6, <1>7 DEF StatsInv, FromCache

LEMMA MissIsCounted ==
  ASSUME TypeOK, NEW s \in Statements, CacheMissed(s)
  PROVE  /\ stats'.hits = stats.hits
         /\ stats'.misses = stats.misses + (IF Cacheable(s) THEN 1 ELSE 0)
<1>1. stats \in [hits: Nat, misses: Nat, size: Nat]
  BY DEF TypeOK, CacheTypeOK
<1>2. CASE ~Cacheable(s)
  BY <1>1, <1>2 DEF CacheMissed
<1>3. CASE Cacheable(s)
  BY <1>1, <1>3 DEF CacheMissed, GetAbsent, GetExpired
<1> QED
  BY <1>2, <1>3

LEMMA SetCountsNothing ==
  ASSUME TypeOK, NEW k, NEW v, NEW ttl, Set(k, v, ttl)
  PROVE  stats'.hits = stats.hits /\ stats'.misses = stats.misses
<1>1. stats \in [hits: Nat, misses: Nat, size: Nat]
  BY DEF TypeOK, CacheTypeOK
<1> QED
  BY <1>1 DEF Set, mapVars

LEMMA StartKeepsStats ==
  ASSUME IInv, StatsInv, NEW r \in Requests, NEW s \in Statements,
         Reject(r, s) \/ AnswerFromCache(r, s) \/ CallAdapter(r, s) \/ AdapterThrows(r, s)
  PROVE  StatsInv'
<1>1. /\ TypeOK
      /\ req \in [Requests -> ReqType]
      /\ stats \in [hits: Nat, misses: Nat, size: Nat]
  BY DEF IInv, TypeOK, CacheTypeOK, ReqType
<1>2. req[r].pc = "idle"
  BY DEF Reject, AnswerFromCache, CallAdapter, AdapterThrows
<1>3. ASSUME NEW pc \in {"called", "done", "failed"}, NEW via, NEW result, NEW base,
             Become(r, pc, s, via, result, base)
      PROVE  /\ \A q \in Requests \ {r} : req'[q] = req[q]
             /\ req'[r].pc = pc /\ req'[r].pc # "idle"
             /\ req'[r].via = via /\ req'[r].stmt = s
  BY <1>1, <1>3 DEF Become
<1>4. CASE Reject(r, s)
  <2>1. /\ \A q \in Requests \ {r} : req'[q] = req[q]
        /\ req'[r].pc # "idle" /\ req'[r].via = "none" /\ req'[r].stmt = s
    BY <1>3, <1>4 DEF Reject
  <2>2. ~FromCache(r)' /\ ~Missed(r)'
    BY <1>4, <2>1 DEF FromCache, Missed, Reject
  <2>3. /\ stats'.hits = stats.hits + (IF FromCache(r)' THEN 1 ELSE 0)
        /\ stats'.misses = stats.misses + (IF Missed(r)' THEN 1 ELSE 0)
    BY <1>1, <1>4, <2>2 DEF Reject
  <2> QED
    BY <1>2, <2>1, <2>3, OneIsCounted
<1>5. CASE AnswerFromCache(r, s)
  <2>1. /\ \A q \in Requests \ {r} : req'[q] = req[q]
        /\ req'[r].pc # "idle" /\ req'[r].via = "cache" /\ req'[r].stmt = s
    BY <1>3, <1>5 DEF AnswerFromCache
  <2>2. FromCache(r)' /\ ~Missed(r)'
    BY <2>1 DEF FromCache, Missed
  <2>3. stats'.hits = stats.hits + 1 /\ stats'.misses = stats.misses
    BY <1>1, <1>5 DEF AnswerFromCache, GetHit
  <2>4. /\ stats'.hits = stats.hits + (IF FromCache(r)' THEN 1 ELSE 0)
        /\ stats'.misses = stats.misses + (IF Missed(r)' THEN 1 ELSE 0)
    BY <1>1, <2>2, <2>3
  <2> QED
    BY <1>2, <2>1, <2>4, OneIsCounted
<1>6. CASE CallAdapter(r, s) \/ AdapterThrows(r, s)
  <2>1. /\ \A q \in Requests \ {r} : req'[q] = req[q]
        /\ req'[r].pc # "idle" /\ req'[r].via \in {"none", "backend"} /\ req'[r].stmt = s
    BY <1>3, <1>6 DEF CallAdapter, AdapterThrows
  <2>2. Valid(s) /\ CacheMissed(s)
    BY <1>6 DEF CallAdapter, AdapterThrows
  <2>3. ~FromCache(r)' /\ (Missed(r)' <=> Cacheable(s))
    BY <2>1, <2>2 DEF FromCache, Missed
  <2>4. /\ stats'.hits = stats.hits
        /\ stats'.misses = stats.misses + (IF Cacheable(s) THEN 1 ELSE 0)
    BY <1>1, <2>2, MissIsCounted
  <2>5. /\ stats'.hits = stats.hits + (IF FromCache(r)' THEN 1 ELSE 0)
        /\ stats'.misses = stats.misses + (IF Missed(r)' THEN 1 ELSE 0)
    BY <1>1, <2>3, <2>4
  <2> QED
    BY <1>2, <2>1, <2>5, OneIsCounted
<1> QED
  BY <1>4, <1>5, <1>6

LEMMA GoingOnKeepsStats ==
  ASSUME IInv, StatsInv, NEW r \in Requests, BackendReply(r) \/ Resume(r)
  PROVE  StatsInv'
<1>1. TypeOK /\ req \in [Requests -> ReqType]
  BY DEF IInv, TypeOK, ReqType
<1>2. req[r].pc \in {"called", "replied"}
  BY DEF BackendReply, BackendReads, BackendWrites, BackendFails, Resume, ResumeWithResult,
         ResumeWithError
<1>3. \A q \in Requests : /\ req'[q].via = req[q].via
                          /\ req'[q].stmt = req[q].stmt
                          /\ req'[q].pc = "idle" <=> req[q].pc = "idle"
  <2>1. ASSUME NEW result, Reply(r, result)
        PROVE  \A q \in Requests : /\ req'[q].via = req[q].via
                                   /\ req'[q].stmt = req[q].stmt
                                   /\ req'[q].pc = "idle" <=> req[q].pc = "idle"
    BY <1>1, <1>2, <2>1 DEF Reply, ReqType
  <2>2. ASSUME NEW pc \in {"done", "failed"}, Settle(r, pc)
        PROVE  \A q \in Requests : /\ req'[q].via = req[q].via
                                   /\ req'[q].stmt = req[q].stmt
                                   /\ req'[q].pc = "idle" <=> req[q].pc = "idle"
    BY <1>1, <1>2, <2>2 DEF Settle, ReqType
  <2> QED
    BY <2>1, <2>2 DEF BackendReply, BackendReads, BackendWrites, BackendFails, Resume,
                      ResumeWithResult, ResumeWithError
<1>4. stats'.hits = stats.hits /\ stats'.misses = stats.misses
  BY <1>1, SetCountsNothing DEF BackendReply, BackendReads, BackendWrites, BackendFails,
     Resume, ResumeWithResult, ResumeWithError
<1> QED
  BY <1>3, <1>4, StatsKept

LEMMA StatsInvariant == Spec => []StatsInv
<1>1. Init => StatsInv
  <2> SUFFICES ASSUME Init PROVE StatsInv
    OBVIOUS
  <2>1. Served = {} /\ Misses = {}
    BY DEF Init, Unmade, Served, Misses, FromCache, Missed
  <2> QED
    BY <2>1, FS_EmptySet DEF StatsInv, Init, CacheInit, Unmade, FromCache
<1>2. IInv /\ StatsInv /\ [Next]_vars => StatsInv'
  <2> SUFFICES ASSUME IInv, StatsInv, [Next]_vars PROVE StatsInv'
    OBVIOUS
  <2>1. CASE \E r \in Requests, s \in Statements :
                \/ Reject(r, s)
                \/ AnswerFromCache(r, s)
                \/ CallAdapter(r, s)
                \/ AdapterThrows(r, s)
    BY <2>1, StartKeepsStats
  <2>2. CASE \E r \in Requests : BackendReply(r)
    BY <2>2, GoingOnKeepsStats
  <2>3. CASE \E r \in Requests : Resume(r)
    BY <2>3, GoingOnKeepsStats
  <2>4. CASE TimePasses \/ UNCHANGED vars
    <3>1. UNCHANGED <<req, stats>>
      BY <2>4 DEF TimePasses, Tick, mapVars, vars
    <3> QED
      BY <3>1, StatsKept
  <2> QED
    BY <2>1, <2>2, <2>3, <2>4 DEF Next
<1> QED
  BY <1>1, <1>2, SpecInv, PTL DEF Spec

(* getStats() tells what happened, however many requests run at once: each *)
(* lookup of a SELECT is counted once, as a hit or as a miss, and nothing  *)
(* else is (StatsAccountForRequests; cache.js:44-63, sqlInterpreter.js:357)*)
THEOREM StatsAreTrue == Spec => []StatsAccountForRequests
<1>1. StatsInv => StatsAccountForRequests
  BY DEF StatsInv, StatsAccountForRequests, Served, Misses, FromCache, Missed
<1> QED
  BY <1>1, StatsInvariant, PTL

----------------------------------------------------------------------------
(* The interpreter with its cache implements the service without one. What *)
(* callers see of a step is the request that moves; what may be given again*)
(* grows only when a read of the backend is settled.                       *)

CallOf(r) == [pc |-> req[r].pc, stmt |-> req[r].stmt, result |-> req[r].result]

GivesAgain(r) ==
    /\ req[r].pc = "done"
    /\ req[r].via = "backend"
    /\ Cacheable(req[r].stmt)

LEMMA OneCallMoves ==
  ASSUME NEW r \in Requests, \A q \in Requests \ {r} : req'[q] = req[q]
  PROVE  /\ Called' = [Called EXCEPT ![r] = CallOf(r)']
         /\ Called[r] = CallOf(r)
<1> DEFINE new == CallOf(r)'
<1>1. Called = [q \in Requests |-> CallOf(q)]
  BY DEF Called, CallOf
<1>2. Called' = [q \in Requests |-> CallOf(q)']
  BY DEF Called, CallOf
<1>3. \A q \in Requests : CallOf(q)' = IF q = r THEN new ELSE CallOf(q)
  BY DEF CallOf
<1> HIDE DEF new
<1>4. Called' = [Called EXCEPT ![r] = new]
  BY <1>1, <1>2, <1>3
<1> QED
  BY <1>1, <1>4 DEF new

LEMMA CallGoes ==
  ASSUME TypeOK, NEW r \in Requests, NEW pc, NEW result,
         \A q \in Requests \ {r} : req'[q] = req[q],
         req'[r].pc = pc, req'[r].stmt = req[r].stmt, req'[r].result = result
  PROVE  Service!Goes(r, pc, result)
<1> DEFINE CallType == [pc: {"idle", "called", "replied", "done", "failed"},
                        stmt: Statements \cup {NoStatement},
                        result: Row \cup {NoValue, Ack, Failure}]
<1>1. \A q \in Requests : CallOf(q) \in CallType
  <2>1. req \in [Requests -> ReqType]
    BY DEF TypeOK, ReqType
  <2> QED
    BY <2>1 DEF CallOf, ReqType
<1>2. Called \in [Requests -> CallType]
  BY <1>1 DEF Called, CallOf
<1>3. Called' = [Called EXCEPT ![r] = [pc |-> pc, stmt |-> Called[r].stmt,
                                       result |-> result]]
  <2>1. Called' = [Called EXCEPT ![r] = CallOf(r)'] /\ Called[r] = CallOf(r)
    BY OneCallMoves
  <2>2. CallOf(r)' = [pc |-> pc, stmt |-> Called[r].stmt, result |-> result]
    BY <2>1 DEF CallOf
  <2> QED
    BY <2>1, <2>2
<1>4. Called' = [Called EXCEPT ![r].pc = pc, ![r].result = result]
  BY <1>2, <1>3
<1> QED
  BY <1>4 DEF Service!Goes

LEMMA GivenAfterStep ==
  ASSUME NEW r \in Requests, \A q \in Requests \ {r} : req'[q] = req[q], ~GivesAgain(r)
  PROVE  Given' = IF GivesAgain(r)' THEN Given \cup {SettledAnswer(r)'} ELSE Given
<1>1. Given = {SettledAnswer(q) : q \in {p \in Requests : GivesAgain(p)}}
  BY DEF Given, GivesAgain
<1>2. Given' = {SettledAnswer(q)' : q \in {p \in Requests : GivesAgain(p)'}}
  BY DEF Given, GivesAgain
<1>3. \A q \in Requests \ {r} : /\ SettledAnswer(q)' = SettledAnswer(q)
                                /\ GivesAgain(q)' <=> GivesAgain(q)
  BY DEF SettledAnswer, GivesAgain
<1> QED
  BY <1>1, <1>2, <1>3

\* Before a request is asked nothing of it may be given again.
LEMMA StartIsServiceStart ==
  ASSUME TypeOK, NEW r \in Requests, NEW s \in Statements, NEW pc \in {"called", "done", "failed"},
         NEW via \in {"none", "cache", "backend"},
         NEW result \in Row \cup {NoValue, Ack, Failure}, NEW base \in 0..MaxVersion,
         req[r].pc = "idle", Become(r, pc, s, via, result, base),
         ~(pc = "done" /\ via = "backend")
  PROVE  Service!Starts(r, s, pc, result) /\ Given' = Given
<1>1. /\ req'[r] = [pc |-> pc, stmt |-> s, via |-> via, result |-> result,
                    finished |-> now, base |-> base]
      /\ \A q \in Requests \ {r} : req'[q] = req[q]
  BY BecomeProperties
<1>2. CallOf(r)' = [pc |-> pc, stmt |-> s, result |-> result] /\ CallOf(r).pc = "idle"
  BY <1>1 DEF CallOf
<1>3. Service!Starts(r, s, pc, result)
  BY <1>1, <1>2, OneCallMoves DEF Service!Starts
<1>4. ~GivesAgain(r) /\ ~GivesAgain(r)'
  BY <1>1 DEF GivesAgain
<1> QED
  BY <1>1, <1>3, <1>4, GivenAfterStep

LEMMA CurrentVersion ==
  ASSUME TypeOK, NEW s \in Statements, Valid(s)
  PROVE  Current(s) \in 0..MaxVersion
BY StatementProperties DEF TypeOK, Current

(* An answer from the cache: the entry was filled by a read that may be    *)
(* given again, equal keys are equal questions, and the entry's expiry is  *)
(* the moment until which that read's answer is good.                      *)
LEMMA CacheAnswersAgain ==
  ASSUME IInv, NEW r \in Requests, NEW s \in Statements, AnswerFromCache(r, s)
  PROVE  Service!AnswerAgain(r, s)
<1>1. /\ Become(r, "done", s, "cache", Lookup(Key(s)), Current(s))
      /\ UNCHANGED <<now, store>>
      /\ Valid(s) /\ Cacheable(s)
      /\ req[r].pc = "idle"
      /\ Key(s) \in DOMAIN entry
      /\ now <= entry[Key(s)].expiry
      /\ Lookup(Key(s)) = entry[Key(s)].value
  BY DEF AnswerFromCache, GetHit, Live, Lookup
<1>2. PICK q \in Requests : FilledBy(Key(s), q)
  BY <1>1 DEF IInv, EntriesFromReads
<1>3. RequestOK(q) /\ OwnRead(q) /\ req[q].stmt \in Statements
  BY <1>2 DEF IInv, RequestOK, FilledBy
<1>4. /\ req[q].stmt.sql = s.sql
      /\ Store(req[q].stmt) = Store(s)
      /\ TtlOf(req[q].stmt) = TtlOf(s)
      /\ req[q].stmt.options = s.options
  BY <1>2, <1>3, KeyDetermines DEF FilledBy, Key
<1>5. Cacheable(req[q].stmt)
  BY <1>1, <1>2, <1>4 DEF FilledBy, Cacheable
<1> DEFINE a == SettledAnswer(q)
<1>6. a \in Given
  BY <1>2, <1>5 DEF Given, FilledBy
<1>7. /\ a.question = Service!Question(s)
      /\ now <= a.until
      /\ a.result = Lookup(Key(s))
  BY <1>1, <1>2, <1>4 DEF SettledAnswer, Service!Question, FilledBy
<1>8. Lookup(Key(s)) \in Row
  BY <1>1, <1>2, <1>3 DEF FilledBy, OwnRead
<1>9. Service!Starts(r, s, "done", Lookup(Key(s))) /\ Given' = Given
  BY <1>1, <1>8, CurrentVersion, StartIsServiceStart DEF IInv
<1> HIDE DEF a
<1> QED
  BY <1>1, <1>6, <1>7, <1>9 DEF Service!AnswerAgain

LEMMA CallIsAsked ==
  ASSUME IInv, NEW r \in Requests, NEW s \in Statements, CallAdapter(r, s)
  PROVE  Service!Ask(r, s)
<1>1. Service!Starts(r, s, "called", NoValue) /\ Given' = Given
  BY CurrentVersion, StartIsServiceStart DEF IInv, CallAdapter
<1> QED
  BY <1>1 DEF CallAdapter, Service!Ask

LEMMA RefusalIsRefusal ==
  ASSUME IInv, NEW r \in Requests, NEW s \in Statements, Reject(r, s) \/ AdapterThrows(r, s)
  PROVE  Service!Refuse(r, s)
<1>1. CASE Reject(r, s)
  <2>1. 0 \in 0..MaxVersion
    BY VersionAssumption
  <2>2. Service!Starts(r, s, "failed", Failure) /\ Given' = Given
    BY <1>1, <2>1, StartIsServiceStart DEF IInv, Reject
  <2> QED
    BY <1>1, <2>2 DEF Reject, Service!Refuse
<1>2. CASE AdapterThrows(r, s)
  <2>1. Service!Starts(r, s, "failed", Failure) /\ Given' = Given
    BY <1>2, CurrentVersion, StartIsServiceStart DEF IInv, AdapterThrows
  <2> QED
    BY <1>2, <2>1 DEF AdapterThrows, Service!Refuse
<1> QED
  BY <1>1, <1>2

LEMMA ReplyIsEffect ==
  ASSUME IInv, NEW r \in Requests, BackendReply(r)
  PROVE  Service!Effect(r)
<1> DEFINE s == req[r].stmt
<1>1. /\ req[r].pc = "called" /\ TypeOK
      /\ UNCHANGED now
  BY DEF IInv, BackendReply, BackendReads, BackendWrites, BackendFails
<1>2. s \in Statements /\ Valid(s)
  BY <1>1 DEF IInv, RequestOK
<1>3. ASSUME NEW result \in Row \cup {NoValue, Ack, Failure}, Reply(r, result)
      PROVE  Service!Goes(r, "replied", result) /\ Given' = Given
  <2>1. /\ req'[r] = [req[r] EXCEPT !.pc = "replied", !.result = result]
        /\ \A q \in Requests \ {r} : req'[q] = req[q]
    BY <1>1, <1>3, ReplyProperties
  <2>2. req[r] \in ReqType
    BY <1>1 DEF TypeOK, ReqType
  <2>3. req'[r].pc = "replied" /\ req'[r].stmt = s /\ req'[r].result = result
    BY <2>1, <2>2 DEF ReqType
  <2>4. Service!Goes(r, "replied", result)
    BY <1>1, <2>1, <2>3, CallGoes
  <2>5. ~GivesAgain(r) /\ ~GivesAgain(r)'
    BY <1>1, <2>3 DEF GivesAgain
  <2> QED
    BY <2>1, <2>4, <2>5, GivenAfterStep
<1>4. /\ Called[r].pc = "called" /\ Called[r].stmt = s
  BY <1>1 DEF Called
<1>5. CASE BackendReads(r)
  <2>1. [store |-> Store(s), sql |-> s.sql, version |-> store[Store(s)]] \in Row
    BY <1>1, <1>2, StatementProperties DEF TypeOK, Row
  <2> QED
    BY <1>1, <1>3, <1>4, <1>5, <2>1 DEF BackendReads, Current, Service!Effect
<1>6. CASE BackendWrites(r)
  BY <1>1, <1>3, <1>4, <1>6 DEF BackendWrites, Write, Current, Service!Effect, Service!Written
<1>7. CASE BackendFails(r)
  BY <1>1, <1>3, <1>4, <1>7 DEF BackendFails, Write, Current, Service!Effect, Service!Written
<1> QED
  BY <1>5, <1>6, <1>7 DEF BackendReply

(* The caller is told what the backend answered, and it is then, and from  *)
(* then on, that the answer may be given again.                            *)
LEMMA ResumeIsTold ==
  ASSUME IInv, NEW r \in Requests, Resume(r)
  PROVE  Service!Tell(r)
<1> DEFINE s == req[r].stmt
           pc == IF req[r].result = Failure THEN "failed" ELSE "done"
<1>1. /\ req[r].pc = "replied" /\ TypeOK
      /\ Settle(r, pc)
      /\ UNCHANGED <<now, store>>
  BY DEF IInv, Resume, ResumeWithResult, ResumeWithError
<1>2. s \in Statements /\ req[r].via = "backend" /\ req[r] \in ReqType
  BY <1>1 DEF IInv, RequestOK, TypeOK, ReqType
<1>3. /\ req'[r] = [req[r] EXCEPT !.pc = pc, !.finished = now]
      /\ \A q \in Requests \ {r} : req'[q] = req[q]
  BY <1>1, SettleProperties
<1>4. /\ req'[r].pc = pc /\ req'[r].stmt = s /\ req'[r].via = "backend"
      /\ req'[r].result = req[r].result /\ req'[r].finished = now
  BY <1>2, <1>3 DEF ReqType
<1>5. /\ Called[r].pc = "replied" /\ Called[r].stmt = s /\ Called[r].result = req[r].result
  BY <1>1 DEF Called
<1>6. Service!Goes(r, pc, req[r].result)
  <2> HIDE DEF pc
  <2> QED
    BY <1>1, <1>3, <1>4, CallGoes
<1>7. /\ ~GivesAgain(r)
      /\ GivesAgain(r)' <=> req[r].result # Failure /\ Cacheable(s)
  BY <1>1, <1>4 DEF GivesAgain
<1>8. SettledAnswer(r)' = [question |-> Service!Question(s), result |-> req[r].result,
                           until |-> Expiry(now, TtlOf(s))]
  BY <1>4 DEF SettledAnswer, Service!Question
<1>9. Given' = IF req[r].result # Failure /\ Cacheable(s)
                THEN Given \cup {[question |-> Service!Question(s), result |-> req[r].result,
                                  until |-> Expiry(now, TtlOf(s))]}
                ELSE Given
  BY <1>3, <1>7, <1>8, GivenAfterStep
<1>10. CASE req[r].result = Failure
  BY <1>1, <1>5, <1>6, <1>9, <1>10 DEF Service!Tell
<1>11. CASE req[r].result # Failure
  BY <1>1, <1>5, <1>6, <1>9, <1>11 DEF Service!Tell
<1> QED
  BY <1>10, <1>11

LEMMA StepIsServiceStep ==
  IInv /\ [Next]_vars => [Service!ServiceNext]_(Service!serviceVars)
<1> SUFFICES ASSUME IInv, [Next]_vars
             PROVE  Service!ServiceNext \/ UNCHANGED <<now, store, Called, Given>>
  BY DEF Service!serviceVars
<1>1. CASE \E r \in Requests, s \in Statements :
              \/ Reject(r, s)
              \/ AnswerFromCache(r, s)
              \/ CallAdapter(r, s)
              \/ AdapterThrows(r, s)
  BY <1>1, CacheAnswersAgain, CallIsAsked, RefusalIsRefusal DEF Service!ServiceNext
<1>2. CASE \E r \in Requests : BackendReply(r)
  BY <1>2, ReplyIsEffect DEF Service!ServiceNext
<1>3. CASE \E r \in Requests : Resume(r)
  BY <1>3, ResumeIsTold DEF Service!ServiceNext
<1>4. CASE TimePasses
  <2>1. Called' = Called /\ Given' = Given
    BY <1>4 DEF TimePasses, Called, Given, SettledAnswer
  <2>2. Service!TimePasses
    BY <1>4, <2>1 DEF TimePasses, Tick, Service!TimePasses
  <2> QED
    BY <2>2 DEF Service!ServiceNext
<1>5. CASE UNCHANGED vars
  BY <1>5 DEF vars, Called, Given, SettledAnswer
<1> QED
  BY <1>1, <1>2, <1>3, <1>4, <1>5 DEF Next

(* What callers see of execute() is what a service without a cache would   *)
(* show them that may give an answer again for a while (ImplementsService):*)
(* one effect at most, before the caller is told; an outcome that never    *)
(* changes; an answer given again only to the same question.               *)
THEOREM InterpreterImplementsService == Spec => ImplementsService
<1>1. Init => Service!ServiceInit
  <2> SUFFICES ASSUME Init PROVE Service!ServiceInit
    OBVIOUS
  <2>1. Called = [r \in Requests |-> Service!Uncalled]
    BY DEF Init, Called, Unmade, Service!Uncalled
  <2>2. Given = {}
    BY DEF Init, Given, Unmade
  <2> QED
    BY <2>1, <2>2 DEF Init, CacheInit, Service!ServiceInit
<1> QED
  BY <1>1, StepIsServiceStep, SpecInv, PTL DEF Spec, ImplementsService, Service!ServiceSpec

----------------------------------------------------------------------------
(* Composition: the interpreter uses its cache as the cache's own callers  *)
(* may, so that what LossyMemo promises of a cache that is called in any   *)
(* order holds of the cache inside the interpreter.                        *)

LEMMA MissIsMemoStep ==
  ASSUME IInv, NEW s \in Statements, CacheMissed(s), UNCHANGED now
  PROVE  Memo!MemoNext \/ UNCHANGED <<now, entry>>
<1>1. CASE ~Cacheable(s)
  BY <1>1 DEF CacheMissed
<1>2. CASE Cacheable(s)
  <2>1. Key(s) \in Keys /\ Get(Key(s))
    BY <1>2, StatementProperties DEF CacheMissed, Get
  <2> QED
    BY <2>1, GetIsMemoStep DEF IInv, TypeOK, CacheInv
<1> QED
  BY <1>1, <1>2

LEMMA ResumeIsMemoStep ==
  ASSUME IInv, NEW r \in Requests, Resume(r)
  PROVE  Memo!MemoNext \/ UNCHANGED <<now, entry>>
<1> DEFINE s == req[r].stmt
<1>1. req[r].pc = "replied" /\ UNCHANGED now /\ CacheInv
  BY DEF IInv, TypeOK, CacheInv, Resume, ResumeWithResult, ResumeWithError
<1>2. CASE ResumeWithResult(r) /\ Cacheable(s)
  <2>1. Set(Key(s), req[r].result, TtlOf(s)) /\ req[r].result # Failure /\ IsSelect(s)
    BY <1>2 DEF ResumeWithResult, Cacheable
  <2>2. s \in Statements /\ req[r].result \in Row
    BY <1>1, <2>1 DEF IInv, RequestOK, OwnRead
  <2>3. Key(s) \in Keys /\ TtlOf(s) \in Ttls /\ req[r].result \in Values
    BY <2>2, CacheUseAssumption
  <2>4. Memo!Remember(Key(s), req[r].result, TtlOf(s))
    BY <1>1, <2>1, <2>3, SetRemembers
  <2> QED
    BY <2>3, <2>4 DEF Memo!MemoNext
<1>3. CASE ~(ResumeWithResult(r) /\ Cacheable(s))
  BY <1>1, <1>3 DEF Resume, ResumeWithResult, ResumeWithError
<1> QED
  BY <1>2, <1>3

(* The cache inside the interpreter, filled and looked up by concurrent    *)
(* requests, forgets only what a LossyMemo may (ImplementsMemo, which the  *)
(* cache by itself satisfies under any caller).                            *)
THEOREM InterpreterUsesMemo == Spec => ImplementsMemo
<1>1. Init => Memo!MemoInit
  BY DEF Init, CacheInit, Memo!MemoInit
<1>2. IInv /\ [Next]_vars => [Memo!MemoNext]_(Memo!memoVars)
  <2> SUFFICES ASSUME IInv, [Next]_vars
               PROVE  Memo!MemoNext \/ UNCHANGED <<now, entry>>
    BY DEF Memo!memoVars
  <2>1. CASE \E r \in Requests, s \in Statements :
                \/ Reject(r, s)
                \/ AnswerFromCache(r, s)
                \/ CallAdapter(r, s)
                \/ AdapterThrows(r, s)
    BY <2>1, MissIsMemoStep
    DEF Reject, AnswerFromCache, GetHit, CallAdapter, AdapterThrows
  <2>2. CASE \E r \in Requests : BackendReply(r)
    BY <2>2 DEF BackendReply, BackendReads, BackendWrites, BackendFails
  <2>3. CASE \E r \in Requests : Resume(r)
    BY <2>3, ResumeIsMemoStep
  <2>4. CASE TimePasses
    BY <2>4 DEF TimePasses, Tick, mapVars, Memo!MemoNext, Memo!TimePasses
  <2>5. CASE UNCHANGED vars
    BY <2>5 DEF vars
  <2> QED
    BY <2>1, <2>2, <2>3, <2>4, <2>5 DEF Next
<1> QED
  BY <1>1, <1>2, SpecInv, PTL DEF Spec, ImplementsMemo, Memo!MemoSpec

----------------------------------------------------------------------------
(* Which statements reach a backend at all.                                *)

(* An adapter that takes a call takes it with the type, the table and the  *)
(* columns that the client's statement has.                                *)
LEMMA AcceptedIsArrivable ==
  ASSUME NEW s \in Statements, Valid(s), Accepted(s)
  PROVE  Arrivable(s)
<1> DEFINE a == Parse[s.sql]
<1>1. a \in Ast
  BY StatementProperties, ParseAssumption DEF Valid
<1>2. Call(s).type \in Dml
  BY DEF Accepted, AdapterAccepts, Operations, Dml
<1>3. Call(s) = Components(s)
  <2>1. Call(s).type = Components(s).type
    BY DEF Call, CallFor
  <2> QED
    BY <1>2, <2>1 DEF Call, CallFor, Dml
<1>4. Components(s).type = ExtractType(a)
  BY DEF Components, ExtractSQLComponents
<1>5. ExtractType(a) = a.type /\ a.type \in Dml
  BY <1>2, <1>3, <1>4 DEF ExtractType, Dml
<1>6. a.table = TRUE
  <2>1. Components(s).table
    BY <1>2, <1>3 DEF Valid, ValidSQLComponents, DmlTypes, Dml
  <2> QED
    BY <1>1, <2>1 DEF Components, ExtractSQLComponents, Ast
<1>7. Components(s).fields = List(a.columns)
  BY <1>5 DEF Components, ExtractSQLComponents, Dml
<1> QED
  BY <1>3, <1>4, <1>5, <1>6, <1>7 DEF Arrivable

CallsAreAccepted ==
    \A r \in Requests : req[r].via = "backend" =>
       req[r].stmt \in Statements /\ Valid(req[r].stmt) /\ Accepted(req[r].stmt)

LEMMA CallsStayAccepted == IInv /\ CallsAreAccepted /\ [Next]_vars => CallsAreAccepted'
<1> SUFFICES ASSUME IInv, CallsAreAccepted, [Next]_vars, NEW q \in Requests,
                    req'[q].via = "backend"
             PROVE  /\ req'[q].stmt \in Statements
                    /\ Valid(req'[q].stmt)
                    /\ Accepted(req'[q].stmt)
  BY DEF CallsAreAccepted
<1>1. req \in [Requests -> ReqType]
  BY DEF IInv, TypeOK, ReqType
<1> DEFINE Same == req'[q].via = req[q].via /\ req'[q].stmt = req[q].stmt
<1>2. ASSUME NEW r \in Requests, NEW s \in Statements, NEW pc, NEW via, NEW result, NEW base,
             Become(r, pc, s, via, result, base), via # "backend" \/ q # r
      PROVE  Same
  BY <1>1, <1>2 DEF Become
<1>3. ASSUME NEW r \in Requests, NEW s \in Statements, CallAdapter(r, s)
      PROVE  \/ Same
             \/ /\ req'[q].stmt \in Statements
                /\ Valid(req'[q].stmt)
                /\ Accepted(req'[q].stmt)
  <2>1. Same \/ req'[q].stmt = s
    BY <1>1, <1>3 DEF CallAdapter, Become
  <2>2. Valid(s) /\ Accepted(s)
    BY <1>3 DEF CallAdapter
  <2> QED
    BY <2>1, <2>2
<1>4. ASSUME NEW r \in Requests, BackendReply(r) \/ Resume(r)
      PROVE  Same
  <2>1. ASSUME NEW result, Reply(r, result) PROVE Same
    BY <1>1, <2>1 DEF Reply, ReqType
  <2>2. ASSUME NEW pc, Settle(r, pc) PROVE Same
    BY <1>1, <2>2 DEF Settle, ReqType
  <2> QED
    BY <1>4, <2>1, <2>2 DEF BackendReply, BackendReads, BackendWrites, BackendFails, Resume,
                            ResumeWithResult, ResumeWithError
<1>5. CASE Same
  BY <1>5 DEF CallsAreAccepted
<1>6. CASE TimePasses \/ UNCHANGED vars
  BY <1>5, <1>6 DEF TimePasses, vars
<1>7. ASSUME NEW r \in Requests, NEW s \in Statements,
             Reject(r, s) \/ AnswerFromCache(r, s) \/ AdapterThrows(r, s)
      PROVE  Same
  BY <1>2, <1>7 DEF Reject, AnswerFromCache, AdapterThrows
<1> QED
  BY <1>3, <1>4, <1>5, <1>6, <1>7 DEF Next

(* DDL, DCL and TCL statements are parsed, validated and dispatched, and   *)
(* never get to a backend, whatever the adapter: what gets there is DML    *)
(* with a table, of the type and with the columns the client wrote         *)
(* (OnlyDmlArrives; sqlInterpreter.js:38-264, 366-422 and the switches of  *)
(* the adapters).                                                          *)
THEOREM WhatReachesABackend == Spec => []OnlyDmlArrives
<1>1. Init => CallsAreAccepted
  BY DEF Init, Unmade, CallsAreAccepted
<1>2. CallsAreAccepted => OnlyDmlArrives
  BY AcceptedIsArrivable DEF CallsAreAccepted, OnlyDmlArrives
<1> QED
  BY <1>1, <1>2, CallsStayAccepted, SpecInv, PTL DEF Spec

----------------------------------------------------------------------------
(* Writes are counted: a write moves its store on and its request into the *)
(* sets counted in one step.                                               *)

Tried(r, b) ==
    /\ req[r].via = "backend"
    /\ req[r].pc \in {"replied", "done", "failed"}
    /\ ~IsSelect(req[r].stmt)
    /\ Store(req[r].stmt) = b

Acked(r, b) == Tried(r, b) /\ req[r].result = Ack

WriteInv ==
    \A b \in Stores :
       /\ IsFiniteSet(Attempted(b)) /\ IsFiniteSet(Acknowledged(b))
       /\ Cardinality(Acknowledged(b)) <= store[b]
       /\ store[b] <= Cardinality(Attempted(b))

LEMMA CountedSets ==
  \A b : /\ Attempted(b) = {r \in Requests : Tried(r, b)}
         /\ Acknowledged(b) = {r \in Requests : Acked(r, b)}
         /\ Attempted(b)' = {r \in Requests : Tried(r, b)'}
         /\ Acknowledged(b)' = {r \in Requests : Acked(r, b)'}
BY DEF Attempted, Acknowledged, Tried, Acked

LEMMA NothingIsWritten ==
  ASSUME WriteInv, store' = store,
         \A q \in Requests, b \in Stores : /\ Tried(q, b)' <=> Tried(q, b)
                                           /\ Acked(q, b)' <=> Acked(q, b)
  PROVE  WriteInv'
<1>1. \A b \in Stores : Attempted(b)' = Attempted(b) /\ Acknowledged(b)' = Acknowledged(b)
  BY CountedSets
<1> QED
  BY <1>1 DEF WriteInv

(* A call of store d has come back: it was a write that had its effect, or *)
(* one that failed and had it or not.                                      *)
LEMMA OneMayBeWritten ==
  ASSUME WriteInv, TypeOK, TypeOK', NEW r \in Requests, NEW d \in Stores,
         \A q \in Requests \ {r} : req'[q] = req[q],
         \A b \in Stores : ~Tried(r, b),
         \A b \in Stores : Tried(r, b)' <=> b = d,
         \A b \in Stores \ {d} : store'[b] = store[b],
         store'[d] = store[d] + 1 \/ (store'[d] = store[d] /\ ~Acked(r, d)')
  PROVE  WriteInv'
<1> SUFFICES ASSUME NEW b \in Stores
             PROVE  /\ IsFiniteSet(Attempted(b)') /\ IsFiniteSet(Acknowledged(b)')
                    /\ Cardinality(Acknowledged(b)') <= store'[b]
                    /\ store'[b] <= Cardinality(Attempted(b)')
  BY DEF WriteInv
<1>1. /\ IsFiniteSet(Attempted(b)) /\ IsFiniteSet(Acknowledged(b))
      /\ Cardinality(Acknowledged(b)) <= store[b]
      /\ store[b] <= Cardinality(Attempted(b))
  BY DEF WriteInv
<1>2. store[b] \in Int /\ store'[b] \in Int
  BY VersionAssumption DEF TypeOK
<1>3. \A q \in Requests \ {r} : (Tried(q, b)' <=> Tried(q, b)) /\ (Acked(q, b)' <=> Acked(q, b))
  BY DEF Tried, Acked
<1>4. r \notin Attempted(b) /\ r \notin Acknowledged(b)
  BY CountedSets DEF Acked
<1>5. CASE b # d
  <2>1. ~Tried(r, b)' /\ ~Acked(r, b)'
    BY <1>5 DEF Acked
  <2>2. ~Tried(r, b) /\ ~Acked(r, b)
    BY DEF Acked
  <2>3. Attempted(b)' = Attempted(b) /\ Acknowledged(b)' = Acknowledged(b)
    BY <1>3, <2>1, <2>2, CountedSets
  <2> QED
    BY <1>1, <1>5, <2>3
<1>6. CASE b = d
  <2>1. Attempted(b)' = Attempted(b) \cup {r}
    BY <1>3, <1>6, CountedSets
  <2>2. Acknowledged(b)' = IF Acked(r, b)' THEN Acknowledged(b) \cup {r} ELSE Acknowledged(b)
    BY <1>3, <1>4, CountedSets
  <2>3. /\ IsFiniteSet(Attempted(b)')
        /\ Cardinality(Attempted(b)') = Cardinality(Attempted(b)) + 1
        /\ Cardinality(Attempted(b)) \in Nat
    BY <1>1, <1>4, <2>1, FS_AddElement, FS_CardinalityType
  <2>4. /\ IsFiniteSet(Acknowledged(b)')
        /\ Cardinality(Acknowledged(b)')
              = Cardinality(Acknowledged(b)) + (IF Acked(r, b)' THEN 1 ELSE 0)
        /\ Cardinality(Acknowledged(b)) \in Nat
    <3>1. Cardinality(Acknowledged(b)) \in Nat
      BY <1>1, FS_CardinalityType
    <3>2. CASE Acked(r, b)'
      BY <1>1, <1>4, <2>2, <3>1, <3>2, FS_AddElement
    <3>3. CASE ~Acked(r, b)'
      BY <1>1, <2>2, <3>1, <3>3
    <3> QED
      BY <3>1, <3>2, <3>3
  <2>5. Cardinality(Acknowledged(b)') <= store'[b]
    <3>1. CASE Acked(r, b)'
      <4>1. store'[b] = store[b] + 1
        BY <1>6, <3>1
      <4> QED
        BY <1>1, <1>2, <2>4, <3>1, <4>1
    <3>2. CASE ~Acked(r, b)'
      <4>1. store'[b] = store[b] + 1 \/ store'[b] = store[b]
        BY <1>6
      <4>2. Cardinality(Acknowledged(b)') = Cardinality(Acknowledged(b))
        BY <2>4, <3>2
      <4> QED
        BY <1>1, <1>2, <2>4, <4>1, <4>2
    <3> QED
      BY <3>1, <3>2
  <2>6. store'[b] <= Cardinality(Attempted(b)')
    <3>1. store'[b] = store[b] + 1 \/ store'[b] = store[b]
      BY <1>6
    <3> QED
      BY <1>1, <1>2, <2>3, <3>1
  <2> QED
    BY <2>3, <2>4, <2>5, <2>6
<1> QED
  BY <1>5, <1>6

LEMMA ReplyKeepsWriteInv ==
  ASSUME IInv, IInv', WriteInv, NEW r \in Requests, BackendReply(r)
  PROVE  WriteInv'
<1> DEFINE s == req[r].stmt
<1>1. req[r].pc = "called" /\ TypeOK /\ TypeOK'
  BY DEF IInv, BackendReply, BackendReads, BackendWrites, BackendFails
<1>2. s \in Statements /\ Valid(s) /\ Store(s) \in Stores /\ req[r].via = "backend"
  BY <1>1, StatementProperties DEF IInv, RequestOK
<1>3. PICK result \in Row \cup {NoValue, Ack, Failure} :
         /\ Reply(r, result)
         /\ \/ IsSelect(s) /\ UNCHANGED store
            \/ ~IsSelect(s) /\ Write(s)
            \/ ~IsSelect(s) /\ UNCHANGED store /\ result = Failure
  <2>1. CASE BackendReads(r)
    <3>1. [store |-> Store(s), sql |-> s.sql, version |-> store[Store(s)]] \in Row
      BY <1>1, <1>2, StatementProperties DEF TypeOK, Row
    <3> QED
      BY <2>1, <3>1 DEF BackendReads, Current
  <2>2. CASE BackendWrites(r)
    BY <2>2 DEF BackendWrites
  <2>3. CASE BackendFails(r)
    BY <2>3 DEF BackendFails
  <2> QED
    BY <2>1, <2>2, <2>3 DEF BackendReply
<1>4. /\ req'[r] = [req[r] EXCEPT !.pc = "replied", !.result = result]
      /\ \A q \in Requests \ {r} : req'[q] = req[q]
  BY <1>1, <1>3, ReplyProperties
<1>5. /\ req'[r].pc = "replied" /\ req'[r].stmt = s /\ req'[r].via = "backend"
      /\ req'[r].result = result
  <2>1. req[r] \in ReqType
    BY <1>1 DEF TypeOK, ReqType
  <2> QED
    BY <1>2, <1>4, <2>1 DEF ReqType
<1>6. \A b \in Stores : ~Tried(r, b) /\ ~Acked(r, b)
  BY <1>1 DEF Tried, Acked
<1>7. CASE IsSelect(s)
  <2>1. \A b \in Stores : ~Tried(r, b)' /\ ~Acked(r, b)'
    BY <1>5, <1>7 DEF Tried, Acked
  <2>2. \A q \in Requests, b \in Stores : /\ Tried(q, b)' <=> Tried(q, b)
                                          /\ Acked(q, b)' <=> Acked(q, b)
    <3> SUFFICES ASSUME NEW q \in Requests, NEW b \in Stores
                 PROVE  (Tried(q, b)' <=> Tried(q, b)) /\ (Acked(q, b)' <=> Acked(q, b))
      OBVIOUS
    <3>1. CASE q = r
      BY <1>6, <2>1, <3>1
    <3>2. CASE q # r
      BY <1>4, <3>2 DEF Tried, Acked
    <3> QED
      BY <3>1, <3>2
  <2> QED
    BY <1>3, <1>7, <2>2, NothingIsWritten
<1>8. CASE ~IsSelect(s)
  <2>1. \A b \in Stores : Tried(r, b)' <=> b = Store(s)
    BY <1>5, <1>8 DEF Tried
  <2>2. CASE Write(s)
    <3>1. store' = [store EXCEPT ![Store(s)] = store[Store(s)] + 1]
      BY <2>2 DEF Write
    <3>2. /\ store'[Store(s)] = store[Store(s)] + 1
          /\ \A b \in Stores \ {Store(s)} : store'[b] = store[b]
      BY <1>1, <1>2, <3>1 DEF TypeOK
    <3> QED
      BY <1>1, <1>2, <1>4, <1>6, <2>1, <3>2, OneMayBeWritten
  <2>3. CASE UNCHANGED store /\ result = Failure
    <3>1. ~Acked(r, Store(s))'
      BY <1>5, <2>3, OutcomeAssumption DEF Acked
    <3> QED
      BY <1>1, <1>2, <1>4, <1>6, <2>1, <2>3, <3>1, OneMayBeWritten
  <2> QED
    BY <1>3, <1>8, <2>2, <2>3
<1> QED
  BY <1>7, <1>8

LEMMA StartKeepsWriteInv ==
  ASSUME IInv, WriteInv, NEW r \in Requests, NEW s \in Statements,
         Reject(r, s) \/ AnswerFromCache(r, s) \/ CallAdapter(r, s) \/ AdapterThrows(r, s)
  PROVE  WriteInv'
<1>1. req \in [Requests -> ReqType] /\ req[r].pc = "idle" /\ UNCHANGED store
  BY DEF IInv, TypeOK, ReqType, Reject, AnswerFromCache, CallAdapter, AdapterThrows
<1>2. /\ \A q \in Requests \ {r} : req'[q] = req[q]
      /\ req'[r].pc = "called" \/ req'[r].via # "backend"
  BY <1>1 DEF Reject, AnswerFromCache, CallAdapter, AdapterThrows, Become
<1>3. \A b \in Stores : ~Tried(r, b) /\ ~Acked(r, b) /\ ~Tried(r, b)' /\ ~Acked(r, b)'
  BY <1>1, <1>2 DEF Tried, Acked
<1>4. \A q \in Requests, b \in Stores : /\ Tried(q, b)' <=> Tried(q, b)
                                        /\ Acked(q, b)' <=> Acked(q, b)
  <2> SUFFICES ASSUME NEW q \in Requests, NEW b \in Stores
               PROVE  (Tried(q, b)' <=> Tried(q, b)) /\ (Acked(q, b)' <=> Acked(q, b))
    OBVIOUS
  <2>1. CASE q = r
    BY <1>3, <2>1
  <2>2. CASE q # r
    BY <1>2, <2>2 DEF Tried, Acked
  <2> QED
    BY <2>1, <2>2
<1> QED
  BY <1>1, <1>4, NothingIsWritten

LEMMA ResumeKeepsWriteInv ==
  ASSUME IInv, WriteInv, NEW r \in Requests, Resume(r)
  PROVE  WriteInv'
<1>1. TypeOK /\ req[r].pc = "replied" /\ UNCHANGED store
  BY DEF IInv, Resume, ResumeWithResult, ResumeWithError
<1>2. PICK pc \in {"done", "failed"} : Settle(r, pc)
  BY DEF Resume, ResumeWithResult, ResumeWithError
<1>3. /\ req'[r] = [req[r] EXCEPT !.pc = pc, !.finished = now]
      /\ \A q \in Requests \ {r} : req'[q] = req[q]
  BY <1>1, <1>2, SettleProperties
<1>4. /\ req'[r].pc = pc /\ req'[r].stmt = req[r].stmt /\ req'[r].via = req[r].via
      /\ req'[r].result = req[r].result
  <2>1. req[r] \in ReqType
    BY <1>1 DEF TypeOK, ReqType
  <2> QED
    BY <1>3, <2>1 DEF ReqType
<1>5. \A q \in Requests, b \in Stores : /\ Tried(q, b)' <=> Tried(q, b)
                                        /\ Acked(q, b)' <=> Acked(q, b)
  <2> SUFFICES ASSUME NEW q \in Requests, NEW b \in Stores
               PROVE  (Tried(q, b)' <=> Tried(q, b)) /\ (Acked(q, b)' <=> Acked(q, b))
    OBVIOUS
  <2>1. CASE q = r
    BY <1>1, <1>4, <2>1 DEF Tried, Acked
  <2>2. CASE q # r
    BY <1>3, <2>2 DEF Tried, Acked
  <2> QED
    BY <2>1, <2>2
<1> QED
  BY <1>1, <1>5, NothingIsWritten

(* Every acknowledged write is in its store, and no write is there twice,  *)
(* for any number of requests, stores and failures (WritesHappenOnce).     *)
THEOREM WritesAreNotRepeated == Spec => []WritesHappenOnce
<1>1. Init => WriteInv
  <2> SUFFICES ASSUME Init, NEW b \in Stores
               PROVE  /\ IsFiniteSet(Attempted(b)) /\ IsFiniteSet(Acknowledged(b))
                      /\ Cardinality(Acknowledged(b)) <= store[b]
                      /\ store[b] <= Cardinality(Attempted(b))
    BY DEF WriteInv
  <2>1. Attempted(b) = {} /\ Acknowledged(b) = {}
    BY DEF Init, Unmade, Attempted, Acknowledged
  <2> QED
    BY <2>1, FS_EmptySet DEF Init
<1>2. IInv /\ IInv' /\ WriteInv /\ [Next]_vars => WriteInv'
  <2> SUFFICES ASSUME IInv, IInv', WriteInv, [Next]_vars PROVE WriteInv'
    OBVIOUS
  <2>1. CASE \E r \in Requests, s \in Statements :
                \/ Reject(r, s)
                \/ AnswerFromCache(r, s)
                \/ CallAdapter(r, s)
                \/ AdapterThrows(r, s)
    BY <2>1, StartKeepsWriteInv
  <2>2. CASE \E r \in Requests : BackendReply(r)
    BY <2>2, ReplyKeepsWriteInv
  <2>3. CASE \E r \in Requests : Resume(r)
    BY <2>3, ResumeKeepsWriteInv
  <2>4. CASE TimePasses \/ UNCHANGED vars
    <3>1. UNCHANGED <<req, store>>
      BY <2>4 DEF TimePasses, vars
    <3>2. \A q \in Requests, b \in Stores : /\ Tried(q, b)' <=> Tried(q, b)
                                            /\ Acked(q, b)' <=> Acked(q, b)
      BY <3>1 DEF Tried, Acked
    <3> QED
      BY <3>1, <3>2, NothingIsWritten
  <2> QED
    BY <2>1, <2>2, <2>3, <2>4 DEF Next
<1>3. WriteInv => WritesHappenOnce
  BY DEF WriteInv, WritesHappenOnce
<1> QED
  BY <1>1, <1>2, <1>3, SpecInv, PTL DEF Spec

----------------------------------------------------------------------------
(* Calls end. The fairness is FairSpec's with the state in which a request *)
(* can go on written out in place of ENABLED: an await whose promise is    *)
(* settled is resumed. It says nothing of the backends; BackendAnswers     *)
(* does.                                                                   *)
ResumeIsFair(r) == []<>(req[r].pc # "replied") \/ []<><<Resume(r)>>_vars

BackendAnswers(r) == req[r].pc = "called" ~> req[r].pc # "called"

(* "replied" is when a request can go on: the step that gives every        *)
(* variable the value it has after the await is one of Resume              *)
(* (sqlInterpreter.js:411-441).                                            *)
THEOREM RepliedCanResume ==
  ASSUME TypeOK, NEW r \in Requests, req[r].pc = "replied",
         IF req[r].result # Failure /\ Cacheable(req[r].stmt)
            THEN Set(Key(req[r].stmt), req[r].result, TtlOf(req[r].stmt))
            ELSE UNCHANGED <<order, entry, stats>>,
         Settle(r, IF req[r].result = Failure THEN "failed" ELSE "done"),
         UNCHANGED <<now, store>>
  PROVE  <<Resume(r)>>_vars
<1>1. Resume(r)
  BY DEF Resume, ResumeWithResult, ResumeWithError
<1>2. req'[r].pc # "replied"
  <2>1. PICK pc \in {"done", "failed"} : Settle(r, pc)
    OBVIOUS
  <2>2. req[r] \in ReqType /\ req'[r] = [req[r] EXCEPT !.pc = pc, !.finished = now]
    BY <2>1, SettleProperties DEF TypeOK, ReqType
  <2> QED
    BY <2>2 DEF ReqType
<1>3. req' # req
  BY <1>2
<1> QED
  BY <1>1, <1>3 DEF vars

\* A call under way goes from "called" to "replied" and from there to its end,
\* and stays there.
LEMMA CallGoesOn ==
  ASSUME TypeOK, NEW r \in Requests, [Next]_vars
  PROVE  /\ req[r].pc = "called" => req'[r].pc \in {"called", "replied"}
         /\ req[r].pc = "replied" => req'[r].pc \in {"replied", "done", "failed"}
         /\ req[r].pc \in {"done", "failed"} => req'[r].pc \in {"done", "failed"}
<1> DEFINE Goes == /\ req[r].pc = "called" => req'[r].pc \in {"called", "replied"}
                   /\ req[r].pc = "replied" => req'[r].pc \in {"replied", "done", "failed"}
                   /\ req[r].pc \in {"done", "failed"} => req'[r].pc \in {"done", "failed"}
<1>1. req \in [Requests -> ReqType]
  BY DEF TypeOK, ReqType
<1>2. ASSUME NEW q \in Requests, NEW s \in Statements,
             Reject(q, s) \/ AnswerFromCache(q, s) \/ CallAdapter(q, s) \/ AdapterThrows(q, s)
      PROVE  Goes
  BY <1>1, <1>2 DEF Reject, AnswerFromCache, CallAdapter, AdapterThrows, Become
<1>3. ASSUME NEW q \in Requests, BackendReply(q)
      PROVE  Goes
  <2>1. ASSUME req[q].pc = "called", NEW result, Reply(q, result) PROVE Goes
    BY <1>1, <2>1 DEF Reply, ReqType
  <2> QED
    BY <1>3, <2>1 DEF BackendReply, BackendReads, BackendWrites, BackendFails
<1>4. ASSUME NEW q \in Requests, Resume(q)
      PROVE  Goes
  <2>1. ASSUME req[q].pc = "replied", NEW pc \in {"done", "failed"}, Settle(q, pc) PROVE Goes
    BY <1>1, <2>1 DEF Settle, ReqType
  <2> QED
    BY <1>4, <2>1 DEF Resume, ResumeWithResult, ResumeWithError
<1>5. CASE TimePasses \/ UNCHANGED vars
  BY <1>5 DEF TimePasses, vars
<1> QED
  BY <1>2, <1>3, <1>4, <1>5 DEF Next

\* What Resume does to its own request.
LEMMA ResumeEnds ==
  ASSUME TypeOK, NEW r \in Requests, Resume(r)
  PROVE  req'[r].pc \in {"done", "failed"}
<1>1. PICK pc \in {"done", "failed"} : Settle(r, pc)
  BY DEF Resume, ResumeWithResult, ResumeWithError
<1>2. req[r] \in ReqType /\ req'[r] = [req[r] EXCEPT !.pc = pc, !.finished = now]
  BY <1>1, SettleProperties DEF TypeOK, ReqType
<1> QED
  BY <1>2 DEF ReqType

(* A backend that never answers is the only reason why a call never ends   *)
(* (the run no_timeout shows one): with backends that answer every call of *)
(* execute() that gets to an adapter returns or throws, however the calls  *)
(* of others and the cache interfere (EveryCallEnds;                       *)
(* sqlInterpreter.js:366-441).                                             *)
THEOREM CallsEndIfBackendsAnswer ==
  Spec /\ (\A r \in Requests : ResumeIsFair(r) /\ BackendAnswers(r)) => EveryCallEnds
<1>1. ASSUME NEW r \in Requests
      PROVE  Spec /\ ResumeIsFair(r) /\ BackendAnswers(r)
                => (req[r].pc = "called" ~> req[r].pc \in {"done", "failed"})
  <2> DEFINE C == req[r].pc = "called"
             R == req[r].pc = "replied"
             E == req[r].pc \in {"done", "failed"}
  <2>1. TypeOK /\ [Next]_vars => (C => C' \/ R') /\ (R => R' \/ E')
    BY CallGoesOn
  <2>2. TypeOK /\ <<Resume(r)>>_vars => E'
    BY ResumeEnds
  <2>3. /\ C <=> req[r].pc = "called"
        /\ ~C <=> req[r].pc # "called"
        /\ ~R <=> req[r].pc # "replied"
    OBVIOUS
  <2> HIDE DEF C, R, E
  <2>4. BackendAnswers(r) <=> (C ~> ~C)
    BY <2>3, PTL DEF BackendAnswers
  <2>5. ResumeIsFair(r) <=> ([]<>~R \/ []<><<Resume(r)>>_vars)
    BY <2>3, PTL DEF ResumeIsFair
  <2>6. Spec /\ ResumeIsFair(r) /\ BackendAnswers(r) => (C ~> E)
    BY <2>1, <2>2, <2>3, <2>4, <2>5, TypeCorrect, PTL DEF Spec
  <2> QED
    BY <2>6 DEF C, E
<1> QED
  BY <1>1 DEF EveryCallEnds
=============================================================================
