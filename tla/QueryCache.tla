----------------------------- MODULE QueryCache -----------------------------
(***************************************************************************)
(* The query cache of utils/cache.js: a JavaScript Map from cache keys to  *)
(* entries [value, expiry], a size limit, a time to live and statistics.   *)
(*                                                                         *)
(* A Map enumerates its keys in the order of their FIRST insertion, and    *)
(* eviction depends on that order, so the Map is two variables: "order",   *)
(* the keys as the Map enumerates them, and "entry", the Map's contents.   *)
(* Every method runs to completion on the event loop: each is one action.  *)
(***************************************************************************)
EXTENDS Integers, Sequences, SequencesExt

CONSTANTS
    Keys,       \* the strings generateKey can return
    Values,     \* what callers store
    NoValue,    \* null and undefined
    MaxSize,    \* this.maxSize, after the constructor's "|| DEFAULT_MAX_SIZE"
    Ttls,       \* the times to live callers ask for
    StartTime,  \* Date.now() when the process starts
    MaxTime,    \* bound: the clock stops there
    MaxLookups  \* bound: no get() after that many

(***************************************************************************)
(* "Date.now() + ttl" adds when ttl is a number of milliseconds. Nothing on*)
(* the way from the HTTP body to set() excludes anything else, and then it *)
(* concatenates, and the comparison in get() reads the result as a number. *)
(* With a text of digits that is the clock moved left by the text's length *)
(* (scale is ten to that power) plus the digits. With another text or an   *)
(* object it is no number (NaN), and no time is later than that.           *)
(***************************************************************************)
Ttl == [form: {"number", "digits", "other"}, ms: Int, scale: Nat]

\* Past every value of the clock.
NeverExpires == MaxTime + 1

Expiry(t, ttl) ==
    IF ttl.form = "number" THEN t + ttl.ms
    ELSE IF ttl.form = "digits" THEN t * ttl.scale + ttl.ms
    ELSE NeverExpires

(* parseInt may give any integer; 0 and NaN are replaced by the default.   *)
ASSUME MaxSizeAssumption == MaxSize \in Int \ {0}
ASSUME TtlAssumption == Ttls \subseteq Ttl
ASSUME ValueAssumption == NoValue \notin Values
ASSUME CacheBoundAssumption ==
    /\ StartTime \in Nat
    /\ MaxTime \in Nat
    /\ MaxLookups \in Nat
    /\ StartTime <= MaxTime

VARIABLES
    now,    \* Date.now()
    order,  \* this.cache.keys()
    entry,  \* this.cache: a function on the keys present
    stats   \* this.stats

mapVars == <<order, entry, stats>>
cacheVars == <<now, order, entry, stats>>

Entry == [value: Values, expiry: Int]

CacheTypeOK ==
    /\ now \in StartTime..MaxTime
    /\ order \in Seq(Keys)
    /\ DOMAIN entry \subseteq Keys
    /\ \A k \in DOMAIN entry : entry[k] \in Entry
    /\ stats \in [hits: Nat, misses: Nat, size: Nat]

CacheInit ==
    /\ now = StartTime
    /\ order = <<>>
    /\ entry = <<>>
    /\ stats = [hits |-> 0, misses |-> 0, size |-> 0]

----------------------------------------------------------------------------
(* get(): an entry is served up to and including its expiry.               *)

\* Mutant of Live: get() does not look at the expiry.
LiveForEver(k) == k \in DOMAIN entry

Live(k) == k \in DOMAIN entry /\ now <= entry[k].expiry

\* What get() returns.
Lookup(k) == IF Live(k) THEN entry[k].value ELSE NoValue

PositionOf(k) == CHOOSE i \in DOMAIN order : order[i] = k

GetHit(k) ==
    /\ Live(k)
    /\ stats' = [stats EXCEPT !.hits = @ + 1]
    /\ UNCHANGED <<order, entry>>

GetAbsent(k) ==
    /\ k \notin DOMAIN entry
    /\ stats' = [stats EXCEPT !.misses = @ + 1]
    /\ UNCHANGED <<order, entry>>

GetExpired(k) ==
    /\ k \in DOMAIN entry
    /\ ~Live(k)
    /\ order' = RemoveAt(order, PositionOf(k))
    /\ entry' = Restrict(entry, DOMAIN entry \ {k})
    /\ stats' = [stats EXCEPT !.size = Len(order'), !.misses = @ + 1]

Get(k) == GetHit(k) \/ GetAbsent(k) \/ GetExpired(k)

----------------------------------------------------------------------------
(* set(): null is ignored. A full cache first drops its first key, whether *)
(* or not k itself is present. Map.set then keeps the place of a key that  *)
(* is still there and puts a new one last.                                 *)

\* Mutants of Full: the test in set() off by one, either way.
FullTooLate == Len(order) > MaxSize
FullTooEarly == Len(order) >= MaxSize - 1

Full == Len(order) >= MaxSize

\* The keys left after the eviction; deleting from an empty Map does nothing.
Kept == IF Full /\ order # <<>> THEN Tail(order) ELSE order

SetOrder(k) == IF k \in Range(Kept) THEN Kept ELSE Append(Kept, k)

Set(k, v, ttl) ==
    IF v = NoValue
    THEN UNCHANGED mapVars
    ELSE /\ order' = SetOrder(k)
         /\ entry' = [j \in Range(Kept) \cup {k} |->
                         IF j = k THEN [value |-> v, expiry |-> Expiry(now, ttl)]
                                  ELSE entry[j]]
         /\ stats' = [stats EXCEPT !.size = Len(order')]

\* Mutant of Clear: the statistics are replaced, not updated.
ClearStats ==
    /\ order' = <<>>
    /\ entry' = <<>>
    /\ stats' = [size |-> 0]

Clear ==
    /\ order' = <<>>
    /\ entry' = <<>>
    /\ stats' = [stats EXCEPT !.size = 0]

Tick ==
    /\ now < MaxTime
    /\ now' = now + 1
    /\ UNCHANGED mapVars

----------------------------------------------------------------------------
(* The cache by itself: any caller, any order of calls.                    *)

Lookups == stats.hits + stats.misses

CacheNext ==
    \/ \E k \in Keys :
          /\ Lookups < MaxLookups
          /\ Get(k)
          /\ UNCHANGED now
    \/ \E k \in Keys, v \in Values \cup {NoValue}, ttl \in Ttls :
          /\ Set(k, v, ttl)
          /\ UNCHANGED now
    \/ Clear /\ UNCHANGED now
    \/ Tick

CacheSpec == CacheInit /\ [][CacheNext]_cacheVars

----------------------------------------------------------------------------
(* What the cache promises.                                                *)

\* A negative maxSize makes every cache full: one entry at a time.
Capacity == IF MaxSize > 0 THEN MaxSize ELSE 1

\* The two halves of the Map agree and the reported size is the Map's size.
MapCoherent ==
    /\ Range(order) = DOMAIN entry
    /\ \A i, j \in DOMAIN order : order[i] = order[j] => i = j
    /\ stats.size = Len(order)

(* set() makes room before it adds, and never adds two: whatever is called *)
(* in whatever order, the Map stays within maxSize and getStats() reports  *)
(* its true size, also after get() has dropped an expired entry.           *)
SizeBounded == MapCoherent /\ Len(order) <= Capacity

(* The cache loses what it was given only in four ways: the entry expired, *)
(* clear(), a newer value under the same key, or the single eviction that  *)
(* set() makes when the Map has reached its limit (cache.js:82). Stated as *)
(* the refinement of a bounded memo that may forget.                       *)
Memo == INSTANCE LossyMemo WITH memo <- entry

ImplementsMemo == Memo!MemoSpec

(* "Evict oldest entries if cache is full" (cache.js:81): what set() evicts*)
(* was stored no later than anything it keeps. With a single time to live  *)
(* an entry's expiry tells when it was stored.                             *)
EvictsOldest ==
    [][\A gone \in DOMAIN entry \ DOMAIN entry' :
          Live(gone) =>
             \A kept \in DOMAIN entry \cap DOMAIN entry' :
                entry[gone].expiry <= entry[kept].expiry]_cacheVars
=============================================================================
