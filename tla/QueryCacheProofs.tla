-------------------------- MODULE QueryCacheProofs --------------------------
(***************************************************************************)
(* Proofs about the query cache, for every size limit, set of keys and set *)
(* of times to live.                                                       *)
(***************************************************************************)
EXTENDS QueryCache, TLAPS, FiniteSetTheorems

----------------------------------------------------------------------------
(* The Map's order after a deletion.                                       *)

LEMMA RemoveAtProperties ==
  ASSUME NEW S, NEW s \in Seq(S), NEW i \in DOMAIN s
  PROVE  /\ RemoveAt(s, i) \in Seq(S)
         /\ Len(RemoveAt(s, i)) = Len(s) - 1
         /\ \A j \in 1..(Len(s) - 1) :
               RemoveAt(s, i)[j] = IF j < i THEN s[j] ELSE s[j + 1]
<1>1. i \in 1..Len(s)
  OBVIOUS
<1> DEFINE l == SubSeq(s, 1, i - 1)
           r == SubSeq(s, i + 1, Len(s))
<1>2. /\ l \in Seq(S) /\ Len(l) = i - 1
      /\ \A j \in 1..(i - 1) : l[j] = s[j]
  BY <1>1
<1>3. /\ r \in Seq(S) /\ Len(r) = Len(s) - i
      /\ \A j \in 1..(Len(s) - i) : r[j] = s[i + j]
  BY <1>1
<1> HIDE DEF l, r
<1>4. /\ l \o r \in Seq(S)
      /\ Len(l \o r) = Len(s) - 1
  BY <1>1, <1>2, <1>3
<1>5. ASSUME NEW j \in 1..(Len(s) - 1)
      PROVE  (l \o r)[j] = IF j < i THEN s[j] ELSE s[j + 1]
  BY <1>1, <1>2, <1>3
<1> QED
  BY <1>4, <1>5 DEF RemoveAt, l, r

(* What is left of a sequence without repetitions when one element goes.   *)
LEMMA RemoveAtRange ==
  ASSUME NEW S, NEW s \in Seq(S), NEW i \in DOMAIN s,
         \A a, b \in DOMAIN s : s[a] = s[b] => a = b
  PROVE  /\ Range(RemoveAt(s, i)) = Range(s) \ {s[i]}
         /\ \A a, b \in DOMAIN RemoveAt(s, i) :
               RemoveAt(s, i)[a] = RemoveAt(s, i)[b] => a = b
<1> DEFINE t == RemoveAt(s, i)
<1>1. /\ t \in Seq(S) /\ Len(t) = Len(s) - 1
      /\ \A j \in 1..(Len(s) - 1) : t[j] = IF j < i THEN s[j] ELSE s[j + 1]
  BY RemoveAtProperties
<1>2. /\ DOMAIN s = 1..Len(s) /\ DOMAIN t = 1..(Len(s) - 1)
      /\ Len(s) \in Nat /\ i \in 1..Len(s)
  BY <1>1
<1> HIDE DEF t
<1>3. ASSUME NEW a \in DOMAIN t, NEW b \in DOMAIN t, t[a] = t[b]
      PROVE  a = b
  BY <1>1, <1>2, <1>3
<1>4. ASSUME NEW a \in DOMAIN t
      PROVE  t[a] \in Range(s) \ {s[i]}
  BY <1>1, <1>2 DEF Range
<1>5. ASSUME NEW x \in Range(s) \ {s[i]}
      PROVE  x \in Range(t)
  <2>1. PICK b \in DOMAIN s : x = s[b]
    BY DEF Range
  <2>2. CASE b < i
    <3>1. b \in DOMAIN t /\ t[b] = x
      BY <1>1, <1>2, <2>1, <2>2
    <3> QED
      BY <3>1 DEF Range
  <2>3. CASE b > i
    <3>1. (b - 1) \in DOMAIN t /\ t[b - 1] = x
      BY <1>1, <1>2, <2>1, <2>3
    <3> QED
      BY <3>1 DEF Range
  <2> QED
    BY <1>2, <2>1, <2>2, <2>3
<1> QED
  BY <1>3, <1>4, <1>5 DEF Range, t

----------------------------------------------------------------------------
(* The inductive invariant: the types, the agreement between the two halves*)
(* of the Map (without it set() would read entries that are not there) and *)
(* the size limit.                                                         *)

CacheInv == CacheTypeOK /\ SizeBounded

LEMMA CapacityPositive == Capacity \in Nat /\ Capacity >= 1
  BY MaxSizeAssumption DEF Capacity

LEMMA CacheInitInv == CacheInit => CacheInv
<1> SUFFICES ASSUME CacheInit PROVE CacheInv
  OBVIOUS
<1>1. order = <<>> /\ DOMAIN order = {} /\ Len(order) = 0 /\ DOMAIN entry = {}
  BY DEF CacheInit
<1>2. CacheTypeOK
  BY <1>1, CacheBoundAssumption DEF CacheInit, CacheTypeOK
<1>3. MapCoherent
  BY <1>1 DEF CacheInit, MapCoherent, Range
<1> QED
  BY <1>1, <1>2, <1>3, CapacityPositive DEF CacheInv, SizeBounded

LEMMA GetKeepsInv ==
  ASSUME CacheInv, NEW k \in Keys, Get(k), UNCHANGED now
  PROVE  CacheInv'
<1> USE DEF CacheInv
<1>1. CASE GetHit(k)
  BY <1>1 DEF GetHit, CacheTypeOK, SizeBounded, MapCoherent, Capacity
<1>2. CASE GetAbsent(k)
  BY <1>2 DEF GetAbsent, CacheTypeOK, SizeBounded, MapCoherent, Capacity
<1>3. CASE GetExpired(k)
  <2>1. /\ order' = RemoveAt(order, PositionOf(k))
        /\ entry' = [j \in DOMAIN entry \ {k} |-> entry[j]]
        /\ stats' = [stats EXCEPT !.size = Len(order'), !.misses = @ + 1]
    BY <1>3 DEF GetExpired, Restrict
  <2>2. PositionOf(k) \in DOMAIN order /\ order[PositionOf(k)] = k
    <3>1. k \in Range(order)
      BY <1>3 DEF GetExpired, SizeBounded, MapCoherent
    <3> QED
      BY <3>1 DEF PositionOf, Range
  <2>3. order \in Seq(Keys) /\ Len(order) \in Nat
    BY DEF CacheTypeOK
  <2>4. order' \in Seq(Keys) /\ Len(order') = Len(order) - 1 /\ Len(order') \in Nat
    BY <2>1, <2>2, <2>3, RemoveAtProperties
  <2>5. /\ Range(order') = Range(order) \ {k}
        /\ \A i, j \in DOMAIN order' : order'[i] = order'[j] => i = j
    <3>1. \A i, j \in DOMAIN order : order[i] = order[j] => i = j
      BY DEF SizeBounded, MapCoherent
    <3> QED
      BY <2>1, <2>2, <2>3, <3>1, RemoveAtRange
  <2>6. CacheTypeOK'
    <3>1. DOMAIN entry' \subseteq Keys /\ \A j \in DOMAIN entry' : entry'[j] \in Entry
      BY <2>1 DEF CacheTypeOK
    <3>2. stats' \in [hits: Nat, misses: Nat, size: Nat]
      <4> DEFINE resized == [stats EXCEPT !.size = Len(order')]
      <4>1. stats \in [hits: Nat, misses: Nat, size: Nat]
        BY DEF CacheTypeOK
      <4>2. resized \in [hits: Nat, misses: Nat, size: Nat]
            /\ resized.misses = stats.misses
        BY <2>4, <4>1
      <4>3. stats' = [resized EXCEPT !.misses = stats.misses + 1]
        BY <2>1
      <4> HIDE DEF resized
      <4> QED
        BY <4>1, <4>2, <4>3
    <3>3. now' \in StartTime..MaxTime
      BY DEF CacheTypeOK
    <3> QED
      BY <2>4, <3>1, <3>2, <3>3 DEF CacheTypeOK, Entry
  <2>7. SizeBounded'
    BY <2>1, <2>3, <2>4, <2>5, CapacityPositive
    DEF SizeBounded, MapCoherent, Capacity, CacheTypeOK
  <2> QED
    BY <2>6, <2>7
<1> QED
  BY <1>1, <1>2, <1>3 DEF Get

(* What set() keeps after its eviction, as a sequence and as a set.        *)
LEMMA KeptProperties ==
  ASSUME CacheInv
  PROVE  /\ Kept \in Seq(Keys)
         /\ Range(Kept) \subseteq DOMAIN entry
         /\ \A i, j \in DOMAIN Kept : Kept[i] = Kept[j] => i = j
         /\ Len(Kept) \in Nat
         /\ Len(Kept) + 1 <= Capacity
<1>1. /\ order \in Seq(Keys) /\ Len(order) \in Nat
      /\ Range(order) = DOMAIN entry
      /\ \A i, j \in DOMAIN order : order[i] = order[j] => i = j
      /\ Len(order) <= Capacity
  BY DEF CacheInv, CacheTypeOK, SizeBounded, MapCoherent
<1>2. CASE Full /\ order # <<>>
  <2>1. /\ Tail(order) \in Seq(Keys) /\ Len(Tail(order)) = Len(order) - 1
        /\ \A i \in 1..(Len(order) - 1) : Tail(order)[i] = order[i + 1]
        /\ Len(order) > 0
    BY <1>1, <1>2
  <2>2. DOMAIN order = 1..Len(order) /\ DOMAIN Tail(order) = 1..(Len(order) - 1)
    BY <1>1, <2>1
  <2>3. Kept = Tail(order)
    BY <1>2 DEF Kept
  <2>4. \A i, j \in DOMAIN Kept : Kept[i] = Kept[j] => i = j
    BY <1>1, <2>1, <2>2, <2>3
  <2>5. Range(Kept) \subseteq Range(order)
    BY <1>1, <2>1, <2>2, <2>3 DEF Range
  <2> QED
    BY <1>1, <2>1, <2>3, <2>4, <2>5, CapacityPositive
<1>3. CASE ~(Full /\ order # <<>>)
  <2>1. Kept = order
    BY <1>3 DEF Kept
  <2>2. Len(order) + 1 <= Capacity
    BY <1>1, <1>3, CapacityPositive, MaxSizeAssumption DEF Full, Capacity
  <2> QED
    BY <1>1, <2>1, <2>2
<1> QED
  BY <1>2, <1>3

LEMMA SetKeepsInv ==
  ASSUME CacheInv, NEW k \in Keys, NEW v \in Values \cup {NoValue}, NEW ttl \in Ttl,
         Set(k, v, ttl), UNCHANGED now
  PROVE  CacheInv'
<1>1. CASE v = NoValue
  BY <1>1 DEF Set, mapVars, CacheInv, CacheTypeOK, SizeBounded, MapCoherent, Capacity
<1>2. CASE v # NoValue
  <2>1. /\ order' = SetOrder(k)
        /\ entry' = [j \in Range(Kept) \cup {k} |->
                        IF j = k THEN [value |-> v, expiry |-> Expiry(now, ttl)]
                                 ELSE entry[j]]
        /\ stats' = [stats EXCEPT !.size = Len(order')]
    BY <1>2 DEF Set
  <2>2. /\ Kept \in Seq(Keys)
        /\ Range(Kept) \subseteq DOMAIN entry
        /\ \A i, j \in DOMAIN Kept : Kept[i] = Kept[j] => i = j
        /\ Len(Kept) \in Nat
        /\ Len(Kept) + 1 <= Capacity
    BY KeptProperties
  <2>3. /\ order' \in Seq(Keys)
        /\ Range(order') = Range(Kept) \cup {k}
        /\ \A i, j \in DOMAIN order' : order'[i] = order'[j] => i = j
        /\ Len(order') \in Nat
        /\ Len(order') <= Capacity
    <3>1. CASE k \in Range(Kept)
      <4>1. order' = Kept
        BY <2>1, <3>1 DEF SetOrder
      <4> QED
        BY <2>2, <3>1, <4>1, CapacityPositive
    <3>2. CASE k \notin Range(Kept)
      <4>1. /\ order' = Append(Kept, k)
            /\ order' \in Seq(Keys) /\ Len(order') = Len(Kept) + 1
            /\ DOMAIN Kept = 1..Len(Kept) /\ DOMAIN order' = 1..(Len(Kept) + 1)
            /\ \A i \in DOMAIN Kept : order'[i] = Kept[i]
            /\ order'[Len(Kept) + 1] = k
        BY <2>1, <2>2, <3>2 DEF SetOrder
      <4>2. Range(order') = Range(Kept) \cup {k}
        BY <2>2, <4>1 DEF Range
      <4>3. \A i \in DOMAIN Kept : Kept[i] # k
        BY <3>2 DEF Range
      <4>4. \A i, j \in DOMAIN order' : order'[i] = order'[j] => i = j
        BY <2>2, <4>1, <4>3
      <4> QED
        BY <2>2, <4>1, <4>2, <4>4
    <3> QED
      BY <3>1, <3>2
  <2>4. Expiry(now, ttl) \in Int
    BY CacheBoundAssumption DEF Expiry, NeverExpires, Ttl, CacheInv, CacheTypeOK
  <2>5. DOMAIN entry' \subseteq Keys /\ \A j \in DOMAIN entry' : entry'[j] \in Entry
    BY <1>2, <2>1, <2>2, <2>4 DEF CacheInv, CacheTypeOK, Entry
  <2>6. stats' \in [hits: Nat, misses: Nat, size: Nat] /\ stats'.size = Len(order')
    BY <2>1, <2>3 DEF CacheInv, CacheTypeOK
  <2>7. CacheTypeOK'
    BY <2>3, <2>5, <2>6 DEF CacheInv, CacheTypeOK, Entry
  <2>8. SizeBounded'
    <3>1. DOMAIN entry' = Range(order')
      BY <2>1, <2>3
    <3> QED
      BY <2>3, <2>6, <3>1 DEF SizeBounded, MapCoherent, Capacity
  <2> QED
    BY <2>7, <2>8 DEF CacheInv
<1> QED
  BY <1>1, <1>2

LEMMA ClearKeepsInv ==
  ASSUME CacheInv, Clear, UNCHANGED now
  PROVE  CacheInv'
<1>1. order' = <<>> /\ DOMAIN order' = {} /\ Len(order') = 0 /\ DOMAIN entry' = {}
  BY DEF Clear
<1>2. stats' \in [hits: Nat, misses: Nat, size: Nat] /\ stats'.size = 0
  BY DEF Clear, CacheInv, CacheTypeOK
<1>3. CacheTypeOK'
  BY <1>1, <1>2 DEF CacheInv, CacheTypeOK
<1>4. SizeBounded'
  BY <1>1, <1>2, CapacityPositive DEF SizeBounded, MapCoherent, Capacity, Range
<1> QED
  BY <1>3, <1>4 DEF CacheInv

LEMMA TickKeepsInv ==
  ASSUME CacheInv, Tick
  PROVE  CacheInv'
BY CacheBoundAssumption
DEF Tick, mapVars, CacheInv, CacheTypeOK, SizeBounded, MapCoherent, Capacity

----------------------------------------------------------------------------
(* The cache keeps its types, the two halves of its Map agree, and it never*)
(* holds more than its limit, whoever calls it and in whatever order.      *)

LEMMA CacheSpecInv == CacheSpec => []CacheInv
<1>1. CacheInv /\ [CacheNext]_cacheVars => CacheInv'
  <2> SUFFICES ASSUME CacheInv, [CacheNext]_cacheVars PROVE CacheInv'
    OBVIOUS
  <2>1. CASE \E k \in Keys : Lookups < MaxLookups /\ Get(k) /\ UNCHANGED now
    BY <2>1, GetKeepsInv
  <2>2. CASE \E k \in Keys, v \in Values \cup {NoValue}, ttl \in Ttls :
                Set(k, v, ttl) /\ UNCHANGED now
    BY <2>2, SetKeepsInv, TtlAssumption
  <2>3. CASE Clear /\ UNCHANGED now
    BY <2>3, ClearKeepsInv
  <2>4. CASE Tick
    BY <2>4, TickKeepsInv
  <2>5. CASE UNCHANGED cacheVars
    BY <2>5 DEF cacheVars, CacheInv, CacheTypeOK, SizeBounded, MapCoherent, Capacity
  <2> QED
    BY <2>1, <2>2, <2>3, <2>4, <2>5 DEF CacheNext
<1> QED
  BY <1>1, CacheInitInv, PTL DEF CacheSpec

(* Type correctness of the cache (CacheTypeOK).                            *)
THEOREM CacheTypeCorrect == CacheSpec => []CacheTypeOK
<1>1. CacheInv => CacheTypeOK
  BY DEF CacheInv
<1> QED
  BY <1>1, CacheSpecInv, PTL

(* The cache stays within its limit and reports its size (SizeBounded).    *)
THEOREM CacheSizeBounded == CacheSpec => []SizeBounded
<1>1. CacheInv => SizeBounded
  BY DEF CacheInv
<1> QED
  BY <1>1, CacheSpecInv, PTL

----------------------------------------------------------------------------
(* The query cache implements the lossy memo, for every size limit: what   *)
(* the Map forgets, and when, is no more than LossyMemo allows.            *)

(* The memo counts as this module does.                                    *)
LEMMA SameCardinality == \A S : Memo!Cardinality(S) = Cardinality(S)
BY DEF Memo!Cardinality, Cardinality

(* The Map lists every entry once, so its size is its number of entries.   *)
LEMMA SizeIsCardinality ==
  ASSUME CacheInv
  PROVE  IsFiniteSet(DOMAIN entry) /\ Cardinality(DOMAIN entry) = Len(order)
<1>1. /\ order \in Seq(Keys) /\ Len(order) \in Nat /\ DOMAIN order = 1..Len(order)
      /\ Range(order) = DOMAIN entry
      /\ \A i, j \in DOMAIN order : order[i] = order[j] => i = j
  BY DEF CacheInv, CacheTypeOK, SizeBounded, MapCoherent
<1> DEFINE n == Len(order)
           place == [i \in 1..n |-> order[i]]
<1>2. place \in Bijection(1..n, DOMAIN entry)
  BY <1>1 DEF Range, Bijection, Injection, Surjection, IsInjective
<1>3. ExistsBijection(1..n, DOMAIN entry)
  BY <1>2 DEF ExistsBijection
<1> QED
  BY <1>1, <1>3, FS_CountingElements, FS_NatBijection

\* set() is the memo's Remember; what it loses is the Map's first key or nothing.
LEMMA SetRemembers ==
  ASSUME CacheInv, NEW k \in Keys, NEW v \in Values, NEW ttl \in Ttls,
         Set(k, v, ttl), UNCHANGED now
  PROVE  Memo!Remember(k, v, ttl)
<1> DEFINE lost == DOMAIN entry \ Range(Kept)
<1>1. /\ order \in Seq(Keys) /\ Len(order) \in Nat
      /\ Range(order) = DOMAIN entry
  BY DEF CacheInv, CacheTypeOK, SizeBounded, MapCoherent
<1>2. /\ entry' = [j \in Range(Kept) \cup {k} |->
                      IF j = k THEN [value |-> v, expiry |-> Expiry(now, ttl)]
                               ELSE entry[j]]
      /\ Range(Kept) \subseteq DOMAIN entry
  BY KeptProperties, ValueAssumption DEF Set
<1>3. Range(Kept) = DOMAIN entry \ lost
  BY <1>2
<1>4. Cardinality(lost) <= 1 /\ (lost # {} => Memo!Crowded)
  <2>1. CASE Full /\ order # <<>>
    <3>1. /\ Kept = Tail(order) /\ Len(order) > 0
          /\ DOMAIN order = 1..Len(order) /\ DOMAIN Kept = 1..(Len(order) - 1)
          /\ \A i \in 1..(Len(order) - 1) : Kept[i] = order[i + 1]
      BY <1>1, <2>1 DEF Kept
    <3>2. lost \subseteq {order[1]}
      <4> SUFFICES ASSUME NEW x \in lost PROVE x = order[1]
        OBVIOUS
      <4>1. PICK i \in 1..Len(order) : x = order[i]
        BY <1>1, <3>1 DEF Range
      <4>2. ASSUME i # 1 PROVE FALSE
        <5>1. i - 1 \in 1..(Len(order) - 1) /\ Kept[i - 1] = x
          BY <1>1, <3>1, <4>1, <4>2
        <5>2. x \in Range(Kept)
          BY <3>1, <5>1 DEF Range
        <5> QED
          BY <5>2
      <4> QED
        BY <4>1, <4>2
    <3>3. lost = {} \/ lost = {order[1]}
      BY <3>2
    <3>4. Cardinality(lost) <= 1
      <4>1. Cardinality({}) = 0 /\ Cardinality({order[1]}) = 1
        BY FS_EmptySet, FS_Singleton
      <4>2. CASE lost = {}
        BY <4>1, <4>2
      <4>3. CASE lost = {order[1]}
        BY <4>1, <4>3
      <4> QED
        BY <3>3, <4>2, <4>3
    <3>5. Memo!Crowded
      BY <2>1, SizeIsCardinality, SameCardinality DEF Memo!Crowded, Full
    <3> QED
      BY <3>4, <3>5
  <2>2. CASE ~(Full /\ order # <<>>)
    <3>1. lost = {}
      BY <1>1, <2>2 DEF Kept
    <3> QED
      BY <3>1, FS_EmptySet
  <2> QED
    BY <2>1, <2>2
<1> HIDE DEF lost
<1>5. lost \in SUBSET DOMAIN entry
  BY DEF lost
<1>6. entry' = [j \in (DOMAIN entry \ lost) \cup {k} |->
                   IF j = k THEN [value |-> v, expiry |-> Expiry(now, ttl)]
                            ELSE entry[j]]
  BY <1>2, <1>3
<1> QED
  BY <1>4, <1>5, <1>6, SameCardinality DEF Memo!Remember

\* get() forgets what it finds expired, or nothing.
LEMMA GetIsMemoStep ==
  ASSUME CacheInv, NEW k \in Keys, Get(k), UNCHANGED now
  PROVE  Memo!MemoNext \/ UNCHANGED <<now, entry>>
<1>1. CASE GetHit(k) \/ GetAbsent(k)
  BY <1>1 DEF GetHit, GetAbsent
<1>2. CASE GetExpired(k)
  <2>1. now \in Int /\ entry[k].expiry \in Int
    BY <1>2, CacheBoundAssumption DEF GetExpired, CacheInv, CacheTypeOK, Entry
  <2>2. Memo!ForgetExpired(k)
    BY <1>2, <2>1 DEF GetExpired, Live, Restrict, Memo!ForgetExpired
  <2> QED
    BY <2>2 DEF Memo!MemoNext
<1> QED
  BY <1>1, <1>2 DEF Get

(* A step of the cache is a step of the memo or changes nothing in it.     *)
LEMMA StepImplementsMemo ==
  CacheInv /\ [CacheNext]_cacheVars => [Memo!MemoNext]_(Memo!memoVars)
<1> SUFFICES ASSUME CacheInv, [CacheNext]_cacheVars
             PROVE  Memo!MemoNext \/ UNCHANGED <<now, entry>>
  BY DEF Memo!memoVars
<1>1. ASSUME NEW k \in Keys, Get(k), UNCHANGED now
      PROVE  Memo!MemoNext \/ UNCHANGED <<now, entry>>
  BY <1>1, GetIsMemoStep
<1>2. ASSUME NEW k \in Keys, NEW v \in Values \cup {NoValue}, NEW ttl \in Ttls,
             Set(k, v, ttl), UNCHANGED now
      PROVE  Memo!MemoNext \/ UNCHANGED <<now, entry>>
  <2>1. CASE v = NoValue
    BY <1>2, <2>1 DEF Set, mapVars
  <2>2. CASE v # NoValue
    BY <1>2, <2>2, SetRemembers DEF Memo!MemoNext
  <2> QED
    BY <2>1, <2>2
<1>3. ASSUME Clear, UNCHANGED now PROVE Memo!MemoNext
  BY <1>3 DEF Clear, Memo!MemoNext, Memo!ForgetAll
<1>4. ASSUME Tick PROVE Memo!MemoNext
  BY <1>4 DEF Tick, mapVars, Memo!MemoNext, Memo!TimePasses
<1>5. CASE UNCHANGED cacheVars
  BY <1>5 DEF cacheVars
<1> QED
  BY <1>1, <1>2, <1>3, <1>4, <1>5 DEF CacheNext

(* The query cache forgets only what has expired, what clear() wipes, and  *)
(* one key per set() that finds it full (ImplementsMemo).                  *)
THEOREM CacheImplementsMemo == CacheSpec => ImplementsMemo
<1>1. CacheInit => Memo!MemoInit
  BY DEF CacheInit, Memo!MemoInit
<1> QED
  BY <1>1, StepImplementsMemo, CacheSpecInv, PTL
  DEF CacheSpec, ImplementsMemo, Memo!MemoSpec

----------------------------------------------------------------------------
(* What the run query_cache_eviction finds comes from set() of a key that  *)
(* is there, which keeps its place in the Map, and from nothing else.      *)

(* set() is only called for keys that are not there, or with what is there.*)
NothingOverwritten == \A k \in DOMAIN entry \cap DOMAIN entry' : entry'[k] = entry[k]

\* The Map's order is that of the entries' expiry, and a new one is last.
Ordered ==
    \A i, j \in DOMAIN order : i <= j => entry[order[i]].expiry <= entry[order[j]].expiry

NoneLater(ttl) == \A k \in DOMAIN entry : entry[k].expiry <= now + ttl.ms

LEMMA KeptIsOrdered ==
  ASSUME CacheInv, Ordered
  PROVE  \A i, j \in DOMAIN Kept : i <= j => entry[Kept[i]].expiry <= entry[Kept[j]].expiry
<1>1. order \in Seq(Keys) /\ Len(order) \in Nat /\ DOMAIN order = 1..Len(order)
  BY DEF CacheInv, CacheTypeOK
<1>2. CASE Full /\ order # <<>>
  <2>1. /\ Kept = Tail(order) /\ Len(order) > 0
        /\ DOMAIN Kept = 1..(Len(order) - 1)
        /\ \A i \in 1..(Len(order) - 1) : Kept[i] = order[i + 1]
    BY <1>1, <1>2 DEF Kept
  <2> SUFFICES ASSUME NEW i \in DOMAIN Kept, NEW j \in DOMAIN Kept, i <= j
               PROVE  entry[Kept[i]].expiry <= entry[Kept[j]].expiry
    OBVIOUS
  <2>2. i + 1 \in DOMAIN order /\ j + 1 \in DOMAIN order /\ i + 1 <= j + 1
    BY <1>1, <2>1
  <2> QED
    BY <2>1, <2>2 DEF Ordered
<1>3. CASE ~(Full /\ order # <<>>)
  BY <1>3 DEF Kept, Ordered
<1> QED
  BY <1>2, <1>3

LEMMA GetKeepsOrder ==
  ASSUME CacheInv, Ordered, NEW k \in Keys, Get(k), UNCHANGED now,
         NEW ttl, NoneLater(ttl)
  PROVE  Ordered' /\ NoneLater(ttl)'
<1>1. CASE GetHit(k) \/ GetAbsent(k)
  BY <1>1 DEF GetHit, GetAbsent, Ordered, NoneLater
<1>2. CASE GetExpired(k)
  <2>1. /\ order \in Seq(Keys) /\ Len(order) \in Nat /\ DOMAIN order = 1..Len(order)
        /\ Range(order) = DOMAIN entry
        /\ \A i, j \in DOMAIN order : order[i] = order[j] => i = j
        /\ order' = RemoveAt(order, PositionOf(k))
        /\ entry' = [j \in DOMAIN entry \ {k} |-> entry[j]]
    BY <1>2 DEF CacheInv, CacheTypeOK, SizeBounded, MapCoherent, GetExpired, Restrict
  <2> DEFINE p == PositionOf(k)
  <2>2. p \in DOMAIN order /\ order[p] = k
    <3>1. k \in Range(order)
      BY <1>2, <2>1 DEF GetExpired
    <3> QED
      BY <3>1 DEF PositionOf, Range
  <2> HIDE DEF p
  <2>3. /\ DOMAIN order' = 1..(Len(order) - 1)
        /\ \A j \in 1..(Len(order) - 1) :
              order'[j] = IF j < p THEN order[j] ELSE order[j + 1]
    BY <2>1, <2>2, RemoveAtProperties DEF p
  <2>4. \A j \in DOMAIN order' : entry'[order'[j]] = entry[order'[j]]
    <3> SUFFICES ASSUME NEW j \in DOMAIN order'
                 PROVE  order'[j] \in DOMAIN entry \ {k}
      BY <2>1
    <3>1. order'[j] \in Range(order')
      BY DEF Range
    <3>2. Range(order') = Range(order) \ {k}
      BY <2>1, <2>2, RemoveAtRange DEF p
    <3> QED
      BY <2>1, <3>1, <3>2
  <2>5. Ordered'
    <3> SUFFICES ASSUME NEW i \in DOMAIN order', NEW j \in DOMAIN order', i <= j
                 PROVE  entry'[order'[i]].expiry <= entry'[order'[j]].expiry
      BY DEF Ordered
    <3> DEFINE a == IF i < p THEN i ELSE i + 1
               b == IF j < p THEN j ELSE j + 1
    <3>1. /\ a \in DOMAIN order /\ b \in DOMAIN order /\ a <= b
          /\ order'[i] = order[a] /\ order'[j] = order[b]
      BY <2>1, <2>2, <2>3
    <3> HIDE DEF a, b
    <3> QED
      BY <2>4, <3>1 DEF Ordered
  <2>6. NoneLater(ttl)'
    BY <2>1 DEF NoneLater
  <2> QED
    BY <2>5, <2>6
<1> QED
  BY <1>1, <1>2 DEF Get

LEMMA SetKeepsOrder ==
  ASSUME CacheInv, Ordered, NEW k \in Keys, NEW v \in Values \cup {NoValue},
         NEW ttl \in Ttl, ttl.form = "number", NoneLater(ttl),
         Set(k, v, ttl), UNCHANGED now, NothingOverwritten
  PROVE  Ordered' /\ NoneLater(ttl)'
<1>1. CASE v = NoValue
  BY <1>1 DEF Set, mapVars, Ordered, NoneLater
<1>2. CASE v # NoValue
  <2>1. /\ order' = SetOrder(k)
        /\ entry' = [j \in Range(Kept) \cup {k} |->
                        IF j = k THEN [value |-> v, expiry |-> now + ttl.ms] ELSE entry[j]]
    BY <1>2 DEF Set, Expiry
  <2>2. /\ Kept \in Seq(Keys) /\ Len(Kept) \in Nat /\ DOMAIN Kept = 1..Len(Kept)
        /\ Range(Kept) \subseteq DOMAIN entry
        /\ now + ttl.ms \in Int
    BY KeptProperties, CacheBoundAssumption DEF CacheInv, CacheTypeOK, Ttl
  <2>3. /\ DOMAIN entry' = Range(Kept) \cup {k}
        /\ \A x \in Range(Kept) : entry'[x] = entry[x]
    BY <2>1, <2>2 DEF NothingOverwritten
  <2>4. entry'[k].expiry = now + ttl.ms
    BY <2>1
  <2>5. \A x \in DOMAIN entry' : entry'[x].expiry <= now + ttl.ms
    BY <2>2, <2>3, <2>4 DEF NoneLater
  <2>6. \A i \in DOMAIN Kept : Kept[i] \in Range(Kept)
    BY DEF Range
  <2>7. \A i, j \in DOMAIN Kept : i <= j => entry'[Kept[i]].expiry <= entry'[Kept[j]].expiry
    BY <2>3, <2>6, KeptIsOrdered
  <2>8. CASE k \in Range(Kept)
    BY <2>1, <2>5, <2>7, <2>8 DEF SetOrder, Ordered, NoneLater
  <2>9. CASE k \notin Range(Kept)
    <3>1. /\ DOMAIN order' = 1..(Len(Kept) + 1)
          /\ \A i \in DOMAIN Kept : order'[i] = Kept[i]
          /\ order'[Len(Kept) + 1] = k
      BY <2>1, <2>2, <2>9 DEF SetOrder
    <3> SUFFICES ASSUME NEW i \in DOMAIN order', NEW j \in DOMAIN order', i <= j
                 PROVE  entry'[order'[i]].expiry <= entry'[order'[j]].expiry
      BY <2>5 DEF Ordered, NoneLater
    <3>2. CASE j \in DOMAIN Kept
      <4>1. i \in DOMAIN Kept
        BY <2>2, <3>1, <3>2
      <4> QED
        BY <2>7, <3>1, <3>2, <4>1
    <3>3. CASE j = Len(Kept) + 1
      <4>1. order'[i] \in DOMAIN entry'
        BY <2>2, <2>3, <2>6, <3>1
      <4> QED
        BY <2>4, <2>5, <3>1, <3>3, <4>1
    <3> QED
      BY <2>2, <3>1, <3>2, <3>3
  <2> QED
    BY <2>8, <2>9
<1> QED
  BY <1>1, <1>2

\* The single eviction of set() takes the first key.
LEMMA SetEvictsFirst ==
  ASSUME CacheInv, Ordered, NEW k \in Keys, NEW v \in Values \cup {NoValue}, NEW ttl,
         Set(k, v, ttl),
         NEW gone \in DOMAIN entry \ DOMAIN entry', NEW kept \in DOMAIN entry
  PROVE  entry[gone].expiry <= entry[kept].expiry
<1>1. /\ order \in Seq(Keys) /\ Len(order) \in Nat /\ DOMAIN order = 1..Len(order)
      /\ Range(order) = DOMAIN entry
  BY DEF CacheInv, CacheTypeOK, SizeBounded, MapCoherent
<1>2. v # NoValue
  BY DEF Set, mapVars
<1>3. gone \notin Range(Kept)
  BY <1>2 DEF Set
<1>4. PICK i \in DOMAIN order : gone = order[i]
  BY <1>1 DEF Range
<1>5. PICK j \in DOMAIN order : kept = order[j]
  BY <1>1 DEF Range
<1>6. i = 1
  <2>1. Full /\ order # <<>>
    BY <1>1, <1>3 DEF Kept
  <2>2. /\ DOMAIN Kept = 1..(Len(order) - 1)
        /\ \A m \in 1..(Len(order) - 1) : Kept[m] = order[m + 1]
    BY <1>1, <2>1 DEF Kept
  <2>3. ASSUME i # 1 PROVE FALSE
    <3>1. i - 1 \in DOMAIN Kept /\ Kept[i - 1] = gone
      BY <1>1, <1>4, <2>2, <2>3
    <3> QED
      BY <1>3, <3>1 DEF Range
  <2> QED
    BY <2>3
<1> QED
  BY <1>1, <1>4, <1>5, <1>6 DEF Ordered

(* With one time to live, "Evict oldest entries if cache is full"          *)
(* (cache.js:81) is true as long as no entry is replaced while it is there *)
(* (EvictsOldest): it is set() of a key that is present, which leaves the  *)
(* key its old place in the Map, that makes newer entries go first.        *)
THEOREM EvictsOldestUnlessOverwritten ==
  ASSUME NEW ttl \in Ttl, ttl.form = "number", Ttls = {ttl}
  PROVE  CacheSpec /\ [][NothingOverwritten]_cacheVars => EvictsOldest
<1> DEFINE OrderInv == Ordered /\ NoneLater(ttl)
           Evicts == \A gone \in DOMAIN entry \ DOMAIN entry' :
                        Live(gone) =>
                           \A kept \in DOMAIN entry \cap DOMAIN entry' :
                              entry[gone].expiry <= entry[kept].expiry
<1>1. CacheInit => OrderInv
  <2> SUFFICES ASSUME CacheInit PROVE OrderInv
    OBVIOUS
  <2>1. DOMAIN order = {} /\ DOMAIN entry = {}
    BY DEF CacheInit
  <2> QED
    BY <2>1 DEF Ordered, NoneLater
<1>2. CacheInv /\ OrderInv /\ [CacheNext]_cacheVars /\ [NothingOverwritten]_cacheVars
        => OrderInv'
  <2> SUFFICES ASSUME CacheInv, OrderInv, [CacheNext]_cacheVars, [NothingOverwritten]_cacheVars
               PROVE  OrderInv'
    OBVIOUS
  <2>1. NothingOverwritten
    BY DEF cacheVars, NothingOverwritten
  <2>2. CASE \E k \in Keys : Lookups < MaxLookups /\ Get(k) /\ UNCHANGED now
    BY <2>2, GetKeepsOrder
  <2>3. CASE \E k \in Keys, v \in Values \cup {NoValue}, t \in Ttls :
                Set(k, v, t) /\ UNCHANGED now
    BY <2>1, <2>3, SetKeepsOrder
  <2>4. CASE Clear /\ UNCHANGED now
    <3>1. DOMAIN order' = {} /\ DOMAIN entry' = {}
      BY <2>4 DEF Clear
    <3> QED
      BY <3>1 DEF Ordered, NoneLater
  <2>5. CASE Tick
    <3>1. /\ UNCHANGED <<order, entry>> /\ now' = now + 1
          /\ now \in Int /\ ttl.ms \in Int
          /\ \A k \in DOMAIN entry : entry[k].expiry \in Int
      BY <2>5, CacheBoundAssumption
      DEF Tick, mapVars, CacheInv, CacheTypeOK, Entry, Ttl
    <3> QED
      BY <3>1 DEF Ordered, NoneLater
  <2>6. CASE UNCHANGED cacheVars
    BY <2>6 DEF cacheVars, Ordered, NoneLater
  <2> QED
    BY <2>2, <2>3, <2>4, <2>5, <2>6 DEF CacheNext
<1>3. CacheInv /\ OrderInv /\ [CacheNext]_cacheVars => [Evicts]_cacheVars
  <2> SUFFICES ASSUME CacheInv, OrderInv, CacheNext,
                      NEW gone \in DOMAIN entry \ DOMAIN entry', Live(gone),
                      NEW kept \in DOMAIN entry \cap DOMAIN entry'
               PROVE  entry[gone].expiry <= entry[kept].expiry
    OBVIOUS
  <2>1. ASSUME NEW k \in Keys, Get(k) PROVE FALSE
    BY <2>1 DEF Get, GetHit, GetAbsent, GetExpired, Restrict
  <2>2. ~Clear /\ ~Tick
    BY DEF Clear, Tick, mapVars
  <2>3. PICK k \in Keys, v \in Values \cup {NoValue} : Set(k, v, ttl)
    BY <2>1, <2>2 DEF CacheNext
  <2> QED
    BY <2>3, SetEvictsFirst
<1>4. EvictsOldest <=> [][Evicts]_cacheVars
  BY DEF EvictsOldest
<1> HIDE DEF OrderInv, Evicts
<1> QED
  BY <1>1, <1>2, <1>3, <1>4, CacheSpecInv, PTL DEF CacheSpec
=============================================================================
