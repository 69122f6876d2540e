------------------------- MODULE RateLimiterProofs --------------------------
(***************************************************************************)
(* Proofs about the rate limiters, for every set of clients and requests,  *)
(* every limit and every length of the windows.                            *)
(***************************************************************************)
EXTENDS GatewaysProofs

(***************************************************************************)
(* One limiter sees of one client a function "at" from the requests to the *)
(* times at which it let them pass, and its window. What is passed in the  *)
(* W instants up to t is Within(at, W, t).                                 *)
(***************************************************************************)
Within(at, W, t) == {r \in Requests : at[r] # Never /\ at[r] \in (t - W + 1)..t}

(***************************************************************************)
(* What is invariant at time t. The last instant of the present window is  *)
(* w.reset - 1: what has passed in it is what it counted, up to the limit. *)
(* That no more passed in the stretch of a window's length before it is    *)
(* what makes the bound on every stretch inductive, as such a stretch      *)
(* reaches into two windows at most.                                       *)
(***************************************************************************)
WindowInv(at, w, W, L, t) ==
    /\ IsFiniteSet({r \in Requests : at[r] # Never})
    /\ \A r \in Requests : at[r] # Never => at[r] <= t /\ at[r] < w.reset
    /\ w.reset - W <= t
    /\ Cardinality(Within(at, W, w.reset - 1)) = IF w.hits <= L THEN w.hits ELSE L
    /\ Cardinality(Within(at, W, w.reset - 1 - W)) <= L
    /\ \A u \in Int : Cardinality(Within(at, W, u)) <= 2 * L

\* What Counted makes of a window.
CountedIn(w, W, t) ==
    IF w.reset <= t THEN [hits |-> 1, reset |-> t + W] ELSE [w EXCEPT !.hits = @ + 1]

LEMMA WithinIsFinite ==
  ASSUME NEW at, NEW W, NEW t, IsFiniteSet({r \in Requests : at[r] # Never})
  PROVE  IsFiniteSet(Within(at, W, t)) /\ Cardinality(Within(at, W, t)) \in Nat
<1>1. Within(at, W, t) \in SUBSET {r \in Requests : at[r] # Never}
  BY DEF Within
<1> QED
  BY <1>1, FS_Subset, FS_CardinalityType

\* A subset has no more elements.
LEMMA FewerWithin ==
  ASSUME NEW S, NEW T, IsFiniteSet(T), S \subseteq T
  PROVE  Cardinality(S) <= Cardinality(T)
BY FS_Subset

LEMMA LaterKeepsWindow ==
  ASSUME NEW at \in [Requests -> Int], NEW w \in Window, NEW W \in Nat, NEW L \in Nat,
         NEW t \in Int, NEW u \in Int, t <= u, WindowInv(at, w, W, L, t)
  PROVE  WindowInv(at, w, W, L, u)
BY DEF WindowInv, Window

\* A refused request is counted, and the limit has been used.
LEMMA RefusalKeepsWindow ==
  ASSUME NEW at \in [Requests -> Int], NEW w \in Window, NEW W \in Nat \ {0}, NEW L \in Nat,
         NEW t \in Int, WindowInv(at, w, W, L, t), CountedIn(w, W, t).hits > L
  PROVE  /\ WindowInv(at, CountedIn(w, W, t), W, L, t)
         /\ Cardinality(Within(at, W, t)) >= L
<1> DEFINE n == CountedIn(w, W, t)
<1>1. IsFiniteSet({r \in Requests : at[r] # Never})
  BY DEF WindowInv
<1>2. \A u \in Int : IsFiniteSet(Within(at, W, u)) /\ Cardinality(Within(at, W, u)) \in Nat
  BY <1>1, WithinIsFinite
<1>3. CASE w.reset <= t
  <2>1. n = [hits |-> 1, reset |-> t + W] /\ L = 0
    BY <1>3 DEF CountedIn
  <2>2. \A u \in Int : Cardinality(Within(at, W, u)) = 0
    BY <1>2, <2>1 DEF WindowInv
  <2>3. n.reset - 1 \in Int /\ n.reset - 1 - W \in Int /\ n.reset - W = t
    BY <2>1
  <2> QED
    BY <2>1, <2>2, <2>3 DEF WindowInv, Window
<1>4. CASE ~(w.reset <= t)
  <2>1. n = [w EXCEPT !.hits = w.hits + 1]
    BY <1>4 DEF CountedIn
  <2>2. n.hits = w.hits + 1 /\ n.reset = w.reset
    BY <2>1 DEF Window
  <2>3. Cardinality(Within(at, W, w.reset - 1)) = L
    BY <2>2 DEF WindowInv, Window
  <2>4. Within(at, W, w.reset - 1) \subseteq Within(at, W, t)
    BY <1>4 DEF Within, WindowInv, Window
  <2> HIDE DEF n
  <2>5. Cardinality(Within(at, W, t)) >= L
    BY <1>2, <2>3, <2>4, FewerWithin
  <2>6. n.hits > L
    BY DEF n
  <2>7. WindowInv(at, n, W, L, t)
    BY <2>2, <2>3, <2>6 DEF WindowInv, Window
  <2> QED
    BY <2>5, <2>7 DEF n
<1> QED
  BY <1>3, <1>4

\* A request that passes is counted once, in the present window.
LEMMA PassKeepsWindow ==
  ASSUME NEW at \in [Requests -> Int], NEW w \in Window, NEW W \in Nat \ {0}, NEW L \in Nat,
         NEW t \in Int, WindowInv(at, w, W, L, t), CountedIn(w, W, t).hits <= L,
         NEW r \in Requests, at[r] = Never, t # Never
  PROVE  WindowInv([at EXCEPT ![r] = t], CountedIn(w, W, t), W, L, t)
<1> DEFINE n == CountedIn(w, W, t)
           after == [at EXCEPT ![r] = t]
<1>1. IsFiniteSet({q \in Requests : at[q] # Never})
  BY DEF WindowInv
<1>2. \A u \in Int : IsFiniteSet(Within(at, W, u)) /\ Cardinality(Within(at, W, u)) \in Nat
  BY <1>1, WithinIsFinite
<1>3. after = [at EXCEPT ![r] = t] /\ \A q \in Requests : after[q] = IF q = r THEN t ELSE at[q]
  OBVIOUS
<1> HIDE DEF after
<1>4. IsFiniteSet({q \in Requests : after[q] # Never})
  <2>1. {q \in Requests : after[q] # Never} = {q \in Requests : at[q] # Never} \cup {r}
    BY <1>3
  <2> QED
    BY <1>1, <2>1, FS_AddElement
<1>5. ASSUME NEW u \in Int
       PROVE  Within(after, W, u) =
                IF t \in (u - W + 1)..u THEN Within(at, W, u) \cup {r} ELSE Within(at, W, u)
  BY <1>3 DEF Within
<1>6. \A u \in Int : IsFiniteSet(Within(after, W, u)) /\ Cardinality(Within(after, W, u)) \in Nat
  BY <1>4, WithinIsFinite
<1>7. \A u \in Int : Cardinality(Within(at, W, u) \cup {r}) = Cardinality(Within(at, W, u)) + 1
  <2>1. \A u \in Int : r \notin Within(at, W, u)
    BY DEF Within
  <2> QED
    BY <1>2, <2>1, FS_AddElement
<1>8. /\ n.reset \in Int /\ n.hits \in Nat
      /\ n.reset - W <= t /\ t < n.reset
      /\ \A q \in Requests : at[q] # Never => at[q] <= t /\ at[q] < n.reset
      /\ Cardinality(Within(after, W, n.reset - 1)) = n.hits
      /\ Cardinality(Within(after, W, n.reset - 1 - W)) <= L
  <2>1. CASE w.reset <= t
    <3>1. n.hits = 1 /\ n.reset = t + W
      BY <2>1 DEF CountedIn
    <3>2. \A q \in Requests : at[q] # Never => at[q] < w.reset
      BY DEF WindowInv
    <3>3. Within(at, W, n.reset - 1) = {}
      BY <2>1, <3>1, <3>2 DEF Within, Window
    <3> HIDE DEF n
    <3>4. Within(after, W, n.reset - 1) = {r}
      BY <1>5, <3>1, <3>3
    <3>5. Cardinality(Within(after, W, n.reset - 1)) = 1
      BY <3>4, FS_Singleton
    <3>6. n.reset - 1 - W = t - 1 /\ Within(after, W, t - 1) = Within(at, W, t - 1)
      BY <1>5, <3>1
    <3>7. Within(at, W, t - 1) \subseteq Within(at, W, w.reset - 1)
      BY <2>1, <3>2 DEF Within, WindowInv, Window
    <3>8. Cardinality(Within(at, W, w.reset - 1)) <= L
      BY DEF WindowInv, Window
    <3>9. w.reset - 1 \in Int /\ t - 1 \in Int
      BY DEF Window
    <3>10. Cardinality(Within(at, W, t - 1)) <= L
      BY <1>2, <3>7, <3>8, <3>9, FewerWithin
    <3> QED
      BY <2>1, <3>1, <3>2, <3>5, <3>6, <3>10 DEF WindowInv, Window
  <2>2. CASE ~(w.reset <= t)
    <3>1. n = [w EXCEPT !.hits = w.hits + 1]
      BY <2>2 DEF CountedIn
    <3>2. n.hits = w.hits + 1 /\ n.reset = w.reset
      BY <3>1 DEF Window
    <3> HIDE DEF n
    <3>3. w.reset \in Int /\ w.hits \in Nat /\ w.reset - W <= t
      BY DEF WindowInv, Window
    <3>4. Cardinality(Within(at, W, w.reset - 1)) = w.hits
      BY <3>2, <3>3 DEF WindowInv, n
    <3>5. Within(after, W, w.reset - 1) = Within(at, W, w.reset - 1) \cup {r}
      BY <1>5, <2>2, <3>3
    <3>6. Within(after, W, w.reset - 1 - W) = Within(at, W, w.reset - 1 - W)
      BY <1>5, <3>3
    <3>7. Cardinality(Within(after, W, w.reset - 1)) = w.hits + 1
      BY <1>7, <3>3, <3>4, <3>5
    <3> QED
      BY <2>2, <3>2, <3>3, <3>6, <3>7 DEF WindowInv
  <2> QED
    BY <2>1, <2>2
<1> HIDE DEF n
<1>9. ASSUME NEW u \in Int PROVE Cardinality(Within(after, W, u)) <= 2 * L
  <2>1. CASE u < t
    BY <1>5, <2>1 DEF WindowInv
  <2>2. CASE t <= u
    <3> DEFINE present == Within(after, W, n.reset - 1)
               before == Within(after, W, n.reset - 1 - W)
    <3>1. Within(after, W, u) \subseteq present \cup before
      BY <1>3, <1>8, <2>2 DEF Within
    <3>2. IsFiniteSet(present) /\ IsFiniteSet(before)
      BY <1>6, <1>8
    <3> HIDE DEF present, before
    <3>3. /\ IsFiniteSet(present \cup before)
          /\ Cardinality(present \cup before) <= Cardinality(present) + Cardinality(before)
      <4>1. Cardinality(present \cap before) \in Nat /\ Cardinality(present) \in Nat
            /\ Cardinality(before) \in Nat
        BY <3>2, FS_Intersection, FS_CardinalityType
      <4>2. /\ IsFiniteSet(present \cup before)
            /\ Cardinality(present \cup before) =
                 Cardinality(present) + Cardinality(before) - Cardinality(present \cap before)
        BY <3>2, FS_Union
      <4> QED
        BY <4>1, <4>2
    <3>4. Cardinality(present) <= L /\ Cardinality(before) <= L
      BY <1>8 DEF present, before, n
    <3>5. Cardinality(Within(after, W, u)) <= Cardinality(present \cup before)
      BY <3>1, <3>3, FewerWithin
    <3>6. /\ Cardinality(present \cup before) \in Nat /\ Cardinality(present) \in Nat
          /\ Cardinality(before) \in Nat
      BY <3>2, <3>3, FS_CardinalityType
    <3> QED
      BY <1>6, <3>3, <3>4, <3>5, <3>6
  <2> QED
    BY <2>1, <2>2
<1>10. n.hits <= L
  BY DEF n
<1>11. \A q \in Requests : after[q] # Never => after[q] <= t /\ after[q] < n.reset
  BY <1>3, <1>8
<1>12. WindowInv(after, n, W, L, t)
  BY <1>4, <1>8, <1>9, <1>10, <1>11 DEF WindowInv
<1> QED
  BY <1>12 DEF n, after

----------------------------------------------------------------------------
(* What the gateways keep of each client and limiter.                      *)

PassedAt(l, c) ==
    [r \in Requests |-> IF gate[r].client = c THEN gate[r].passed[l] ELSE Never]

WindowsInv ==
    \A l \in Limiters, c \in Clients :
       WindowInv(PassedAt(l, c), window[l][c], WindowMs[l], Limit[l], now)

\* No limiter counts a request twice.
CountedOnce ==
    \A r \in Requests :
       /\ gate[r].pc = "unmade" => gate[r] = Unsent
       /\ gate[r].pc = "counted" =>
             gate[r].passed["auth"] = Never /\ gate[r].refused["auth"] = Never

RefusedClients ==
    \A r \in Requests, l \in Limiters : gate[r].refused[l] # Never => gate[r].client \in Clients

LimiterInv == WindowsInv /\ CountedOnce /\ RefusedClients /\ RefusedOnlyAtLimit

LEMMA PassedBeforeIsWithin ==
  ASSUME NEW l \in Limiters, NEW c, NEW t, c \in Clients
  PROVE  PassedBefore(l, c, t) = Within(PassedAt(l, c), WindowMs[l], t)
BY DEF PassedBefore, Within, PassedAt

LEMMA PassedAtType ==
  ASSUME GateInv, NEW l \in Limiters, NEW c \in Clients
  PROVE  PassedAt(l, c) \in [Requests -> Int]
<1>1. gate \in [Requests -> GateType]
  BY GatewayTypeParts DEF GateInv
<1>2. \A r \in Requests : gate[r].passed[l] \in Int /\ Never \in Int
  BY <1>1, CacheBoundAssumption DEF GateType, Never
<1> QED
  BY <1>2 DEF PassedAt

\* A step that no limiter counts.
LEMMA UncountedKeepsInv ==
  ASSUME GateInv, LimiterInv, now \in Int, now' \in Int, now <= now', UNCHANGED window,
         \A r \in Requests : /\ gate'[r].client = gate[r].client
                             /\ gate'[r].passed = gate[r].passed
                             /\ gate'[r].refused = gate[r].refused
                             /\ gate'[r].pc = "unmade" => gate'[r] = gate[r]
                             /\ gate'[r].pc = "counted" => gate[r].pc = "counted"
  PROVE  LimiterInv'
<1>1. \A l \in Limiters, c \in Clients : PassedAt(l, c)' = PassedAt(l, c)
  BY DEF PassedAt
<1>2. ASSUME NEW l \in Limiters, NEW c \in Clients
      PROVE  WindowInv(PassedAt(l, c), window[l][c], WindowMs[l], Limit[l], now')
  <2>1. PassedAt(l, c) \in [Requests -> Int] /\ window[l][c] \in Window
    BY PassedAtType DEF GateInv, GatewayTypeOK, WindowTypeOK
  <2>2. WindowInv(PassedAt(l, c), window[l][c], WindowMs[l], Limit[l], now)
    BY DEF LimiterInv, WindowsInv
  <2> QED
    BY <2>1, <2>2, LaterKeepsWindow, LimitAssumption
<1>3. WindowsInv'
  BY <1>1, <1>2 DEF WindowsInv
<1>4. CountedOnce' /\ RefusedClients'
  BY DEF LimiterInv, CountedOnce, RefusedClients, Unsent
<1>5. RefusedOnlyAtLimit'
  <2>1. \A l \in Limiters : \A c, t : PassedBefore(l, c, t)' = PassedBefore(l, c, t)
    BY DEF PassedBefore
  <2> QED
    BY <2>1 DEF LimiterInv, RefusedOnlyAtLimit
<1> QED
  BY <1>3, <1>4, <1>5 DEF LimiterInv

NotYetCounted(r) ==
    \A l \in Limiters : gate[r].passed[l] = Never /\ gate[r].refused[l] = Never

\* A step in which limiter l counts a request of client c.
LEMMA CountKeepsInv ==
  ASSUME GateInv, LimiterInv, now \in Int, now >= StartTime, now' = now,
         NEW l \in Limiters, NEW c \in Clients, Hit(l, c, now),
         NEW r \in Requests, NEW g, gate' = [gate EXCEPT ![r] = g],
         gate[r].passed[l] = Never, gate[r].refused[l] = Never,
         g.client = c, g.pc # "unmade",
         g.pc = "counted" => g.passed["auth"] = Never /\ g.refused["auth"] = Never,
         \A k \in Limiters \ {l} : /\ g.passed[k] = gate[r].passed[k]
                                   /\ g.refused[k] = gate[r].refused[k],
         gate[r].client = c \/ NotYetCounted(r),
         IF Passes(l, c, now) THEN g.passed[l] = now /\ g.refused[l] = Never
                              ELSE g.passed[l] = Never /\ g.refused[l] = now
  PROVE  LimiterInv'
<1>1. /\ gate \in [Requests -> GateType]
      /\ \A k \in Limiters, d \in Clients : window[k][d] \in Window
      /\ window \in [Limiters -> [Clients -> Window]]
  BY GatewayTypeParts DEF GateInv, WindowTypeOK
<1>2. \A q \in Requests : gate'[q] = IF q = r THEN g ELSE gate[q]
  BY <1>1
<1>3. /\ \A k \in Limiters, d \in Clients : k # l \/ d # c => window'[k][d] = window[k][d]
      /\ window'[l][c] = CountedIn(window[l][c], WindowMs[l], now)
  BY <1>1 DEF Hit, Counted, CountedIn
<1>4. \A k \in Limiters, d \in Clients :
         k # l \/ d # c => PassedAt(k, d)' = PassedAt(k, d)
  <2> SUFFICES ASSUME NEW k \in Limiters, NEW d \in Clients, k # l \/ d # c
               PROVE  PassedAt(k, d)' = PassedAt(k, d)
    OBVIOUS
  <2>1. ASSUME NEW q \in Requests
        PROVE  (IF gate'[q].client = d THEN gate'[q].passed[k] ELSE Never) =
               (IF gate[q].client = d THEN gate[q].passed[k] ELSE Never)
    BY <1>2 DEF NotYetCounted
  <2> QED
    BY <2>1 DEF PassedAt
<1>5. /\ PassedAt(l, c)[r] = Never
      /\ PassedAt(l, c)' = IF Passes(l, c, now) THEN [PassedAt(l, c) EXCEPT ![r] = now]
                                                ELSE PassedAt(l, c)
  BY <1>2 DEF PassedAt
<1>6. /\ PassedAt(l, c) \in [Requests -> Int]
      /\ WindowInv(PassedAt(l, c), window[l][c], WindowMs[l], Limit[l], now)
      /\ WindowMs[l] \in Nat \ {0} /\ Limit[l] \in Nat
  BY PassedAtType, LimitAssumption DEF LimiterInv, WindowsInv
<1>7. CountedIn(window[l][c], WindowMs[l], now).hits \in Nat
  BY <1>1, <1>6 DEF CountedIn, Window
<1>8. Passes(l, c, now) <=> CountedIn(window[l][c], WindowMs[l], now).hits <= Limit[l]
  BY DEF Passes, Counted, CountedIn
<1>9. now # Never
  BY CacheBoundAssumption DEF Never
<1>10. /\ WindowInv(PassedAt(l, c)', window'[l][c], WindowMs[l], Limit[l], now)
       /\ ~Passes(l, c, now) => Cardinality(Within(PassedAt(l, c), WindowMs[l], now)) >= Limit[l]
  <2>1. CASE Passes(l, c, now)
    <3>1. PassedAt(l, c)[r] = Never /\ window[l][c] \in Window
      BY <1>1, <1>5
    <3>2. CountedIn(window[l][c], WindowMs[l], now).hits <= Limit[l]
      BY <1>8, <2>1
    <3>3. WindowInv([PassedAt(l, c) EXCEPT ![r] = now], CountedIn(window[l][c], WindowMs[l], now),
                    WindowMs[l], Limit[l], now)
      BY <1>6, <1>9, <3>1, <3>2, PassKeepsWindow
    <3> QED
      BY <1>3, <1>5, <2>1, <3>3
  <2>2. CASE ~Passes(l, c, now)
    <3>1. window[l][c] \in Window
      BY <1>1
    <3>2. CountedIn(window[l][c], WindowMs[l], now).hits > Limit[l]
      BY <1>6, <1>7, <1>8, <2>2
    <3>3. /\ WindowInv(PassedAt(l, c), CountedIn(window[l][c], WindowMs[l], now),
                       WindowMs[l], Limit[l], now)
          /\ Cardinality(Within(PassedAt(l, c), WindowMs[l], now)) >= Limit[l]
      BY <1>6, <3>1, <3>2, RefusalKeepsWindow
    <3> QED
      BY <1>3, <1>5, <2>2, <3>3
  <2> QED
    BY <2>1, <2>2
<1>11. WindowsInv'
  <2> SUFFICES ASSUME NEW k \in Limiters, NEW d \in Clients
               PROVE  WindowInv(PassedAt(k, d)', window'[k][d], WindowMs[k], Limit[k], now)
    BY DEF WindowsInv
  <2>1. CASE k = l /\ d = c
    BY <1>10, <2>1
  <2>2. CASE k # l \/ d # c
    BY <1>3, <1>4, <2>2 DEF LimiterInv, WindowsInv
  <2> QED
    BY <2>1, <2>2
<1>12. CountedOnce' /\ RefusedClients'
  BY <1>2 DEF LimiterInv, CountedOnce, RefusedClients, NotYetCounted
<1>13. ASSUME NEW k \in Limiters, NEW d \in Clients, NEW t
       PROVE  Cardinality(PassedBefore(k, d, t)) <= Cardinality(PassedBefore(k, d, t)')
  <2>1. PassedBefore(k, d, t) \subseteq PassedBefore(k, d, t)'
    BY <1>2 DEF PassedBefore, NotYetCounted
  <2>2. IsFiniteSet({q \in Requests : PassedAt(k, d)'[q] # Never})
    BY <1>11 DEF WindowsInv, WindowInv
  <2>3. PassedBefore(k, d, t)' \in SUBSET {q \in Requests : PassedAt(k, d)'[q] # Never}
    BY DEF PassedBefore, PassedAt
  <2>4. IsFiniteSet(PassedBefore(k, d, t)')
    BY <2>2, <2>3, FS_Subset
  <2> QED
    BY <2>1, <2>4, FewerWithin
<1>14. RefusedOnlyAtLimit'
  <2> SUFFICES ASSUME NEW q \in Requests, NEW k \in Limiters, gate'[q].refused[k] # Never,
                      NEW d, d = gate'[q].client, NEW t, t = gate'[q].refused[k]
               PROVE  Cardinality(PassedBefore(k, d, t)') >= Limit[k]
    BY DEF RefusedOnlyAtLimit, PassedBefore
  <2>1. CASE q = r /\ k = l
    <3>1. ~Passes(l, c, now) /\ d = c /\ t = now
      BY <1>2, <2>1
    <3>2. PassedBefore(l, d, t)' = Within(PassedAt(l, c)', WindowMs[l], t)
      BY <3>1 DEF PassedBefore, Within, PassedAt
    <3>3. PassedAt(l, c)' = PassedAt(l, c)
      BY <1>5, <3>1
    <3> QED
      BY <1>10, <2>1, <3>1, <3>2, <3>3
  <2>2. CASE ~(q = r /\ k = l)
    <3>1. gate[q].refused[k] = t /\ gate[q].client = d /\ t # Never
      BY <1>2, <2>2 DEF NotYetCounted
    <3>2. d \in Clients /\ Cardinality(PassedBefore(k, d, t)) >= Limit[k]
      BY <3>1 DEF LimiterInv, RefusedClients, RefusedOnlyAtLimit
    <3>3. Cardinality(PassedBefore(k, d, t)) <= Cardinality(PassedBefore(k, d, t)')
      BY <1>13, <3>2
    <3>4. /\ Cardinality(PassedBefore(k, d, t)) \in Nat
          /\ Cardinality(PassedBefore(k, d, t)') \in Nat
      <4>1. IsFiniteSet({u \in Requests : PassedAt(k, d)[u] # Never})
        BY <3>2 DEF LimiterInv, WindowsInv, WindowInv
      <4>2. IsFiniteSet({u \in Requests : PassedAt(k, d)'[u] # Never})
        BY <1>11, <3>2 DEF WindowsInv, WindowInv
      <4>3. /\ PassedBefore(k, d, t) = Within(PassedAt(k, d), WindowMs[k], t)
            /\ PassedBefore(k, d, t)' = Within(PassedAt(k, d)', WindowMs[k], t)
        BY DEF PassedBefore, Within, PassedAt
      <4> QED
        BY <4>1, <4>2, <4>3, WithinIsFinite
    <3> QED
      BY <3>2, <3>3, <3>4, LimitAssumption
  <2> QED
    BY <2>1, <2>2
<1> QED
  BY <1>11, <1>12, <1>14 DEF LimiterInv

----------------------------------------------------------------------------
LEMMA LimiterInitInv == GatewaysInit => LimiterInv
<1> SUFFICES ASSUME GatewaysInit PROVE LimiterInv
  OBVIOUS
<1>1. \A r \in Requests : /\ gate[r] = Unsent
                          /\ \A l \in Limiters : /\ gate[r].passed[l] = Never
                                                 /\ gate[r].refused[l] = Never
  BY DEF GatewaysInit, Unsent, AtNoTime
<1>2. ASSUME NEW l \in Limiters, NEW c \in Clients
      PROVE  WindowInv(PassedAt(l, c), window[l][c], WindowMs[l], Limit[l], now)
  <2>1. \A r \in Requests : PassedAt(l, c)[r] = Never
    BY <1>1 DEF PassedAt
  <2>2. \A t : Within(PassedAt(l, c), WindowMs[l], t) = {}
    BY <2>1 DEF Within
  <2>3. {r \in Requests : PassedAt(l, c)[r] # Never} = {}
    BY <2>1
  <2>4. window[l][c] = [hits |-> 0, reset |-> StartTime] /\ now = StartTime
    BY DEF GatewaysInit, WindowInit, NoWindow, Init, CacheInit
  <2>5. window[l][c].hits = 0 /\ window[l][c].reset = StartTime
    BY <2>4
  <2>6. StartTime - WindowMs[l] <= now /\ 0 <= Limit[l] /\ 0 <= 2 * Limit[l]
    BY <2>4, LimitAssumption, CacheBoundAssumption
  <2>7. IsFiniteSet({}) /\ Cardinality({}) = 0
    BY FS_EmptySet
  <2> QED
    BY <2>1, <2>2, <2>3, <2>5, <2>6, <2>7 DEF WindowInv
<1>3. CountedOnce /\ RefusedClients /\ RefusedOnlyAtLimit
  BY <1>1, UnsentType DEF CountedOnce, RefusedClients, RefusedOnlyAtLimit
<1> QED
  BY <1>2, <1>3 DEF LimiterInv, WindowsInv

LEMMA ApiLimitedKeepsLimits ==
  ASSUME GateInv, LimiterInv, TypeOK, NEW r \in Requests, NEW c \in Clients, NEW m \in Sent,
         ApiLimited(r, c, m)
  PROVE  LimiterInv'
<1> DEFINE g == IF Passes("api", c, now)
                THEN [Unsent EXCEPT !.pc = "counted", !.client = c, !.sent = m, !.passed["api"] = now]
                ELSE [Answered(Unsent, "429") EXCEPT !.client = c, !.refused["api"] = now]
<1>1. /\ Hit("api", c, now) /\ gate' = [gate EXCEPT ![r] = g]
      /\ UNCHANGED vars
      /\ gate[r] = Unsent
  BY DEF ApiLimited, LimiterInv, CountedOnce
<1>2. /\ "api" \in Limiters /\ "auth" \in Limiters
      /\ now \in Int /\ now >= StartTime /\ now' = now
  BY <1>1, CacheBoundAssumption DEF Limiters, TypeOK, CacheTypeOK, vars
<1>3. NotYetCounted(r)
  BY <1>1 DEF NotYetCounted, Unsent, AtNoTime
<1>4. /\ g.client = c /\ g.pc # "unmade"
      /\ g.passed["auth"] = Never /\ g.refused["auth"] = Never
      /\ IF Passes("api", c, now) THEN g.passed["api"] = now /\ g.refused["api"] = Never
                                  ELSE g.passed["api"] = Never /\ g.refused["api"] = now
  BY DEF Unsent, AtNoTime, Answered, Limiters
<1> HIDE DEF g
<1>5. \A k \in Limiters \ {"api"} : /\ g.passed[k] = gate[r].passed[k]
                                   /\ g.refused[k] = gate[r].refused[k]
  BY <1>2, <1>3, <1>4 DEF Limiters, NotYetCounted
<1>6. gate[r].passed["api"] = Never /\ gate[r].refused["api"] = Never
  BY <1>2, <1>3 DEF NotYetCounted
<1>7. Hit("api", c, now) /\ gate' = [gate EXCEPT ![r] = g]
  BY <1>1
<1> QED
  BY <1>2, <1>3, <1>4, <1>5, <1>6, <1>7, CountKeepsInv

LEMMA AuthLimitedKeepsLimits ==
  ASSUME GateInv, LimiterInv, TypeOK, NEW r \in Requests, AuthLimited(r)
  PROVE  LimiterInv'
<1> DEFINE c == gate[r].client
           g == IF Passes("auth", c, now)
                THEN [Answered(gate[r], "404") EXCEPT !.passed["auth"] = now]
                ELSE [Answered(gate[r], "429") EXCEPT !.refused["auth"] = now]
<1>1. /\ Hit("auth", c, now) /\ gate' = [gate EXCEPT ![r] = g]
      /\ UNCHANGED vars /\ gate[r].pc = "counted"
      /\ gate[r] \in GateType
  BY GatewayTypeParts DEF AuthLimited, At, GateInv
<1>2. /\ "api" \in Limiters /\ "auth" \in Limiters /\ c \in Clients
      /\ now \in Int /\ now >= StartTime /\ now' = now
  BY <1>1, CacheBoundAssumption
  DEF Limiters, TypeOK, CacheTypeOK, vars, GateInv, CountedWereSent
<1>3. gate[r].passed["auth"] = Never /\ gate[r].refused["auth"] = Never
  BY <1>1 DEF LimiterInv, CountedOnce
<1>4. /\ g.client = c /\ g.pc = "answered"
      /\ g.passed["api"] = gate[r].passed["api"] /\ g.refused["api"] = gate[r].refused["api"]
      /\ IF Passes("auth", c, now) THEN g.passed["auth"] = now /\ g.refused["auth"] = Never
                                   ELSE g.passed["auth"] = Never /\ g.refused["auth"] = now
  BY <1>1, <1>3 DEF GateType, Answered, Limiters
<1> HIDE DEF g
<1>5. \A k \in Limiters \ {"auth"} : /\ g.passed[k] = gate[r].passed[k]
                                    /\ g.refused[k] = gate[r].refused[k]
  BY <1>4 DEF Limiters
<1>6. g.pc # "unmade" /\ g.pc # "counted"
  BY <1>4
<1> QED
  BY <1>1, <1>2, <1>3, <1>4, <1>5, <1>6, CountKeepsInv

LEMMA LimiterNextInv ==
  ASSUME IInv, GateInv, LimiterInv, [GatewaysNext]_gatewayVars
  PROVE  LimiterInv'
<1>1. TypeOK /\ now \in Int /\ gate \in [Requests -> GateType]
  BY GatewayTypeParts, CacheBoundAssumption DEF IInv, TypeOK, CacheTypeOK, GateInv
<1>2. ASSUME NEW r \in Requests, NEW a, Answer(r, a), UNCHANGED window PROVE LimiterInv'
  <2>1. gate' = [gate EXCEPT ![r] = Answered(gate[r], a)] /\ now' = now
    BY <1>2 DEF Answer, vars
  <2> QED
    BY <1>1, <1>2, <2>1, UncountedKeepsInv DEF Answered, GateType
<1>3. ASSUME NEW r \in Requests, MqttMessage(r) \/ Executed(r) PROVE LimiterInv'
  <2>1. now' = now /\ UNCHANGED window
    BY <1>3 DEF MqttMessage, Executed, Execute, Reject, AnswerFromCache, CallAdapter,
                AdapterThrows, vars
  <2>2. PICK g \in {[gate[r] EXCEPT !.pc = "ignored"],
                    [gate[r] EXCEPT !.pc = "executing", !.sent = NoSent]} :
          gate' = [gate EXCEPT ![r] = g]
    BY <1>1, <1>3 DEF MqttMessage, Executed
  <2>3. /\ g.client = gate[r].client /\ g.passed = gate[r].passed
        /\ g.refused = gate[r].refused /\ g.pc \in {"ignored", "executing"}
    BY <1>1, <2>2 DEF GateType
  <2>4. \A q \in Requests : gate'[q] = IF q = r THEN g ELSE gate[q]
    BY <1>1, <2>2
  <2> QED
    BY <1>1, <2>1, <2>3, <2>4, UncountedKeepsInv
<1>4. CASE InterpreterStep \/ UNCHANGED gatewayVars
  <2>1. UNCHANGED <<window, gate>> /\ now' \in {now, now + 1}
    BY <1>4 DEF InterpreterStep, gatewayVars, TimePasses, Tick, BackendReply, BackendReads,
                BackendWrites, BackendFails, Resume, ResumeWithResult, ResumeWithError
  <2> QED
    BY <1>1, <2>1, UncountedKeepsInv
<1>5. ASSUME NEW r \in Requests, Arrival(r) PROVE LimiterInv'
  BY <1>1, <1>2, <1>3, <1>5, ApiLimitedKeepsLimits
  DEF Arrival, MalformedBody, GrpcCall, WebSocketMessage
<1>6. ASSUME NEW r \in Requests, RestStep(r) PROVE LimiterInv'
  BY <1>1, <1>2, <1>3, <1>6, AuthLimitedKeepsLimits
  DEF RestStep, Health, NotExecuted, RestAnswers
<1> QED
  BY <1>4, <1>5, <1>6 DEF GatewaysNext

LEMMA LimiterInvariant == GatewaysSpec => []LimiterInv
<1>1. GatewaysInit => LimiterInv
  BY LimiterInitInv
<1>2. IInv /\ GateInv /\ LimiterInv /\ [GatewaysNext]_gatewayVars => LimiterInv'
  BY LimiterNextInv
<1> QED
  BY <1>1, <1>2, GatewaysInvariant, PTL DEF GatewaysSpec

(* However a client times its requests, no stretch of a window's length    *)
(* sees more than twice the limit pass (LimitsAreKept; rateLimiter.js:7-34)*)
THEOREM LimitsHold == GatewaysSpec => []LimitsAreKept
<1>1. LimiterInv => LimitsAreKept
  <2> SUFFICES ASSUME LimiterInv, NEW l \in Limiters, NEW c \in Clients,
                      NEW t \in StartTime..MaxTime
               PROVE  Cardinality(PassedBefore(l, c, t)) <= 2 * Limit[l]
    BY DEF LimitsAreKept
  <2>1. t \in Int
    BY CacheBoundAssumption
  <2>2. PassedBefore(l, c, t) = Within(PassedAt(l, c), WindowMs[l], t)
    BY PassedBeforeIsWithin
  <2>3. WindowInv(PassedAt(l, c), window[l][c], WindowMs[l], Limit[l], now)
    BY DEF LimiterInv, WindowsInv
  <2> QED
    BY <2>1, <2>2, <2>3 DEF WindowInv
<1> QED
  BY <1>1, LimiterInvariant, PTL

(* Whoever is refused has used the limit himself, within the last window   *)
(* (RefusedOnlyAtLimit; rateLimiter.js:10-14).                             *)
THEOREM RefusalsAreEarned == GatewaysSpec => []RefusedOnlyAtLimit
<1>1. LimiterInv => RefusedOnlyAtLimit
  BY DEF LimiterInv
<1> QED
  BY <1>1, LimiterInvariant, PTL
=============================================================================
