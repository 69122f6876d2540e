----------------------------- MODULE LossyMemo ------------------------------
(***************************************************************************)
(* What the query cache promises, without saying how: a memo of values by  *)
(* key. It answers only with the last value remembered under the key and   *)
(* only until its expiry; it may forget one other key each time it         *)
(* remembers something while holding MaxSize of them or more, and an       *)
(* expired key whenever somebody looks. Nothing else is ever lost.         *)
(***************************************************************************)
EXTENDS Integers, FiniteSets

CONSTANTS Keys, Values, MaxSize, Ttls, StartTime, MaxTime

\* When what was remembered at time t stops being answered.
CONSTANT Expiry(_, _)

VARIABLES now, memo

memoVars == <<now, memo>>

MemoInit == now = StartTime /\ memo = <<>>

Crowded == Cardinality(DOMAIN memo) >= MaxSize

Remember(k, v, ttl) ==
    \E lost \in SUBSET DOMAIN memo :
       /\ Cardinality(lost) <= 1
       /\ lost # {} => Crowded
       /\ memo' = [j \in (DOMAIN memo \ lost) \cup {k} |->
                      IF j = k THEN [value |-> v, expiry |-> Expiry(now, ttl)]
                               ELSE memo[j]]
       /\ UNCHANGED now

ForgetExpired(k) ==
    /\ k \in DOMAIN memo
    /\ now > memo[k].expiry
    /\ memo' = [j \in DOMAIN memo \ {k} |-> memo[j]]
    /\ UNCHANGED now

ForgetAll ==
    /\ memo' = <<>>
    /\ UNCHANGED now

TimePasses ==
    /\ now < MaxTime
    /\ now' = now + 1
    /\ UNCHANGED memo

MemoNext ==
    \/ \E k \in Keys, v \in Values, ttl \in Ttls : Remember(k, v, ttl)
    \/ \E k \in Keys : ForgetExpired(k)
    \/ ForgetAll
    \/ TimePasses

MemoSpec == MemoInit /\ [][MemoNext]_memoVars
=============================================================================
