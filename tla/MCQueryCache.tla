---------------------------- MODULE MCQueryCache ----------------------------
(* Instances of the query cache for TLC.                                   *)
EXTENDS QueryCache

Number(ms) == [form |-> "number", ms |-> ms, scale |-> 1]
Digits(ms, scale) == [form |-> "digits", ms |-> ms, scale |-> scale]
Other == [form |-> "other", ms |-> 0, scale |-> 1]

(* One that is gone at the next tick, one that outlives it, one of digits, *)
(* one that is neither.                                                    *)
MixedTtls == {Number(0), Number(1), Digits(0, 10), Other}
OneTtl == {Number(5)}
=============================================================================
