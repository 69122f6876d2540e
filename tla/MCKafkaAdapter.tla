--------------------------- MODULE MCKafkaAdapter ---------------------------
(* Instances of the Kafka adapter for TLC.                                 *)
EXTENDS KafkaAdapter

CONSTANTS p1, p2

Filters == {NoWhere, [form |-> "fields", payload |-> p1], [form |-> "ast", payload |-> p1]}

\* What the interpreter sends for SELECT ... WHERE.
AstFilter == {[form |-> "ast", payload |-> p1]}
=============================================================================
