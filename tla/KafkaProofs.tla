---------------------------- MODULE KafkaProofs -----------------------------
(***************************************************************************)
(* Proofs about the Kafka adapter, for every set of calls, topics, payloads*)
(* and filters and any number of messages.                                 *)
(***************************************************************************)
EXTENDS KafkaAdapter, SequenceTheorems, TLAPS

CallType ==
    [pc: {"idle", "sending", "subscribing", "listening", "done", "failed"},
     topic: Topics \cup {NoMessage},
     where: Wheres \cup {NoWhere},
     since: Nat,
     answer: Message \cup {NoMessage}]

(***************************************************************************)
(* The inductive invariant, beside the types: a listener was added at a    *)
(* place the consumer has reached, calls on their way name a topic, and the*)
(* consumer's topics were asked for by SELECTs that have made their call,  *)
(* whose topics do not change any more.                                    *)
(***************************************************************************)
AnsweredByFirst(c) ==
    /\ call[c].pc = "listening" => Taken(c) = {}
    /\ call[c].pc = "done" =>
          \E i \in Taken(c) :
             /\ call[c].answer = delivered[i]
             /\ \A j \in Taken(c) : i <= j

Placed(c) == call[c].since <= Len(delivered)

Named(c) == call[c].pc \in {"sending", "subscribing"} => call[c].topic \in Topics

AskedFor(t) == \E c \in Selects : call[c].pc # "idle" /\ call[c].topic = t

Asked ==
    /\ \A t \in topics : AskedFor(t)
    /\ \A i \in DOMAIN delivered : AskedFor(delivered[i].topic)

KInv ==
    /\ TypeOK
    /\ \A c \in Selects : AnsweredByFirst(c) /\ Placed(c)
    /\ \A c \in Selects \cup Inserts : Named(c)
    /\ Asked

----------------------------------------------------------------------------

LEMMA TypeParts ==
  ASSUME TypeOK
  PROVE  /\ topics \subseteq Topics
         /\ broker \in Seq(Message)
         /\ delivered \in Seq(Message)
         /\ call \in [Selects \cup Inserts -> CallType]
         /\ \A c \in Selects \cup Inserts : call[c] \in CallType
  BY DEF TypeOK, CallType

LEMMA InitInv == Init => KInv
<1> SUFFICES ASSUME Init PROVE KInv
  OBVIOUS
<1>1. Idle \in CallType
  BY DEF Idle, CallType
<1>2. TypeOK
  BY <1>1 DEF Init, TypeOK, CallType
<1>3. \A c \in Selects \cup Inserts : call[c].pc = "idle" /\ call[c].since = 0
  BY DEF Init, Idle
<1>4. topics = {} /\ Len(delivered) = 0 /\ DOMAIN delivered = {}
  BY DEF Init
<1> QED
  BY <1>2, <1>3, <1>4 DEF KInv, AnsweredByFirst, Placed, Named, Asked

(***************************************************************************)
(* A step that delivers nothing, changes one call and answers no SELECT.   *)
(***************************************************************************)
LEMMA OneCallChanges ==
  ASSUME KInv, topics' \subseteq Topics, broker' \in Seq(Message), UNCHANGED delivered,
         NEW c \in Selects \cup Inserts, NEW v \in CallType,
         call' = [call EXCEPT ![c] = v],
         v.pc \in {"sending", "subscribing"} => v.topic \in Topics,
         c \in Selects => /\ v.pc \in {"subscribing", "listening", "failed"}
                          /\ v.since <= Len(delivered)
                          /\ v.pc = "listening" => v.since = Len(delivered)
                          /\ call[c].pc # "idle" => v.topic = call[c].topic,
         \A t \in topics' : t \in topics \/ (c \in Selects /\ t = v.topic)
  PROVE  KInv'
<1> USE TypeParts DEF KInv
<1>1. TypeOK'
  BY DEF TypeOK, CallType
<1>2. \A d \in Selects \cup Inserts : call'[d] = IF d = c THEN v ELSE call[d]
  OBVIOUS
<1>3. ASSUME NEW d \in Selects PROVE AnsweredByFirst(d)' /\ Placed(d)'
  <2>1. CASE d # c
    <3>1. call'[d] = call[d] /\ AnsweredByFirst(d) /\ Placed(d)
      BY <1>2, <2>1
    <3>2. Taken(d)' = Taken(d)
      BY <3>1 DEF Heard, Taken
    <3> QED
      BY <3>1, <3>2 DEF AnsweredByFirst, Placed
  <2>2. CASE d = c
    <3>1. call'[d] = v /\ v.pc # "done" /\ v.since <= Len(delivered)
      BY <1>2, <2>2
    <3>2. ASSUME v.pc = "listening" PROVE Taken(d)' = {}
      <4>1. v.since = Len(delivered) /\ Len(delivered) \in Nat
        BY <3>2, <2>2
      <4>2. Heard(d)' = {}
        BY <4>1, <3>1 DEF Heard
      <4> QED
        BY <4>2 DEF Taken
    <3> QED
      BY <3>1, <3>2 DEF AnsweredByFirst, Placed
  <2> QED
    BY <2>1, <2>2
<1>4. \A d \in Selects \cup Inserts : Named(d)'
  BY <1>2 DEF Named
<1>5. ASSUME NEW t, AskedFor(t) PROVE AskedFor(t)'
  <2>1. PICK d \in Selects : call[d].pc # "idle" /\ call[d].topic = t
    BY <1>5 DEF AskedFor
  <2>2. call'[d].pc # "idle" /\ call'[d].topic = t
    BY <2>1, <1>2
  <2> QED
    BY <2>2 DEF AskedFor
<1>6. ASSUME NEW t \in topics' PROVE AskedFor(t)'
  <2>1. CASE t \in topics
    BY <2>1, <1>5 DEF Asked
  <2>2. CASE c \in Selects /\ t = v.topic
    BY <2>2, <1>2 DEF AskedFor
  <2> QED
    BY <2>1, <2>2
<1>7. \A i \in DOMAIN delivered : AskedFor(delivered[i].topic)'
  BY <1>5 DEF Asked
<1>8. Asked'
  BY <1>6, <1>7 DEF Asked
<1> QED
  BY <1>1, <1>3, <1>4, <1>8

\* What the brokers get keeps their type.
LEMMA BrokerType ==
  ASSUME TypeOK, NEW m \in Message, Arrives(m)
  PROVE  broker' \in Seq(Message)
  BY TypeParts DEF Arrives

LEMMA InsertKeepsInv ==
  ASSUME KInv, NEW c \in Inserts,
         \/ \E t \in Topics : Publish(c, t)
         \/ SendSucceeds(c) \/ SendFails(c) \/ Unsupported(c)
  PROVE  KInv'
<1>1. /\ c \notin Selects
      /\ call[c] \in CallType
      /\ broker \in Seq(Message)
      /\ topics \subseteq Topics
      /\ Named(c)
  BY KafkaAssumption, TypeParts DEF KInv
<1>2. ASSUME NEW t \in Topics, Publish(c, t) PROVE KInv'
  <2> DEFINE v == [call[c] EXCEPT !.pc = "sending", !.topic = t]
  <2>1. v \in CallType /\ v.topic = t
    BY <1>1 DEF CallType
  <2>2. call' = [call EXCEPT ![c] = v]
    BY <1>2 DEF Publish
  <2> HIDE DEF v
  <2> QED
    BY <1>1, <1>2, <2>1, <2>2, OneCallChanges DEF Publish
<1>3. ASSUME NEW pc \in {"done", "failed"},
             call' = [call EXCEPT ![c].pc = pc],
             broker' \in Seq(Message),
             UNCHANGED <<topics, delivered>>
      PROVE  KInv'
  <2> DEFINE v == [call[c] EXCEPT !.pc = pc]
  <2>1. v \in CallType /\ v.pc = pc
    BY <1>1 DEF CallType
  <2>2. call' = [call EXCEPT ![c] = v]
    BY <1>3
  <2> HIDE DEF v
  <2> QED
    BY <1>1, <1>3, <2>1, <2>2, OneCallChanges
<1>4. CASE SendSucceeds(c) \/ SendFails(c) \/ Unsupported(c)
  <2>1. \A p \in Payloads : call[c].pc = "sending" =>
           [topic |-> call[c].topic, payload |-> p, json |-> TRUE] \in Message
    BY <1>1 DEF Named, Message
  <2>2. broker' \in Seq(Message)
    BY <1>1, <1>4, <2>1, BrokerType DEF SendSucceeds, SendFails, Unsupported, KInv
  <2> QED
    BY <1>3, <1>4, <2>2 DEF SendSucceeds, SendFails, Unsupported
<1> QED
  BY <1>2, <1>4

LEMMA SubscribeKeepsInv ==
  ASSUME KInv, NEW c \in Selects, NEW t \in Topics, NEW w \in Wheres, Subscribe(c, t, w)
  PROVE  KInv'
<1> DEFINE v == [call[c] EXCEPT !.pc = "subscribing", !.topic = t, !.where = w]
<1>1. /\ call[c] \in CallType
      /\ broker \in Seq(Message)
      /\ topics \subseteq Topics
      /\ Placed(c)
  BY TypeParts DEF KInv
<1>2. /\ v \in CallType
      /\ v.pc = "subscribing"
      /\ v.topic = t
      /\ v.since = call[c].since
  BY <1>1 DEF CallType
<1>3. call' = [call EXCEPT ![c] = v] /\ call[c].pc = "idle"
  BY DEF Subscribe
<1> HIDE DEF v
<1> QED
  BY <1>1, <1>2, <1>3, OneCallChanges DEF Subscribe, Placed

LEMMA ListenKeepsInv ==
  ASSUME KInv, NEW c \in Selects, Listen(c)
  PROVE  KInv'
<1> DEFINE v == [call[c] EXCEPT !.pc = "listening", !.since = Len(delivered)]
<1>1. /\ call[c] \in CallType
      /\ broker \in Seq(Message)
      /\ topics \subseteq Topics
      /\ Named(c)
      /\ Len(delivered) \in Nat
  BY TypeParts DEF KInv
<1>2. /\ v \in CallType
      /\ v.pc = "listening"
      /\ v.topic = call[c].topic
      /\ v.since = Len(delivered)
  BY <1>1 DEF CallType
<1>3. call' = [call EXCEPT ![c] = v] /\ call[c].topic \in Topics
  BY <1>1 DEF Listen, Named
<1>4. /\ topics' \subseteq Topics
      /\ \A t \in topics' : t \in topics \/ t = call[c].topic
      /\ UNCHANGED <<broker, delivered>>
  BY <1>1, <1>3 DEF Listen
<1> HIDE DEF v
<1>5. c \in Selects \cup Inserts /\ broker' \in Seq(Message) /\ v.since <= Len(delivered)
  BY <1>1, <1>2, <1>4
<1>6. \A t \in topics' : t \in topics \/ (c \in Selects /\ t = v.topic)
  BY <1>2, <1>4
<1> QED
  BY <1>2, <1>3, <1>4, <1>5, <1>6, OneCallChanges

----------------------------------------------------------------------------
(* Delivery: every listener hears the message, and those it settles had    *)
(* heard no other that they take.                                          *)

LEMMA DeliverKeepsInv ==
  ASSUME KInv, NEW t \in Topics, Deliver(t)
  PROVE  KInv'
<1> DEFINE n == Len(delivered)
<1>1. PICK i \in DOMAIN broker :
         /\ broker[i].topic = t
         /\ broker' = SubSeq(broker, 1, i - 1) \o SubSeq(broker, i + 1, Len(broker))
         /\ delivered' = Append(delivered, broker[i])
         /\ call' = [c \in Selects \cup Inserts |->
                       IF Resolved(c, broker[i])
                       THEN [call[c] EXCEPT !.pc = "done", !.answer = broker[i]]
                       ELSE call[c]]
  BY DEF Deliver
<1> DEFINE m == broker[i]
<1>2. /\ broker \in Seq(Message)
      /\ delivered \in Seq(Message)
      /\ \A c \in Selects \cup Inserts : call[c] \in CallType
      /\ t \in topics
      /\ topics' = topics
      /\ topics \subseteq Topics
  <2>1. TypeOK
    BY DEF KInv
  <2> QED
    BY <2>1, TypeParts DEF Deliver
<1>2a. m \in Message
  BY <1>2
<1> HIDE DEF m
<1>2b. delivered' = Append(delivered, m)
  BY <1>1 DEF m
<1>3. /\ n \in Nat
      /\ Len(delivered') = n + 1
      /\ delivered'[n + 1] = m
      /\ \A j \in 1..n : delivered'[j] = delivered[j]
      /\ delivered' \in Seq(Message)
  BY <1>2, <1>2a, <1>2b, AppendProperties
<1>4. broker' \in Seq(Message)
  <2>1. i \in 1..Len(broker) /\ Len(broker) \in Nat /\ \A j \in 1..Len(broker) : broker[j] \in Message
    BY <1>2
  <2>2. SubSeq(broker, 1, i - 1) \in Seq(Message)
    BY <2>1, SubSeqProperties
  <2>3. SubSeq(broker, i + 1, Len(broker)) \in Seq(Message)
    BY <2>1, SubSeqProperties
  <2>4. broker' = SubSeq(broker, 1, i - 1) \o SubSeq(broker, i + 1, Len(broker))
    BY <1>1
  <2> QED
    BY <2>2, <2>3, <2>4, ConcatProperties
<1>5. TypeOK'
  <2>1. \A c \in Selects \cup Inserts : [call[c] EXCEPT !.pc = "done", !.answer = m] \in CallType
    BY <1>2, <1>2a DEF CallType
  <2>2. call' \in [Selects \cup Inserts -> CallType]
    BY <1>1, <1>2, <2>1 DEF m
  <2> QED
    BY <1>2, <1>3, <1>4, <2>2 DEF TypeOK, CallType
<1>6. \A c \in Selects \cup Inserts :
         /\ call'[c].topic = call[c].topic
         /\ call'[c].where = call[c].where
         /\ call'[c].since = call[c].since
         /\ call'[c].pc = IF Resolved(c, m) THEN "done" ELSE call[c].pc
         /\ call'[c].answer = IF Resolved(c, m) THEN m ELSE call[c].answer
  BY <1>1, <1>2 DEF CallType, m
<1>7. ASSUME NEW c \in Selects PROVE AnsweredByFirst(c)'
  <2>1. /\ AnsweredByFirst(c)
        /\ call[c].since \in Nat
        /\ call[c].since <= n
    BY <1>2 DEF KInv, Placed, CallType
  <2>2. Heard(c)' = Heard(c) \cup {n + 1}
    BY <1>3, <1>6, <2>1 DEF Heard
  <2>3. \A j \in Heard(c) : j \in 1..n
    BY <1>3, <2>1 DEF Heard
  <2>4. \A j : j \in Taken(c)' <=> j \in Taken(c) \/ (j = n + 1 /\ matchesFilter(m, call[c].where))
    <3>1. \A j : j \in Taken(c)' <=>
             j \in Heard(c) \cup {n + 1} /\ matchesFilter(delivered'[j], call[c].where)
      BY <1>6, <2>2 DEF Taken, matchesFilter
    <3>2. n + 1 \notin Heard(c)
      BY <1>3, <2>3
    <3>3. \A j \in Heard(c) : delivered'[j] = delivered[j]
      BY <1>3, <2>3
    <3> QED
      BY <3>1, <3>2, <3>3, <1>3 DEF Taken
  <2>5. CASE Resolved(c, m)
    <3>1. call'[c].pc = "done" /\ call'[c].answer = m
      BY <1>6, <2>5
    <3>2. Taken(c)' = {n + 1}
      BY <2>1, <2>4, <2>5 DEF Resolved, AnsweredByFirst
    <3> QED
      BY <1>3, <3>1, <3>2 DEF AnsweredByFirst
  <2>6. CASE ~Resolved(c, m) /\ call[c].pc = "listening"
    <3>1. call'[c].pc = "listening"
      BY <1>6, <2>6
    <3>2. Taken(c)' = {}
      BY <2>1, <2>4, <2>6 DEF Resolved, AnsweredByFirst
    <3> QED
      BY <3>1, <3>2 DEF AnsweredByFirst
  <2>7. CASE ~Resolved(c, m) /\ call[c].pc = "done"
    <3>1. PICK k \in Taken(c) : call[c].answer = delivered[k] /\ \A j \in Taken(c) : k <= j
      BY <2>1, <2>7 DEF AnsweredByFirst
    <3>2. k \in 1..n
      BY <2>3, <3>1 DEF Taken
    <3>3. k \in Taken(c)' /\ \A j : j \in Taken(c)' => k <= j
      <4>1. k <= n + 1
        BY <1>3, <3>2
      <4> QED
        BY <2>4, <3>1, <4>1
    <3>4. call'[c].answer = delivered'[k] /\ call'[c].pc = "done"
      BY <1>3, <1>6, <2>7, <3>1, <3>2
    <3> QED
      BY <3>3, <3>4 DEF AnsweredByFirst
  <2>8. CASE ~Resolved(c, m) /\ call[c].pc \notin {"listening", "done"}
    BY <1>6, <2>8 DEF AnsweredByFirst
  <2> QED
    BY <2>5, <2>6, <2>7, <2>8
<1>8. \A c \in Selects : Placed(c)'
  BY <1>2, <1>3, <1>6 DEF KInv, Placed, CallType
<1>9. \A c \in Selects \cup Inserts : Named(c)'
  BY <1>6 DEF KInv, Named
<1>10. Asked'
  <2> DEFINE AskedStill(u) == \E c \in Selects : call'[c].pc # "idle" /\ call'[c].topic = u
  <2>1. \A u : AskedFor(u) => AskedStill(u)
    BY <1>6 DEF AskedFor
  <2>2. AskedFor(m.topic)
    BY <1>1, <1>2 DEF KInv, Asked, m
  <2>3. \A j \in DOMAIN delivered' : AskedFor(delivered'[j].topic)
    <3>1. \A j \in DOMAIN delivered' : j \in 1..n \/ j = n + 1
      BY <1>3
    <3>2. \A j \in 1..n : AskedFor(delivered[j].topic)
      BY <1>2 DEF KInv, Asked
    <3> QED
      BY <1>3, <2>2, <3>1, <3>2
  <2>4. \A u \in topics' : AskedFor(u)
    BY <1>2 DEF KInv, Asked
  <2>5. /\ \A u \in topics' : AskedStill(u)
        /\ \A j \in DOMAIN delivered' : AskedStill(delivered'[j].topic)
    BY <2>1, <2>3, <2>4
  <2> QED
    BY <2>5 DEF Asked, AskedFor
<1> QED
  BY <1>5, <1>7, <1>8, <1>9, <1>10 DEF KInv

LEMMA OthersKeepInv ==
  ASSUME KInv, OthersPublish
  PROVE  KInv'
<1>1. TypeOK'
  <2>1. broker' \in Seq(Message)
    BY BrokerType DEF OthersPublish, KInv
  <2> QED
    BY <2>1 DEF OthersPublish, KInv, TypeOK
<1>2. UNCHANGED <<topics, delivered, call>>
  BY DEF OthersPublish
<1> QED
  BY <1>1, <1>2 DEF KInv, AnsweredByFirst, Taken, Heard, Placed, Named, Asked, AskedFor

LEMMA NextKeepsInv == KInv /\ [Next]_vars => KInv'
<1> SUFFICES ASSUME KInv, [Next]_vars PROVE KInv'
  OBVIOUS
<1>1. CASE \E c \in Inserts, t \in Topics : Publish(c, t)
  BY <1>1, InsertKeepsInv
<1>2. CASE \E c \in Inserts : SendSucceeds(c) \/ SendFails(c) \/ Unsupported(c)
  BY <1>2, InsertKeepsInv
<1>3. CASE \E c \in Selects, t \in Topics, w \in Wheres : Subscribe(c, t, w)
  BY <1>3, SubscribeKeepsInv
<1>4. CASE \E c \in Selects : Listen(c)
  BY <1>4, ListenKeepsInv
<1>5. CASE \E t \in Topics : Deliver(t)
  BY <1>5, DeliverKeepsInv
<1>6. CASE OthersPublish
  BY <1>6, OthersKeepInv
<1>7. CASE UNCHANGED vars
  BY <1>7 DEF vars, KInv, TypeOK, AnsweredByFirst, Taken, Heard, Placed, Named, Asked, AskedFor
<1> QED
  BY <1>1, <1>2, <1>3, <1>4, <1>5, <1>6, <1>7 DEF Next

LEMMA KafkaInvariant == Spec => []KInv
<1>1. Init => KInv
  BY InitInv
<1>2. KInv /\ [Next]_vars => KInv'
  BY NextKeepsInv
<1> QED
  BY <1>1, <1>2, PTL DEF Spec

----------------------------------------------------------------------------

(* The consumer's topics, its messages and the calls keep their types      *)
(* (kafkaAdapter.js:62-106).                                               *)
THEOREM KafkaTypeCorrect == Spec => []TypeOK
<1>1. KInv => TypeOK
  BY DEF KInv
<1> QED
  BY <1>1, KafkaInvariant, PTL

(* A SELECT is answered by the first message it takes of those the consumer*)
(* got since its listener was added, and never by another, however many    *)
(* listeners there are (kafkaAdapter.js:86-92).                            *)
THEOREM SelectsGetTheirFirstMatch == Spec => []FirstMatchAnswers
<1>1. KInv => FirstMatchAnswers
  BY DEF KInv, AnsweredByFirst, FirstMatchAnswers
<1> QED
  BY <1>1, KafkaInvariant, PTL

(* The consumer gets messages only of topics some SELECT asked for         *)
(* (kafkaAdapter.js:86).                                                   *)
THEOREM ConsumerGetsAskedTopics == Spec => []OnlyAskedTopics
<1>1. KInv => OnlyAskedTopics
  BY DEF KInv, Asked, AskedFor, OnlyAskedTopics
<1> QED
  BY <1>1, KafkaInvariant, PTL

----------------------------------------------------------------------------
(* What the run kafka_where finds comes from the form in which the WHERE   *)
(* arrives and from nothing else.                                          *)

(* Filters that are objects from columns to values are applied: while a    *)
(* SELECT waits it has been passed by no message that has what it asks for *)
(* (WhereIsApplied; kafkaAdapter.js:14-25).                                *)
THEOREM FieldFiltersAreApplied ==
  ASSUME \A w \in Wheres : w = NoWhere \/ w.form = "fields"
  PROVE  Spec => []WhereIsApplied
<1>1. KInv => WhereIsApplied
  <2> SUFFICES ASSUME KInv, NEW c \in Selects, call[c].pc = "listening",
                      call[c].where # NoWhere, NEW i \in Heard(c), delivered[i].json
               PROVE  delivered[i].payload # call[c].where.payload
    BY DEF WhereIsApplied
  <2>1. call[c].where \in Wheres \cup {NoWhere}
    BY DEF KInv, TypeOK
  <2>2. Taken(c) = {}
    BY DEF KInv, AnsweredByFirst
  <2>3. ~matchesFilter(delivered[i], call[c].where)
    BY <2>2 DEF Taken
  <2> QED
    BY <2>1, <2>3 DEF matchesFilter
<1> QED
  BY <1>1, KafkaInvariant, PTL

\* No SELECT whose WHERE is a syntax tree has an answer.
SyntaxTreesGetNothing ==
    \A c \in Selects :
       call[c].where # NoWhere /\ call[c].where.form = "ast" => call[c].pc # "done"

(* A SELECT whose WHERE comes as the interpreter sends it, a syntax tree,  *)
(* is never answered, whatever is published (sqlInterpreter.js:199-201,    *)
(* kafkaAdapter.js:86-92).                                                 *)
THEOREM SyntaxTreeIsNeverAnswered == Spec => []SyntaxTreesGetNothing
<1>1. KInv => SyntaxTreesGetNothing
  BY DEF KInv, AnsweredByFirst, Taken, matchesFilter, SyntaxTreesGetNothing
<1> QED
  BY <1>1, KafkaInvariant, PTL
=============================================================================
