---------------------------- MODULE KafkaAdapter ----------------------------
(***************************************************************************)
(* adapters/kafkaAdapter.js: INSERT publishes, SELECT waits for a message. *)
(* All calls share one consumer. Each SELECT adds a 'message' listener to  *)
(* it when addTopics calls back, and no listener is ever removed; a        *)
(* listener is called for every message the consumer gets, of whatever     *)
(* topic, and settles its promise with the first that matches.             *)
(***************************************************************************)
EXTENDS Integers, Sequences, FiniteSets

CONSTANTS
    Selects, Inserts,  \* the calls of execute(), each made at most once
    Topics,
    Payloads,          \* what messages carry in the column a WHERE is about
    Wheres,            \* the filters SELECTs come with
    NoWhere,           \* null, undefined or an object without keys
    NoMessage,
    MaxMessages        \* bound: the brokers get that many messages

ASSUME KafkaAssumption == MaxMessages \in Nat /\ Selects \cap Inserts = {}

(* A filter other than NoWhere is a record [form, payload]: the SELECT     *)
(* asks for the messages with that payload. Its form is "fields" when it   *)
(* is the object from columns to values that matchesFilter compares with,  *)
(* and "ast" when it is the WHERE expression as the interpreter extracts   *)
(* it, whose keys are those of a syntax tree (sqlInterpreter.js:199-201).  *)
Filter == [form: {"fields", "ast"}, payload: Payloads]

ASSUME FilterAssumption == \A w \in Wheres : w = NoWhere \/ w \in Filter

\* json is FALSE for a message that JSON.parse rejects.
Message == [topic: Topics, payload: Payloads, json: BOOLEAN]

VARIABLES
    topics,     \* what the consumer is subscribed to
    broker,     \* messages published and not delivered yet, oldest first
    delivered,  \* messages the consumer has got, in order
    call        \* what became of each call

vars == <<topics, broker, delivered, call>>

Idle == [pc |-> "idle", topic |-> NoMessage, where |-> NoWhere,
         since |-> 0, answer |-> NoMessage]

TypeOK ==
    /\ topics \subseteq Topics
    /\ broker \in Seq(Message)
    /\ delivered \in Seq(Message)
    /\ call \in [Selects \cup Inserts ->
          [pc: {"idle", "sending", "subscribing", "listening", "done", "failed"},
           topic: Topics \cup {NoMessage},
           where: Wheres \cup {NoWhere},
           since: Nat,
           answer: Message \cup {NoMessage}]]

Init ==
    /\ topics = {}
    /\ broker = <<>>
    /\ delivered = <<>>
    /\ call = [c \in Selects \cup Inserts |-> Idle]

matchesFilter(message, where) ==
    \/ where = NoWhere
    \/ where # NoWhere /\ where.form = "fields" /\ message.json
       /\ message.payload = where.payload

----------------------------------------------------------------------------
(* INSERT: producer.send and its callback.                                 *)

\* Mutant of Publish: the payload does not name the topic.
PublishWithoutTopic(c, t) ==
    /\ call[c].pc = "idle"
    /\ call' = [call EXCEPT ![c].pc = "sending"]
    /\ UNCHANGED <<topics, broker, delivered>>

Publish(c, t) ==
    /\ call[c].pc = "idle"
    /\ call' = [call EXCEPT ![c].pc = "sending", ![c].topic = t]
    /\ UNCHANGED <<topics, broker, delivered>>

Published == Len(broker) + Len(delivered)

Arrives(m) == Published < MaxMessages /\ broker' = Append(broker, m)

\* What INSERT publishes is JSON.stringify of its values.
SendSucceeds(c) ==
    /\ call[c].pc = "sending"
    /\ \E p \in Payloads : Arrives([topic |-> call[c].topic, payload |-> p, json |-> TRUE])
    /\ call' = [call EXCEPT ![c].pc = "done"]
    /\ UNCHANGED <<topics, delivered>>

\* The callback got an error; the brokers may have the message or not.
SendFails(c) ==
    /\ call[c].pc = "sending"
    /\ \/ UNCHANGED broker
       \/ \E p \in Payloads : Arrives([topic |-> call[c].topic, payload |-> p, json |-> TRUE])
    /\ call' = [call EXCEPT ![c].pc = "failed"]
    /\ UNCHANGED <<topics, delivered>>

\* Other producers of the same topics, which need not publish JSON.
OthersPublish ==
    /\ \E m \in Message : Arrives(m)
    /\ UNCHANGED <<topics, delivered, call>>

----------------------------------------------------------------------------
(* SELECT.                                                                 *)

Subscribe(c, t, w) ==
    /\ call[c].pc = "idle"
    /\ call' = [call EXCEPT ![c].pc = "subscribing", ![c].topic = t, ![c].where = w]
    /\ UNCHANGED <<topics, broker, delivered>>

\* Mutant of Listen: the consumer subscribes to whatever there is.
ListenToAll(c) ==
    /\ call[c].pc = "subscribing"
    /\ topics' = Topics
    /\ call' = [call EXCEPT ![c].pc = "listening", ![c].since = Len(delivered)]
    /\ UNCHANGED <<broker, delivered>>

(* The callback of addTopics ignores its error argument: it listens even   *)
(* when the topic could not be added.                                      *)
Listen(c) ==
    /\ call[c].pc = "subscribing"
    /\ \/ topics' = topics \cup {call[c].topic}
       \/ UNCHANGED topics
    /\ call' = [call EXCEPT ![c].pc = "listening", ![c].since = Len(delivered)]
    /\ UNCHANGED <<broker, delivered>>

\* Mutant of Resolved: a later match replaces the answer.
ResolvedAgain(c, m) ==
    call[c].pc \in {"listening", "done"} /\ c \in Selects /\ matchesFilter(m, call[c].where)

\* A promise is settled once: listeners of answered calls change nothing.
Resolved(c, m) ==
    call[c].pc = "listening" /\ matchesFilter(m, call[c].where)

\* The consumer gets the oldest message of topic t; every listener hears it.
Deliver(t) ==
    /\ t \in topics
    /\ \E i \in DOMAIN broker :
          /\ broker[i].topic = t
          /\ \A j \in 1..(i - 1) : broker[j].topic # t
          /\ broker' = SubSeq(broker, 1, i - 1) \o SubSeq(broker, i + 1, Len(broker))
          /\ delivered' = Append(delivered, broker[i])
          /\ call' = [c \in Selects \cup Inserts |->
                        IF Resolved(c, broker[i])
                        THEN [call[c] EXCEPT !.pc = "done", !.answer = broker[i]]
                        ELSE call[c]]
    /\ UNCHANGED topics

(* execute() throws at once for every other type.                          *)
Unsupported(c) ==
    /\ call[c].pc = "idle"
    /\ call' = [call EXCEPT ![c].pc = "failed"]
    /\ UNCHANGED <<topics, broker, delivered>>

Next ==
    \/ \E c \in Inserts, t \in Topics : Publish(c, t)
    \/ \E c \in Inserts : SendSucceeds(c) \/ SendFails(c) \/ Unsupported(c)
    \/ \E c \in Selects, t \in Topics, w \in Wheres : Subscribe(c, t, w)
    \/ \E c \in Selects : Listen(c)
    \/ \E t \in Topics : Deliver(t)
    \/ OthersPublish

Spec == Init /\ [][Next]_vars

----------------------------------------------------------------------------
\* The messages c has heard, and those of them it takes.
Heard(c) == (call[c].since + 1)..Len(delivered)
Taken(c) == {i \in Heard(c) : matchesFilter(delivered[i], call[c].where)}

(* A SELECT is answered by the first message that matches its filter among *)
(* those the consumer got since its listener was added, and by that one    *)
(* only; while it waits there was none. The same message may answer any    *)
(* number of SELECTs, and listeners of answered ones hear later messages   *)
(* to no effect (kafkaAdapter.js:86-92).                                   *)
FirstMatchAnswers ==
    \A c \in Selects :
       /\ call[c].pc = "listening" => Taken(c) = {}
       /\ call[c].pc = "done" =>
             \E i \in Taken(c) :
                /\ call[c].answer = delivered[i]
                /\ \A j \in Taken(c) : i <= j

(* The consumer gets messages only of topics that some SELECT asked for:   *)
(* one for topic A may be answered by a message of topic B, but only when  *)
(* another SELECT put B on the shared consumer (kafkaAdapter.js:86).       *)
OnlyAskedTopics ==
    \A i \in DOMAIN delivered :
       \E c \in Selects : call[c].topic = delivered[i].topic

(* "True if message matches filter" (kafkaAdapter.js:10): a waiting SELECT *)
(* has not been passed by a message that has what its WHERE asks for.      *)
WhereIsApplied ==
    \A c \in Selects :
       call[c].pc = "listening" /\ call[c].where # NoWhere =>
          \A i \in Heard(c) :
             delivered[i].json => delivered[i].payload # call[c].where.payload
=============================================================================
