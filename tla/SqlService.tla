----------------------------- MODULE SqlService -----------------------------
(***************************************************************************)
(* What execute() promises its callers, without saying how: there is no    *)
(* cache here, and no key. A statement is refused with nothing done, or it *)
(* is asked of the store its request leads to and has its effect there at  *)
(* most once, at some moment before its caller is told. The answer of a    *)
(* SELECT that may be cached may be given again, to the same question put  *)
(* to the same store, until its time to live is over. What a caller has    *)
(* been told never changes.                                                *)
(***************************************************************************)
EXTENDS Integers

CONSTANTS Requests, Statements, Stores, StartTime, MaxTime, MaxVersion,
          NoStatement, NoValue, Ack, Failure

CONSTANTS
    Understood(_),   \* the statement parses, and to one that is executed
    Taken(_),        \* the adapter takes the call
    IsSelect(_),
    Cacheable(_),    \* a SELECT whose client lets others have the answer
    Store(_),        \* where its adapter name and options lead
    TtlOf(_),
    Expiry(_, _)

VARIABLES
    now,
    store,    \* of each store, how many writes it has seen
    call,     \* of each request: how far it is, what it asks, what it got
    answers   \* what may be given again

serviceVars == <<now, store, call, answers>>

Uncalled == [pc |-> "idle", stmt |-> NoStatement, result |-> NoValue]

ServiceInit ==
    /\ now = StartTime
    /\ store = [b \in Stores |-> 0]
    /\ call = [r \in Requests |-> Uncalled]
    /\ answers = {}

Question(s) == [store |-> Store(s), sql |-> s.sql]

Goes(r, pc, result) == call' = [call EXCEPT ![r].pc = pc, ![r].result = result]

Starts(r, s, pc, result) ==
    /\ call[r].pc = "idle"
    /\ call' = [call EXCEPT ![r] = [pc |-> pc, stmt |-> s, result |-> result]]

Refuse(r, s) ==
    /\ Starts(r, s, "failed", Failure)
    /\ ~(Understood(s) /\ Taken(s))
    /\ UNCHANGED <<now, store, answers>>

Ask(r, s) ==
    /\ Starts(r, s, "called", NoValue)
    /\ Understood(s) /\ Taken(s)
    /\ UNCHANGED <<now, store, answers>>

AnswerAgain(r, s) ==
    /\ \E a \in answers : /\ Starts(r, s, "done", a.result)
                          /\ a.question = Question(s)
                          /\ now <= a.until
    /\ Understood(s) /\ Cacheable(s)
    /\ UNCHANGED <<now, store, answers>>

Written(s) ==
    /\ store[Store(s)] < MaxVersion
    /\ store' = [store EXCEPT ![Store(s)] = @ + 1]

\* The only moment at which a request touches its store.
Effect(r) ==
    LET s == call[r].stmt
    IN  /\ call[r].pc = "called"
        /\ \/ /\ IsSelect(s)
              /\ Goes(r, "replied",
                      [store |-> Store(s), sql |-> s.sql, version |-> store[Store(s)]])
              /\ UNCHANGED store
           \/ ~IsSelect(s) /\ Written(s) /\ Goes(r, "replied", Ack)
           \/ ~IsSelect(s) /\ Written(s) /\ Goes(r, "replied", Failure)
           \/ Goes(r, "replied", Failure) /\ UNCHANGED store
        /\ UNCHANGED <<now, answers>>

Tell(r) ==
    LET s == call[r].stmt
        result == call[r].result
    IN  /\ call[r].pc = "replied"
        /\ IF result = Failure
           THEN Goes(r, "failed", Failure) /\ UNCHANGED answers
           ELSE /\ Goes(r, "done", result)
                /\ answers' = IF Cacheable(s)
                              THEN answers \cup {[question |-> Question(s), result |-> result,
                                                  until |-> Expiry(now, TtlOf(s))]}
                              ELSE answers
        /\ UNCHANGED <<now, store>>

TimePasses ==
    /\ now < MaxTime
    /\ now' = now + 1
    /\ UNCHANGED <<store, call, answers>>

ServiceNext ==
    \/ \E r \in Requests, s \in Statements :
          Refuse(r, s) \/ Ask(r, s) \/ AnswerAgain(r, s)
    \/ \E r \in Requests : Effect(r) \/ Tell(r)
    \/ TimePasses

ServiceSpec == ServiceInit /\ [][ServiceNext]_serviceVars
=============================================================================
