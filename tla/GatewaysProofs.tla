--------------------------- MODULE GatewaysProofs ---------------------------
(***************************************************************************)
(* Proofs about the gateways: that the interpreter behind them is the one  *)
(* SqlInterpreterProofs is about, and that answers tell what happened, for *)
(* every set of requests, clients, texts, tokens, limits and statements.   *)
(***************************************************************************)
EXTENDS Gateways, SqlInterpreterProofs

(***************************************************************************)
(* The inductive invariant, beside the interpreter's own: a request that   *)
(* was counted is one that was sent, and the answers tell what happened.   *)
(***************************************************************************)
CountedWereSent ==
    \A r \in Requests :
       gate[r].pc = "counted" => gate[r].sent \in Sent /\ gate[r].client \in Clients

GateInv == GatewayTypeOK /\ CountedWereSent /\ AnswersTellOutcome

----------------------------------------------------------------------------
(* The shape of what the gateways keep.                                    *)

GateType ==
    [pc: {"unmade", "counted", "executing", "ignored", "answered"},
     client: Clients \cup {NoClient},
     sent: Sent \cup {NoSent},
     answer: Answers,
     passed: [Limiters -> Never..MaxTime],
     refused: [Limiters -> Never..MaxTime]]

LEMMA GatewayTypeParts == GatewayTypeOK <=> WindowTypeOK /\ gate \in [Requests -> GateType]
  BY DEF GatewayTypeOK, GateType

LEMMA UnsentType ==
  /\ Unsent \in GateType
  /\ Unsent.pc = "unmade"
<1>1. AtNoTime \in [Limiters -> Never..MaxTime]
  BY CacheBoundAssumption DEF AtNoTime, Never
<1> QED
  BY <1>1 DEF Unsent, GateType, Answers

LEMMA AnsweredType ==
  ASSUME NEW g \in GateType, NEW a \in Answers
  PROVE  /\ Answered(g, a) \in GateType
         /\ Answered(g, a).pc = "answered"
         /\ Answered(g, a).answer = a
  BY DEF Answered, GateType

LEMMA HitType ==
  ASSUME WindowTypeOK, now \in Int, NEW l \in Limiters, NEW c \in Clients, Hit(l, c, now)
  PROVE  WindowTypeOK'
<1>1. Counted(l, c, now) \in Window
  BY LimitAssumption DEF Counted, WindowTypeOK, Window
<1> QED
  BY <1>1 DEF Hit, WindowTypeOK

----------------------------------------------------------------------------
(* Behind the gateways the interpreter makes the steps SqlInterpreter says,*)
(* or none.                                                                *)

LEMMA GateStepIsInterpreterStep ==
  ASSUME GateInv, [GatewaysNext]_gatewayVars
  PROVE  [Next]_vars
<1>1. ASSUME NEW r \in Requests, Executed(r) PROVE Next
  <2> DEFINE s == StatementOf(gate[r].sent.post)
  <2>1. gate[r].sent \in Sent
    BY <1>1 DEF GateInv, CountedWereSent, Executed, At
  <2>2. s \in Statements
    BY <1>1, <2>1, StatementsAssumption DEF Executed
  <2>3. Execute(r, s)
    BY <1>1 DEF Executed
  <2> HIDE DEF s
  <2> QED
    BY <2>2, <2>3 DEF Execute, Next
<1>2. ASSUME NEW r \in Requests, Arrival(r) PROVE UNCHANGED vars
  BY <1>2 DEF Arrival, MalformedBody, ApiLimited, GrpcCall, WebSocketMessage, MqttMessage, Answer
<1>3. ASSUME NEW r \in Requests, RestStep(r) PROVE UNCHANGED vars \/ Executed(r)
  BY <1>3 DEF RestStep, AuthLimited, Health, NotExecuted, RestAnswers, Answer
<1>4. ASSUME InterpreterStep PROVE Next
  BY <1>4 DEF InterpreterStep, Next
<1>5. CASE UNCHANGED gatewayVars
  BY <1>5 DEF gatewayVars, vars
<1> QED
  BY <1>1, <1>2, <1>3, <1>4, <1>5 DEF GatewaysNext

----------------------------------------------------------------------------
(* The gateways' own steps.                                                *)

\* A step that sets gate[r] and leaves the interpreter alone.
LEMMA OneGateChanges ==
  ASSUME GateInv, UNCHANGED vars, WindowTypeOK', NEW r \in Requests,
         gate' = [gate EXCEPT ![r] = gate'[r]],
         gate'[r] \in GateType,
         gate'[r].pc = "counted" => gate'[r].sent \in Sent /\ gate'[r].client \in Clients,
         gate'[r].pc \in {"counted", "ignored"} => req[r].pc = "idle",
         gate'[r].pc \notin {"unmade", "executing"},
         gate'[r].pc = "answered" =>
            \/ gate'[r].answer = "result" /\ req[r].pc = "done"
            \/ gate'[r].answer = "500" /\ req[r].pc = "failed"
            \/ gate'[r].answer # "result" /\ req[r].pc = "idle"
  PROVE  GateInv'
<1>1. gate \in [Requests -> GateType] /\ req' = req
  BY GatewayTypeParts DEF GateInv, vars
<1>2. gate' \in [Requests -> GateType]
  BY <1>1
<1>3. GatewayTypeOK'
  BY <1>2 DEF GatewayTypeOK, GateType, WindowTypeOK
<1>4. \A u \in Requests : u # r => gate'[u] = gate[u]
  BY <1>1
<1>5. CountedWereSent'
  BY <1>4 DEF GateInv, CountedWereSent
<1>6. AnswersTellOutcome'
  BY <1>1, <1>4 DEF GateInv, AnswersTellOutcome
<1> QED
  BY <1>3, <1>5, <1>6 DEF GateInv

LEMMA AnswerKeepsInv ==
  ASSUME GateInv, UNCHANGED window, NEW r \in Requests, NEW a \in Answers, Answer(r, a),
         \/ a = "result" /\ req[r].pc = "done"
         \/ a = "500" /\ req[r].pc = "failed"
         \/ a # "result" /\ req[r].pc = "idle"
  PROVE  GateInv'
<1>1. gate \in [Requests -> GateType]
  BY GatewayTypeParts DEF GateInv
<1>2. gate' = [gate EXCEPT ![r] = gate'[r]] /\ gate'[r] = Answered(gate[r], a)
  BY <1>1 DEF Answer
<1>3. gate'[r] \in GateType /\ gate'[r].pc = "answered" /\ gate'[r].answer = a
  BY <1>1, <1>2, AnsweredType
<1>4. WindowTypeOK'
  BY DEF GateInv, GatewayTypeOK, WindowTypeOK
<1>5. UNCHANGED vars
  BY DEF Answer
<1> QED
  BY <1>2, <1>3, <1>4, <1>5, OneGateChanges

LEMMA ApiLimitedKeepsInv ==
  ASSUME GateInv, TypeOK, NEW r \in Requests, NEW c \in Clients, NEW m \in Sent,
         ApiLimited(r, c, m)
  PROVE  GateInv'
<1> DEFINE counted == [Unsent EXCEPT !.pc = "counted", !.client = c, !.sent = m,
                                     !.passed["api"] = now]
           refused == [Answered(Unsent, "429") EXCEPT !.client = c, !.refused["api"] = now]
<1>1. gate \in [Requests -> GateType] /\ WindowTypeOK
  BY GatewayTypeParts DEF GateInv
<1>2. now \in Never..MaxTime /\ now \in Int
  BY CacheBoundAssumption DEF TypeOK, CacheTypeOK, Never
<1>3. gate' = [gate EXCEPT ![r] = gate'[r]] /\ gate'[r] \in {counted, refused}
  BY <1>1 DEF ApiLimited
<1>4. counted \in GateType /\ counted.pc = "counted" /\ counted.sent = m /\ counted.client = c
  BY <1>2, UnsentType DEF GateType, Limiters
<1>5. refused \in GateType /\ refused.pc = "answered" /\ refused.answer = "429"
  <2>1. /\ Answered(Unsent, "429") \in GateType
        /\ Answered(Unsent, "429").pc = "answered"
        /\ Answered(Unsent, "429").answer = "429"
    BY UnsentType, AnsweredType DEF Answers
  <2> QED
    BY <1>2, <2>1 DEF GateType, Limiters
<1>6. WindowTypeOK'
  BY <1>1, <1>2, HitType DEF ApiLimited, Limiters
<1>7. req[r].pc = "idle" /\ UNCHANGED vars
  BY DEF ApiLimited, GateInv, AnswersTellOutcome
<1> HIDE DEF counted, refused
<1> QED
  BY <1>3, <1>4, <1>5, <1>6, <1>7, OneGateChanges

LEMMA AuthLimitedKeepsInv ==
  ASSUME GateInv, TypeOK, NEW r \in Requests, AuthLimited(r)
  PROVE  GateInv'
<1> DEFINE passed == [Answered(gate[r], "404") EXCEPT !.passed["auth"] = now]
           refused == [Answered(gate[r], "429") EXCEPT !.refused["auth"] = now]
<1>1. gate \in [Requests -> GateType] /\ WindowTypeOK
  BY GatewayTypeParts DEF GateInv
<1>2. now \in Never..MaxTime /\ now \in Int
  BY CacheBoundAssumption DEF TypeOK, CacheTypeOK, Never
<1>3. gate' = [gate EXCEPT ![r] = gate'[r]] /\ gate'[r] \in {passed, refused}
  BY <1>1 DEF AuthLimited
<1>4. passed \in GateType /\ passed.pc = "answered" /\ passed.answer = "404"
  <2>1. /\ Answered(gate[r], "404") \in GateType
        /\ Answered(gate[r], "404").pc = "answered"
        /\ Answered(gate[r], "404").answer = "404"
    BY <1>1, AnsweredType DEF Answers
  <2> QED
    BY <1>2, <2>1 DEF GateType, Limiters
<1>5. refused \in GateType /\ refused.pc = "answered" /\ refused.answer = "429"
  <2>1. /\ Answered(gate[r], "429") \in GateType
        /\ Answered(gate[r], "429").pc = "answered"
        /\ Answered(gate[r], "429").answer = "429"
    BY <1>1, AnsweredType DEF Answers
  <2> QED
    BY <1>2, <2>1 DEF GateType, Limiters
<1>6. WindowTypeOK'
  <2>1. gate[r].client \in Clients
    BY DEF AuthLimited, At, GateInv, CountedWereSent
  <2> QED
    BY <1>1, <1>2, <2>1, HitType DEF AuthLimited, Limiters
<1>7. req[r].pc = "idle" /\ UNCHANGED vars
  BY DEF AuthLimited, At, GateInv, AnswersTellOutcome
<1> HIDE DEF passed, refused
<1> QED
  BY <1>3, <1>4, <1>5, <1>6, <1>7, OneGateChanges

\* Requests that are turned away before they are counted.
LEMMA ArrivalKeepsInv ==
  ASSUME GateInv, TypeOK, NEW r \in Requests, Arrival(r)
  PROVE  GateInv'
<1>1. gate[r].pc = "unmade" => req[r].pc = "idle"
  BY DEF GateInv, AnswersTellOutcome
<1>2. CASE MalformedBody(r)
  BY <1>1, <1>2, AnswerKeepsInv DEF MalformedBody, Answers
<1>3. CASE \E c \in Clients, m \in Sent : ApiLimited(r, c, m)
  BY <1>3, ApiLimitedKeepsInv
<1>4. ASSUME NEW m \in Sent, GrpcCall(r, m.token) PROVE GateInv'
  <2>1. Answer(r, "UNAUTHENTICATED") /\ gate[r].pc = "unmade" /\ UNCHANGED window
    BY <1>4 DEF GrpcCall, ValidateInputThrows
  <2> QED
    BY <1>1, <2>1, AnswerKeepsInv DEF Answers
<1>5. ASSUME NEW m \in Sent, WebSocketMessage(r, m.token) PROVE GateInv'
  <2>1. Answer(r, "error") /\ gate[r].pc = "unmade" /\ UNCHANGED window
    BY <1>5 DEF WebSocketMessage, ValidateInputThrows
  <2> QED
    BY <1>1, <2>1, AnswerKeepsInv DEF Answers
<1>6. CASE MqttMessage(r)
  <2>1. gate \in [Requests -> GateType] /\ WindowTypeOK
    BY GatewayTypeParts DEF GateInv
  <2>2. gate' = [gate EXCEPT ![r] = gate'[r]] /\ gate'[r] = [gate[r] EXCEPT !.pc = "ignored"]
    BY <1>6, <2>1 DEF MqttMessage
  <2>3. gate'[r] \in GateType /\ gate'[r].pc = "ignored"
    BY <2>1, <2>2 DEF GateType
  <2>4. UNCHANGED vars /\ WindowTypeOK' /\ req[r].pc = "idle"
    BY <1>1, <1>6, <2>1 DEF MqttMessage, WindowTypeOK
  <2> QED
    BY <2>2, <2>3, <2>4, OneGateChanges
<1> QED
  BY <1>2, <1>3, <1>4, <1>5, <1>6 DEF Arrival

\* execute() up to its await leaves no request idle, and touches one only.
LEMMA ExecuteStarts ==
  ASSUME TypeOK, NEW r \in Requests, NEW s, Execute(r, s)
  PROVE  /\ req'[r].pc \in {"called", "done", "failed"}
         /\ \A u \in Requests : u # r => req'[u] = req[u]
  BY DEF Execute, Reject, AnswerFromCache, CallAdapter, AdapterThrows, Become, TypeOK

LEMMA RestStepKeepsInv ==
  ASSUME GateInv, TypeOK, NEW r \in Requests, RestStep(r)
  PROVE  GateInv'
<1>1. gate[r].pc = "counted" => req[r].pc = "idle"
  BY DEF GateInv, AnswersTellOutcome
<1>2. CASE AuthLimited(r)
  BY <1>2, AuthLimitedKeepsInv
<1>3. CASE Health(r)
  BY <1>1, <1>3, AnswerKeepsInv DEF Health, At, Answers
<1>4. CASE NotExecuted(r)
  BY <1>1, <1>4, AnswerKeepsInv DEF NotExecuted, At, Answers
<1>5. CASE Executed(r)
  <2>1. gate \in [Requests -> GateType] /\ WindowTypeOK
    BY GatewayTypeParts DEF GateInv
  <2>2. gate' = [gate EXCEPT ![r].pc = "executing", ![r].sent = NoSent] /\ UNCHANGED window
    BY <1>5 DEF Executed
  <2>3. /\ gate' \in [Requests -> GateType]
        /\ gate'[r].pc = "executing"
        /\ \A u \in Requests : u # r => gate'[u] = gate[u]
    BY <2>1, <2>2 DEF GateType
  <2>4. GatewayTypeOK'
    BY <2>1, <2>2, <2>3 DEF GatewayTypeOK, GateType, WindowTypeOK
  <2>5. CountedWereSent'
    BY <2>3 DEF GateInv, CountedWereSent
  <2>6. /\ req'[r].pc \in {"called", "done", "failed"}
        /\ \A u \in Requests : u # r => req'[u] = req[u]
    BY <1>5, ExecuteStarts DEF Executed
  <2>7. AnswersTellOutcome'
    BY <2>3, <2>6 DEF GateInv, AnswersTellOutcome
  <2> QED
    BY <2>4, <2>5, <2>7 DEF GateInv
<1>6. CASE RestAnswers(r)
  BY <1>6, AnswerKeepsInv DEF RestAnswers, Returned, Answers
<1> QED
  BY <1>2, <1>3, <1>4, <1>5, <1>6 DEF RestStep

\* The interpreter goes on only with requests that are executing.
LEMMA InterpreterStepKeepsInv ==
  ASSUME GateInv, TypeOK, InterpreterStep
  PROVE  GateInv'
<1>1. GatewayTypeOK' /\ CountedWereSent' /\ UNCHANGED gate
  BY DEF InterpreterStep, GateInv, GatewayTypeOK, WindowTypeOK, CountedWereSent
<1>2. ASSUME NEW r \in Requests, BackendReply(r) \/ Resume(r)
      PROVE  /\ req[r].pc \in {"called", "replied"}
             /\ req'[r].pc \in {"replied", "done", "failed"}
             /\ \A u \in Requests : u # r => req'[u] = req[u]
  <2>1. req[r].pc \in {"called", "replied"}
    BY <1>2 DEF BackendReply, BackendReads, BackendWrites, BackendFails, Resume,
                ResumeWithResult, ResumeWithError
  <2>2. CASE BackendReply(r)
    <3>1. PICK result : Reply(r, result)
      BY <2>2 DEF BackendReply, BackendReads, BackendWrites, BackendFails
    <3> QED
      BY <2>1, <3>1 DEF Reply, TypeOK
  <2>3. CASE Resume(r)
    <3>1. PICK pc \in {"done", "failed"} : Settle(r, pc)
      BY <2>3 DEF Resume, ResumeWithResult, ResumeWithError
    <3> QED
      BY <2>1, <3>1 DEF Settle, TypeOK
  <2> QED
    BY <1>2, <2>1, <2>2, <2>3
<1>3. CASE TimePasses
  BY <1>1, <1>3 DEF TimePasses, GateInv, AnswersTellOutcome
<1>4. CASE \E r \in Requests : BackendReply(r) \/ Resume(r)
  <2>1. PICK r \in Requests : BackendReply(r) \/ Resume(r)
    BY <1>4
  <2>2. gate[r].pc = "executing"
    BY <1>2, <2>1, GatewayTypeParts DEF GateInv, AnswersTellOutcome, GateType
  <2>3. AnswersTellOutcome'
    BY <1>1, <1>2, <2>1, <2>2 DEF GateInv, AnswersTellOutcome
  <2> QED
    BY <1>1, <2>3 DEF GateInv
<1> QED
  BY <1>3, <1>4 DEF InterpreterStep

----------------------------------------------------------------------------
LEMMA GateInitInv == GatewaysInit => GateInv
<1> SUFFICES ASSUME GatewaysInit PROVE GateInv
  OBVIOUS
<1>1. \A r \in Requests : gate[r] = Unsent /\ req[r].pc = "idle"
  BY DEF GatewaysInit, Init, Unmade
<1>2. gate \in [Requests -> GateType]
  BY UnsentType DEF GatewaysInit
<1>3. WindowTypeOK
  BY CacheBoundAssumption DEF GatewaysInit, WindowInit, WindowTypeOK, NoWindow, Window
<1>4. CountedWereSent /\ AnswersTellOutcome
  BY <1>1, UnsentType DEF CountedWereSent, AnswersTellOutcome
<1> QED
  BY <1>2, <1>3, <1>4, GatewayTypeParts DEF GateInv

LEMMA GateNextKeepsInv == IInv /\ GateInv /\ [GatewaysNext]_gatewayVars => GateInv'
<1> SUFFICES ASSUME IInv, GateInv, [GatewaysNext]_gatewayVars PROVE GateInv'
  OBVIOUS
<1>1. TypeOK
  BY DEF IInv
<1>2. CASE UNCHANGED gatewayVars
  BY <1>2 DEF gatewayVars, GateInv, GatewayTypeOK, WindowTypeOK, CountedWereSent,
              AnswersTellOutcome
<1> QED
  BY <1>1, <1>2, ArrivalKeepsInv, RestStepKeepsInv, InterpreterStepKeepsInv DEF GatewaysNext

LEMMA GatewaysInvariant == GatewaysSpec => [](IInv /\ GateInv)
<1>1. GatewaysInit => IInv /\ GateInv
  BY InitInv, GateInitInv DEF GatewaysInit
<1>2. IInv /\ GateInv /\ [GatewaysNext]_gatewayVars => (IInv /\ GateInv)'
  BY GateStepIsInterpreterStep, NextKeepsInv, GateNextKeepsInv
<1> QED
  BY <1>1, <1>2, PTL DEF GatewaysSpec

(* Requests enter the interpreter through the gateways exactly as          *)
(* SqlInterpreter says: the composition implements it (index.js:59-75).    *)
THEOREM GatewaysImplementInterpreter == GatewaysSpec => ImplementsInterpreter
<1>1. GatewaysInit => Init
  BY DEF GatewaysInit
<1>2. GateInv /\ [GatewaysNext]_gatewayVars => [Next]_vars
  BY GateStepIsInterpreterStep
<1> QED
  BY <1>1, <1>2, GatewaysInvariant, PTL DEF GatewaysSpec, ImplementsInterpreter, Spec

(* The gateways and the windows of the limiters keep their types.          *)
THEOREM GatewaysTypeCorrect == GatewaysSpec => []GatewayTypeOK
<1>1. GateInv => GatewayTypeOK
  BY DEF GateInv
<1> QED
  BY <1>1, GatewaysInvariant, PTL

(* A result is what execute() returned, an error that it threw or was never*)
(* called, and nobody is answered while his call is on its way             *)
(* (index.js:59-75).                                                       *)
THEOREM GatewaysAnswerTruly == GatewaysSpec => []AnswersTellOutcome
<1>1. GateInv => AnswersTellOutcome
  BY DEF GateInv
<1> QED
  BY <1>1, GatewaysInvariant, PTL

(* Behind the gateways, too, an answer from the cache repeats a read that  *)
(* is no older than its time to live: what the interpreter is shown to do  *)
(* for any clients it does for those of the gateways.                      *)
THEOREM GatewaysCacheStaleness == GatewaysSpec => []CachedAnswersRepeatReads
<1> QED
  BY GatewaysImplementInterpreter, CacheStaleness, PTL DEF ImplementsInterpreter

(* Behind the gateways a SELECT returns what the store its request is      *)
(* routed to gave for its own text.                                        *)
THEOREM GatewaysRoutedAnswers == GatewaysSpec => []AnswersFromRoutedStore
<1> QED
  BY GatewaysImplementInterpreter, RoutedAnswers, PTL DEF ImplementsInterpreter

(* Behind the gateways, too, execute() is the service it promises to be:   *)
(* whatever the limiters, the checks and the four gateways do with a       *)
(* request, its call has its effect once at most and one outcome.          *)
THEOREM GatewaysImplementService == GatewaysSpec => ImplementsService
<1> QED
  BY GatewaysImplementInterpreter, InterpreterImplementsService, PTL DEF ImplementsInterpreter

(* No write of a client of the gateways is applied twice, and none that it *)
(* is told of is missing.                                                  *)
THEOREM GatewaysWritesAreNotRepeated == GatewaysSpec => []WritesHappenOnce
<1> QED
  BY GatewaysImplementInterpreter, WritesAreNotRepeated, PTL DEF ImplementsInterpreter

----------------------------------------------------------------------------
(* Nobody is left without an answer. NoRequestIsLeft with ENABLED written  *)
(* out: the states in which a callback of r is ready, and what it does.    *)
TurnIsReady(r) == gate[r].pc = "counted" \/ Returned(r)

\* The lookup in the cache, as an assignment to each of its variables.
LooksUp(k) ==
    IF Live(k)
    THEN stats' = [stats EXCEPT !.hits = @ + 1] /\ UNCHANGED <<order, entry>>
    ELSE IF k \in DOMAIN entry
    THEN /\ order' = RemoveAt(order, PositionOf(k))
         /\ entry' = Restrict(entry, DOMAIN entry \ {k})
         /\ stats' = [stats EXCEPT !.size = Len(order'), !.misses = @ + 1]
    ELSE stats' = [stats EXCEPT !.misses = @ + 1] /\ UNCHANGED <<order, entry>>

\* execute() up to its await, likewise.
Starts(r, s) ==
    /\ IF Valid(s) /\ Cacheable(s) THEN LooksUp(Key(s)) ELSE UNCHANGED <<order, entry, stats>>
    /\ IF ~Valid(s) THEN Become(r, "failed", s, "none", Failure, 0)
       ELSE IF Cacheable(s) /\ Live(Key(s))
            THEN Become(r, "done", s, "cache", Lookup(Key(s)), Current(s))
       ELSE IF Accepted(s) THEN Become(r, "called", s, "backend", NoValue, Current(s))
       ELSE Become(r, "failed", s, "none", Failure, Current(s))
    /\ UNCHANGED <<now, store>>

\* The turn of the event loop that serves r, likewise.
Turn(r) ==
    LET m == gate[r].sent
    IN IF Returned(r)
       THEN Answer(r, IF req[r].pc = "done" THEN "result" ELSE "500") /\ UNCHANGED window
       ELSE IF m.path = "auth"
       THEN /\ Hit("auth", gate[r].client, now)
            /\ gate' = [gate EXCEPT ![r] =
                 IF Passes("auth", @.client, now)
                 THEN [Answered(@, "404") EXCEPT !.passed["auth"] = now]
                 ELSE [Answered(@, "429") EXCEPT !.refused["auth"] = now]]
            /\ UNCHANGED vars
       ELSE IF m.path = "health" THEN Answer(r, "healthy") /\ UNCHANGED window
       ELSE IF ValidToken(m.token) /\ ValidPost(m.post)
       THEN /\ Starts(r, StatementOf(m.post))
            /\ gate' = [gate EXCEPT ![r].pc = "executing", ![r].sent = NoSent]
            /\ UNCHANGED window
       ELSE Answer(r, "500") /\ UNCHANGED window

LEMMA StartsIsExecute ==
  ASSUME NEW r \in Requests, NEW s, req[r].pc = "idle", Starts(r, s)
  PROVE  Execute(r, s)
<1>1. CASE ~Valid(s)
  BY <1>1 DEF Starts, Execute, Reject
<1>2. CASE Valid(s) /\ Cacheable(s) /\ Live(Key(s))
  BY <1>2 DEF Starts, LooksUp, GetHit, Execute, AnswerFromCache
<1>3. CASE Valid(s) /\ ~(Cacheable(s) /\ Live(Key(s)))
  <2>1. CacheMissed(s)
    BY <1>3 DEF Starts, LooksUp, CacheMissed, GetAbsent, GetExpired, Live
  <2> QED
    BY <1>3, <2>1 DEF Starts, Execute, CallAdapter, AdapterThrows
<1> QED
  BY <1>1, <1>2, <1>3

\* What a step of r's chain does to r: a counted request is answered or goes
\* on to execute(), one that has come back is answered.
LEMMA RestStepServes ==
  ASSUME GateInv, NEW r \in Requests, RestStep(r)
  PROVE  /\ gate[r].pc = "counted" => gate'[r].pc \in {"executing", "answered"}
         /\ gate[r].pc # "counted" => gate'[r].pc = "answered"
         /\ gate[r].pc \in {"counted", "executing"}
<1>1. gate \in [Requests -> GateType]
  BY GatewayTypeParts DEF GateInv
<1>2. ASSUME NEW a, Answer(r, a) PROVE gate'[r].pc = "answered"
  BY <1>1, <1>2 DEF Answer, Answered, GateType
<1>3. CASE AuthLimited(r)
  <2> DEFINE passed == [Answered(gate[r], "404") EXCEPT !.passed["auth"] = now]
             refused == [Answered(gate[r], "429") EXCEPT !.refused["auth"] = now]
  <2>1. gate'[r] \in {passed, refused}
    BY <1>1, <1>3 DEF AuthLimited
  <2>2. passed.pc = "answered" /\ refused.pc = "answered"
    BY <1>1 DEF Answered, GateType
  <2> HIDE DEF passed, refused
  <2> QED
    BY <1>3, <2>1, <2>2 DEF AuthLimited, At
<1>4. CASE Health(r) \/ NotExecuted(r) \/ RestAnswers(r)
  BY <1>2, <1>4 DEF Health, NotExecuted, RestAnswers, Returned, At
<1>5. CASE Executed(r)
  BY <1>1, <1>5 DEF Executed, At, GateType
<1> QED
  BY <1>3, <1>4, <1>5 DEF RestStep

(* A callback that is ready can run: whatever was sent and whatever state  *)
(* the cache is in, one branch of the chain takes the request, and its turn*)
(* is a step of RestStep (index.js:25-75).                                 *)
THEOREM ReadyTurnCanRun ==
  ASSUME GateInv, NEW r \in Requests, TurnIsReady(r), Turn(r)
  PROVE  <<RestStep(r)>>_gatewayVars
<1>1. RestStep(r)
  <2>1. CASE Returned(r)
    BY <2>1 DEF Turn, RestStep, RestAnswers
  <2>2. CASE ~Returned(r)
    <3> DEFINE m == gate[r].sent
    <3>1. gate[r].pc = "counted" /\ req[r].pc = "idle"
      BY <2>2 DEF TurnIsReady, GateInv, AnswersTellOutcome
    <3>2. m.path \in {"execute", "health", "auth"}
      BY <3>1, SentAssumption DEF GateInv, CountedWereSent, RestRequest
    <3>3. CASE m.path = "auth"
      BY <2>2, <3>1, <3>3 DEF Turn, RestStep, AuthLimited, At
    <3>4. CASE m.path = "health"
      BY <2>2, <3>1, <3>4 DEF Turn, RestStep, Health, At
    <3>5. CASE m.path = "execute" /\ ValidToken(m.token) /\ ValidPost(m.post)
      <4>1. Execute(r, StatementOf(m.post))
        BY <2>2, <3>1, <3>5, StartsIsExecute DEF Turn
      <4> QED
        BY <2>2, <3>1, <3>5, <4>1 DEF Turn, RestStep, Executed, At
    <3>6. CASE m.path = "execute" /\ ~(ValidToken(m.token) /\ ValidPost(m.post))
      BY <2>2, <3>1, <3>6 DEF Turn, RestStep, NotExecuted, At
    <3> QED
      BY <3>2, <3>3, <3>4, <3>5, <3>6
  <2> QED
    BY <2>1, <2>2
<1>2. gate' # gate
  BY <1>1, RestStepServes
<1> QED
  BY <1>1, <1>2 DEF gatewayVars

(* As long as a REST request has no answer it is the backend's turn, or one*)
(* of the two kinds of callback is ready, which ReadyTurnCanRun and        *)
(* RepliedCanResume show can run: NoRequestIsLeft without ENABLED          *)
(* (index.js:25-75).                                                       *)
THEOREM SomebodyIsAtWork ==
  GatewaysSpec => [](\A r \in Requests :
                        gate[r].pc \in {"counted", "executing"} =>
                           \/ req[r].pc = "called"
                           \/ req[r].pc = "replied"
                           \/ TurnIsReady(r))
<1>1. IInv /\ GateInv => \A r \in Requests :
                            gate[r].pc \in {"counted", "executing"} =>
                               \/ req[r].pc = "called"
                               \/ req[r].pc = "replied"
                               \/ TurnIsReady(r)
  <2> SUFFICES ASSUME IInv, GateInv, NEW r \in Requests, gate[r].pc = "executing"
               PROVE  req[r].pc \in {"called", "replied"} \/ TurnIsReady(r)
    BY DEF TurnIsReady
  <2>1. req[r].pc \in {"idle", "called", "replied", "done", "failed"} /\ req[r].pc # "idle"
    BY DEF IInv, TypeOK, GateInv, AnswersTellOutcome
  <2> QED
    BY <2>1 DEF TurnIsReady, Returned
<1> QED
  BY <1>1, GatewaysInvariant, PTL

\* The event loop's fairness: a callback of r that stays ready runs.
TurnIsFair(r) == []<>~TurnIsReady(r) \/ []<><<RestStep(r)>>_gatewayVars

\* Until it is answered, a request goes on through the chain only.
LEMMA ChainGoesOn ==
  ASSUME GateInv, TypeOK, NEW r \in Requests, [GatewaysNext]_gatewayVars
  PROVE  /\ gate[r].pc = "counted" => gate'[r].pc \in {"counted", "executing", "answered"}
         /\ gate[r].pc = "executing" => gate'[r].pc \in {"executing", "answered"}
<1> SUFFICES ASSUME gate[r].pc \in {"counted", "executing"}
             PROVE  \/ gate'[r].pc = gate[r].pc
                    \/ gate'[r].pc = "answered"
                    \/ gate[r].pc = "counted" /\ gate'[r].pc = "executing"
  OBVIOUS
<1>1. gate \in [Requests -> GateType]
  BY GatewayTypeParts DEF GateInv
<1>2. ASSUME NEW u \in Requests, Arrival(u) PROVE gate'[r] = gate[r]
  <2>1. gate[u].pc = "unmade" /\ \E g : gate' = [gate EXCEPT ![u] = g]
    BY <1>2 DEF Arrival, MalformedBody, ApiLimited, GrpcCall, WebSocketMessage, MqttMessage,
                Answer
  <2> QED
    BY <1>1, <2>1
<1>3. ASSUME NEW u \in Requests, RestStep(u), u # r PROVE gate'[r] = gate[r]
  BY <1>1, <1>3 DEF RestStep, AuthLimited, Health, NotExecuted, Executed, RestAnswers, Answer
<1>4. CASE RestStep(r)
  BY <1>4, RestStepServes
<1>5. CASE InterpreterStep \/ UNCHANGED gatewayVars
  BY <1>5 DEF InterpreterStep, gatewayVars
<1> QED
  BY <1>2, <1>3, <1>4, <1>5 DEF GatewaysNext

EveryRequestIsAnswered ==
    \A r \in Requests : gate[r].pc = "counted" ~> gate[r].pc = "answered"

(* Every REST request that the limiter lets pass is answered in the end, if*)
(* the backends answer: neither a refusal by authentication, validation or *)
(* the interpreter, nor an error of a backend, nor what other clients do   *)
(* leaves one waiting (index.js:25-75, sqlInterpreter.js:340-441).         *)
THEOREM RequestsAreAnswered ==
  GatewaysSpec /\ (\A r \in Requests : TurnIsFair(r) /\ ResumeIsFair(r) /\ BackendAnswers(r))
     => EveryRequestIsAnswered
<1>1. ASSUME NEW r \in Requests
      PROVE  GatewaysSpec /\ TurnIsFair(r) /\ ResumeIsFair(r) /\ BackendAnswers(r)
                => (gate[r].pc = "counted" ~> gate[r].pc = "answered")
  <2> DEFINE K == gate[r].pc = "counted"
             X == gate[r].pc = "executing"
             A == gate[r].pc = "answered"
             C == req[r].pc = "called"
             R == req[r].pc = "replied"
             E == req[r].pc \in {"done", "failed"}
             I == IInv /\ GateInv
  <2>1. I /\ [GatewaysNext]_gatewayVars => (K => K' \/ X' \/ A') /\ (X => X' \/ A')
    BY ChainGoesOn DEF IInv
  <2>2. I /\ [GatewaysNext]_gatewayVars
          => (C => C' \/ R') /\ (R => R' \/ E') /\ (E => E')
    BY GateStepIsInterpreterStep, CallGoesOn DEF IInv
  <2>3. I /\ <<RestStep(r)>>_gatewayVars => (K => X' \/ A') /\ (X => A') /\ (K \/ X)
    BY RestStepServes
  <2>4. I /\ <<Resume(r)>>_vars => E'
    BY ResumeEnds DEF IInv
  <2>5. I => (X => C \/ R \/ E)
    BY DEF IInv, TypeOK, GateInv, AnswersTellOutcome
  <2>6. /\ K => ~X /\ ~A
        /\ X => ~A
        /\ C => ~R /\ ~E
        /\ R => ~E
        /\ TurnIsReady(r) <=> K \/ (X /\ E)
        /\ C <=> req[r].pc = "called"
        /\ ~C <=> req[r].pc # "called"
        /\ ~R <=> req[r].pc # "replied"
    BY DEF TurnIsReady, Returned
  <2> HIDE DEF K, X, A, C, R, E, I
  <2>7. BackendAnswers(r) <=> (C ~> ~C)
    BY <2>6, PTL DEF BackendAnswers
  <2>8. ResumeIsFair(r) <=> ([]<>~R \/ []<><<Resume(r)>>_vars)
    BY <2>6, PTL DEF ResumeIsFair
  <2>9. TurnIsFair(r) <=> ([]<>~(K \/ (X /\ E)) \/ []<><<RestStep(r)>>_gatewayVars)
    BY <2>6, PTL DEF TurnIsFair
  <2>10. GatewaysSpec => []I
    BY GatewaysInvariant, PTL DEF I
  \* execute() ends for a request that waits for it,
  <2>11. GatewaysSpec /\ ResumeIsFair(r) /\ BackendAnswers(r) => (X ~> (E \/ A))
    BY <2>1, <2>2, <2>4, <2>5, <2>6, <2>7, <2>8, <2>10, PTL DEF GatewaysSpec
  \* which is then answered,
  <2>12. GatewaysSpec /\ TurnIsFair(r) => ((X /\ E) ~> A)
    BY <2>1, <2>2, <2>3, <2>6, <2>9, <2>10, PTL DEF GatewaysSpec
  \* and one that was counted is answered or gets to execute().
  <2>13. GatewaysSpec /\ TurnIsFair(r) => (K ~> (X \/ A))
    BY <2>1, <2>3, <2>6, <2>9, <2>10, PTL DEF GatewaysSpec
  <2>14. GatewaysSpec /\ (X ~> (E \/ A)) => (X ~> ((X /\ E) \/ A))
    BY <2>1, <2>10, PTL DEF GatewaysSpec
  <2>15. GatewaysSpec /\ TurnIsFair(r) /\ ResumeIsFair(r) /\ BackendAnswers(r) => (K ~> A)
    BY <2>11, <2>12, <2>13, <2>14, PTL
  <2> QED
    BY <2>15 DEF K, A
<1> QED
  BY <1>1 DEF EveryRequestIsAnswered
=============================================================================
