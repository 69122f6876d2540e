------------------------------ MODULE Gateways ------------------------------
(***************************************************************************)
(* The four ways to the interpreter: the REST endpoints of index.js, and   *)
(* grpc/grpcServer.js, websocket/websocketServer.js and mqtt/mqttServer.js,*)
(* composed with the interpreter itself. A request of SqlInterpreter is a  *)
(* client's request here; "gate" is what its gateway makes of it.          *)
(*                                                                         *)
(* A REST request is counted by the limiter when it arrives; that waits for*)
(* the limiter's store. Authentication, validation, sanitizing and         *)
(* execute() up to its await are one turn of the event loop, and the answer*)
(* is another after execute() has returned or thrown.                      *)
(***************************************************************************)
EXTENDS SqlInterpreter, RateLimiter

CONSTANTS
    Sanitized,      \* sanitizeSql: from the texts clients send to what is left
    RefusedTexts,   \* missing ones, and those that match a pattern of validateSql
    NotAnObject,    \* options that are not an object
    NoToken,        \* no authorization header
    Sent,           \* what clients send: records [path, token, post]
    NoSent,         \* of a request not made, or dealt with
    NoClient        \* of a request no limiter counts

\* The body of POST /execute. Escaping leaves these options as they are.
Post == [sql: DOMAIN Sanitized, adapter: DOMAIN Lower, options: Options \cup {NotAnObject}]

\* A token is the time at which it expires, in the past for a forged one.
Token == Int \cup {NoToken}

RestRequest == [path: {"execute", "health", "auth"}, token: Token, post: Post]

ASSUME SentAssumption == Sent \subseteq RestRequest
ASSUME SanitizedAssumption ==
    /\ Sanitized \in [DOMAIN Sanitized -> DOMAIN Parse]
    /\ RefusedTexts \subseteq DOMAIN Sanitized
    /\ NotAnObject \notin Options

VARIABLE gate   \* of each request: where it is and how it was answered

gatewayVars == <<now, order, entry, stats, store, req, window, gate>>

\* The last two fields are for the properties only: when each limiter let
\* the request pass, and when it refused it (Never if it did not).
Never == StartTime - 1
AtNoTime == [l \in Limiters |-> Never]

Unsent == [pc |-> "unmade", client |-> NoClient, sent |-> NoSent, answer |-> "none",
           passed |-> AtNoTime, refused |-> AtNoTime]

\* "healthy" and "result" are 200, the one of /health, the other with what
\* execute() returned; "error" and "UNAUTHENTICATED" are not HTTP.
Answers == {"none", "healthy", "result", "404", "429", "500", "error", "UNAUTHENTICATED"}

GatewayTypeOK ==
    /\ WindowTypeOK
    /\ gate \in [Requests ->
          [pc: {"unmade", "counted", "executing", "ignored", "answered"},
           client: Clients \cup {NoClient},
           sent: Sent \cup {NoSent},
           answer: Answers,
           passed: [Limiters -> Never..MaxTime],
           refused: [Limiters -> Never..MaxTime]]]

GatewaysInit ==
    /\ Init
    /\ WindowInit(StartTime)
    /\ gate = [r \in Requests |-> Unsent]

----------------------------------------------------------------------------
(* What the gateways share.                                                *)

\* verifyToken: jwt.verify throws for a token that has expired.
ValidToken(token) == token # NoToken /\ now < token

\* validateRequest throws in every other case.
ValidPost(post) ==
    /\ post.sql \notin RefusedTexts
    /\ Lower[post.adapter] \in DOMAIN SUPPORTED_ADAPTERS
    /\ post.options # NotAnObject

\* sanitizeRequest.
StatementOf(post) ==
    [sql |-> Sanitized[post.sql], adapter |-> Lower[post.adapter], options |-> post.options]

ASSUME StatementsAssumption ==
    \A p \in {q.post : q \in Sent} : ValidPost(p) => StatementOf(p) \in Statements

\* validateInput is imported from security.js, which does not export it.
ValidateInputThrows == TRUE

\* execute() as far as its await, or to its end.
Execute(r, s) == Reject(r, s) \/ AnswerFromCache(r, s) \/ CallAdapter(r, s) \/ AdapterThrows(r, s)

Answered(g, answer) == [g EXCEPT !.pc = "answered", !.sent = NoSent, !.answer = answer]

Answer(r, answer) ==
    /\ gate' = [gate EXCEPT ![r] = Answered(@, answer)]
    /\ UNCHANGED vars

----------------------------------------------------------------------------
(* REST: the middleware in the order of index.js.                          *)

(* bodyParser comes before the limiter, and the error handler right after  *)
(* it: such an error is answered by handleError, as an unknown one.        *)
MalformedBody(r) ==
    /\ gate[r].pc = "unmade"
    /\ Answer(r, "500")
    /\ UNCHANGED window

ApiLimited(r, c, m) ==
    /\ gate[r].pc = "unmade"
    /\ Hit("api", c, now)
    /\ gate' = [gate EXCEPT ![r] =
         IF Passes("api", c, now)
         THEN [Unsent EXCEPT !.pc = "counted", !.client = c, !.sent = m, !.passed["api"] = now]
         ELSE [Answered(Unsent, "429") EXCEPT !.client = c, !.refused["api"] = now]]
    /\ UNCHANGED vars

At(r, path) == gate[r].pc = "counted" /\ gate[r].sent.path = path

\* No route is registered under /auth.
AuthLimited(r) ==
    /\ At(r, "auth")
    /\ Hit("auth", gate[r].client, now)
    /\ gate' = [gate EXCEPT ![r] =
         IF Passes("auth", @.client, now)
         THEN [Answered(@, "404") EXCEPT !.passed["auth"] = now]
         ELSE [Answered(@, "429") EXCEPT !.refused["auth"] = now]]
    /\ UNCHANGED vars

Health(r) ==
    /\ At(r, "health")
    /\ Answer(r, "healthy")
    /\ UNCHANGED window

(* The errors of authenticate and validateRequest go to next(): no error   *)
(* handler follows the routes, and Express answers 500 by itself.          *)
NotExecuted(r) ==
    /\ At(r, "execute")
    /\ ~ValidToken(gate[r].sent.token) \/ ~ValidPost(gate[r].sent.post)
    /\ Answer(r, "500")
    /\ UNCHANGED window

\* Mutant of Executed: the client is told before execute() has ended.
ExecutedUnawaited(r) ==
    /\ At(r, "execute")
    /\ ValidToken(gate[r].sent.token)
    /\ ValidPost(gate[r].sent.post)
    /\ Execute(r, StatementOf(gate[r].sent.post))
    /\ gate' = [gate EXCEPT ![r] = Answered(@, "result")]
    /\ UNCHANGED window

Executed(r) ==
    /\ At(r, "execute")
    /\ ValidToken(gate[r].sent.token)
    /\ ValidPost(gate[r].sent.post)
    /\ Execute(r, StatementOf(gate[r].sent.post))
    /\ gate' = [gate EXCEPT ![r].pc = "executing", ![r].sent = NoSent]
    /\ UNCHANGED window

Returned(r) == gate[r].pc = "executing" /\ req[r].pc \in {"done", "failed"}

\* Mutants of RestAnswers: a failure is not passed on, or is tried again.
RestAnswersSuccess(r) ==
    /\ Returned(r)
    /\ req[r].pc = "done"
    /\ Answer(r, "result")
    /\ UNCHANGED window

RestRetries(r) ==
    /\ Returned(r)
    /\ req' = [req EXCEPT ![r] = Unmade]
    /\ UNCHANGED <<now, order, entry, stats, store, window, gate>>

RestAnswers(r) ==
    /\ Returned(r)
    /\ Answer(r, IF req[r].pc = "done" THEN "result" ELSE "500")
    /\ UNCHANGED window

RestStep(r) == AuthLimited(r) \/ Health(r) \/ NotExecuted(r) \/ Executed(r) \/ RestAnswers(r)

----------------------------------------------------------------------------
(* The other gateways. Where execute() would be called, validateInput is   *)
(* called first and throws.                                                *)

(* authenticate() calls next() inside its try: what next() throws is taken *)
(* for a failed authentication and next() is called again, with an error.  *)
GrpcCall(r, token) ==
    /\ gate[r].pc = "unmade"
    /\ Answer(r, IF ValidToken(token) /\ ~ValidateInputThrows
                 THEN "result" ELSE "UNAUTHENTICATED")
    /\ UNCHANGED window

(* A message of a connection: its token was looked at when the connection  *)
(* was made, then or at any time before, and never again.                  *)
WebSocketMessage(r, token) ==
    /\ gate[r].pc = "unmade"
    /\ token # NoToken
    /\ \E t \in StartTime..now : t < token
    /\ Answer(r, IF ValidateInputThrows THEN "error" ELSE "result")
    /\ UNCHANGED window

(* startMQTTServer returns before its handler of messages is registered.   *)
MqttMessage(r) ==
    /\ gate[r].pc = "unmade"
    /\ gate' = [gate EXCEPT ![r].pc = "ignored"]
    /\ UNCHANGED <<vars, window>>

----------------------------------------------------------------------------
\* The interpreter goes on with a request, or the clock does.
InterpreterStep ==
    /\ (\E r \in Requests : BackendReply(r) \/ Resume(r)) \/ TimePasses
    /\ UNCHANGED <<window, gate>>

Arrival(r) ==
    \/ MalformedBody(r)
    \/ \E c \in Clients, m \in Sent : ApiLimited(r, c, m)
    \/ \E m \in Sent : GrpcCall(r, m.token) \/ WebSocketMessage(r, m.token)
    \/ MqttMessage(r)

GatewaysNext ==
    \/ \E r \in Requests : Arrival(r) \/ RestStep(r)
    \/ InterpreterStep

GatewaysSpec == GatewaysInit /\ [][GatewaysNext]_gatewayVars

----------------------------------------------------------------------------
(* What the gateways promise.                                              *)

(* Requests enter the interpreter through the gateways as SqlInterpreter   *)
(* says they do, each once: what is shown of the interpreter holds behind  *)
(* the gateways (index.js:70 is the only call that is reached).            *)
ImplementsInterpreter == Spec

(* The answer tells what happened: a result that execute() returned, the   *)
(* rest that it threw or was never called. Nobody is answered while his    *)
(* call is on its way, and a request that was turned away by a limiter, a  *)
(* check or another gateway has no part of it in the interpreter           *)
(* (index.js:59-75).                                                       *)
AnswersTellOutcome ==
    \A r \in Requests :
       /\ gate[r].pc \in {"unmade", "counted", "ignored"} => req[r].pc = "idle"
       /\ gate[r].pc = "executing" => req[r].pc # "idle"
       /\ gate[r].pc = "answered" =>
             \/ gate[r].answer = "result" /\ req[r].pc = "done"
             \/ gate[r].answer = "500" /\ req[r].pc = "failed"
             \/ gate[r].answer # "result" /\ req[r].pc = "idle"

\* The requests of a client that a limiter let pass in the window before t.
PassedBefore(l, c, t) ==
    {r \in Requests : /\ gate[r].client = c
                      /\ gate[r].passed[l] # Never
                      /\ gate[r].passed[l] \in (t - WindowMs[l] + 1)..t}

(* However a client times its requests, no interval of a window's length   *)
(* sees more than twice the limit pass: windows follow the requests, so two*)
(* of them meet inside the interval (rateLimiter.js:10-11).                *)
LimitsAreKept ==
    \A l \in Limiters, c \in Clients, t \in StartTime..MaxTime :
       Cardinality(PassedBefore(l, c, t)) <= 2 * Limit[l]

(* A client is refused only after it has used the limit itself within the  *)
(* last window: neither other clients nor requests before that count.      *)
RefusedOnlyAtLimit ==
    \A r \in Requests, l \in Limiters :
       gate[r].refused[l] # Never =>
          Cardinality(PassedBefore(l, gate[r].client, gate[r].refused[l])) >= Limit[l]

(* No path through the chain leaves a client without an answer: as long as*)
(* a REST request has none, it is the backend's turn, or a callback of this*)
(* request is ready to run, which the event loop then does (every branch of*)
(* index.js:25-75 answers, calls next or awaits).                          *)
NoRequestIsLeft ==
    \A r \in Requests :
       gate[r].pc \in {"counted", "executing"} =>
          req[r].pc = "called" \/ ENABLED RestStep(r) \/ ENABLED Resume(r)
=============================================================================
