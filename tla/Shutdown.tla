------------------------------ MODULE Shutdown ------------------------------
(***************************************************************************)
(* What index.js does from a signal to the end of the process: each SIGTERM*)
(* and SIGINT starts a gracefulShutdown of its own, and they run side by   *)
(* side. One waits for the HTTP connections to close, then for the gRPC    *)
(* calls in progress, closes the MQTT client, destroys the knex pools of   *)
(* dbAdapter.js one after the other and exits 0; its timer exits 1 after   *)
(* 30 seconds, wherever it is. Meanwhile clients keep using the            *)
(* connections they have, and a client that hangs up leaves its query      *)
(* running.                                                                *)
(***************************************************************************)
EXTENDS Integers, FiniteSets

CONSTANTS
    Clients,    \* of the HTTP port, one connection each
    Calls,      \* gRPC calls
    Signals,    \* signals delivered to the process, each once
    Pools,      \* the databases that may get a pool: keys of dbConfig
    NoPool,     \* of a request that needs none
    MqttClient  \* what startMQTTServer returned

(* Nothing when it threw, the client of the mqtt package, or the object    *)
(* that stands for it in TEST_MODE, the only one with a close().           *)
ASSUME MqttAssumption == MqttClient \in {"none", "package", "test"}
ASSUME NoPoolAssumption == NoPool \notin Pools

VARIABLES
    listening,  \* the HTTP server accepts connections
    conn,       \* each client's connection
    serving,    \* the gRPC server accepts calls
    calls,      \* gRPC calls in progress
    pools,      \* connectionPools
    handler,    \* each signal's gracefulShutdown
    exit,       \* the exit status, "none" while the process runs
    timedOut    \* the timer ended the process

vars == <<listening, conn, serving, calls, pools, handler, exit, timedOut>>
clientVars == <<listening, conn>>
grpcVars == <<serving, calls>>

Running == exit = "none"

TypeOK ==
    /\ listening \in BOOLEAN
    /\ conn \in [Clients -> [state: {"away", "idle", "websocket", "executing", "orphan"},
                             pool: Pools \cup {NoPool}]]
    /\ serving \in BOOLEAN
    /\ calls \subseteq Calls
    /\ pools \in [Pools -> {"none", "open", "closing", "destroyed", "failed"}]
    /\ handler \in [Signals -> [pc: {"none", "http", "grpc", "pools"},
                                left: SUBSET Pools, at: Pools \cup {NoPool}]]
    /\ exit \in {"none", "0", "1"}
    /\ timedOut \in BOOLEAN

Init ==
    /\ listening = TRUE
    /\ conn = [c \in Clients |-> [state |-> "away", pool |-> NoPool]]
    /\ serving = TRUE
    /\ calls = {}
    /\ pools = [p \in Pools |-> "none"]
    /\ handler = [h \in Signals |-> [pc |-> "none", left |-> {}, at |-> NoPool]]
    /\ exit = "none"
    /\ timedOut = FALSE

----------------------------------------------------------------------------
(* Clients.                                                                *)

Becomes(c, state, pool) == conn' = [conn EXCEPT ![c] = [state |-> state, pool |-> pool]]

Connect(c) ==
    /\ Running /\ listening
    /\ conn[c].state = "away"
    /\ Becomes(c, "idle", NoPool)
    /\ UNCHANGED <<listening, grpcVars, pools, handler, exit, timedOut>>

\* ws takes the connection over; it still counts as one of the server's.
Upgrade(c) ==
    /\ Running
    /\ conn[c].state = "idle"
    /\ Becomes(c, "websocket", NoPool)
    /\ UNCHANGED <<listening, grpcVars, pools, handler, exit, timedOut>>

\* Mutant of GetConnectionPool: any name will do, configured or not.
GetAnyPool(p) ==
    pools' = [q \in Pools \cup {p} |-> IF q = p THEN "open" ELSE pools[q]]

\* A pool is made when it is first needed and kept, whatever becomes of it.
GetConnectionPool(p) ==
    pools' = [q \in Pools |-> IF q = p /\ pools[q] = "none" THEN "open" ELSE pools[q]]

\* POST /execute, up to the await.
Execute(c, p) ==
    /\ Running
    /\ conn[c].state = "idle"
    /\ Becomes(c, "executing", p)
    /\ GetConnectionPool(p)
    /\ UNCHANGED <<listening, grpcVars, handler, exit, timedOut>>

Answer(c) ==
    /\ Running
    /\ conn[c].state = "executing"
    /\ Becomes(c, "idle", NoPool)
    /\ UNCHANGED <<listening, grpcVars, pools, handler, exit, timedOut>>

\* The connection is gone; a query it asked for is not.
HangUp(c) ==
    /\ Running
    /\ conn[c].state \in {"idle", "websocket", "executing"}
    /\ IF conn[c].state = "executing" THEN Becomes(c, "orphan", conn[c].pool)
                                      ELSE Becomes(c, "away", NoPool)
    /\ UNCHANGED <<listening, grpcVars, pools, handler, exit, timedOut>>

OrphanEnds(c) ==
    /\ Running
    /\ conn[c].state = "orphan"
    /\ Becomes(c, "away", NoPool)
    /\ UNCHANGED <<listening, grpcVars, pools, handler, exit, timedOut>>

CallStarts(g) ==
    /\ Running /\ serving
    /\ g \notin calls
    /\ calls' = calls \cup {g}
    /\ UNCHANGED <<clientVars, serving, pools, handler, exit, timedOut>>

CallEnds(g) ==
    /\ Running
    /\ g \in calls
    /\ calls' = calls \ {g}
    /\ UNCHANGED <<clientVars, serving, pools, handler, exit, timedOut>>

----------------------------------------------------------------------------
(* gracefulShutdown. From one wait to the next nothing else runs.          *)

Signal(h) ==
    /\ Running
    /\ handler[h].pc = "none"
    /\ handler' = [handler EXCEPT ![h].pc = "http"]
    /\ listening' = FALSE
    /\ UNCHANGED <<conn, grpcVars, pools, exit, timedOut>>

\* Mutant of Drained: the server only stops accepting.
DrainedAtOnce == ~listening

\* server.close calls back when no connection is left.
Drained == ~listening /\ \A c \in Clients : conn[c].state \in {"away", "orphan"}

HttpClosed(h) ==
    /\ Running
    /\ handler[h].pc = "http"
    /\ Drained
    /\ handler' = [handler EXCEPT ![h].pc = "grpc"]
    /\ serving' = FALSE
    /\ UNCHANGED <<clientVars, calls, pools, exit, timedOut>>

(* tryShutdown calls back; then mqttServer.close is called, which the mqtt *)
(* package's client does not have: the TypeError ends the process. With    *)
(* any other client closeAllPools takes the names of the pools there are.  *)
GrpcClosed(h) ==
    /\ Running
    /\ handler[h].pc = "grpc"
    /\ calls = {}
    /\ IF MqttClient = "package"
       THEN exit' = "1" /\ UNCHANGED handler
       ELSE /\ handler' = [handler EXCEPT ![h].pc = "pools",
                             ![h].left = {p \in Pools : pools[p] # "none"}]
            /\ UNCHANGED exit
    /\ UNCHANGED <<clientVars, grpcVars, pools, timedOut>>

DestroyStarts(h, p) ==
    /\ Running
    /\ handler[h].pc = "pools"
    /\ handler[h].at = NoPool
    /\ p \in handler[h].left
    /\ handler' = [handler EXCEPT ![h].at = p, ![h].left = @ \ {p}]
    /\ pools' = [pools EXCEPT ![p] = IF @ = "open" THEN "closing" ELSE @]
    /\ UNCHANGED <<clientVars, grpcVars, exit, timedOut>>

\* destroy() waits for the queries that run; when it fails, that is logged.
InUse(p) == \E c \in Clients : conn[c].pool = p

\* Mutant of DestroyEnds: destroy() is called and not awaited.
DestroyNotAwaited(h) ==
    /\ Running
    /\ handler[h].at # NoPool
    /\ handler' = [handler EXCEPT ![h].at = NoPool]
    /\ UNCHANGED <<clientVars, grpcVars, pools, exit, timedOut>>

DestroyEnds(h) ==
    /\ Running
    /\ handler[h].at # NoPool
    /\ \/ /\ ~InUse(handler[h].at)
          /\ pools' = [pools EXCEPT ![handler[h].at] = "destroyed"]
       \/ pools' = [pools EXCEPT ![handler[h].at] = "failed"]
    /\ handler' = [handler EXCEPT ![h].at = NoPool]
    /\ UNCHANGED <<clientVars, grpcVars, exit, timedOut>>

Completed(h) ==
    /\ Running
    /\ handler[h].pc = "pools"
    /\ handler[h].at = NoPool
    /\ handler[h].left = {}
    /\ exit' = "0"
    /\ UNCHANGED <<clientVars, grpcVars, pools, handler, timedOut>>

\* Mutant of TimerFires: it is armed after the HTTP server has closed.
TimerFiresLate(h) ==
    /\ Running
    /\ handler[h].pc \notin {"none", "http"}
    /\ exit' = "1"
    /\ timedOut' = TRUE
    /\ UNCHANGED <<clientVars, grpcVars, pools, handler>>

\* The timer is armed before anything else and cleared just before exit(0).
TimerFires(h) ==
    /\ Running
    /\ handler[h].pc # "none"
    /\ exit' = "1"
    /\ timedOut' = TRUE
    /\ UNCHANGED <<clientVars, grpcVars, pools, handler>>

ClientStep(c) ==
    \/ Connect(c)
    \/ Upgrade(c)
    \/ \E p \in Pools \cup {NoPool} : Execute(c, p)
    \/ Answer(c)
    \/ HangUp(c)
    \/ OrphanEnds(c)

ShutdownStep(h) ==
    \/ Signal(h)
    \/ HttpClosed(h)
    \/ GrpcClosed(h)
    \/ \E p \in Pools : DestroyStarts(h, p)
    \/ DestroyEnds(h)
    \/ Completed(h)
    \/ TimerFires(h)

Next ==
    \/ \E c \in Clients : ClientStep(c)
    \/ \E g \in Calls : CallStarts(g) \/ CallEnds(g)
    \/ \E h \in Signals : ShutdownStep(h)

Spec == Init /\ [][Next]_vars

(* A timer that is armed fires. Nothing else is fair: connections may stay *)
(* open and queries run for ever.                                          *)
FairSpec == Spec /\ \A h \in Signals : WF_vars(TimerFires(h))

----------------------------------------------------------------------------
(* Exit status 0 means that nobody was cut off: every connection and call  *)
(* was over, every pool there was had been destroyed (or had failed to be, *)
(* which is logged) and no query was left on a pool that was destroyed -   *)
(* although pools are made while the shutdown runs, and two shutdowns      *)
(* close the same pools (index.js:116-149, dbAdapter.js:122-134).          *)
CleanExit ==
    exit = "0" =>
       /\ calls = {}
       /\ \A p \in Pools : pools[p] \in {"none", "destroyed", "failed"}
       /\ \A c \in Clients :
             /\ conn[c].state \in {"away", "orphan"}
             /\ conn[c].pool # NoPool => pools[conn[c].pool] = "failed"

(* No client waits for a query on a pool whose destruction has begun: the  *)
(* pools go last, when no connection can bring a request any more.         *)
NobodyWaitsOnClosedPool ==
    \A c \in Clients :
       conn[c].state = "executing" /\ conn[c].pool \in Pools =>
          pools[conn[c].pool] = "open"

(* A signal ends the process, whatever clients and backends do: an open    *)
(* WebSocket, which nothing closes, or a query that never returns holds it *)
(* up no longer than the timer (index.js:110-114).                         *)
SignalEndsProcess ==
    \A h \in Signals : handler[h].pc # "none" ~> ~Running

(* "Return client instance for graceful shutdown" (mqttServer.js:41): a    *)
(* shutdown that is given the time it needs completes and exits 0.         *)
CompletesInTime == ~Running /\ ~timedOut => exit = "0"
=============================================================================
