--------------------------- MODULE ShutdownProofs ---------------------------
(***************************************************************************)
(* Proofs about Shutdown: exit status 0 is clean, and no client waits on a *)
(* pool that is being destroyed, for every set of clients, calls, signals  *)
(* and pools and whatever MQTT client there is.                            *)
(***************************************************************************)
EXTENDS Shutdown, TLAPS

(***************************************************************************)
(* The inductive invariant. The order of the waits is what makes the       *)
(* shutdown clean: a handler past a wait means that what it waited for is  *)
(* over, and stays over because the server it closed takes nothing new.    *)
(***************************************************************************)
Past(pcs) == \E h \in Signals : handler[h].pc \in pcs

\* Past the wait for connections there is none; past that for calls, none.
WaitsAreOver ==
    /\ Past({"http", "grpc", "pools"}) => ~listening
    /\ Past({"grpc", "pools"}) => Drained /\ ~serving
    /\ Past({"pools"}) => calls = {}

\* Only a handler that has come to the pools has pools to destroy.
OnlyPoolsPhaseDestroys ==
    /\ \A h \in Signals :
          handler[h].pc # "pools" => handler[h].left = {} /\ handler[h].at = NoPool
    /\ \A p \in Pools :
          pools[p] \in {"closing", "destroyed", "failed"} => Past({"pools"})

\* What a handler has left behind has been destroyed or has failed to be.
DoneWithPool ==
    \A h \in Signals : handler[h].pc = "pools" =>
       \A p \in Pools :
          \/ p \in handler[h].left
          \/ p = handler[h].at /\ pools[p] # "open"
          \/ pools[p] \in {"none", "destroyed", "failed"}

\* A query has a pool, and none has one that has been destroyed.
QueriesHavePools ==
    \A c \in Clients : conn[c].pool # NoPool =>
       /\ conn[c].state \in {"executing", "orphan"}
       /\ pools[conn[c].pool] \notin {"none", "destroyed"}

IInv ==
    /\ TypeOK
    /\ WaitsAreOver
    /\ OnlyPoolsPhaseDestroys
    /\ DoneWithPool
    /\ QueriesHavePools
    /\ CleanExit

----------------------------------------------------------------------------
(* At the start nobody has signalled anything.                             *)
LEMMA InitInv == Init => IInv
<1> SUFFICES ASSUME Init PROVE IInv
  OBVIOUS
<1>1. TypeOK
  BY DEF Init, TypeOK
<1>2. WaitsAreOver /\ OnlyPoolsPhaseDestroys /\ DoneWithPool
  BY DEF Init, WaitsAreOver, OnlyPoolsPhaseDestroys, DoneWithPool, Past
<1>3. QueriesHavePools /\ CleanExit
  BY DEF Init, QueriesHavePools, CleanExit
<1> QED
  BY <1>1, <1>2, <1>3 DEF IInv

(* What a client does keeps the invariant: it can open a connection only   *)
(* while the server listens, and ask for a pool only on a connection.      *)
LEMMA ConnectInv ==
    ASSUME IInv, NEW c \in Clients, Connect(c)
    PROVE  IInv'
BY NoPoolAssumption
   DEF Connect, Becomes, Running, clientVars, grpcVars, IInv, TypeOK,
       WaitsAreOver, OnlyPoolsPhaseDestroys, DoneWithPool, QueriesHavePools,
       CleanExit, Past, Drained

(* A WebSocket still counts as a connection, so nothing drains by it.      *)
LEMMA UpgradeInv ==
    ASSUME IInv, NEW c \in Clients, Upgrade(c)
    PROVE  IInv'
BY NoPoolAssumption
   DEF Upgrade, Becomes, Running, clientVars, grpcVars, IInv, TypeOK,
       WaitsAreOver, OnlyPoolsPhaseDestroys, DoneWithPool, QueriesHavePools,
       CleanExit, Past, Drained

(* An answered client keeps its connection and lets go of its pool.        *)
LEMMA AnswerInv ==
    ASSUME IInv, NEW c \in Clients, Answer(c)
    PROVE  IInv'
BY NoPoolAssumption
   DEF Answer, Becomes, Running, clientVars, grpcVars, IInv, TypeOK,
       WaitsAreOver, OnlyPoolsPhaseDestroys, DoneWithPool, QueriesHavePools,
       CleanExit, Past, Drained

(* A client that hangs up leaves its query, and the query its pool.        *)
LEMMA HangUpInv ==
    ASSUME IInv, NEW c \in Clients, HangUp(c)
    PROVE  IInv'
BY NoPoolAssumption
   DEF HangUp, Becomes, Running, clientVars, grpcVars, IInv, TypeOK,
       WaitsAreOver, OnlyPoolsPhaseDestroys, DoneWithPool, QueriesHavePools,
       CleanExit, Past, Drained

(* A query nobody waits for ends and lets go of its pool.                  *)
LEMMA OrphanEndsInv ==
    ASSUME IInv, NEW c \in Clients, OrphanEnds(c)
    PROVE  IInv'
BY NoPoolAssumption
   DEF OrphanEnds, Becomes, Running, clientVars, grpcVars, IInv, TypeOK,
       WaitsAreOver, OnlyPoolsPhaseDestroys, DoneWithPool, QueriesHavePools,
       CleanExit, Past, Drained

(* A request opens its pool if need be; as it has a connection, no handler *)
(* is past the wait for them, so no pool is opened behind closeAllPools.   *)
LEMMA ExecuteInv ==
    ASSUME IInv, NEW c \in Clients, NEW p \in Pools \cup {NoPool}, Execute(c, p)
    PROVE  IInv'
BY NoPoolAssumption
   DEF Execute, GetConnectionPool, Becomes, Running, clientVars, grpcVars,
       IInv, TypeOK, WaitsAreOver, OnlyPoolsPhaseDestroys, DoneWithPool,
       QueriesHavePools, CleanExit, Past, Drained

(* A gRPC call starts only while the gRPC server takes calls.              *)
LEMMA CallStartsInv ==
    ASSUME IInv, NEW g \in Calls, CallStarts(g)
    PROVE  IInv'
BY NoPoolAssumption
   DEF CallStarts, Running, clientVars, grpcVars, IInv, TypeOK,
       WaitsAreOver, OnlyPoolsPhaseDestroys, DoneWithPool, QueriesHavePools,
       CleanExit, Past, Drained

(* A gRPC call that ends leaves fewer to wait for.                         *)
LEMMA CallEndsInv ==
    ASSUME IInv, NEW g \in Calls, CallEnds(g)
    PROVE  IInv'
BY NoPoolAssumption
   DEF CallEnds, Running, clientVars, grpcVars, IInv, TypeOK, WaitsAreOver,
       OnlyPoolsPhaseDestroys, DoneWithPool, QueriesHavePools, CleanExit,
       Past, Drained

(* A second signal starts at the first wait, whatever the first has done.  *)
LEMMA SignalInv ==
    ASSUME IInv, NEW h \in Signals, Signal(h)
    PROVE  IInv'
BY NoPoolAssumption
   DEF Signal, InUse, Running, clientVars, grpcVars, IInv, TypeOK,
       WaitsAreOver, OnlyPoolsPhaseDestroys, DoneWithPool, QueriesHavePools,
       CleanExit, Past, Drained

(* A handler passes the wait for connections only when there are none.     *)
LEMMA HttpClosedInv ==
    ASSUME IInv, NEW h \in Signals, HttpClosed(h)
    PROVE  IInv'
BY NoPoolAssumption
   DEF HttpClosed, InUse, Running, clientVars, grpcVars, IInv, TypeOK,
       WaitsAreOver, OnlyPoolsPhaseDestroys, DoneWithPool, QueriesHavePools,
       CleanExit, Past, Drained

(* A handler passes the wait for calls only when there are none, and has   *)
(* then every pool there is before it.                                     *)
LEMMA GrpcClosedInv ==
    ASSUME IInv, NEW h \in Signals, GrpcClosed(h)
    PROVE  IInv'
BY NoPoolAssumption
   DEF GrpcClosed, InUse, Running, clientVars, grpcVars, IInv, TypeOK,
       WaitsAreOver, OnlyPoolsPhaseDestroys, DoneWithPool, QueriesHavePools,
       CleanExit, Past, Drained

(* The pool a handler waits for ends destroyed, which it does only when no *)
(* query uses it, or failed; all else stays, but that it waits no more.    *)
LEMMA DestroyEndsInv ==
    ASSUME IInv, NEW h \in Signals, DestroyEnds(h)
    PROVE  IInv'
<1> DEFINE p == handler[h].at
<1>1. handler[h].pc = "pools" /\ p \in Pools /\ Running
  BY DEF DestroyEnds, IInv, TypeOK, OnlyPoolsPhaseDestroys
<1>2. PICK outcome \in {"destroyed", "failed"} :
         /\ pools' = [pools EXCEPT ![p] = outcome]
         /\ outcome = "destroyed" => ~InUse(p)
  BY DEF DestroyEnds
<1>3. /\ handler' = [handler EXCEPT ![h].at = NoPool]
      /\ UNCHANGED <<listening, conn, serving, calls, exit, timedOut>>
  BY DEF DestroyEnds, clientVars, grpcVars
<1>4. \A g \in Signals : handler'[g].pc = handler[g].pc /\ handler'[g].left = handler[g].left
  BY <1>3 DEF IInv, TypeOK
<1>5. \A pcs : Past(pcs)' <=> Past(pcs)
  BY <1>4 DEF Past
<1>6. TypeOK'
  BY <1>1, <1>2, <1>3 DEF IInv, TypeOK
<1>7. WaitsAreOver'
  BY <1>3, <1>5 DEF IInv, WaitsAreOver, Drained
<1>8. OnlyPoolsPhaseDestroys'
  BY <1>1, <1>2, <1>3, <1>4, <1>5
     DEF IInv, TypeOK, OnlyPoolsPhaseDestroys, Past
<1>9. DoneWithPool'
  BY <1>1, <1>2, <1>3, <1>4 DEF IInv, TypeOK, DoneWithPool
<1>10. QueriesHavePools'
  BY <1>1, <1>2, <1>3 DEF IInv, TypeOK, QueriesHavePools, InUse
<1>11. CleanExit'
  BY <1>1, <1>3 DEF CleanExit, Running
<1> QED
  BY <1>6, <1>7, <1>8, <1>9, <1>10, <1>11 DEF IInv

(* A handler that has no pool left to destroy exits 0, which is clean.     *)
LEMMA CompletedInv ==
    ASSUME IInv, NEW h \in Signals, Completed(h)
    PROVE  IInv'
BY NoPoolAssumption
   DEF Completed, InUse, Running, clientVars, grpcVars, IInv, TypeOK,
       WaitsAreOver, OnlyPoolsPhaseDestroys, DoneWithPool, QueriesHavePools,
       CleanExit, Past, Drained

(* The timer exits 1 and says nothing about anything else.                 *)
LEMMA TimerFiresInv ==
    ASSUME IInv, NEW h \in Signals, TimerFires(h)
    PROVE  IInv'
BY NoPoolAssumption
   DEF TimerFires, InUse, Running, clientVars, grpcVars, IInv, TypeOK,
       WaitsAreOver, OnlyPoolsPhaseDestroys, DoneWithPool, QueriesHavePools,
       CleanExit, Past, Drained

(* A pool leaves the handler's list when its destruction starts.           *)
LEMMA DestroyStartsInv ==
    ASSUME IInv, NEW h \in Signals, NEW p \in Pools, DestroyStarts(h, p)
    PROVE  IInv'
BY NoPoolAssumption
   DEF DestroyStarts, Running, clientVars, grpcVars, IInv, TypeOK,
       WaitsAreOver, OnlyPoolsPhaseDestroys, DoneWithPool, QueriesHavePools,
       CleanExit, Past, Drained

(* A step that changes nothing keeps the invariant.                        *)
LEMMA StutterInv ==
    ASSUME IInv, UNCHANGED vars
    PROVE  IInv'
BY DEF vars, IInv, TypeOK, WaitsAreOver, OnlyPoolsPhaseDestroys, DoneWithPool,
       QueriesHavePools, CleanExit, Past, Drained

(* The invariant is inductive: one lemma for each action.                  *)
LEMMA NextInv == IInv /\ [Next]_vars => IInv'
<1> SUFFICES ASSUME IInv, [Next]_vars PROVE IInv'
  OBVIOUS
<1>1. ASSUME NEW c \in Clients, ClientStep(c) PROVE IInv'
  <2>1. CASE \E p \in Pools \cup {NoPool} : Execute(c, p)
    BY <2>1, ExecuteInv
  <2> QED
    BY <1>1, <2>1, ConnectInv, UpgradeInv, AnswerInv, HangUpInv, OrphanEndsInv
       DEF ClientStep
<1>2. ASSUME NEW g \in Calls, CallStarts(g) \/ CallEnds(g) PROVE IInv'
  BY <1>2, CallStartsInv, CallEndsInv
<1>3. ASSUME NEW h \in Signals, ShutdownStep(h) PROVE IInv'
  <2>1. CASE \E p \in Pools : DestroyStarts(h, p)
    BY <2>1, DestroyStartsInv
  <2> QED
    BY <1>3, <2>1, SignalInv, HttpClosedInv, GrpcClosedInv, DestroyEndsInv,
       CompletedInv, TimerFiresInv DEF ShutdownStep
<1>4. CASE UNCHANGED vars
  BY <1>4, StutterInv
<1> QED
  BY <1>1, <1>2, <1>3, <1>4 DEF Next

(* A pool being destroyed means a handler past every wait, hence no client *)
(* that waits for an answer.                                               *)
LEMMA InvImpliesPoolsLast == IInv => NobodyWaitsOnClosedPool
<1> SUFFICES ASSUME IInv, NEW c \in Clients, conn[c].state = "executing",
                    conn[c].pool \in Pools
             PROVE  pools[conn[c].pool] = "open"
  BY DEF NobodyWaitsOnClosedPool
<1> DEFINE p == conn[c].pool
<1>1. pools[p] \in {"open", "closing", "failed"}
  BY NoPoolAssumption DEF IInv, TypeOK, QueriesHavePools
<1>2. ~Drained
  BY DEF Drained
<1>3. ~Past({"pools"})
  BY <1>2 DEF IInv, WaitsAreOver, Past
<1> QED
  BY <1>1, <1>3 DEF IInv, OnlyPoolsPhaseDestroys

----------------------------------------------------------------------------
(* The state of servers, connections, pools and handlers keeps its type,   *)
(* whatever clients do while index.js shuts down (index.js:107-158).       *)
THEOREM ShutdownTypeCorrect == Spec => []TypeOK
<1>1. IInv => TypeOK
  BY DEF IInv
<1> QED
  BY <1>1, InitInv, NextInv, PTL DEF Spec

(* Exit status 0 means that no call was cut off and every pool destroyed or*)
(* failed to be, for any number of concurrent shutdowns (index.js:116-149).*)
THEOREM ExitZeroIsClean == Spec => []CleanExit
<1>1. IInv => CleanExit
  BY DEF IInv
<1> QED
  BY <1>1, InitInv, NextInv, PTL DEF Spec

(* No client waits on a pool whose destruction has begun (index.js:142).   *)
THEOREM PoolsGoLast == Spec => []NobodyWaitsOnClosedPool
BY InitInv, NextInv, InvImpliesPoolsLast, PTL DEF Spec

----------------------------------------------------------------------------
(* What the run shutdown_mqtt finds comes from the client of the mqtt      *)
(* package and from nothing else.                                          *)

(* With any other MQTT client a shutdown that is given the time it needs   *)
(* completes and exits 0 (CompletesInTime; index.js:133-149).              *)
THEOREM CompletesWithoutMqttPackage ==
  ASSUME MqttClient # "package"
  PROVE  Spec => []CompletesInTime
<1>1. Init => CompletesInTime
  BY DEF Init, CompletesInTime, Running
<1>2. CompletesInTime /\ [Next]_vars => CompletesInTime'
  <2> SUFFICES ASSUME CompletesInTime, [Next]_vars PROVE CompletesInTime'
    OBVIOUS
  <2>1. ASSUME NEW c \in Clients, ClientStep(c) PROVE CompletesInTime'
    BY <2>1 DEF ClientStep, Connect, Upgrade, Execute, Answer, HangUp, OrphanEnds,
                CompletesInTime, Running
  <2>2. ASSUME NEW g \in Calls, CallStarts(g) \/ CallEnds(g) PROVE CompletesInTime'
    BY <2>2 DEF CallStarts, CallEnds, CompletesInTime, Running
  <2>3. ASSUME NEW h \in Signals, ShutdownStep(h) PROVE CompletesInTime'
    BY <2>3 DEF ShutdownStep, Signal, HttpClosed, GrpcClosed, DestroyStarts, DestroyEnds,
                Completed, TimerFires, CompletesInTime, Running
  <2>4. CASE UNCHANGED vars
    BY <2>4 DEF vars, CompletesInTime, Running
  <2> QED
    BY <2>1, <2>2, <2>3, <2>4 DEF Next
<1> QED
  BY <1>1, <1>2, PTL DEF Spec

\* No shutdown gets to the pools.
NeverClean ==
    /\ TypeOK
    /\ ~Past({"pools"})
    /\ \A p \in Pools : pools[p] \in {"none", "open"}
    /\ exit # "0"

LEMMA NeverCleanKept ==
  ASSUME MqttClient = "package", IInv, NeverClean, [Next]_vars
  PROVE  NeverClean'
<1>1. TypeOK'
  BY NextInv DEF IInv
<1>2. ASSUME NEW c \in Clients, ClientStep(c) PROVE NeverClean'
  <2>1. UNCHANGED <<handler, exit>>
    BY <1>2 DEF ClientStep, Connect, Upgrade, Execute, Answer, HangUp, OrphanEnds
  <2>2. \A p \in Pools : pools'[p] \in {"none", "open"}
    BY <1>2 DEF NeverClean, ClientStep, Connect, Upgrade, Execute, GetConnectionPool, Answer,
                HangUp, OrphanEnds
  <2> QED
    BY <1>1, <2>1, <2>2 DEF NeverClean, Past
<1>3. ASSUME NEW g \in Calls, CallStarts(g) \/ CallEnds(g) PROVE NeverClean'
  BY <1>1, <1>3 DEF CallStarts, CallEnds, NeverClean, Past
<1>4. ASSUME NEW h \in Signals, ShutdownStep(h) PROVE NeverClean'
  <2>1. handler[h].pc # "pools" /\ handler[h].at = NoPool
    BY DEF IInv, NeverClean, Past, OnlyPoolsPhaseDestroys
  <2>2. /\ \E pc \in {handler[h].pc, "http", "grpc"} :
              handler' = [handler EXCEPT ![h].pc = pc] \/ UNCHANGED handler
        /\ UNCHANGED pools
        /\ exit' # "0"
    BY <1>4, <2>1 DEF ShutdownStep, Signal, HttpClosed, GrpcClosed, DestroyStarts,
                      DestroyEnds, Completed, TimerFires, NeverClean
  <2>3. \A g \in Signals : handler'[g].pc # "pools"
    BY <2>1, <2>2 DEF NeverClean, Past, TypeOK
  <2> QED
    BY <1>1, <2>2, <2>3 DEF NeverClean, Past
<1>5. CASE UNCHANGED vars
  BY <1>1, <1>5 DEF vars, NeverClean, Past
<1> QED
  BY <1>2, <1>3, <1>4, <1>5 DEF Next

(* With the client of the mqtt package the pools are never destroyed and   *)
(* the process never exits 0, however many signals come and however long   *)
(* they take (index.js:135-136, mqttServer.js:41).                         *)
THEOREM MqttPackageNeverExitsZero ==
  ASSUME MqttClient = "package"
  PROVE  Spec => [](exit # "0" /\ \A p \in Pools : pools[p] \in {"none", "open"})
<1>1. Init => NeverClean
  BY InitInv DEF IInv, Init, NeverClean, Past
<1>2. IInv /\ NeverClean /\ [Next]_vars => NeverClean'
  BY NeverCleanKept
<1>3. NeverClean => exit # "0" /\ \A p \in Pools : pools[p] \in {"none", "open"}
  BY DEF NeverClean
<1> QED
  BY <1>1, <1>2, <1>3, InitInv, NextInv, PTL DEF Spec

----------------------------------------------------------------------------
(* A signal ends the process. The fairness is FairSpec's with the state in *)
(* which a timer can fire written out in place of ENABLED: a timer that    *)
(* stays armed while the process runs fires (setTimeout, index.js:111).    *)
TimerIsArmed(h) == handler[h].pc # "none" /\ Running

TimerIsFair(h) == []<>~TimerIsArmed(h) \/ []<><<TimerFires(h)>>_vars

(* TimerIsArmed is when the timer can fire: the step that sets the exit    *)
(* status and nothing else is one of TimerFires (index.js:111-114).        *)
THEOREM ArmedTimerCanFire ==
  ASSUME NEW h \in Signals, TimerIsArmed(h),
         exit' = "1", timedOut' = TRUE,
         UNCHANGED <<listening, conn, serving, calls, pools, handler>>
  PROVE  <<TimerFires(h)>>_vars
<1>1. TimerFires(h)
  BY DEF TimerIsArmed, TimerFires, clientVars, grpcVars
<1>2. exit' # exit
  BY DEF TimerIsArmed, Running
<1> QED
  BY <1>1, <1>2 DEF vars

(* Nothing disarms a timer but the end of the process.                     *)
LEMMA TimerStaysArmed ==
  ASSUME NEW h \in Signals, TypeOK, TimerIsArmed(h), [Next]_vars
  PROVE  TimerIsArmed(h)' \/ ~Running'
<1>1. ASSUME NEW c \in Clients, ClientStep(c) PROVE TimerIsArmed(h)'
  BY <1>1 DEF ClientStep, Connect, Upgrade, Execute, Answer, HangUp, OrphanEnds,
              TimerIsArmed, Running
<1>2. ASSUME NEW g \in Calls, CallStarts(g) \/ CallEnds(g) PROVE TimerIsArmed(h)'
  BY <1>2 DEF CallStarts, CallEnds, TimerIsArmed, Running
<1>3. ASSUME NEW g \in Signals, ShutdownStep(g) PROVE handler'[h].pc # "none"
  <2>1. CASE Signal(g)
    BY <2>1 DEF Signal, TimerIsArmed, TypeOK
  <2>2. CASE HttpClosed(g)
    BY <2>2 DEF HttpClosed, TimerIsArmed, TypeOK
  <2>3. CASE GrpcClosed(g)
    BY <2>3 DEF GrpcClosed, TimerIsArmed, TypeOK
  <2>4. ASSUME NEW p \in Pools, DestroyStarts(g, p) PROVE handler'[h].pc # "none"
    BY <2>4 DEF DestroyStarts, TimerIsArmed, TypeOK
  <2>5. CASE DestroyEnds(g)
    BY <2>5 DEF DestroyEnds, TimerIsArmed, TypeOK
  <2>6. CASE Completed(g) \/ TimerFires(g)
    BY <2>6 DEF Completed, TimerFires, TimerIsArmed
  <2> QED
    BY <1>3, <2>1, <2>2, <2>3, <2>4, <2>5, <2>6 DEF ShutdownStep
<1>4. CASE UNCHANGED vars
  BY <1>4 DEF vars, TimerIsArmed, Running
<1> QED
  BY <1>1, <1>2, <1>3, <1>4 DEF Next, TimerIsArmed

(* Every signal ends the process, whatever clients, backends and the other *)
(* shutdowns do, for any number of them (SignalEndsProcess;                *)
(* index.js:107-158): all it takes is that an armed timer fires.           *)
THEOREM SignalsEndTheProcess ==
  Spec /\ (\A h \in Signals : TimerIsFair(h)) => SignalEndsProcess
<1>1. ASSUME NEW h \in Signals
      PROVE  Spec /\ TimerIsFair(h) => (handler[h].pc # "none" ~> ~Running)
  <2>1. TypeOK /\ TimerIsArmed(h) /\ [Next]_vars => TimerIsArmed(h)' \/ ~Running'
    BY TimerStaysArmed
  <2>2. <<TimerFires(h)>>_vars => ~Running'
    BY DEF TimerFires, Running
  <2>3. TimerIsArmed(h) <=> handler[h].pc # "none" /\ Running
    BY DEF TimerIsArmed
  <2> QED
    BY <2>1, <2>2, <2>3, ShutdownTypeCorrect, PTL DEF Spec, TimerIsFair
<1> QED
  BY <1>1 DEF SignalEndsProcess
=============================================================================
