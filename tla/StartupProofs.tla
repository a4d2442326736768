--------------------------- MODULE StartupProofs ----------------------------
(***************************************************************************)
(* Proofs about Startup, for all ports that may be asked for, any number   *)
(* of cores and of clients.                                                *)
(***************************************************************************)
EXTENDS Startup, TLAPS

TypeOK ==
  /\ argv \in Argvs /\ cores \in 0 .. MaxCores /\ taken \in BOOLEAN
  /\ main \in {"config", "server", "spawn", "start", "join", "ended"}
  /\ instance \in Nat /\ listening \in Nat
  /\ work \in BOOLEAN
  /\ spawned \in Nat /\ spawned <= cores
  /\ worker \in [Cores -> [at  : {"none", "run", "log", "initlog", "rearm"},
                           job : {"none", "accept", "read"}]]
  /\ accept \in {"none", "armed", "ready", "failed"} /\ reads \in Nat
  /\ lob_inited \in BOOLEAN /\ log_inits \in Nat

(* What the properties rest on is the order of the statements of main: the *)
(* work object and the first log line come before the first thread.        *)

\* The acceptor is bound to the port of the configuration, and that is what
\* the command line was parsed to.
FromArgv ==
  /\ instance \in {NoPort, Parse(argv)}
  /\ listening \in {NoPort, instance}
  /\ main \in {"config", "server"} => listening = NoPort

\* The log is set up by the Server's constructor, so no thread finds it unset.
LogBeforeThreads ==
  /\ log_inits = IF lob_inited THEN 1 ELSE 0
  /\ main \in {"config", "server"} => ~lob_inited
  /\ main \in {"spawn", "start", "join"} => lob_inited
  /\ \A w \in Cores : worker[w].at # "initlog"

\* While there are threads there is the Server with its work object, and main
\* is not over.
WorkKept ==
  /\ main \in {"spawn", "start", "join"} => work
  /\ spawned > 0 => main \in {"spawn", "start", "join"}

\* The threads are those that main has spawned.
OnlySpawned == \A w \in Cores : worker[w].at # "none" => w <= spawned

IInv == TypeOK /\ FromArgv /\ LogBeforeThreads /\ WorkKept /\ OnlySpawned

-----------------------------------------------------------------------------
LEMMA ArgvType ==
  ASSUME NEW a \in Argvs
  PROVE  a.port \in Int
<1>1. CASE a \in [option : {"none", "help", "unknown"}, port : {DefaultPort}]
  <2>1. a.port = DefaultPort
    BY <1>1
  <2> QED BY <2>1 DEF DefaultPort
<1>2. CASE a \in [option : {"lession_port"}, port : PortsAsked]
  <2>1. a.port \in PortsAsked
    BY <1>2
  <2> QED BY <2>1, PortsAskedAssumption
<1> QED BY <1>1, <1>2 DEF Argvs

LEMMA ParseCases ==
  ASSUME NEW a \in Argvs
  PROVE  /\ Parse(a) \in {NoPort, a.port % 65536}
         /\ Parse(a) # NoPort => a.port <= 65535
<1>1. a.port \in Int
  BY ArgvType
<1>2. Parse(a) \in {NoPort, a.port % 65536}
  BY <1>1, SMT DEF Parse
<1>3. Parse(a) # NoPort => a.port <= 65535
  BY <1>1, SMT DEF Parse
<1> QED BY <1>2, <1>3

LEMMA ParseType ==
  ASSUME NEW a \in Argvs
  PROVE  Parse(a) \in Nat
<1>1. a.port \in Int
  BY ArgvType
<1>2. NoPort \in Nat /\ a.port % 65536 \in Nat
  BY <1>1 DEF NoPort
<1> QED BY <1>2, ParseCases

\* What Parse lets through without a sign is what was asked for.
LEMMA ParseExact ==
  ASSUME NEW a \in Argvs, a.port >= 0, Parse(a) # NoPort
  PROVE  Parse(a) = a.port
<1>1. a.port \in Int /\ a.port <= 65535
  BY ArgvType, ParseCases
<1>2. a.port % 65536 = a.port
  BY <1>1
<1> QED BY <1>2, ParseCases

LEMMA InitIInv == Init => IInv
<1> SUFFICES ASSUME Init PROVE IInv
  OBVIOUS
<1>1. worker \in [Cores -> [at  : {"none", "run", "log", "initlog", "rearm"},
                           job : {"none", "accept", "read"}]]
  BY DEF Init
<1>2. spawned \in Nat /\ cores \in Nat /\ spawned <= cores
  BY MaxCoresAssumption DEF Init
<1>3. NoPort \in Nat
  BY DEF NoPort
<1>4. TypeOK
  BY <1>1, <1>2, <1>3 DEF Init, TypeOK
<1> QED
  BY <1>4 DEF Init, IInv, FromArgv, LogBeforeThreads, WorkKept, OnlySpawned

-----------------------------------------------------------------------------
(* The statements of main.                                                 *)

LEMMA ConfigureIInv ==
  ASSUME IInv, Configure
  PROVE  IInv'
<1>0. TypeOK /\ FromArgv /\ LogBeforeThreads /\ WorkKept /\ OnlySpawned
  BY DEF IInv
<1>1. instance' = Parse(argv) /\ Parse(argv) \in Nat
  BY <1>0, ParseType DEF Configure, TypeOK
<1>2. main = "config" /\ main' \in {"server", "ended"}
  BY DEF Configure
<1>3. UNCHANGED <<argv, cores, taken, listening, work, spawned, worker, accept, reads,
                  lob_inited, log_inits>>
  BY DEF Configure, world
<1>4. spawned = 0 /\ listening = NoPort
  BY <1>0, <1>2 DEF TypeOK, WorkKept, FromArgv
<1>5. TypeOK'
  BY <1>0, <1>1, <1>2, <1>3 DEF TypeOK
<1>6. FromArgv'
  BY <1>1, <1>3, <1>4 DEF FromArgv
<1>7. LogBeforeThreads' /\ WorkKept' /\ OnlySpawned'
  BY <1>0, <1>2, <1>3, <1>4 DEF LogBeforeThreads, WorkKept, OnlySpawned
<1> QED BY <1>5, <1>6, <1>7 DEF IInv

LEMMA ServerIInv ==
  ASSUME IInv, Server
  PROVE  IInv'
<1>0. TypeOK /\ FromArgv /\ LogBeforeThreads /\ WorkKept /\ OnlySpawned
  BY DEF IInv
<1>1. main = "server" /\ UNCHANGED <<argv, cores, taken, instance, spawned, worker, accept, reads>>
  BY DEF Server, CreateServer, world
<1>2. ~lob_inited /\ log_inits = 0 /\ spawned = 0 /\ listening = NoPort
  BY <1>0, <1>1 DEF TypeOK, LogBeforeThreads, WorkKept, FromArgv
<1>3. CASE main' = "ended" /\ UNCHANGED <<listening, work, lob_inited, log_inits>>
  <2>1. TypeOK'
    BY <1>0, <1>1, <1>3 DEF TypeOK
  <2>2. FromArgv' /\ LogBeforeThreads' /\ WorkKept' /\ OnlySpawned'
    BY <1>0, <1>1, <1>2, <1>3 DEF FromArgv, LogBeforeThreads, WorkKept, OnlySpawned
  <2> QED BY <2>1, <2>2 DEF IInv
<1>4. CASE /\ main' = "spawn" /\ listening' = instance /\ work' = TRUE
           /\ lob_inited' = TRUE /\ log_inits' = log_inits + 1
  <2>1. TypeOK'
    BY <1>0, <1>1, <1>4 DEF TypeOK
  <2>2. FromArgv' /\ LogBeforeThreads' /\ WorkKept' /\ OnlySpawned'
    BY <1>0, <1>1, <1>2, <1>4 DEF FromArgv, LogBeforeThreads, WorkKept, OnlySpawned
  <2> QED BY <2>1, <2>2 DEF IInv
<1> QED BY <1>3, <1>4 DEF Server, CreateServer

LEMMA SpawnIInv ==
  ASSUME IInv, Spawn
  PROVE  IInv'
<1>0. TypeOK /\ FromArgv /\ LogBeforeThreads /\ WorkKept /\ OnlySpawned
  BY DEF IInv
<1>1. /\ main = "spawn"
      /\ UNCHANGED <<argv, cores, taken, instance, listening, work, accept, reads,
                     lob_inited, log_inits>>
  BY DEF Spawn, world
<1>2. ASSUME spawned < cores, spawned' = spawned + 1,
             worker' = [worker EXCEPT ![spawned'] = Idle], UNCHANGED main
      PROVE  IInv'
  <2>1. spawned' \in Nat /\ spawned' <= cores
    BY <1>0, <1>2 DEF TypeOK
  <2>2. TypeOK'
    BY <1>0, <1>1, <1>2, <2>1 DEF TypeOK, Idle
  <2>3. \A w \in Cores : w # spawned' => worker'[w] = worker[w]
    BY <1>0, <1>2 DEF TypeOK
  <2>4. \A w \in Cores : w = spawned' => worker'[w] = Idle
    BY <1>0, <1>2 DEF TypeOK
  <2>5. OnlySpawned'
    BY <1>0, <1>2, <2>1, <2>3 DEF OnlySpawned, Cores, TypeOK
  <2>6. LogBeforeThreads'
    BY <1>0, <1>1, <1>2, <2>3, <2>4 DEF LogBeforeThreads, Idle
  <2>7. FromArgv' /\ WorkKept'
    BY <1>0, <1>1, <1>2 DEF FromArgv, WorkKept
  <2> QED BY <2>2, <2>5, <2>6, <2>7 DEF IInv
<1>3. CASE main' = "start" /\ UNCHANGED <<spawned, worker>>
  <2>1. TypeOK'
    BY <1>0, <1>1, <1>3 DEF TypeOK
  <2>2. FromArgv' /\ LogBeforeThreads' /\ WorkKept' /\ OnlySpawned'
    BY <1>0, <1>1, <1>3 DEF FromArgv, LogBeforeThreads, WorkKept, OnlySpawned
  <2> QED BY <2>1, <2>2 DEF IInv
<1> QED BY <1>2, <1>3 DEF Spawn

LEMMA StartServerIInv ==
  ASSUME IInv, StartServer
  PROVE  IInv'
<1>0. TypeOK /\ FromArgv /\ LogBeforeThreads /\ WorkKept /\ OnlySpawned
  BY DEF IInv
<1>1. /\ main = "start" /\ main' = "join" /\ accept' = "armed"
      /\ UNCHANGED <<argv, cores, taken, instance, listening, work, spawned, worker, reads,
                     lob_inited, log_inits>>
  BY DEF StartServer, world
<1>2. TypeOK'
  BY <1>0, <1>1 DEF TypeOK
<1>3. FromArgv' /\ LogBeforeThreads' /\ WorkKept' /\ OnlySpawned'
  BY <1>0, <1>1 DEF FromArgv, LogBeforeThreads, WorkKept, OnlySpawned
<1> QED BY <1>2, <1>3 DEF IInv

(* The join ends only if there was no thread to wait for: the work object  *)
(* keeps every other one.                                                  *)
LEMMA JoinIInv ==
  ASSUME IInv, Join
  PROVE  IInv'
<1>0. TypeOK /\ FromArgv /\ LogBeforeThreads /\ WorkKept /\ OnlySpawned
  BY DEF IInv
<1>1. /\ main = "join" /\ main' = "ended"
      /\ listening' = NoPort /\ work' = FALSE /\ accept' = "none"
      /\ UNCHANGED <<argv, cores, taken, instance, spawned, worker, reads,
                     lob_inited, log_inits>>
  BY DEF Join, Destroy, world
<1>2. spawned = 0
  BY <1>0, <1>1 DEF Join, OutOfWork, WorkKept
<1>3. TypeOK'
  <2>1. NoPort \in Nat
    BY DEF NoPort
  <2> QED BY <1>0, <1>1, <2>1 DEF TypeOK
<1>4. FromArgv' /\ LogBeforeThreads' /\ WorkKept' /\ OnlySpawned'
  BY <1>0, <1>1, <1>2 DEF FromArgv, LogBeforeThreads, WorkKept, OnlySpawned
<1> QED BY <1>3, <1>4 DEF IInv

-----------------------------------------------------------------------------
(* The workers.                                                            *)

(* What a step of a worker, or of the reactor, has to leave alone.         *)
LEMMA WorkerStep ==
  ASSUME IInv, TypeOK', UNCHANGED <<world, main, instance, listening, work, spawned>>,
         NEW w \in Cores, worker[w].at # "none",
         \A u \in Cores \ {w} : worker'[u] = worker[u],
         worker'[w].at # "initlog",
         UNCHANGED <<lob_inited, log_inits>>
  PROVE  IInv'
<1>0. FromArgv /\ LogBeforeThreads /\ WorkKept /\ OnlySpawned
  BY DEF IInv
<1>1. FromArgv' /\ WorkKept'
  BY <1>0 DEF FromArgv, WorkKept, world
<1>2. LogBeforeThreads'
  BY <1>0 DEF LogBeforeThreads
<1>3. OnlySpawned'
  BY <1>0 DEF OnlySpawned
<1> QED BY <1>1, <1>2, <1>3 DEF IInv

LEMMA Moves ==
  ASSUME TypeOK, NEW w \in Cores,
         NEW at \in {"run", "log", "rearm"}, NEW job \in {"none", "accept", "read"},
         worker' = [worker EXCEPT ![w] = [at |-> at, job |-> job]]
  PROVE  /\ worker' \in [Cores -> [at  : {"none", "run", "log", "initlog", "rearm"},
                                   job : {"none", "accept", "read"}]]
         /\ worker'[w].at # "initlog"
         /\ \A u \in Cores \ {w} : worker'[u] = worker[u]
BY DEF TypeOK

\* A thread runs only after the log has been set up.
LEMMA LogIsSetUp ==
  ASSUME IInv, NEW w \in Cores, worker[w].at # "none"
  PROVE  lob_inited = TRUE
<1>1. w \in Nat /\ w >= 1 /\ w <= spawned /\ spawned \in Nat
  BY DEF IInv, TypeOK, OnlySpawned, Cores
<1>2. spawned > 0
  BY <1>1
<1> QED BY <1>2 DEF IInv, WorkKept, LogBeforeThreads, TypeOK

LEMMA TakeIInv ==
  ASSUME IInv, NEW w \in Cores, TakeAccept(w) \/ TakeRead(w)
  PROVE  IInv'
<1>0. TypeOK
  BY DEF IInv
<1>1. worker[w].at # "none"
  BY DEF TakeAccept, TakeRead, Idle
<1>2. PICK job \in {"none", "accept", "read"} : Works(w, "log", job)
  BY DEF TakeAccept, TakeRead
<1>3. accept' \in {accept, "none"} /\ reads' \in Nat
  BY <1>0 DEF TakeAccept, TakeRead, TypeOK
<1>4. UNCHANGED <<world, main, instance, listening, work, spawned, lob_inited, log_inits>>
  BY DEF TakeAccept, TakeRead
<1>5. TypeOK'
  BY <1>0, <1>2, <1>3, <1>4, Moves DEF TypeOK, Works, world
<1> QED BY <1>0, <1>1, <1>2, <1>4, <1>5, Moves, WorkerStep DEF Works

LEMMA InitLogIInv ==
  ASSUME IInv, NEW w \in Cores, InitLog(w)
  PROVE  IInv'
<1>0. TypeOK /\ worker[w].job \in {"none", "accept", "read"}
  BY DEF IInv, TypeOK
<1>1. worker[w].at # "none"
  BY DEF InitLog, TestFlag
<1>2. Works(w, "rearm", worker[w].job)
  BY <1>1, LogIsSetUp DEF InitLog, TestFlag
<1>3. UNCHANGED <<world, main, instance, listening, work, spawned, accept, reads,
                  lob_inited, log_inits>>
  BY DEF InitLog, TestFlag
<1>4. TypeOK'
  BY <1>0, <1>2, <1>3, Moves DEF TypeOK, Works, world
<1> QED BY <1>0, <1>1, <1>2, <1>3, <1>4, Moves, WorkerStep DEF Works

LEMMA HandlerIInv ==
  ASSUME IInv, NEW w \in Cores, OnAccept(w) \/ OnRead(w)
  PROVE  IInv'
<1>0. TypeOK /\ LogBeforeThreads
  BY DEF IInv
<1>1. /\ AddSinks(w) /\ worker' = [worker EXCEPT ![w] = Idle]
      /\ UNCHANGED <<world, main, instance, listening, work, spawned>>
      /\ accept' \in {"armed", accept} /\ reads' \in {reads, reads + 1}
  BY DEF OnAccept, OnRead
<1>2. worker[w].at # "none" /\ worker[w].at # "initlog"
  BY <1>0, <1>1 DEF AddSinks, LogBeforeThreads
<1>3. UNCHANGED <<lob_inited, log_inits>>
  <2>1. lob_inited' = lob_inited
    BY <1>1, <1>2, LogIsSetUp DEF AddSinks
  <2>2. log_inits' = log_inits + 0 /\ log_inits \in Nat
    BY <1>0, <1>1, <1>2 DEF AddSinks, TypeOK
  <2> QED BY <2>1, <2>2
<1>4. TypeOK'
  <2>1. worker' \in [Cores -> [at  : {"none", "run", "log", "initlog", "rearm"},
                               job : {"none", "accept", "read"}]]
    BY <1>0, <1>1, Moves DEF Idle
  <2>2. accept' \in {"none", "armed", "ready", "failed"} /\ reads' \in Nat
    BY <1>0, <1>1 DEF TypeOK
  <2>3. /\ UNCHANGED <<argv, cores, taken, main, instance, listening, work, spawned>>
        /\ lob_inited' \in BOOLEAN /\ log_inits' \in Nat
    BY <1>0, <1>1, <1>3 DEF TypeOK, world
  <2> QED BY <1>0, <2>1, <2>2, <2>3 DEF TypeOK
<1> QED BY <1>0, <1>1, <1>2, <1>3, <1>4, Moves, WorkerStep DEF Idle

\* Steps that change nothing but the accept.
LEMMA AcceptIInv ==
  ASSUME IInv, Connect \/ FailAccept \/ \E w \in Cores : OnAcceptError(w)
  PROVE  IInv'
BY DEF IInv, Connect, FailAccept, OnAcceptError, TypeOK, FromArgv, LogBeforeThreads, WorkKept, OnlySpawned, world

LEMMA NextIInv == IInv /\ [Next]_vars => IInv'
<1> SUFFICES ASSUME IInv, [Next]_vars PROVE IInv'
  OBVIOUS
<1>1. CASE UNCHANGED vars
  BY <1>1 DEF vars, world, IInv, TypeOK, FromArgv, LogBeforeThreads, WorkKept, OnlySpawned
<1>2. CASE Main
  BY <1>2, ConfigureIInv, ServerIInv, SpawnIInv, StartServerIInv, JoinIInv DEF Main
<1>3. CASE Connect \/ FailAccept
  BY <1>3, AcceptIInv
<1>4. ASSUME NEW w \in Cores, Run(w) PROVE IInv'
  BY <1>4, TakeIInv, InitLogIInv, HandlerIInv, AcceptIInv DEF Run
<1> QED BY <1>1, <1>2, <1>3, <1>4 DEF Next

\* The inductive invariant holds in every state that can be reached.
THEOREM Invariance == Spec => []IInv
BY InitIInv, NextIInv, PTL DEF Spec

-----------------------------------------------------------------------------
(* The theorems.                                                           *)

\* The variables keep their types.
THEOREM TypeCorrect == Spec => []TypeOK
BY Invariance, PTL DEF IInv

\* The server listens on the port it was asked for, or on none.
THEOREM ListensOnlyWhereAsked == Spec => []ListensWhereAsked
<1>1. IInv => ListensWhereAsked
  <2> SUFFICES ASSUME IInv, listening # NoPort, argv.port >= 0
               PROVE  listening = argv.port
    BY DEF ListensWhereAsked
  <2>1. listening = Parse(argv) /\ argv \in Argvs
    BY DEF IInv, FromArgv, TypeOK
  <2> QED BY <2>1, ParseExact
<1> QED BY <1>1, Invariance, PTL

\* The log's sinks are added once, though its flag is tested without a lock.
THEOREM LogOnce == Spec => []LogSetUpOnce
<1>1. IInv => LogSetUpOnce
  BY DEF IInv, LogBeforeThreads, LogSetUpOnce
<1> QED BY <1>1, Invariance, PTL

\* No thread leaves io_context::run for want of work.
THEOREM NoEarlyReturn == Spec => []WorkersStay
<1>1. IInv => WorkersStay
  BY DEF IInv, WorkKept, WorkersStay, OutOfWork
<1> QED BY <1>1, Invariance, PTL

\* The Server is not destroyed while a thread could run a handler, which holds
\* a raw pointer to it.
THEOREM ServerOutlives == Spec => []ServerOutlivesWorkers
<1>1. IInv => ServerOutlivesWorkers
  <2> SUFFICES ASSUME IInv, main = "ended", NEW w \in Cores, worker[w].at # "none"
               PROVE  FALSE
    BY DEF ServerOutlivesWorkers
  <2>1. w \in Nat /\ w >= 1 /\ w <= spawned /\ spawned \in Nat
    BY DEF IInv, TypeOK, OnlySpawned, Cores
  <2>2. spawned > 0
    BY <2>1
  <2> QED BY <2>2 DEF IInv, WorkKept
<1> QED BY <1>1, Invariance, PTL
=============================================================================
