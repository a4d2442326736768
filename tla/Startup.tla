------------------------------ MODULE Startup -------------------------------
(***************************************************************************)
(* main.cpp with the constructors it runs: the configuration singleton     *)
(* (config/config.cpp), the Server with its acceptor and its work object,  *)
(* the threads that run the io_context, and the log that is set up by      *)
(* whoever logs first (log/log.cpp).                                       *)
(*                                                                         *)
(* The threads run before server.Start() has given the io_context anything *)
(* to do.  A handler is here what OnAccept and OnRead have in common: it   *)
(* logs, and it arms the next operation before it returns; but an accept   *)
(* that failed ends at once, and no other follows.                         *)
(***************************************************************************)
EXTENDS Integers, FiniteSets

CONSTANTS
  PortsAsked,  \* what may follow --lession_port
  MaxCores,    \* bound on hardware_concurrency()
  MaxClients   \* bound on the connections

ASSUME PortsAskedAssumption == PortsAsked \subseteq Int
ASSUME MaxCoresAssumption   == MaxCores \in Nat
ASSUME MaxClientsAssumption == MaxClients \in Nat

DefaultPort == 9987
Port == 0 .. 65535         \* uint16_t
NoPort == 65536            \* no configuration yet, no acceptor open

Argvs ==
  [option : {"none", "help", "unknown"}, port : {DefaultPort}]
    \cup [option : {"lession_port"}, port : PortsAsked]

VARIABLES
  argv,       \* the command line
  cores,      \* hardware_concurrency(), which may be 0
  taken,      \* the port is in use already
  main,       \* the next statement of main, or how it ended
  instance,   \* the port in Config::instance
  listening,  \* the port the acceptor is bound to
  work,       \* the Server's io_service::work exists
  spawned,    \* threads created
  worker,     \* where each thread is
  accept,     \* "none", "armed", or "ready" or "failed" (a handler is queued)
  reads,      \* armed reads of clients
  lob_inited, \* the log's flag
  log_inits   \* how often its sinks were added

world == <<argv, cores, taken>>
vars == <<world, main, instance, listening, work, spawned, worker, accept, reads,
          lob_inited, log_inits>>

Cores == 1 .. MaxCores

Idle == [at |-> "run", job |-> "none"]

Init ==
  /\ argv \in Argvs /\ cores \in 0 .. MaxCores /\ taken \in BOOLEAN
  /\ main = "config"
  /\ instance = NoPort /\ listening = NoPort /\ work = FALSE
  /\ spawned = 0 /\ worker = [w \in Cores |-> [at |-> "none", job |-> "none"]]
  /\ accept = "none" /\ reads = 0
  /\ lob_inited = FALSE /\ log_inits = 0

-----------------------------------------------------------------------------
(* main.                                                                   *)

(* Config::Config: help exits; an option it does not know, or a value that *)
(* is no uint16_t, throws, and nothing catches it.  The conversion, which  *)
(* is Boost's lexical_cast, takes a minus sign, and wraps around.          *)
Refused(a) == a.option \in {"help", "unknown"}

ParseNarrows(a) ==                       \* a fault: an int cut down to 16 bits
  IF Refused(a) THEN NoPort ELSE a.port % 65536

Parse(a) ==
  IF Refused(a) \/ a.port > 65535 \/ -a.port > 65535 THEN NoPort ELSE a.port % 65536

Configure ==
  /\ main = "config"
  /\ instance' = Parse(argv)
  /\ main' = IF instance' = NoPort THEN "ended" ELSE "server"
  /\ UNCHANGED <<world, listening, work, spawned, worker, accept, reads, lob_inited, log_inits>>

(* Server::Server: the work object, the acceptor, which throws if the port *)
(* is taken, and the first log line of the program.                        *)
CreateServer(hasWork) ==
  /\ main = "server"
  /\ \/ /\ taken
        /\ main' = "ended"
        /\ UNCHANGED <<listening, work, lob_inited, log_inits>>
     \/ /\ ~taken
        /\ listening' = instance
        /\ work' = hasWork
        /\ lob_inited' = TRUE /\ log_inits' = log_inits + 1
        /\ main' = "spawn"
  /\ UNCHANGED <<world, instance, spawned, worker, accept, reads>>

ServerWithoutWork == CreateServer(FALSE)   \* a fault

Server == CreateServer(TRUE)

(* One thread, running io_context::run, for each core.                     *)
Spawn ==
  /\ main = "spawn"
  /\ \/ /\ spawned < cores
        /\ spawned' = spawned + 1
        /\ worker' = [worker EXCEPT ![spawned'] = Idle]
        /\ UNCHANGED main
     \/ /\ spawned = cores
        /\ main' = "start"
        /\ UNCHANGED <<spawned, worker>>
  /\ UNCHANGED <<world, instance, listening, work, accept, reads, lob_inited, log_inits>>

StartServer ==
  /\ main = "start"
  /\ accept' = "armed"
  /\ main' = "join"
  /\ UNCHANGED <<world, instance, listening, work, spawned, worker, reads, lob_inited, log_inits>>

(* io_context::run returns, and so does the thread, once there is neither  *)
(* a work object nor anything that could ever call a handler.              *)
OutOfWork ==
  /\ ~work /\ accept = "none" /\ reads = 0
  /\ \A w \in Cores : worker[w].job = "none"

(* Once all threads have returned main returns, which destroys the Server. *)
Destroy ==
  /\ main = "join"
  /\ main' = "ended"
  /\ listening' = NoPort /\ work' = FALSE /\ accept' = "none"
  /\ UNCHANGED <<world, instance, spawned, worker, reads, lob_inited, log_inits>>

JoinNone == Destroy                      \* a fault: the threads are not joined

Join == (spawned = 0 \/ OutOfWork) /\ Destroy

-----------------------------------------------------------------------------
(* A worker in io_context::run.                                            *)

Works(w, at, job) == worker' = [worker EXCEPT ![w] = [at |-> at, job |-> job]]

(* It takes a queued accept or read handler ...                            *)
TakeAccept(w) ==
  /\ worker[w] = Idle
  /\ accept = "ready" /\ accept' = "none"
  /\ Works(w, "log", "accept")
  /\ UNCHANGED <<world, main, instance, listening, work, spawned, reads, lob_inited, log_inits>>

TakeRead(w) ==
  /\ worker[w] = Idle
  /\ reads > 0 /\ reads' = reads - 1
  /\ Works(w, "log", "read")
  /\ UNCHANGED <<world, main, instance, listening, work, spawned, accept, lob_inited, log_inits>>

(* ... which logs: InitLog tests the flag, and if it is not set the sinks  *)
(* are added, and the flag is set only then ...                            *)
TestFlag(w, set) ==
  /\ worker[w].at = "log"
  /\ Works(w, IF set THEN "rearm" ELSE "initlog", worker[w].job)
  /\ UNCHANGED <<world, main, instance, listening, work, spawned, accept, reads,
                 lob_inited, log_inits>>

InitLogForgets(w) == TestFlag(w, FALSE)  \* a fault: the flag is not tested

InitLog(w) == TestFlag(w, lob_inited)

(* ... and then ends by arming what comes next.                            *)
AddSinks(w) ==
  /\ worker[w].at \in {"initlog", "rearm"}
  /\ lob_inited' = TRUE
  /\ log_inits' = log_inits + (IF worker[w].at = "initlog" THEN 1 ELSE 0)

(* An accepted client's first read, and the next accept.                   *)
OnAccept(w) ==
  /\ worker[w].job = "accept"
  /\ AddSinks(w)
  /\ reads' = reads + 1 /\ accept' = "armed"
  /\ worker' = [worker EXCEPT ![w] = Idle]
  /\ UNCHANGED <<world, main, instance, listening, work, spawned>>

(* OnAccept(_, error) returns: neither a log line nor another accept.      *)
OnAcceptError(w) ==
  /\ worker[w] = Idle
  /\ accept = "failed" /\ accept' = "none"
  /\ UNCHANGED <<world, main, instance, listening, work, spawned, worker, reads,
                 lob_inited, log_inits>>

(* The client's next read, unless this one failed.                         *)
OnRead(w) ==
  /\ worker[w].job = "read"
  /\ AddSinks(w)
  /\ reads' \in {reads, reads + 1}
  /\ worker' = [worker EXCEPT ![w] = Idle]
  /\ UNCHANGED <<world, main, instance, listening, work, spawned, accept>>

(* A peer connects: the accept's handler is queued.                        *)
Connect ==
  /\ accept = "armed" /\ listening # NoPort
  /\ reads + Cardinality({w \in Cores : worker[w].job # "none"}) < MaxClients
  /\ accept' = "ready"
  /\ UNCHANGED <<world, main, instance, listening, work, spawned, worker, reads,
                 lob_inited, log_inits>>

(* The accept fails, for want of file descriptors say.                     *)
FailAccept ==
  /\ accept = "armed" /\ listening # NoPort
  /\ accept' = "failed"
  /\ UNCHANGED <<world, main, instance, listening, work, spawned, worker, reads,
                 lob_inited, log_inits>>

-----------------------------------------------------------------------------
Main == Configure \/ Server \/ Spawn \/ StartServer \/ Join

Run(w) ==
  \/ TakeAccept(w) \/ TakeRead(w) \/ InitLog(w)
  \/ OnAccept(w) \/ OnAcceptError(w) \/ OnRead(w)

Next == Main \/ Connect \/ FailAccept \/ \E w \in Cores : Run(w)

Spec == Init /\ [][Next]_vars

(* The threads run; a queued handler is taken, whichever thread takes it.  *)
FairSpec ==
  /\ Spec
  /\ WF_vars(Main)
  /\ \A w \in Cores : WF_vars(Run(w))
  /\ SF_vars(\E w \in Cores : TakeAccept(w))

-----------------------------------------------------------------------------
(* Properties.                                                             *)

\* The server listens on the port it was asked for, or on none: no number that
\* is too large, and no other option, makes it listen somewhere else.  (A
\* negative number does: see Parse.)
ListensWhereAsked == listening # NoPort /\ argv.port >= 0 => listening = argv.port

\* The log's sinks are added once, though its flag is tested without a lock:
\* the first log line is written before there is a second thread.  (Sinks
\* added twice would write every line twice.)
LogSetUpOnce == log_inits <= 1

\* No thread may leave io_context::run for want of work, however late main
\* comes to server.Start() and whatever becomes of the connections.
WorkersStay == spawned > 0 => ~OutOfWork

\* The Server's handlers hold a raw pointer to it: it is not destroyed while
\* a thread could run one.
ServerOutlivesWorkers == main = "ended" => \A w \in Cores : worker[w].at = "none"

\* A well-configured server on a machine that reports its cores gets to wait
\* for connections, and every connection that is accepted is answered by some
\* thread, which waits for the next.  (After an accept that failed none does.)
Serves ==
  /\ (main = "spawn" /\ cores > 0) ~> accept = "armed"
  /\ (accept = "ready" /\ cores > 0) ~> accept = "armed"
=============================================================================
