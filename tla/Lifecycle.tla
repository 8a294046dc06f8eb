----------------------------- MODULE Lifecycle -----------------------------
(***************************************************************************)
(* The end of one process of the service: the HTTP server, the BullMQ      *)
(* workers and their queues, and the manager of the shared Redis client,   *)
(* taken down in order while requests, jobs and sweeps go on.              *)
(*                                                                         *)
(* gracefulShutdown may run more than once: a signal and a fatal error     *)
(* each start it, and the calls interleave at every await. Each call has   *)
(* ten seconds, then the process exits whatever it waits for.              *)
(***************************************************************************)
EXTENDS Naturals

CONSTANTS
  Requests,   \* requests, each sent once
  Callers,    \* calls of gracefulShutdown
  StepFaults  \* bound: steps of the shutdown that throw

ASSUME LifecycleAssumption == StepFaults \in Nat

VARIABLES
  req,      \* how far each request is
  gone,     \* requests whose client closed the connection before the response
  server,   \* the HTTP server accepts connections
  worker,   \* each BullMQ worker: "open", "closing", or "null" once forgotten
  busy,     \* workers with a job under way
  queueOn,  \* the Redis client each BullMQ queue was built on, 0 for none
  client,   \* the manager's client, 0 for null
  clients,  \* how many the manager has created
  quitted,  \* clients that were told to quit
  call,     \* local state of each call of gracefulShutdown
  exit,     \* how the process ended
  stepFaults    \* faults spent

requestVars == <<req, gone, server>>
workerVars  == <<worker, busy, queueOn>>
redisVars   == <<client, clients, quitted>>
lifecycleVars == <<requestVars, workerVars, redisVars, call, exit, stepFaults>>

Kinds == {"verification", "reward", "notification"}

\* gracefulShutdown and drainWorkersAndDb, step by step.
After == [server |-> "verification", verification |-> "reward",
          reward |-> "notification", notification |-> "admin", admin |-> "redis",
          redis |-> "timers", timers |-> "prisma"]
Steps == DOMAIN After \cup {"off", "prisma"}

At(c, step, wait) ==
  /\ exit = "no"
  /\ call[c] = [step |-> step, wait |-> wait]

LifecycleTypeOK ==
  /\ req \in [Requests -> {"new", "handle", "done"}]
  /\ gone \subseteq Requests
  /\ server \in BOOLEAN
  /\ worker \in [Kinds -> {"open", "closing", "null"}]
  /\ busy \subseteq Kinds
  /\ queueOn \in [Kinds -> 0 .. clients]
  /\ clients \in Nat
  /\ client \in 0 .. clients
  /\ quitted \subseteq 1 .. clients
  /\ call \in [Callers -> [step : Steps, wait : {"none", "worker", "queue", "await"}]]
  /\ exit \in {"no", "graceful", "forced"}
  /\ stepFaults \in 0 .. StepFaults

\* Loading the verification worker creates the client, its worker and queue.
LifecycleInit ==
  /\ req = [r \in Requests |-> "new"]
  /\ gone = {}
  /\ server = TRUE
  /\ worker = [k \in Kinds |-> "open"]
  /\ busy = {}
  /\ queueOn = [k \in Kinds |-> IF k = "verification" THEN 1 ELSE 0]
  /\ client = 1
  /\ clients = 1
  /\ quitted = {}
  /\ call = [c \in Callers |-> [step |-> "off", wait |-> "none"]]
  /\ exit = "no"
  /\ stepFaults = 0

\* getClient: the client there is, or a new one.
GetClient ==
  /\ clients' = IF client = 0 THEN clients + 1 ELSE clients
  /\ client' = IF client = 0 THEN clients' ELSE client
  /\ UNCHANGED quitted

-----------------------------------------------------------------------------
(* What goes on meanwhile. *)

Arrive(r) ==
  /\ exit = "no" /\ server
  /\ req[r] = "new"
  /\ req' = [req EXCEPT ![r] = "handle"]
  /\ GetClient
  /\ UNCHANGED <<gone, server, workerVars, call, exit, stepFaults>>

\* Limiters, the denylist check and the enqueue ask for the client, also for
\* a request whose client has left.
HandlerUsesRedis(r) ==
  /\ exit = "no"
  /\ req[r] = "handle"
  /\ client = 0
  /\ GetClient
  /\ UNCHANGED <<requestVars, workerVars, call, exit, stepFaults>>

Respond(r) ==
  /\ exit = "no"
  /\ req[r] = "handle"
  /\ req' = [req EXCEPT ![r] = "done"]
  /\ UNCHANGED <<gone, server, workerVars, redisVars, call, exit, stepFaults>>

ClientLeaves(r) ==
  /\ exit = "no"
  /\ req[r] = "handle" /\ r \notin gone
  /\ gone' = gone \cup {r}
  /\ UNCHANGED <<req, server, workerVars, redisVars, call, exit, stepFaults>>

\* A worker that is closing fetches no further job.
JobStarts(k) ==
  /\ exit = "no"
  /\ worker[k] = "open" /\ k \notin busy
  /\ busy' = busy \cup {k}
  /\ UNCHANGED <<requestVars, worker, queueOn, redisVars, call, exit, stepFaults>>

JobEnds(k) ==
  /\ exit = "no"
  /\ k \in busy
  /\ busy' = busy \ {k}
  /\ UNCHANGED <<requestVars, worker, queueOn, redisVars, call, exit, stepFaults>>

\* getQueue and getNotificationQueue build a missing queue on getClient(). A
\* sweep enqueues at any time: clearInterval does not end one under way.
SweepEnqueues(k) ==
  /\ exit = "no"
  /\ queueOn[k] = 0
  /\ GetClient
  /\ queueOn' = [queueOn EXCEPT ![k] = client']
  /\ UNCHANGED <<requestVars, worker, busy, call, exit, stepFaults>>

-----------------------------------------------------------------------------
(* gracefulShutdown. *)

CallGoto(c, step, wait) == call' = [call EXCEPT ![c] = [step |-> step, wait |-> wait]]
MoveOn(c) == CallGoto(c, After[call[c].step], "none")

Begin(c) ==
  /\ At(c, "off", "none")
  /\ CallGoto(c, "server", "await")
  /\ server' = FALSE
  /\ UNCHANGED <<req, gone, workerVars, redisVars, exit, stepFaults>>

Connected == {r \in Requests \ gone : req[r] = "handle"}

\* server.close calls back when the last connection has ended.
ServerClosed(c) ==
  /\ At(c, "server", "await")
  /\ Connected = {}
  /\ MoveOn(c)
  /\ UNCHANGED <<requestVars, workerVars, redisVars, exit, stepFaults>>

\* Mutant: the reference is dropped before the worker has closed.
CloseWorkerForgotten(c, k) ==
  /\ At(c, k, "none")
  /\ worker[k] # "null"
  /\ worker' = [worker EXCEPT ![k] = "null"]
  /\ CallGoto(c, k, "worker")
  /\ UNCHANGED <<requestVars, busy, queueOn, redisVars, exit, stepFaults>>

CloseWorker(c, k) ==
  /\ At(c, k, "none")
  /\ worker[k] # "null"
  /\ worker' = [worker EXCEPT ![k] = "closing"]
  /\ CallGoto(c, k, "worker")
  /\ UNCHANGED <<requestVars, busy, queueOn, redisVars, exit, stepFaults>>

\* From the worker to its queue, when there is one.
ThenQueue(c, k) == IF queueOn[k] = 0 THEN MoveOn(c) ELSE CallGoto(c, k, "queue")

\* worker.close resolves when no job is under way, and the module forgets the
\* worker; the verification worker is a constant of its module.
WorkerClosed(c, k) ==
  /\ At(c, k, "worker")
  /\ k \notin busy
  /\ worker' = [worker EXCEPT ![k] = IF k = "verification" THEN @ ELSE "null"]
  /\ ThenQueue(c, k)
  /\ UNCHANGED <<requestVars, busy, queueOn, redisVars, exit, stepFaults>>

WorkerGone(c, k) ==
  /\ At(c, k, "none")
  /\ worker[k] = "null"
  /\ ThenQueue(c, k)
  /\ UNCHANGED <<requestVars, workerVars, redisVars, exit, stepFaults>>

QueueClosed(c, k) ==
  /\ At(c, k, "queue")
  /\ queueOn' = [queueOn EXCEPT ![k] = IF k = "verification" THEN @ ELSE 0]
  /\ MoveOn(c)
  /\ UNCHANGED <<requestVars, worker, busy, redisVars, exit, stepFaults>>

\* closeAdminQueues closes queues of its own and leaves the client open; the
\* timers' steps stop intervals, and no sweep that is under way.
PlainStep(c) ==
  /\ At(c, "admin", "none") \/ At(c, "timers", "none")
  /\ MoveOn(c)
  /\ UNCHANGED <<requestVars, workerVars, redisVars, exit, stepFaults>>

\* Mutant: the reference is kept while the client quits.
CloseRedisKept(c) ==
  /\ At(c, "redis", "none")
  /\ IF client = 0
     THEN MoveOn(c) /\ UNCHANGED quitted
     ELSE quitted' = quitted \cup {client} /\ CallGoto(c, "redis", "await")
  /\ UNCHANGED <<requestVars, workerVars, client, clients, exit, stepFaults>>

\* RedisConnectionManager.close: the reference is dropped before the quit.
CloseRedis(c) ==
  /\ At(c, "redis", "none")
  /\ IF client = 0
     THEN MoveOn(c) /\ UNCHANGED redisVars
     ELSE /\ client' = 0
          /\ quitted' = quitted \cup {client}
          /\ CallGoto(c, "redis", "await")
          /\ UNCHANGED clients
  /\ UNCHANGED <<requestVars, workerVars, exit, stepFaults>>

\* quit resolves, or fails and the client is disconnected.
QuitEnds(c) ==
  /\ At(c, "redis", "await")
  /\ MoveOn(c)
  /\ UNCHANGED <<requestVars, workerVars, redisVars, exit, stepFaults>>

\* safeStep: what throws is logged, and the rest of its step is skipped.
StepThrows(c) ==
  /\ \/ \E k \in Kinds : At(c, k, "worker") \/ At(c, k, "queue")
     \/ At(c, "admin", "none")
  /\ stepFaults < StepFaults
  /\ stepFaults' = stepFaults + 1
  /\ MoveOn(c)
  /\ UNCHANGED <<requestVars, workerVars, redisVars, exit>>

\* prisma.$disconnect has settled, and the process exits.
ExitProcess(c) ==
  /\ At(c, "prisma", "none")
  /\ exit' = "graceful"
  /\ UNCHANGED <<requestVars, workerVars, redisVars, call, stepFaults>>

\* Mutant: the timer is cleared when the HTTP server has closed.
ForceExitOfServer(c) ==
  /\ exit = "no"
  /\ call[c].step = "server"
  /\ exit' = "forced"
  /\ UNCHANGED <<requestVars, workerVars, redisVars, call, stepFaults>>

\* The ten seconds of a call are over before it is through.
ForceExit(c) ==
  /\ exit = "no"
  /\ call[c].step # "off"
  /\ exit' = "forced"
  /\ UNCHANGED <<requestVars, workerVars, redisVars, call, stepFaults>>

-----------------------------------------------------------------------------

LifecycleNext ==
  \/ \E r \in Requests : Arrive(r) \/ HandlerUsesRedis(r) \/ Respond(r) \/ ClientLeaves(r)
  \/ \E k \in Kinds : JobStarts(k) \/ JobEnds(k) \/ SweepEnqueues(k)
  \/ \E c \in Callers, k \in Kinds :
       CloseWorker(c, k) \/ WorkerClosed(c, k) \/ WorkerGone(c, k) \/ QueueClosed(c, k)
  \/ \E c \in Callers :
       \/ Begin(c) \/ ServerClosed(c) \/ PlainStep(c) \/ CloseRedis(c) \/ QuitEnds(c)
       \/ StepThrows(c) \/ ExitProcess(c) \/ ForceExit(c)

LifecycleSpec == LifecycleInit /\ [][LifecycleNext]_lifecycleVars

\* A call's force timer fires, and a step goes on when what it waits for has
\* happened. Nothing makes a request, a job or a quit end.
LifecycleFairSpec == LifecycleSpec /\ \A c \in Callers : WF_lifecycleVars(ForceExit(c))

-----------------------------------------------------------------------------
(* Properties *)

\* Redis is not closed under a client's request or a job: unless a step of
\* the shutdown failed, when a Redis client was told to quit nobody connected
\* is being served and no worker has a job under way, also when two calls of
\* gracefulShutdown overlap.
RedisOutlivesWork == quitted # {} /\ stepFaults = 0 => Connected = {} /\ busy = {}

\* The manager never hands out a client that was told to quit, whichever
\* calls, sweeps and handlers ask for one while it is being closed.
ClientIsLive == client \notin quitted

\* A shutdown that has begun ends the process, also when a request, a job or
\* a close never comes back.
ShutdownEnds == (\E c \in Callers : call[c].step # "off") ~> (exit # "no")

=============================================================================
