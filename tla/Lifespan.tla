------------------------------- MODULE Lifespan -------------------------------
(***************************************************************************)
(* The process of bet_maker from its start to its end: lifespan.py with    *)
(* the router's own lifespan nested in it (FastStream starts the           *)
(* subscriber after ours has yielded, and stops it before ours goes on),   *)
(* the reconciliation task, and GET /health while it serves.               *)
(*                                                                         *)
(* PostgreSQL and RabbitMQ go down and come back as they like.             *)
(***************************************************************************)
EXTENDS Naturals

CONSTANT PgAttempts   \* stop_after_attempt(10) of wait_for_postgres

ASSUME PgAttemptsAssumption == PgAttempts \in Nat \ {0}

VARIABLES up,         \* the dependencies that can be reached
          topology,   \* what is declared in RabbitMQ; durable
          proc,       \* how far the process has come
          held,       \* what it has opened and not closed
          task,       \* the reconciliation task
          raised,     \* what it has tried to close in vain
          consuming,  \* the subscriber has its queue
          handling,   \* a handler of a message is under way
          probe,      \* a GET /health in progress
          witnessed   \* history: what was up at some time of that request

lifeVars == <<up, topology, proc, held, raised, task, consuming, handling, probe, witnessed>>

Dependencies == {"postgres", "rabbitmq"}
Resources    == {"engine", "http", "broker"}
Declarations == {"dlx", "dlq", "binding", "queue"}

Starting == {"connect", "declare dlx", "declare dlq", "bind", "start broker"}
Stopping == {"cancel", "await task", "close broker", "close http", "dispose"}
Ended    == {"never started", "exited", "failed", "killed"}

Pcs == Starting \cup {"serving"} \cup Stopping \cup Ended

NoProbe == [pc |-> "idle"]
Probes  == [pc : {"postgres"}] \cup [pc : {"rabbitmq"}, postgres : BOOLEAN]
             \cup [pc : {"answered"}, status : {200, 500, 503}]

LS_TypeOK == /\ up \subseteq Dependencies
             /\ topology \subseteq Declarations
             /\ proc \in [pc : Pcs] \cup [pc : {"postgres"}, attempt : 1..PgAttempts]
             /\ held \subseteq Resources /\ raised \subseteq Resources
             /\ task \in {"none", "running", "cancelling", "done"}
             /\ consuming \in BOOLEAN /\ handling \in BOOLEAN
             /\ probe \in Probes \cup {NoProbe}
             /\ witnessed \subseteq Dependencies
-------------------------------------------------------------------------------
LS_Init == /\ up = Dependencies
           /\ topology = {}
           /\ proc = [pc |-> "never started"]
           /\ held = {} /\ raised = {}
           /\ task = "none"
           /\ consuming = FALSE /\ handling = FALSE
           /\ probe = NoProbe
           /\ witnessed = {}

At(pc) == proc.pc = pc
Go(pc) == proc' = [pc |-> pc]
Alive  == proc.pc \notin Ended

\* What lifespan pins on app.state and on the router, once the DLQ is bound.
Pinned == proc.pc \in {"start broker", "serving"} \cup Stopping
-------------------------------------------------------------------------------
(* Startup *)

\* create_engine_and_sessionmaker opens nothing yet; wait_for_postgres begins.
Spawn ==
  /\ ~Alive
  /\ proc' = [pc |-> "postgres", attempt |-> 1]
  /\ held' = {"engine"} /\ raised' = {}
  /\ task' = "none"
  /\ handling' = FALSE
  /\ UNCHANGED <<up, topology, consuming, probe>>

\* SELECT 1 succeeds, and the HTTP client is built.
PostgresAnswers ==
  /\ At("postgres") /\ "postgres" \in up
  /\ Go("connect")
  /\ held' = held \cup {"http"}
  /\ UNCHANGED <<up, topology, task, consuming, probe, raised, handling>>

\* Mutant: one attempt too many.
PostgresFails_OneMore ==
  /\ At("postgres") /\ "postgres" \notin up
  /\ IF proc.attempt <= PgAttempts
     THEN proc' = [proc EXCEPT !.attempt = @ + 1] /\ UNCHANGED held
     ELSE Go("failed") /\ held' = held \ {"engine"}
  /\ UNCHANGED <<up, topology, task, consuming, probe, raised, handling>>

\* SELECT 1 fails: another attempt, or the end, with the engine disposed of.
PostgresFails ==
  /\ At("postgres") /\ "postgres" \notin up
  /\ IF proc.attempt < PgAttempts
     THEN proc' = [proc EXCEPT !.attempt = @ + 1] /\ UNCHANGED held
     ELSE Go("failed") /\ held' = held \ {"engine"}
  /\ UNCHANGED <<up, topology, task, consuming, probe, raised, handling>>

Connect ==
  /\ At("connect") /\ "rabbitmq" \in up
  /\ Go("declare dlx")
  /\ held' = held \cup {"broker"}
  /\ UNCHANGED <<up, topology, task, consuming, probe, raised, handling>>

Declare(here, declaration, next) ==
  /\ At(here) /\ "rabbitmq" \in up
  /\ Go(next)
  /\ topology' = topology \cup {declaration}
  /\ UNCHANGED <<up, held, probe, raised, handling>>

DeclareDlx == Declare("declare dlx", "dlx", "declare dlq") /\ UNCHANGED <<task, consuming>>
DeclareDlq == Declare("declare dlq", "dlq", "bind") /\ UNCHANGED <<task, consuming>>

\* The DLQ is bound. set_sessionmaker, the pins and create_task follow without an
\* await, up to the yield.
Bind ==
  /\ Declare("bind", "binding", "start broker")
  /\ task' = "running"
  /\ UNCHANGED consuming

\* FastStream declares bet_maker.events.finished, with its dead-letter exchange,
\* and subscribes; only then does uvicorn open the socket.
StartBroker ==
  /\ Declare("start broker", "queue", "serving")
  /\ consuming' = TRUE
  /\ UNCHANGED task

\* A step after wait_for_postgres raises. Before the yield the exception ends the
\* process, which closes nothing; after it, it unwinds through the finally.
Raises ==
  /\ proc.pc \in Starting
  /\ IF At("start broker") THEN Go("cancel") ELSE Go("failed")
  /\ UNCHANGED <<up, topology, held, task, consuming, probe, raised, handling>>

\* RabbitMQ cannot be reached: whichever step it is, it raises.
StartupRaises == "rabbitmq" \notin up /\ Raises

Startup ==
  \/ PostgresAnswers \/ PostgresFails
  \/ Connect \/ DeclareDlx \/ DeclareDlq \/ Bind \/ StartBroker \/ StartupRaises
-------------------------------------------------------------------------------
(* Serving *)

\* The robust connection comes back and consumes again.
Resubscribe ==
  /\ At("serving") /\ "rabbitmq" \in up
  /\ ~consuming
  /\ consuming' = TRUE
  /\ UNCHANGED <<up, topology, proc, held, task, probe, raised, handling>>

\* The subscriber gets messages, and its handlers work on them for as long as they
\* take. Several at once count as one: the first to start and the last to end.
TakeMessage ==
  /\ consuming /\ ~handling
  /\ handling' = TRUE
  /\ UNCHANGED <<up, topology, proc, held, raised, task, consuming, probe>>

HandlerEnds ==
  /\ Alive /\ handling
  /\ handling' = FALSE
  /\ UNCHANGED <<up, topology, proc, held, raised, task, consuming, probe>>

Handling == TakeMessage \/ HandlerEnds

\* GET /health: the pings one after the other, then, without an await, the
\* registered subscribers (never none) and the task.
StartProbe ==
  /\ At("serving") /\ probe = NoProbe
  /\ probe' = [pc |-> "postgres"]
  /\ UNCHANGED <<up, topology, proc, held, task, consuming, raised, handling>>

\* SELECT 1 without a retry. Of its failures ping_postgres takes SQLAlchemy's for
\* FALSE; a refused connection escapes and is a 500.
PingPostgres ==
  /\ probe.pc = "postgres"
  /\ \/ probe' = [pc |-> "rabbitmq", postgres |-> "postgres" \in up]
     \/ "postgres" \notin up /\ probe' = [pc |-> "answered", status |-> 500]
  /\ UNCHANGED <<up, topology, proc, held, task, consuming, raised, handling>>

\* Mutant: the broker object is taken for the broker.
PingRabbit_Assumed ==
  /\ probe.pc = "rabbitmq"
  /\ probe' = [pc |-> "answered",
               status |-> IF probe.postgres /\ task # "done" THEN 200 ELSE 503]
  /\ UNCHANGED <<up, topology, proc, held, task, consuming, raised, handling>>

PingRabbit ==
  /\ probe.pc = "rabbitmq"
  /\ probe' = [pc |-> "answered",
               status |-> IF probe.postgres /\ "rabbitmq" \in up /\ task # "done"
                          THEN 200 ELSE 503]
  /\ UNCHANGED <<up, topology, proc, held, task, consuming, raised, handling>>

EndProbe ==
  /\ probe.pc = "answered"
  /\ probe' = NoProbe
  /\ UNCHANGED <<up, topology, proc, held, task, consuming, raised, handling>>

Probing == StartProbe \/ PingPostgres \/ PingRabbit \/ EndProbe
-------------------------------------------------------------------------------
(* Shutdown *)

\* SIGTERM: uvicorn lets the requests end, then FastStream stops the broker. Without
\* a graceful_timeout that waits for no handler: one may go on to the very end.
Terminate ==
  /\ At("serving") /\ probe = NoProbe
  /\ Go("cancel")
  /\ consuming' = FALSE
  /\ UNCHANGED <<up, topology, held, task, probe, raised, handling>>

CancelTask ==
  /\ At("cancel")
  /\ Go("await task")
  /\ task' = "cancelling"
  /\ UNCHANGED <<up, topology, held, consuming, probe, raised, handling>>

\* CancelledError unwinds the task: a lookup is closed, a unit of work rolls back.
TaskEnds ==
  /\ task = "cancelling"
  /\ task' = "done"
  /\ UNCHANGED <<up, topology, proc, held, consuming, probe, raised, handling>>

\* Mutant: the cancelled task is not waited for.
AwaitTask_NotAwaited ==
  /\ At("await task")
  /\ Go("close broker")
  /\ UNCHANGED <<up, topology, held, task, consuming, probe, raised, handling>>

AwaitTask ==
  /\ At("await task") /\ task = "done"
  /\ Go("close broker")
  /\ UNCHANGED <<up, topology, held, task, consuming, probe, raised, handling>>

\* A close succeeds, or raises with or without having closed its resource.
Closes(resource) == held' = held \ {resource} /\ UNCHANGED raised
CloseRaises(resource) ==
  /\ held' \in {held, held \ {resource}}
  /\ raised' = raised \cup {resource}

\* Mutant: one close after the other, without finally.
Close_WithoutFinally(here, resource, next) ==
  /\ At(here)
  /\ \/ Closes(resource) /\ Go(next)
     \/ CloseRaises(resource) /\ Go("exited")
  /\ UNCHANGED <<up, topology, task, consuming, handling, probe>>

\* The nested finally: a close that raises leads to the next one all the same.
Close(here, resource, next) ==
  /\ At(here)
  /\ Closes(resource) \/ CloseRaises(resource)
  /\ Go(next)
  /\ UNCHANGED <<up, topology, task, consuming, handling, probe>>

Shutdown ==
  \/ CancelTask \/ TaskEnds \/ AwaitTask
  \/ Close("close broker", "broker", "close http")
  \/ Close("close http", "http", "dispose")
  \/ Close("dispose", "engine", "exited")

\* The process dies, and its sockets with it.
Kill ==
  /\ Alive
  /\ Go("killed")
  /\ held' = {} /\ raised' = {}
  /\ task' = "none"
  /\ consuming' = FALSE /\ handling' = FALSE
  /\ probe' = NoProbe
  /\ UNCHANGED <<up, topology>>
-------------------------------------------------------------------------------
(* The dependencies *)

GoDown(d) ==
  /\ d \in up
  /\ up' = up \ {d}
  /\ consuming' = (consuming /\ d # "rabbitmq")
  /\ UNCHANGED <<topology, proc, held, task, probe, raised, handling>>

ComeBack(d) ==
  /\ d \notin up
  /\ up' = up \cup {d}
  /\ UNCHANGED <<topology, proc, held, task, consuming, probe, raised, handling>>

\* What has been up at some time of the probe.
Witness == witnessed' = IF probe' = NoProbe THEN {}
                        ELSE IF probe = NoProbe THEN up' ELSE witnessed \cup up'
-------------------------------------------------------------------------------
\* The reconciler's pool and HTTP client are there as long as it runs, the
\* subscriber's as long as it consumes, and a handler that is still at work keeps its
\* pool through the shutdown: the finally waits for the cancelled task before it
\* closes anything, and it disposes of the engine last (lifespan.py:100-111).
ResourcesOutliveTheirUsers ==
  /\ task \in {"running", "cancelling"} => {"engine", "http"} \subseteq held
  /\ consuming => {"engine", "http", "broker"} \subseteq held
  /\ handling /\ Alive => "engine" \in held

\* A process that has been told to stop has nothing running and has closed whatever
\* lets itself be closed, the closes after one that raises included; one that never
\* reached PostgreSQL has nothing open. One that fails between the two leaves its
\* clients to the operating system.
CleanExit ==
  /\ At("exited") => held \subseteq raised /\ task = "done" /\ ~consuming
  /\ At("failed") => task = "none" /\ ("http" \notin held => held = {})

\* 200 of GET /health means that each dependency was up at some time of the request
\* and that the reconciler runs. The pings are one after the other, so it does not
\* mean that they ever were up together.
OkMeansEachWasUp ==
  (probe.pc = "answered" /\ probe.status = 200) => witnessed = Dependencies /\ task = "running"
===============================================================================
