--------------------------- MODULE DeploymentProofs ---------------------------
(***************************************************************************)
(* Theorems about bet_maker's process and its deployment, for any number   *)
(* of attempts of wait_for_postgres and of kills.                          *)
(*                                                                         *)
(* The invariant says of each place of the lifespan what is open there,    *)
(* how far the task is and what is declared (LS_Inv), and that a process   *)
(* is alive only after a migration to Head that nothing has undone since   *)
(* (Released).                                                             *)
(***************************************************************************)
EXTENDS Deployment, MigrationsProofs

Unopened == {"never started", "killed"}
Open     == {"declare dlx", "declare dlq", "bind", "start broker", "serving", "cancel",
             "await task", "close broker"}
Closed   == {"close broker", "close http", "dispose", "exited"}

\* What the closes so far have left open: the rest, and what could not be closed.
Left(rest) == rest \subseteq held /\ held \subseteq rest \cup raised

HeldAsFar ==
  /\ proc.pc \in Unopened => held = {}
  /\ At("postgres") => held = {"engine"}
  /\ At("connect") => held = {"engine", "http"}
  /\ proc.pc \in Open => held = Resources
  /\ At("close http") => Left({"engine", "http"})
  /\ At("dispose") => Left({"engine"})
  /\ At("exited") => Left({})
  /\ At("failed") /\ "http" \notin held => held = {}

TaskAsFar ==
  /\ proc.pc \in Unopened \cup {"failed", "postgres", "connect", "declare dlx", "declare dlq", "bind"}
       => task = "none"
  /\ proc.pc \in {"start broker", "serving", "cancel"} => task = "running"
  /\ At("await task") => task \in {"cancelling", "done"}
  /\ proc.pc \in Closed => task = "done"

TopologyAsFar ==
  /\ At("declare dlq") => "dlx" \in topology
  /\ At("bind") => {"dlx", "dlq"} \subseteq topology
  /\ Pinned => {"dlx", "dlq", "binding"} \subseteq topology

ServesAlone == /\ consuming => At("serving")
               /\ probe # NoProbe => At("serving")

LS_Core == HeldAsFar /\ TaskAsFar /\ TopologyAsFar /\ ServesAlone

\* What a probe has found up, it has seen up.
Seen ==
  /\ (probe.pc = "rabbitmq" /\ probe.postgres) => "postgres" \in witnessed
  /\ (probe.pc = "answered" /\ probe.status = 200) => witnessed = Dependencies

LS_Inv == LS_TypeOK /\ LS_Core /\ Seen

\* A migration that is wanted goes to Head, and only its success starts a process.
Released ==
  /\ wanted /\ mig.pc # "none" => mig.target = Head
  /\ wanted /\ mig = NoRun("ok") => db.revision = Head
  /\ wanted /\ launched => mig = NoRun("ok")
  /\ Alive => mig = NoRun("ok") /\ db.revision = Head

Counted == wanted \in BOOLEAN /\ launched \in BOOLEAN /\ faults \in 0..MaxFaults

DP_Inv == MG_Inv /\ LS_Inv /\ Released /\ Counted
-------------------------------------------------------------------------------
\* What the process, its probe and its servers can do.
LifeStep ==
  \/ Spawn \/ Startup \/ Raises \/ Resubscribe \/ Handling \/ Probing \/ Shutdown \/ Terminate \/ Kill
  \/ \E d \in Dependencies : GoDown(d) \/ ComeBack(d)
  \/ UNCHANGED lifeVarsSeen

\* A close takes one resource off the rest, whether it raises or not.
LEMMA CloseLeaves ==
  ASSUME NEW rest, NEW resource, Left(rest \cup {resource}), resource \notin rest,
         Closes(resource) \/ CloseRaises(resource)
  PROVE  Left(rest)'
BY DEF Left, Closes, CloseRaises

LEMMA CoreStep ==
  ASSUME LS_TypeOK, LS_Core, LifeStep
  PROVE  LS_Core'
<1> USE DEF LS_Core, HeldAsFar, TaskAsFar, TopologyAsFar, ServesAlone, At, Go, Alive, Pinned,
            Unopened, Open, Closed, Ended, Stopping, Starting, Resources
<1>1. CASE Spawn
  BY <1>1 DEF Spawn
<1>2. CASE PostgresAnswers
  BY <1>2 DEF PostgresAnswers
<1>3. CASE PostgresFails
  <2>1. CASE proc.attempt < PgAttempts
    <3>1. proc'.pc = "postgres"
      BY <1>3, <2>1 DEF PostgresFails, LS_TypeOK
    <3> QED BY <1>3, <2>1, <3>1 DEF PostgresFails
  <2>2. CASE ~(proc.attempt < PgAttempts)
    <3>1. Go("failed") /\ held = {"engine"} /\ held' = held \ {"engine"}
      BY <1>3, <2>2 DEF PostgresFails
    <3>2. held' = {}
      BY <3>1
    <3>3. task = "none" /\ UNCHANGED <<topology, task, consuming, probe>>
      BY <1>3 DEF PostgresFails
    <3> QED BY <1>3, <3>1, <3>2, <3>3 DEF PostgresFails
  <2> QED BY <2>1, <2>2
<1>4. CASE Connect
  BY <1>4 DEF Connect
<1>5. CASE DeclareDlx
  BY <1>5 DEF DeclareDlx, Declare
<1>6. CASE DeclareDlq
  BY <1>6 DEF DeclareDlq, Declare
<1>7. CASE Bind
  BY <1>7 DEF Bind, Declare
<1>8. CASE StartBroker
  BY <1>8 DEF StartBroker, Declare
<1>9. CASE Raises
  <2>1. CASE At("start broker")
    <3>1. Go("cancel") /\ UNCHANGED <<topology, held, task, consuming, probe>>
      BY <1>9, <2>1 DEF Raises
    <3> QED BY <2>1, <3>1
  <2>2. CASE ~At("start broker")
    <3>1. Go("failed") /\ UNCHANGED <<topology, held, task, consuming, probe>>
      BY <1>9, <2>2 DEF Raises
    <3>2. "http" \in held /\ task = "none" /\ ~At("serving")
      BY <1>9, <2>2 DEF Raises
    <3> QED BY <3>1, <3>2
  <2> QED BY <2>1, <2>2
<1>10. CASE Resubscribe
  BY <1>10 DEF Resubscribe
<1>11. CASE Probing
  <2>1. At("serving") \/ probe.pc # "idle"
    BY <1>11 DEF Probing, StartProbe, PingPostgres, PingRabbit, EndProbe
  <2>2. At("serving")
    <3>1. NoProbe.pc = "idle"
      BY DEF NoProbe
    <3> QED BY <2>1, <3>1
  <2>3. UNCHANGED <<proc, held, raised, task, topology, consuming>>
    BY <1>11 DEF Probing, StartProbe, PingPostgres, PingRabbit, EndProbe
  <2> QED BY <2>2, <2>3
<1>12. CASE CancelTask
  BY <1>12 DEF CancelTask
<1>13. CASE TaskEnds
  BY <1>13 DEF TaskEnds
<1>14. CASE AwaitTask
  BY <1>14 DEF AwaitTask
<1>15. CASE Close("close broker", "broker", "close http")
  <2>1. Left({"engine", "http"})'
    <3>1. held = Resources
      BY <1>15 DEF Close
    <3>2. Left({"engine", "http"} \cup {"broker"})
      BY <3>1 DEF Left
    <3> QED BY <1>15, <3>2, CloseLeaves DEF Close
  <2>2. proc'.pc = "close http" /\ task' = "done"
    BY <1>15, Zenon DEF Close
  <2>3. ~consuming' /\ probe' = NoProbe
    BY <1>15, Zenon DEF Close
  <2>4. {"dlx", "dlq", "binding"} \subseteq topology'
    BY <1>15, Zenon DEF Close
  <2> QED BY <2>1, <2>2, <2>3, <2>4, Zenon
<1>16. CASE Close("close http", "http", "dispose")
  <2>1. Left({"engine"})'
    <3>1. Left({"engine", "http"})
      BY <1>16 DEF Close
    <3>2. {"engine", "http"} = {"engine"} \cup {"http"} /\ "http" \notin {"engine"}
      OBVIOUS
    <3> QED BY <1>16, <3>1, <3>2, CloseLeaves DEF Close
  <2>2. proc'.pc = "dispose" /\ task' = "done"
    BY <1>16, Zenon DEF Close
  <2>3. ~consuming' /\ probe' = NoProbe
    BY <1>16, Zenon DEF Close
  <2>4. {"dlx", "dlq", "binding"} \subseteq topology'
    BY <1>16, Zenon DEF Close
  <2> QED BY <2>1, <2>2, <2>3, <2>4, Zenon
<1>17. CASE Close("dispose", "engine", "exited")
  <2>1. Left({})'
    <3>1. Left({"engine"})
      BY <1>17 DEF Close
    <3>2. {"engine"} = {} \cup {"engine"}
      OBVIOUS
    <3> QED BY <1>17, <3>1, <3>2, CloseLeaves DEF Close
  <2>2. proc'.pc = "exited" /\ task' = "done"
    BY <1>17, Zenon DEF Close
  <2>3. ~consuming' /\ probe' = NoProbe
    BY <1>17, Zenon DEF Close
  <2> QED BY <2>1, <2>2, <2>3, Zenon
<1>18. CASE Terminate
  BY <1>18 DEF Terminate
<1>22. CASE Handling
  <2>1. UNCHANGED <<topology, proc, held, raised, task, consuming, probe>>
    BY <1>22 DEF Handling, TakeMessage, HandlerEnds
  <2> QED BY <2>1 DEF Left
<1>19. CASE Kill
  BY <1>19 DEF Kill
<1>20. ASSUME NEW d \in Dependencies, GoDown(d) \/ ComeBack(d)
       PROVE  LS_Core'
  <2>1. UNCHANGED <<topology, proc, held, raised, task, probe>>
    BY <1>20 DEF GoDown, ComeBack
  <2>2. consuming' => consuming
    BY Zenon, <1>20 DEF GoDown, ComeBack
  <2> QED BY <2>1, <2>2 DEF Left
<1>21. CASE UNCHANGED lifeVarsSeen
  BY <1>21 DEF lifeVarsSeen, Left
<1> QED
  BY <1>1, <1>2, <1>3, <1>4, <1>5, <1>6, <1>7, <1>8, <1>9, <1>10, <1>11, <1>12, <1>13,
     <1>14, <1>15, <1>16, <1>17, <1>18, <1>19, <1>20, <1>21, <1>22
     DEF LifeStep, Startup, StartupRaises, Shutdown

\* The types, without the history variable.
TypesSeen ==
  /\ up \subseteq Dependencies
  /\ topology \subseteq Declarations
  /\ proc \in [pc : Pcs] \cup [pc : {"postgres"}, attempt : 1..PgAttempts]
  /\ held \subseteq Resources /\ raised \subseteq Resources
  /\ task \in {"none", "running", "cancelling", "done"}
  /\ consuming \in BOOLEAN /\ handling \in BOOLEAN
  /\ probe \in Probes \cup {NoProbe}

LEMMA TypeStep ==
  ASSUME LS_TypeOK, LifeStep
  PROVE  TypesSeen'
<1> USE DEF LS_TypeOK, TypesSeen, Go, At
<1>1. CASE Spawn
  <2>1. [pc |-> "postgres", attempt |-> 1] \in [pc : {"postgres"}, attempt : 1..PgAttempts]
    BY PgAttemptsAssumption
  <2> QED BY <1>1, <2>1 DEF Spawn, Resources
<1>2. CASE PostgresAnswers
  BY <1>2 DEF PostgresAnswers, Resources, Pcs, Starting
<1>3. CASE PostgresFails
  <2>1. CASE proc.attempt < PgAttempts
    <3>1. proc \in [pc : {"postgres"}, attempt : 1..PgAttempts]
      BY <1>3 DEF PostgresFails, Pcs, Starting, Stopping, Ended
    <3>2. [proc EXCEPT !.attempt = @ + 1] \in [pc : {"postgres"}, attempt : 1..PgAttempts]
      BY <2>1, <3>1, PgAttemptsAssumption
    <3> QED BY <1>3, <2>1, <3>2 DEF PostgresFails
  <2>2. CASE ~(proc.attempt < PgAttempts)
    <3>1. proc' = [pc |-> "failed"] /\ held' \subseteq held
      BY <1>3, <2>2 DEF PostgresFails
    <3>2. [pc |-> "failed"] \in [pc : Pcs]
      BY DEF Pcs, Ended
    <3> QED BY <1>3, <3>1, <3>2 DEF PostgresFails
  <2> QED BY <2>1, <2>2
<1>4. CASE Connect
  BY <1>4 DEF Connect, Resources, Pcs, Starting
<1>5. CASE DeclareDlx
  BY <1>5 DEF DeclareDlx, Declare, Declarations, Pcs, Starting
<1>6. CASE DeclareDlq
  BY <1>6 DEF DeclareDlq, Declare, Declarations, Pcs, Starting
<1>7. CASE Bind
  BY <1>7 DEF Bind, Declare, Declarations, Pcs, Starting
<1>8. CASE StartBroker
  BY <1>8 DEF StartBroker, Declare, Declarations, Pcs
<1>9. CASE Raises
  <2>1. proc' \in [pc : Pcs]
    <3>1. proc' \in {[pc |-> "cancel"], [pc |-> "failed"]}
      BY <1>9 DEF Raises
    <3>2. "cancel" \in Pcs /\ "failed" \in Pcs
      BY DEF Pcs, Stopping, Ended
    <3> QED BY <3>1, <3>2
  <2> QED BY <1>9, <2>1 DEF Raises
<1>10. CASE Resubscribe
  BY <1>10 DEF Resubscribe
<1>11. CASE Probing
  <2>1. probe' \in Probes \cup {NoProbe}
    <3>1. CASE StartProbe
      BY <3>1 DEF StartProbe, Probes
    <3>2. CASE PingPostgres
      <4> DEFINE found == "postgres" \in up
      <4>1. found \in BOOLEAN
        OBVIOUS
      <4>2. \/ probe' = [pc |-> "rabbitmq", postgres |-> found]
            \/ probe' = [pc |-> "answered", status |-> 500]
        BY <3>2 DEF PingPostgres
      <4> HIDE DEF found
      <4> QED BY <4>1, <4>2 DEF Probes
    <3>3. CASE PingRabbit
      BY <3>3 DEF PingRabbit, Probes
    <3>4. CASE EndProbe
      BY <3>4 DEF EndProbe
    <3> QED BY <1>11, <3>1, <3>2, <3>3, <3>4 DEF Probing
  <2>2. UNCHANGED <<up, proc, held, raised, task, topology, consuming, handling>>
    BY <1>11 DEF Probing, StartProbe, PingPostgres, PingRabbit, EndProbe
  <2> QED BY <2>1, <2>2
<1>12. CASE CancelTask
  BY <1>12 DEF CancelTask, Pcs, Stopping
<1>13. CASE TaskEnds
  BY <1>13 DEF TaskEnds
<1>14. CASE AwaitTask
  BY <1>14 DEF AwaitTask, Pcs, Stopping
<1>23. ASSUME NEW here, NEW resource \in Resources, NEW next \in Pcs, Close(here, resource, next)
       PROVE  TypesSeen'
  <2>1. held' \subseteq Resources /\ raised' \subseteq Resources
    BY <1>23 DEF Close, Closes, CloseRaises
  <2> QED BY <1>23, <2>1 DEF Close
<1>15. CASE Close("close broker", "broker", "close http")
  BY <1>15, <1>23 DEF Pcs, Stopping, Resources
<1>16. CASE Close("close http", "http", "dispose")
  BY <1>16, <1>23 DEF Pcs, Stopping, Resources
<1>17. CASE Close("dispose", "engine", "exited")
  BY <1>17, <1>23 DEF Pcs, Ended, Resources
<1>22. CASE Handling
  BY <1>22 DEF Handling, TakeMessage, HandlerEnds
<1>18. CASE Terminate
  BY <1>18 DEF Terminate, Pcs, Stopping
<1>19. CASE Kill
  BY <1>19 DEF Kill, Pcs, Ended
<1>20. ASSUME NEW d \in Dependencies, GoDown(d) \/ ComeBack(d)
       PROVE  TypesSeen'
  <2>1. UNCHANGED <<topology, proc, held, raised, task, handling, probe>> /\ up' \subseteq Dependencies
    BY <1>20 DEF GoDown, ComeBack
  <2>2. consuming' \in BOOLEAN
    BY Zenon, <1>20 DEF GoDown, ComeBack
  <2> QED BY <2>1, <2>2
<1>21. CASE UNCHANGED lifeVarsSeen
  BY <1>21 DEF lifeVarsSeen
<1> QED
  BY <1>1, <1>2, <1>3, <1>4, <1>5, <1>6, <1>7, <1>8, <1>9, <1>10, <1>11, <1>12, <1>13,
     <1>14, <1>15, <1>16, <1>17, <1>18, <1>19, <1>20, <1>21, <1>22
     DEF LifeStep, Startup, StartupRaises, Shutdown

LEMMA SeenStep ==
  ASSUME LS_Inv, LifeStep, Witness, up' \subseteq Dependencies
  PROVE  Seen' /\ witnessed' \subseteq Dependencies
<1>1. witnessed' \subseteq Dependencies
  BY DEF Witness, LS_Inv, LS_TypeOK
<1> SUFFICES Seen'
  BY <1>1
<1>2. CASE probe' = NoProbe
  <2>1. probe'.pc = "idle"
    BY <1>2 DEF NoProbe
  <2> QED BY <2>1 DEF Seen
<1>3. CASE UNCHANGED probe /\ probe # NoProbe
  BY <1>1, <1>3 DEF Witness, LS_Inv, Seen
<1>4. CASE StartProbe
  <2>1. probe'.pc = "postgres"
    BY <1>4 DEF StartProbe
  <2> QED BY <2>1 DEF Seen
<1>5. CASE PingPostgres
  <2>1. probe # NoProbe /\ probe' # NoProbe /\ UNCHANGED up
    BY <1>5 DEF PingPostgres, NoProbe
  <2>2. witnessed' = witnessed \cup up
    BY <2>1 DEF Witness
  <2>3. CASE probe' = [pc |-> "answered", status |-> 500]
    <3>1. probe'.pc = "answered" /\ probe'.status = 500
      BY <2>3
    <3> QED BY <3>1 DEF Seen
  <2>4. CASE probe' = [pc |-> "rabbitmq", postgres |-> "postgres" \in up]
    <3>1. probe'.pc = "rabbitmq" /\ (probe'.postgres => "postgres" \in up)
      BY Zenon, <2>4
    <3> QED BY <2>2, <3>1 DEF Seen
  <2> QED BY <1>5, <2>3, <2>4 DEF PingPostgres
<1>6. CASE PingRabbit
  <2>1. probe # NoProbe /\ probe' # NoProbe /\ UNCHANGED up
    BY <1>6 DEF PingRabbit, NoProbe
  <2>2. witnessed' = witnessed \cup up
    BY <2>1 DEF Witness
  <2>3. ASSUME probe'.status = 200
        PROVE  witnessed' = Dependencies
    <3>1. probe.postgres /\ "rabbitmq" \in up
      BY <1>6, <2>3 DEF PingRabbit
    <3>2. "postgres" \in witnessed
      BY <1>6, <3>1 DEF PingRabbit, LS_Inv, Seen
    <3> QED BY <1>1, <2>2, <3>1, <3>2 DEF Dependencies
  <2>4. probe'.pc = "answered"
    BY <1>6 DEF PingRabbit
  <2> QED BY <2>3, <2>4 DEF Seen
<1>7. \/ UNCHANGED probe \/ probe' = NoProbe
      \/ StartProbe \/ PingPostgres \/ PingRabbit
  BY DEF LifeStep, Spawn, Startup, PostgresAnswers, PostgresFails, Connect, DeclareDlx, DeclareDlq,
         Bind, StartBroker, Declare, StartupRaises, Raises, Resubscribe, Handling, TakeMessage,
         HandlerEnds, Probing, EndProbe, Shutdown,
         CancelTask, TaskEnds, AwaitTask, Close, Terminate, Kill, GoDown, ComeBack, lifeVarsSeen
<1> QED BY <1>1, <1>2, <1>3, <1>4, <1>5, <1>6, <1>7

LEMMA LifeInvStep ==
  ASSUME LS_Inv, LifeStep, Witness
  PROVE  LS_Inv'
<1>1. TypesSeen' /\ LS_Core'
  BY TypeStep, CoreStep DEF LS_Inv
<1>2. Seen' /\ witnessed' \subseteq Dependencies
  BY <1>1, SeenStep DEF TypesSeen
<1> QED BY <1>1, <1>2 DEF LS_Inv, LS_TypeOK, TypesSeen

-------------------------------------------------------------------------------
\* Every step of the deployment is one of the process, or leaves it alone; and one
\* of alembic, or the preparation of its next run.
LEMMA StepIsLifeStep ==
  ASSUME Step
  PROVE  LifeStep
BY DEF Step, LifeStep, Operator, Compose, Up, Down, DowngradeByHand, StartMigrate, Launch,
       Relaunch, Migrate, MigrateDies, Die, StartFails

LEMMA StepIsMigStep ==
  ASSUME DP_Inv, Step
  PROVE  [MG_Next]_migVars \/ Forgotten
<1>1. ASSUME NEW target \in 0..Head, StartRun(target)
      PROVE  MG_Next
  BY <1>1 DEF MG_Next
<1>2. Head \in 0..Head
  BY Revisions DEF Head
<1>3. CASE Up
  BY <1>3 DEF Up, Forgotten, Exits
<1>4. CASE Down
  BY <1>4 DEF Down
<1>5. ASSUME NEW target \in 0..Head, DowngradeByHand(target)
      PROVE  MG_Next
  BY <1>1, <1>5 DEF DowngradeByHand
<1>6. CASE StartMigrate
  BY <1>1, <1>2, <1>6 DEF StartMigrate
<1>7. CASE Launch \/ Relaunch \/ Die \/ StartFails
  BY <1>7 DEF Launch, Relaunch, Die, StartFails
<1>8. CASE Migrate
  BY <1>8 DEF Migrate, MG_Next
<1>9. CASE MigrateDies
  BY <1>9 DEF MigrateDies, MG_Next
<1> QED BY <1>3, <1>4, <1>5, <1>6, <1>7, <1>8, <1>9 DEF Step, Operator, Compose, Elsewhere

\* A run keeps its target, and a committed one has reached it.
LEMMA RunKeepsTarget ==
  ASSUME MG_Inv, RunGoesOn
  PROVE  /\ mig.pc # "none"
         /\ mig'.pc # "none" => mig'.target = mig.target
         /\ mig' = NoRun("ok") => db'.revision = mig.target
<1>1. mig.pc # "none"
  BY DEF RunGoesOn, Upgrade, Downgrade, EnterAutocommit, AddValue, RecordThird, CommitRun
<1>2. mig \in Runs
  BY <1>1, RunFields
<1>3. ASSUME NEW exit, NEW other, NoRun(exit) = NoRun(other)
      PROVE  exit = other
  BY <1>3 DEF NoRun
<1>4. NoRun("failed") # NoRun("ok") /\ NoRun("failed").pc = "none"
  BY <1>3 DEF NoRun
<1>5. ASSUME NEW v \in 1..Head, Upgrade(v) \/ Downgrade(v)
      PROVE  /\ mig'.pc # "none" => mig'.target = mig.target
             /\ mig' # NoRun("ok")
  <2>1. PICK s : mig' = [mig EXCEPT !.work = s] \/ mig' = NoRun("failed")
    BY <1>5 DEF Upgrade, Downgrade, Execute
  <2>2. mig.pc = "transaction"
    BY <1>5 DEF Upgrade, Downgrade
  <2> QED BY <1>2, <1>4, <2>1, <2>2 DEF Runs, NoRun
<1>6. CASE EnterAutocommit
  BY <1>2, <1>6 DEF EnterAutocommit, Runs, NoRun
<1>7. CASE AddValue
  <2>1. PICK s : mig' = Run("added", mig.target, s) \/ mig' = NoRun("failed")
    BY <1>7 DEF AddValue
  <2>2. CASE mig' = Run("added", mig.target, s)
    BY <1>1, <2>2 DEF Run, NoRun
  <2>3. CASE mig' = NoRun("failed")
    BY <1>1, <1>4, <2>3
  <2> QED BY <2>1, <2>2, <2>3
<1>8. CASE RecordThird
  BY <1>8 DEF RecordThird, Run, NoRun
<1>9. CASE CommitRun
  BY <1>9 DEF CommitRun, NoRun
<1> QED BY <1>1, <1>5, <1>6, <1>7, <1>8, <1>9 DEF RunGoesOn

LEMMA ReleasedStep ==
  ASSUME DP_Inv, Step
  PROVE  Released'
<1> USE DEF DP_Inv, Released
<1>1. CASE Up
  <2>1. mig' = NoRun("not run") /\ ~launched' /\ ~Alive'
    BY <1>1 DEF Up, lifeVarsSeen, Alive
  <2>2. mig' # NoRun("ok") /\ mig'.pc = "none"
    BY <2>1 DEF NoRun
  <2> QED BY <2>1, <2>2
<1>2. CASE Down
  BY <1>2 DEF Down, lifeVarsSeen, migVars, Alive
<1>3. ASSUME NEW target \in 0..Head, DowngradeByHand(target)
      PROVE  Released'
  BY <1>3 DEF DowngradeByHand, StartRun, lifeVarsSeen, Alive
<1>4. CASE StartMigrate
  <2>1. mig # NoRun("ok") /\ mig'.pc = "transaction" /\ mig'.target = Head
    BY <1>4 DEF StartMigrate, StartRun, Run, NoRun
  <2>2. ~Alive /\ ~launched
    BY <1>4, <2>1 DEF StartMigrate
  <2>3. UNCHANGED <<Alive, launched>>
    BY <1>4 DEF StartMigrate, lifeVarsSeen, Alive
  <2>4. mig' # NoRun("ok")
    BY <2>1 DEF NoRun
  <2> QED BY <2>1, <2>2, <2>3, <2>4
<1>5. CASE Launch
  BY <1>5 DEF Launch, migVars
<1>6. CASE Relaunch
  BY <1>6 DEF Relaunch, migVars
<1>7. CASE Migrate
  <2>1. /\ mig.pc # "none" /\ UNCHANGED <<wanted, launched, Alive>>
        /\ mig'.pc # "none" => mig'.target = mig.target
        /\ mig' = NoRun("ok") => db'.revision = mig.target
    BY <1>7, RunKeepsTarget DEF Migrate, lifeVarsSeen, Alive
  <2>2. mig # NoRun("ok")
    BY <2>1 DEF NoRun
  <2> QED BY <2>1, <2>2
<1>8. CASE MigrateDies
  <2>1. mig.pc # "none" /\ mig' = NoRun("failed") /\ UNCHANGED <<wanted, launched, Alive>>
    BY <1>8 DEF MigrateDies, Abort, lifeVarsSeen, Alive
  <2>2. mig # NoRun("ok") /\ mig' # NoRun("ok") /\ mig'.pc = "none"
    BY <2>1 DEF NoRun
  <2> QED BY <2>1, <2>2
<1>9. CASE /\ UNCHANGED <<migVars, wanted, launched>>
           /\ Startup \/ Raises \/ Resubscribe \/ Handling \/ Probing \/ Shutdown \/ Terminate \/ Kill
              \/ \E d \in Dependencies : GoDown(d) \/ ComeBack(d)
  <2>1. Alive' => Alive
    BY <1>9
       DEF Startup, PostgresAnswers, PostgresFails, Connect, DeclareDlx, DeclareDlq, Bind,
           StartBroker, Declare, StartupRaises, Raises, Resubscribe, Handling, TakeMessage,
           HandlerEnds, Probing, StartProbe, PingPostgres,
           PingRabbit, EndProbe, Shutdown, CancelTask, TaskEnds, AwaitTask, Close, Terminate,
           Kill, GoDown, ComeBack, Alive, At, Go, Ended, Starting
  <2> QED BY <1>9, <2>1 DEF migVars
<1> QED BY <1>1, <1>2, <1>3, <1>4, <1>5, <1>6, <1>7, <1>8, <1>9
        DEF Step, Operator, Compose, Elsewhere, Die, StartFails

LEMMA CountedStep ==
  ASSUME DP_Inv, Step
  PROVE  Counted'
<1>1. UNCHANGED faults \/ Fault
  BY DEF Step, Operator, Compose, Elsewhere, Die, StartFails, Up, Down, DowngradeByHand, StartMigrate,
         Launch, Relaunch, Migrate, MigrateDies
<1>2. faults' \in 0..MaxFaults
  BY <1>1, MaxFaultsAssumption DEF Fault, DP_Inv, Counted
<1>3. wanted' \in {wanted, TRUE, FALSE} /\ launched' \in {launched, TRUE, FALSE}
  BY DEF Step, Operator, Compose, Elsewhere, Die, StartFails, Up, Down, DowngradeByHand, StartMigrate,
         Launch, Relaunch, Migrate, MigrateDies
<1> QED BY <1>2, <1>3 DEF DP_Inv, Counted

LEMMA DPBegins == Init => DP_Inv
<1> SUFFICES ASSUME Init PROVE DP_Inv
  OBVIOUS
<1>1. MG_Inv
  BY MGBegins DEF Init
<1>2. LS_TypeOK
  BY DEF Init, LS_Init, LS_TypeOK, Pcs, Ended
<1>3. LS_Core
  BY DEF Init, LS_Init, LS_Core, HeldAsFar, TaskAsFar, TopologyAsFar, ServesAlone, At, Pinned,
         Unopened, Open, Closed, Stopping
<1>4. Seen
  <2>1. probe.pc = "idle"
    BY DEF Init, LS_Init, NoProbe
  <2> QED BY <2>1 DEF Seen
<1>5. Released
  <2>1. ~wanted /\ ~launched /\ proc.pc = "never started"
    BY DEF Init, LS_Init
  <2> QED BY <2>1 DEF Released, Alive, Ended
<1>6. Counted
  <2>1. faults \in 0..MaxFaults
    BY MaxFaultsAssumption DEF Init
  <2> QED BY <2>1, Zenon DEF Init, Counted
<1> QED BY <1>1, <1>2, <1>3, <1>4, <1>5, <1>6 DEF DP_Inv, LS_Inv

LEMMA DPStep ==
  ASSUME DP_Inv, [Next]_vars
  PROVE  DP_Inv'
<1>1. CASE Next
  <2>1. MG_Inv'
    BY <1>1, StepIsMigStep, MGStep DEF DP_Inv, Next
  <2>2. LS_Inv'
    BY <1>1, StepIsLifeStep, LifeInvStep DEF DP_Inv, Next
  <2>3. Released' /\ Counted'
    BY <1>1, ReleasedStep, CountedStep DEF Next
  <2> QED BY <2>1, <2>2, <2>3 DEF DP_Inv
<1>2. CASE UNCHANGED vars
  <2>1. MG_Inv'
    BY <1>2, MGStep DEF DP_Inv, vars
  <2>2. UNCHANGED lifeVars
    BY <1>2 DEF vars
  <2>3. LS_TypeOK' /\ Seen'
    BY <2>2 DEF DP_Inv, LS_Inv, LS_TypeOK, Seen, lifeVars
  <2>4. LS_Core'
    BY <2>2, CoreStep DEF DP_Inv, LS_Inv, LifeStep, lifeVars, lifeVarsSeen
  <2>5. Released' /\ Counted'
    BY <1>2, <2>2 DEF vars, migVars, lifeVars, DP_Inv, Released, Counted, Alive
  <2> QED BY <2>1, <2>3, <2>4, <2>5 DEF DP_Inv, LS_Inv
<1> QED BY <1>1, <1>2

LEMMA DPInvariant == Spec => []DP_Inv
BY DPBegins, DPStep, PTL DEF Spec

-------------------------------------------------------------------------------
\* Type correctness of the process, the migrations and what docker keeps of them.
THEOREM DeploymentTypes == Spec => []TypeOK
<1>1. DP_Inv => TypeOK
  BY DEF DP_Inv, MG_Inv, LS_Inv, Counted, TypeOK
<1> QED BY <1>1, DPInvariant, PTL

\* The subscriber has its queue only after the dead-letter queue is bound, the
\* sessionmaker is set and the schema is that of Head (lifespan.py, docker-compose.yml).
THEOREM ReadyBeforeConsuming == Spec => []ConsumesOnlyWhenReady
<1>1. ASSUME DP_Inv, consuming PROVE ConsumesOnlyWhenReady
  <2>1. At("serving")
    BY <1>1 DEF DP_Inv, LS_Inv, LS_Core, ServesAlone
  <2>2. Pinned /\ Alive
    BY <2>1 DEF Pinned, Alive, At, Ended
  <2>3. {"dlx", "dlq", "binding"} \subseteq topology /\ task = "running"
    BY <1>1, <2>1, <2>2 DEF DP_Inv, LS_Inv, LS_Core, TopologyAsFar, TaskAsFar, At
  <2>4. db.revision = Head
    BY <1>1, <2>2 DEF DP_Inv, Released
  <2>5. db.labels = {"CANCELLED"}
    BY <1>1, <2>4 DEF DP_Inv, MG_Inv, Matches, Head
  <2> QED BY <2>2, <2>3, <2>4, <2>5 DEF ConsumesOnlyWhenReady
<1>2. DP_Inv => ConsumesOnlyWhenReady
  BY <1>1 DEF ConsumesOnlyWhenReady
<1> QED BY <1>2, DPInvariant, PTL

\* The pool, the HTTP client and the broker stay open under the reconciler and the
\* subscriber, and the pool under a handler too (the finally of lifespan.py).
THEOREM ResourcesOutlive == Spec => []ResourcesOutliveTheirUsers
<1>1. ASSUME DP_Inv, task \in {"running", "cancelling"}
      PROVE  {"engine", "http"} \subseteq held
  <2>1. proc.pc \in {"start broker", "serving", "cancel", "await task"}
    BY <1>1 DEF DP_Inv, LS_Inv, LS_TypeOK, LS_Core, TaskAsFar, At, Pcs, Starting, Stopping, Ended,
                Unopened, Closed
  <2> QED BY <1>1, <2>1 DEF DP_Inv, LS_Inv, LS_Core, HeldAsFar, Open, Resources
<1>2. ASSUME DP_Inv, consuming
      PROVE  {"engine", "http", "broker"} \subseteq held
  <2>1. At("serving")
    BY <1>2 DEF DP_Inv, LS_Inv, LS_Core, ServesAlone
  <2> QED BY <1>2, <2>1 DEF DP_Inv, LS_Inv, LS_Core, HeldAsFar, Open, Resources, At
<1>4. ASSUME DP_Inv, Alive
      PROVE  "engine" \in held
  <2>1. proc.pc \in {"postgres", "connect", "close http", "dispose"} \cup Open
    BY <1>4, Zenon DEF DP_Inv, LS_Inv, LS_TypeOK, Alive, Pcs, Starting, Stopping, Ended, Open
  <2>2. held = {"engine"} \/ held = {"engine", "http"} \/ held = Resources
        \/ Left({"engine", "http"}) \/ Left({"engine"})
    BY <1>4, <2>1, Zenon DEF DP_Inv, LS_Inv, LS_Core, HeldAsFar, At
  <2> QED BY <2>2 DEF Left, Resources
<1>3. DP_Inv => ResourcesOutliveTheirUsers
  BY <1>1, <1>2, <1>4 DEF ResourcesOutliveTheirUsers
<1> QED BY <1>3, DPInvariant, PTL

\* Whichever close raises, a process that was told to stop has closed all the others.
THEOREM ExitsClean == Spec => []CleanExit
<1>1. Left({}) => held \subseteq raised
  BY DEF Left
<1>2. DP_Inv => CleanExit
  BY <1>1, Zenon
     DEF DP_Inv, LS_Inv, LS_Core, HeldAsFar, TaskAsFar, ServesAlone, CleanExit, At, Closed
<1> QED BY <1>2, DPInvariant, PTL

\* A 200 of GET /health tells of servers that answered during the request.
THEOREM OkIsWitnessed == Spec => []OkMeansEachWasUp
<1>1. ASSUME DP_Inv, probe.pc = "answered", probe.status = 200
      PROVE  witnessed = Dependencies /\ task = "running"
  <2>1. probe # NoProbe
    BY <1>1 DEF NoProbe
  <2>2. At("serving")
    BY <1>1, <2>1 DEF DP_Inv, LS_Inv, LS_Core, ServesAlone
  <2> QED BY <1>1, <2>2 DEF DP_Inv, LS_Inv, LS_Core, TaskAsFar, Seen, At
<1>2. DP_Inv => OkMeansEachWasUp
  BY <1>1 DEF OkMeansEachWasUp
<1> QED BY <1>2, DPInvariant, PTL

\* The migrations as docker and the operator run them match and apply too.
THEOREM DeployedMigrationsMatch == Spec => [](SchemaMatchesRevision /\ EveryStatementApplies)
<1>1. DP_Inv => SchemaMatchesRevision /\ EveryStatementApplies
  BY MGApplies DEF DP_Inv, MG_Inv, SchemaMatchesRevision
<1> QED BY <1>1, DPInvariant, PTL

-------------------------------------------------------------------------------
\* The steps a process has left at most: an attempt at PostgreSQL, a place, or the end
\* of its task.
AttemptsLeft == 13 + PgAttempts - proc.attempt

LifeRank ==
  CASE At("postgres")     -> AttemptsLeft
    [] At("connect")      -> 12
    [] At("declare dlx")  -> 11
    [] At("declare dlq")  -> 10
    [] At("bind")         -> 9
    [] At("start broker") -> 8
    [] At("serving")      -> 7
    [] At("cancel")       -> 6
    [] At("await task")   -> IF task = "done" THEN 4 ELSE 5
    [] At("close broker") -> 3
    [] At("close http")   -> 2
    [] At("dispose")      -> 1
    [] ~Alive             -> 0

\* What is left of a process is less after each of its steps; what else happens while
\* it lives leaves its place, its resources and its task alone.
LifeAdvances ==
  \/ ~Alive
  \/ LifeRank' < LifeRank
  \/ UNCHANGED <<proc, held, task>>

RankIsOfPlace ==
  /\ At("postgres") => LifeRank = AttemptsLeft
  /\ At("connect") => LifeRank = 12
  /\ At("declare dlx") => LifeRank = 11
  /\ At("declare dlq") => LifeRank = 10
  /\ At("bind") => LifeRank = 9
  /\ At("start broker") => LifeRank = 8
  /\ At("serving") => LifeRank = 7
  /\ At("cancel") => LifeRank = 6
  /\ At("await task") => LifeRank = IF task = "done" THEN 4 ELSE 5
  /\ At("close broker") => LifeRank = 3
  /\ At("close http") => LifeRank = 2
  /\ At("dispose") => LifeRank = 1
  /\ ~Alive => LifeRank = 0

LEMMA RankByPlace == RankIsOfPlace /\ RankIsOfPlace'
BY Zenon DEF RankIsOfPlace, LifeRank, At, Alive, Ended

\* Numbers and the names of places are taken apart: the SMT backend reads no string
\* with a space in it, and Zenon no arithmetic.
LEMMA RankOfLife ==
  ASSUME LS_TypeOK
  PROVE  /\ LifeRank \in 0..12 + PgAttempts
         /\ At("postgres") => LifeRank >= 13
         /\ Alive => LifeRank > 0
<1>1. PgAttempts \in Nat /\ PgAttempts > 0
  BY PgAttemptsAssumption
<1>2. CASE At("postgres")
  <2>1. proc.attempt \in 1..PgAttempts
    BY <1>2, Zenon DEF LS_TypeOK, At, Pcs, Starting, Stopping, Ended
  <2>2. LifeRank = AttemptsLeft
    BY <1>2, RankByPlace DEF RankIsOfPlace
  <2> QED BY <1>1, <2>1, <2>2 DEF AttemptsLeft
<1>3. CASE ~At("postgres")
  <2>1. proc.pc \in Pcs
    BY <1>3, Zenon DEF LS_TypeOK, At
  <2>2. \/ LifeRank = 12 \/ LifeRank = 11 \/ LifeRank = 10 \/ LifeRank = 9 \/ LifeRank = 8
        \/ LifeRank = 7 \/ LifeRank = 6 \/ LifeRank = 5 \/ LifeRank = 4 \/ LifeRank = 3
        \/ LifeRank = 2 \/ LifeRank = 1 \/ (LifeRank = 0 /\ ~Alive)
    BY <2>1, <1>3, RankByPlace, Zenon
       DEF RankIsOfPlace, Pcs, Starting, Stopping, Ended, At, Alive
  <2> QED BY <1>1, <1>3, <2>2
<1> QED BY <1>2, <1>3

\* The rank at PostgreSQL is above that of every other place.
LEMMA FallsFromPostgres ==
  ASSUME LS_TypeOK, At("postgres"), NEW n \in 0..12, LifeRank' = n
  PROVE  LifeRank' < LifeRank
<1>1. LifeRank \in 0..12 + PgAttempts /\ LifeRank >= 13
  BY RankOfLife
<1> QED BY <1>1, PgAttemptsAssumption

LEMMA StartupAdvances ==
  ASSUME LS_TypeOK, Startup \/ Raises
  PROVE  LifeRank' < LifeRank
<1>1. CASE PostgresAnswers
  <2>1. At("postgres") /\ At("connect")'
    BY <1>1 DEF PostgresAnswers, At, Go
  <2>2. LifeRank' = 12
    BY <2>1, RankByPlace, Zenon DEF RankIsOfPlace
  <2> QED BY <2>1, <2>2, FallsFromPostgres
<1>2. CASE PostgresFails /\ proc.attempt < PgAttempts
  <2>1. At("postgres") /\ proc' = [proc EXCEPT !.attempt = proc.attempt + 1]
    BY <1>2 DEF PostgresFails
  <2>2. proc \in [pc : {"postgres"}, attempt : 1..PgAttempts]
    BY <2>1, Zenon DEF At, LS_TypeOK, Pcs, Starting, Stopping, Ended
  <2>3. At("postgres")' /\ proc'.attempt = proc.attempt + 1 /\ proc.attempt \in Nat
    BY <2>1, <2>2, PgAttemptsAssumption DEF At
  <2>4. LifeRank = AttemptsLeft /\ LifeRank' = AttemptsLeft'
    BY <2>1, <2>3, RankByPlace, Zenon DEF RankIsOfPlace
  <2> QED BY <2>3, <2>4, PgAttemptsAssumption DEF AttemptsLeft
<1>3. CASE PostgresFails /\ ~(proc.attempt < PgAttempts)
  <2>1. At("postgres") /\ Go("failed")
    BY <1>3 DEF PostgresFails
  <2>2. LifeRank' = 0
    BY <2>1, RankByPlace, Zenon DEF RankIsOfPlace, Go, Alive, Ended
  <2> QED BY <2>1, <2>2, FallsFromPostgres
<1>4. CASE Connect
  <2>1. LifeRank = 12 /\ LifeRank' = 11
    BY Zenon, <1>4, RankByPlace DEF RankIsOfPlace, Connect, At, Go, Alive, Ended
  <2> QED BY <2>1
<1>5. CASE DeclareDlx
  <2>1. LifeRank = 11 /\ LifeRank' = 10
    BY Zenon, <1>5, RankByPlace DEF RankIsOfPlace, DeclareDlx, Declare, At, Go, Alive, Ended
  <2> QED BY <2>1
<1>6. CASE DeclareDlq
  <2>1. LifeRank = 10 /\ LifeRank' = 9
    BY Zenon, <1>6, RankByPlace DEF RankIsOfPlace, DeclareDlq, Declare, At, Go, Alive, Ended
  <2> QED BY <2>1
<1>7. CASE Bind
  <2>1. LifeRank = 9 /\ LifeRank' = 8
    BY Zenon, <1>7, RankByPlace DEF RankIsOfPlace, Bind, Declare, At, Go, Alive, Ended
  <2> QED BY <2>1
<1>8. CASE StartBroker
  <2>1. LifeRank = 8 /\ LifeRank' = 7
    BY Zenon, <1>8, RankByPlace DEF RankIsOfPlace, StartBroker, Declare, At, Go, Alive, Ended
  <2> QED BY <2>1
<1>9. CASE Raises
  <2>1. proc.pc \in Starting /\ (Go("cancel") \/ Go("failed"))
    BY Zenon, <1>9 DEF Raises
  <2>2. LifeRank = 12 \/ LifeRank = 11 \/ LifeRank = 10 \/ LifeRank = 9 \/ LifeRank = 8
    BY Zenon, <2>1, RankByPlace DEF RankIsOfPlace, Starting, At
  <2>3. ASSUME Go("cancel") PROVE LifeRank' = 6
    BY Zenon, <2>3, RankByPlace DEF RankIsOfPlace, At, Go
  <2>4. ASSUME Go("failed") PROVE LifeRank' = 0
    BY Zenon, <2>4, RankByPlace DEF RankIsOfPlace, Go, Alive, Ended
  <2>5. LifeRank' = 6 \/ LifeRank' = 0
    BY Zenon, <2>1, <2>3, <2>4
  <2> QED BY <2>2, <2>5
<1> QED BY <1>1, <1>2, <1>3, <1>4, <1>5, <1>6, <1>7, <1>8, <1>9, Zenon DEF Startup, StartupRaises

LEMMA ShutdownAdvances ==
  ASSUME LS_TypeOK, LS_Core, Shutdown \/ Terminate \/ Kill
  PROVE  LifeRank' < LifeRank
<1>1. CASE CancelTask
  <2>1. LifeRank = 6 /\ At("await task")' /\ task' # "done"
    BY Zenon, <1>1, RankByPlace DEF RankIsOfPlace, CancelTask, At, Go
  <2>2. LifeRank = 6 /\ LifeRank' = 5
    BY Zenon, <2>1, RankByPlace DEF RankIsOfPlace
  <2> QED BY <2>2
<1>2. CASE TaskEnds
  <2>1. At("await task")
    BY <1>2, Zenon
       DEF TaskEnds, LS_Core, TaskAsFar, LS_TypeOK, Pcs, Starting, Stopping, Ended, Unopened,
           Closed, At
  <2>2. At("await task")' /\ task # "done" /\ task' = "done"
    BY <1>2, <2>1, Zenon DEF TaskEnds, At
  <2>3. LifeRank = 5 /\ LifeRank' = 4
    BY Zenon, <2>1, <2>2, RankByPlace DEF RankIsOfPlace
  <2> QED BY <2>3
<1>3. CASE AwaitTask
  <2>1. At("await task") /\ task = "done" /\ At("close broker")'
    BY <1>3, Zenon DEF AwaitTask, At, Go
  <2>2. LifeRank = 4 /\ LifeRank' = 3
    BY Zenon, <2>1, RankByPlace DEF RankIsOfPlace
  <2> QED BY <2>2
<1>4. CASE Close("close broker", "broker", "close http")
  <2>1. LifeRank = 3 /\ LifeRank' = 2
    BY Zenon, <1>4, RankByPlace DEF RankIsOfPlace, Close, At, Go, Alive, Ended
  <2> QED BY <2>1
<1>5. CASE Close("close http", "http", "dispose")
  <2>1. LifeRank = 2 /\ LifeRank' = 1
    BY Zenon, <1>5, RankByPlace DEF RankIsOfPlace, Close, At, Go, Alive, Ended
  <2> QED BY <2>1
<1>6. CASE Close("dispose", "engine", "exited")
  <2>1. LifeRank = 1 /\ LifeRank' = 0
    BY Zenon, <1>6, RankByPlace DEF RankIsOfPlace, Close, At, Go, Alive, Ended
  <2> QED BY <2>1
<1>7. CASE Terminate
  <2>1. LifeRank = 7 /\ LifeRank' = 6
    BY Zenon, <1>7, RankByPlace DEF RankIsOfPlace, Terminate, At, Go, Alive, Ended
  <2> QED BY <2>1
<1>8. CASE Kill
  <2>1. Alive /\ Go("killed")
    BY <1>8 DEF Kill
  <2>2. LifeRank' = 0
    BY <2>1, RankByPlace, Zenon DEF RankIsOfPlace, Go, Alive, Ended
  <2>3. LifeRank \in 0..12 + PgAttempts /\ LifeRank > 0
    BY <2>1, RankOfLife
  <2> QED BY <2>2, <2>3, PgAttemptsAssumption
<1> QED BY <1>1, <1>2, <1>3, <1>4, <1>5, <1>6, <1>7, <1>8, Zenon DEF Shutdown

\* A process of bet_maker comes to serve, or to its end, after at most as many steps as
\* attempts of wait_for_postgres and twelve more: nothing in lifespan.py leads back.
THEOREM LifespansCountDown ==
  Spec => [](LifeRank \in 0..12 + PgAttempts) /\ [][LifeAdvances]_vars
<1>1. DP_Inv => LifeRank \in 0..12 + PgAttempts
  BY RankOfLife DEF DP_Inv, LS_Inv
<1>2. DP_Inv /\ DP_Inv' /\ [Next]_vars => [LifeAdvances]_vars
  <2> SUFFICES ASSUME DP_Inv, DP_Inv', Next
               PROVE  LifeAdvances
    OBVIOUS
  <2>1. LifeStep
    BY StepIsLifeStep DEF Next
  <2>2. LS_TypeOK /\ LS_TypeOK' /\ LS_Core
    BY DEF DP_Inv, LS_Inv
  <2>3. CASE Spawn
    BY <2>3 DEF Spawn, LifeAdvances
  <2>4. CASE Startup \/ Raises
    BY <2>2, <2>4, StartupAdvances DEF LifeAdvances
  <2>5. CASE Shutdown \/ Terminate \/ Kill
    BY <2>2, <2>5, ShutdownAdvances DEF LifeAdvances
  <2>6. CASE Resubscribe \/ Handling \/ Probing
    BY <2>6 DEF Resubscribe, Handling, TakeMessage, HandlerEnds, Probing, StartProbe, PingPostgres, PingRabbit, EndProbe, LifeAdvances
  <2>7. CASE \E d \in Dependencies : GoDown(d) \/ ComeBack(d)
    BY <2>7 DEF GoDown, ComeBack, LifeAdvances
  <2>8. CASE UNCHANGED lifeVarsSeen
    BY <2>8 DEF lifeVarsSeen, LifeAdvances
  <2> QED BY <2>1, <2>3, <2>4, <2>5, <2>6, <2>7, <2>8 DEF LifeStep
<1> QED BY <1>1, <1>2, DPInvariant, PTL DEF Spec

LEMMA UpwardHere == Spec => []Upward
<1>1. Init => Upward
  <2> SUFFICES ASSUME Init PROVE Upward
    OBVIOUS
  <2>1. mig.pc = "none"
    BY DEF Init, MG_Init, NoRun
  <2> QED BY <2>1 DEF Upward
<1>2. DP_Inv /\ Upward /\ [Next]_vars => Upward'
  <2> SUFFICES ASSUME DP_Inv, Upward, [Next]_vars
               PROVE  Upward'
    OBVIOUS
  <2>1. CASE Forgotten
    <3>1. mig'.pc = "none"
      BY <2>1 DEF Forgotten, NoRun
    <3> QED BY <3>1 DEF Upward
  <2>2. CASE MG_Next
    BY <2>2, UpwardStep DEF DP_Inv
  <2>3. CASE UNCHANGED migVars
    BY <2>3 DEF migVars, Upward
  <2> QED BY <2>1, <2>2, <2>3, StepIsMigStep DEF Next, vars
<1> QED BY <1>1, <1>2, DPInvariant, PTL DEF Spec

\* As docker runs them too, the migrations fail only when their process dies, so that
\* ComesUp need assume nothing about them but that.
THEOREM DeployedMigrationsSucceed == Spec => [][Migrate => mig' # NoRun("failed")]_vars
<1>1. DP_Inv /\ Upward => (Migrate => mig' # NoRun("failed"))
  BY RunAdvances DEF DP_Inv, Migrate
<1> QED BY <1>1, DPInvariant, UpwardHere, PTL DEF Spec
===============================================================================
