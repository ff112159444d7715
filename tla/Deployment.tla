------------------------------ MODULE Deployment ------------------------------
(***************************************************************************)
(* bet_maker as docker-compose.yml deploys it: bet-maker-migrate runs      *)
(* `alembic upgrade head` once PostgreSQL is healthy; bet-maker starts     *)
(* once it has succeeded, and is restarted whenever its process ends. The  *)
(* operator brings the stack up and down, and may downgrade by hand while  *)
(* it is down.                                                             *)
(***************************************************************************)
EXTENDS Migrations, Lifespan

CONSTANT MaxFaults   \* bound: how often a process is killed, or a step of its start
                     \* raises though all servers are up

ASSUME MaxFaultsAssumption == MaxFaults \in Nat

VARIABLES wanted,     \* docker compose up
          launched,   \* the bet-maker container has been started since
          faults

vars == <<migVars, lifeVars, wanted, launched, faults>>

TypeOK == /\ MG_TypeOK
          /\ LS_TypeOK
          /\ wanted \in BOOLEAN
          /\ launched \in BOOLEAN
          /\ faults \in 0..MaxFaults

Init == /\ MG_Init
        /\ LS_Init
        /\ wanted = FALSE
        /\ launched = FALSE
        /\ faults = 0

lifeVarsSeen == <<up, topology, proc, held, raised, task, consuming, handling, probe>>
Fault == faults < MaxFaults /\ faults' = faults + 1
-------------------------------------------------------------------------------
\* docker compose up, for the first time or again: the migration is to run.
Up ==
  /\ mig.pc = "none" /\ ~Alive
  /\ ~wanted \/ mig = NoRun("failed")
  /\ wanted' = TRUE
  /\ launched' = FALSE
  /\ mig' = NoRun("not run")
  /\ UNCHANGED <<db, lifeVarsSeen, faults>>

\* docker compose down: whoever runs is told to stop.
Down ==
  /\ wanted
  /\ wanted' = FALSE
  /\ UNCHANGED <<migVars, lifeVarsSeen, launched, faults>>

StartMigrate ==
  /\ wanted /\ mig = NoRun("not run")
  /\ "postgres" \in up
  /\ StartRun(Head)
  /\ UNCHANGED <<lifeVarsSeen, wanted, launched, faults>>

\* alembic downgrade, by hand.
DowngradeByHand(target) ==
  /\ ~wanted /\ ~Alive
  /\ "postgres" \in up
  /\ target < db.revision
  /\ StartRun(target)
  /\ UNCHANGED <<lifeVarsSeen, wanted, launched, faults>>

Migrate ==
  /\ "postgres" \in up
  /\ RunGoesOn
  /\ UNCHANGED <<lifeVarsSeen, wanted, launched, faults>>

\* The migration dies: killed, or without its database.
MigrateDies ==
  /\ Abort
  /\ IF "postgres" \in up THEN Fault ELSE UNCHANGED faults
  /\ UNCHANGED <<lifeVarsSeen, wanted, launched>>

\* Mutant: bet-maker waits for nothing but the two servers.
Launch_WithoutMigration ==
  /\ wanted /\ ~launched
  /\ up = Dependencies
  /\ Spawn
  /\ launched' = TRUE
  /\ UNCHANGED <<migVars, wanted, faults>>

\* depends_on: both servers healthy, bet-maker-migrate completed successfully.
Launch ==
  /\ wanted /\ ~launched
  /\ mig = NoRun("ok")
  /\ up = Dependencies
  /\ Spawn
  /\ launched' = TRUE
  /\ UNCHANGED <<migVars, wanted, faults>>

\* Mutant: restart: "no".
Relaunch_Never == FALSE /\ UNCHANGED vars

\* restart: unless-stopped.
Relaunch ==
  /\ wanted /\ launched
  /\ Spawn
  /\ UNCHANGED <<migVars, wanted, launched, faults>>

Elsewhere == UNCHANGED <<migVars, wanted, launched, faults>>

Die        == Kill /\ Fault /\ UNCHANGED <<migVars, wanted, launched>>
StartFails == Raises /\ Fault /\ UNCHANGED <<migVars, wanted, launched>>

Operator == Up \/ Down \/ \E target \in 0..Head : DowngradeByHand(target)
Compose  == StartMigrate \/ Launch \/ Relaunch

Step ==
  \/ Operator
  \/ Compose
  \/ Migrate
  \/ MigrateDies
  \/ (Startup \/ Resubscribe \/ Handling \/ Probing \/ Shutdown) /\ Elsewhere
  \/ ~wanted /\ Terminate /\ Elsewhere
  \/ (\E d \in Dependencies : GoDown(d) \/ ComeBack(d)) /\ Elsewhere
  \/ Die \/ StartFails

Next == Step /\ Witness

\* What has been started goes on, and docker starts what is due. Nothing is assumed
\* of the operator and of the servers.
Fairness == /\ WF_vars(Compose /\ Witness)
            /\ WF_vars(Migrate /\ Witness)
            /\ WF_vars(Startup /\ Elsewhere /\ Witness)
            /\ WF_vars(Resubscribe /\ Elsewhere /\ Witness)
            /\ WF_vars(Shutdown /\ Elsewhere /\ Witness)

Spec == Init /\ [][Next]_vars /\ Fairness
-------------------------------------------------------------------------------
\* No message is taken before it can be dealt with: whenever the subscriber has its
\* queue, the sessionmaker is set, a rejected message has a bound dead-letter queue
\* to go to, and the enum has every status a settle or a cancel writes.
ConsumesOnlyWhenReady ==
  consuming =>
    /\ Pinned
    /\ {"dlx", "dlq", "binding"} \subseteq topology
    /\ db.revision = Head /\ db.labels = {"CANCELLED"}
    /\ task # "none"

\* bet_maker comes up and stays up, in whatever state crashes, failed starts and
\* interrupted migrations have left the database, the broker and the process, if
\* from some time on it is wanted, both servers are up, and no migration has failed
\* without being run again.
ComesUp ==
  <>[](wanted /\ up = Dependencies /\ mig # NoRun("failed"))
    => <>[](At("serving") /\ consuming)
===============================================================================
