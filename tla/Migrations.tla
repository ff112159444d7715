------------------------------ MODULE Migrations ------------------------------
(***************************************************************************)
(* alembic's revisions 0001 to 0004 of the schema of bets, and the one     *)
(* process that runs them: `alembic upgrade head`, or a downgrade by hand. *)
(*                                                                         *)
(* A run is one transaction (env.py), except that 0003 commits what was    *)
(* done so far, adds its enum value in autocommit and goes on in a second  *)
(* transaction. Dying anywhere loses what is not committed, and the next   *)
(* run starts from the revision that is recorded.                          *)
(***************************************************************************)
EXTENDS Naturals

VARIABLES db,   \* the committed schema and its recorded revision
          mig   \* the alembic process

migVars == <<db, mig>>

Head == 4
CancelLabels == {"cancelled", "CANCELLED"}

\* labels are those of enum bet_status beyond PENDING, WON and LOST.
Schemas == [revision : 0..Head, table : BOOLEAN, type : BOOLEAN,
            labels : SUBSET CancelLabels, settledColumns : BOOLEAN]

NoRun(exit) == [pc |-> "none", exit |-> exit]
Run(pc, target, work) == [pc |-> pc, target |-> target, work |-> work]

Exits == {"not run", "ok", "failed"}
Runs  == [pc : {"transaction", "autocommit", "added"}, target : 0..Head, work : Schemas]

MG_TypeOK == /\ db \in Schemas
             /\ mig \in Runs \cup {NoRun(exit) : exit \in Exits}
-------------------------------------------------------------------------------
MG_Init == /\ db = [revision |-> 0, table |-> FALSE, type |-> FALSE,
                    labels |-> {}, settledColumns |-> FALSE]
           /\ mig = NoRun("not run")

\* Mutant: 0003 without IF NOT EXISTS.
Upgradable_WithoutIfNotExists(v, s) ==
  CASE v = 1 -> ~s.table
    [] v = 2 -> s.table /\ ~s.settledColumns
    [] v = 3 -> s.type /\ "cancelled" \notin s.labels
    [] v = 4 -> "cancelled" \in s.labels /\ "CANCELLED" \notin s.labels

\* PostgreSQL takes the statements of revision v: CREATE TABLE (the type is created
\* only if it is missing), ADD COLUMN, ADD VALUE IF NOT EXISTS, RENAME VALUE.
Upgradable(v, s) ==
  CASE v = 1 -> ~s.table
    [] v = 2 -> s.table /\ ~s.settledColumns
    [] v = 3 -> s.type
    [] v = 4 -> "cancelled" \in s.labels /\ "CANCELLED" \notin s.labels

Upgraded(v, s) ==
  CASE v = 1 -> [s EXCEPT !.revision = 1, !.table = TRUE, !.type = TRUE]
    [] v = 2 -> [s EXCEPT !.revision = 2, !.settledColumns = TRUE]
    [] v = 4 -> [s EXCEPT !.revision = 4, !.labels = {"CANCELLED"}]

Downgradable(v, s) ==
  CASE v = 1 -> s.table
    [] v = 2 -> s.table /\ s.settledColumns
    [] v = 3 -> TRUE
    [] v = 4 -> "CANCELLED" \in s.labels /\ "cancelled" \notin s.labels

\* Mutant: 0004 cannot be undone either.
Downgraded_KeepsCase(v, s) ==
  CASE v = 1 -> [s EXCEPT !.revision = 0, !.table = FALSE, !.type = FALSE, !.labels = {}]
    [] v = 2 -> [s EXCEPT !.revision = 1, !.settledColumns = FALSE]
    [] v = 3 -> [s EXCEPT !.revision = 2]
    [] v = 4 -> [s EXCEPT !.revision = 3]

\* 0003 cannot be undone: its label stays until 0001 drops the type.
Downgraded(v, s) ==
  CASE v = 1 -> [s EXCEPT !.revision = 0, !.table = FALSE, !.type = FALSE, !.labels = {}]
    [] v = 2 -> [s EXCEPT !.revision = 1, !.settledColumns = FALSE]
    [] v = 3 -> [s EXCEPT !.revision = 2]
    [] v = 4 -> [s EXCEPT !.revision = 3, !.labels = {"cancelled"}]

\* alembic upgrade or downgrade: reads the recorded revision, opens a transaction.
StartRun(target) ==
  /\ mig.pc = "none"
  /\ mig' = Run("transaction", target, db)
  /\ UNCHANGED db

\* A statement that PostgreSQL does not take ends the run, which rolls back.
Execute(accepted, next) == mig' = IF accepted THEN next ELSE NoRun("failed")

Upgrade(v) ==
  /\ mig.pc = "transaction"
  /\ v = mig.work.revision + 1
  /\ v <= mig.target
  /\ v # 3
  /\ Execute(Upgradable(v, mig.work), [mig EXCEPT !.work = Upgraded(v, @)])
  /\ UNCHANGED db

\* 0003: autocommit_block commits the transaction it is in.
EnterAutocommit ==
  /\ mig.pc = "transaction"
  /\ mig.work.revision = 2
  /\ mig.target >= 3
  /\ db' = mig.work
  /\ mig' = [mig EXCEPT !.pc = "autocommit"]

\* ALTER TYPE bet_status ADD VALUE takes effect on its own; then a new transaction.
AddValue ==
  /\ mig.pc = "autocommit"
  /\ LET added == [db EXCEPT !.labels = @ \cup {"cancelled"}] IN
       IF Upgradable(3, db)
       THEN db' = added /\ mig' = Run("added", mig.target, added)
       ELSE UNCHANGED db /\ mig' = NoRun("failed")

\* alembic records 0003 in the second transaction.
RecordThird ==
  /\ mig.pc = "added"
  /\ mig' = Run("transaction", mig.target, [mig.work EXCEPT !.revision = 3])
  /\ UNCHANGED db

Downgrade(v) ==
  /\ mig.pc = "transaction"
  /\ v = mig.work.revision
  /\ v > mig.target
  /\ Execute(Downgradable(v, mig.work), [mig EXCEPT !.work = Downgraded(v, @)])
  /\ UNCHANGED db

CommitRun ==
  /\ mig.pc = "transaction"
  /\ mig.work.revision = mig.target
  /\ db' = mig.work
  /\ mig' = NoRun("ok")

\* The process dies, or loses its connection.
Abort ==
  /\ mig.pc # "none"
  /\ mig' = NoRun("failed")
  /\ UNCHANGED db

RunGoesOn ==
  \/ \E v \in 1..Head : Upgrade(v) \/ Downgrade(v)
  \/ EnterAutocommit
  \/ AddValue
  \/ RecordThird
  \/ CommitRun

MG_Next == (\E target \in 0..Head : StartRun(target)) \/ RunGoesOn \/ Abort

MG_Spec == MG_Init /\ [][MG_Next]_migVars
-------------------------------------------------------------------------------
\* The recorded revision says what is there, whatever runs were interrupted: the
\* table from 0001 on, the columns from 0002 on, one label of the right case from
\* 0003 on, and before it at most the label an interrupted or undone 0003 left.
Matches(s) ==
  /\ s.table <=> s.revision >= 1
  /\ s.type <=> s.revision >= 1
  /\ s.settledColumns <=> s.revision >= 2
  /\ s.revision \in 1..2 => s.labels \subseteq {"cancelled"}
  /\ s.revision = 0 => s.labels = {}
  /\ s.revision = 3 => s.labels = {"cancelled"}
  /\ s.revision = 4 => s.labels = {"CANCELLED"}

SchemaMatchesRevision == Matches(db)

\* No run gets stuck on what an earlier one left behind: PostgreSQL takes every
\* statement a run reaches, after any crash, rerun or downgrade.
EveryStatementApplies ==
  /\ mig.pc = "transaction" =>
       /\ mig.work.revision < mig.target => Upgradable(mig.work.revision + 1, mig.work)
       /\ mig.work.revision > mig.target => Downgradable(mig.work.revision, mig.work)
  /\ mig.pc = "autocommit" => Upgradable(3, db)
===============================================================================
