--------------------------- MODULE MigrationsProofs ---------------------------
(***************************************************************************)
(* Theorems about the migrations, for any sequence of upgrades, downgrades *)
(* and crashes.                                                            *)
(*                                                                         *)
(* The invariant follows a run through its phases: what a transaction has  *)
(* done so far matches its own revision, and between the two transactions  *)
(* of 0003 the database is at revision 2, first with at most the label,    *)
(* then with it.                                                           *)
(***************************************************************************)
EXTENDS Migrations, TLAPS

MG_Inv ==
  /\ MG_TypeOK
  /\ Matches(db)
  /\ mig.pc = "transaction" => Matches(mig.work)
  /\ mig.pc = "autocommit" => db.revision = 2
  /\ mig.pc = "added" => mig.work = db /\ db.revision = 2 /\ db.labels = {"cancelled"}

\* The alembic process ends, or a new one is due.
Forgotten == \E exit \in Exits : mig' = NoRun(exit) /\ UNCHANGED db

LEMMA RunFields ==
  ASSUME MG_Inv, mig.pc # "none"
  PROVE  mig \in Runs /\ mig.pc \in {"transaction", "autocommit", "added"}
         /\ mig.target \in 0..Head /\ mig.work \in Schemas
BY DEF MG_Inv, MG_TypeOK, NoRun, Runs

\* The schema a transaction goes on with.
LEMMA WorkReplaced ==
  ASSUME MG_Inv, NEW target \in 0..Head, NEW s \in Schemas, Matches(s),
         mig' = Run("transaction", target, s), UNCHANGED db
  PROVE  MG_Inv'
<1>1. Run("transaction", target, s) \in Runs
  BY DEF Run, Runs
<1> QED BY <1>1 DEF MG_Inv, MG_TypeOK, Matches, Run

LEMMA ForgottenKeeps ==
  ASSUME MG_Inv, Forgotten
  PROVE  MG_Inv'
BY DEF MG_Inv, MG_TypeOK, Forgotten, NoRun, Matches

\* A schema stays one when a revision changes it.
LEMMA SchemaReplaced ==
  ASSUME NEW s \in Schemas, NEW r \in 0..Head, NEW b \in BOOLEAN, NEW l \in SUBSET CancelLabels
  PROVE  /\ [s EXCEPT !.revision = r, !.table = b, !.type = b] \in Schemas
         /\ [s EXCEPT !.revision = r, !.settledColumns = b] \in Schemas
         /\ [s EXCEPT !.revision = r, !.labels = l] \in Schemas
BY DEF Schemas

LEMMA Revisions == 0 \in 0..Head /\ 1 \in 0..Head /\ 2 \in 0..Head /\ 3 \in 0..Head /\ 4 \in 0..Head
BY DEF Head

LEMMA Labels == {} \in SUBSET CancelLabels /\ {"cancelled"} \in SUBSET CancelLabels
                /\ {"CANCELLED"} \in SUBSET CancelLabels
BY DEF CancelLabels

\* A matching schema takes the next revision, and matches it then.
LEMMA UpgradeMatches ==
  ASSUME NEW s \in Schemas, Matches(s), NEW v \in 1..Head, v = s.revision + 1
  PROVE  /\ Upgradable(v, s)
         /\ v # 3 => Upgraded(v, s) \in Schemas /\ Matches(Upgraded(v, s))
<1>1. v \in {1, 2, 3, 4} /\ s.revision \in 0..Head
  BY DEF Head, Schemas
<1>2. CASE v = 1
  <2> DEFINE t == [s EXCEPT !.revision = 1, !.table = TRUE, !.type = TRUE]
  <2>1. s.revision = 0 /\ Upgradable(1, s)
    BY <1>1, <1>2 DEF Matches, Upgradable, Head
  <2>2. t \in Schemas
    BY SchemaReplaced, Revisions, Labels
  <2>3. Matches(t)
    BY <2>1 DEF Matches, Schemas
  <2>4. Upgraded(1, s) = t
    BY DEF Upgraded
  <2> QED BY <1>2, <2>1, <2>2, <2>3, <2>4
<1>3. CASE v = 2
  <2> DEFINE t == [s EXCEPT !.revision = 2, !.settledColumns = TRUE]
  <2>1. s.revision = 1 /\ Upgradable(2, s)
    BY <1>1, <1>3 DEF Matches, Upgradable, Head
  <2>2. t \in Schemas
    BY SchemaReplaced, Revisions, Labels
  <2>3. Matches(t)
    BY <2>1 DEF Matches, Schemas
  <2>4. Upgraded(2, s) = t
    BY DEF Upgraded
  <2> QED BY <1>3, <2>1, <2>2, <2>3, <2>4
<1>4. CASE v = 3
  <2>1. Upgradable(3, s)
    BY <1>4 DEF Matches, Upgradable, Schemas
  <2> QED BY <1>4, <2>1
<1>5. CASE v = 4
  <2> DEFINE t == [s EXCEPT !.revision = 4, !.labels = {"CANCELLED"}]
  <2>1. s.revision = 3 /\ Upgradable(4, s)
    BY <1>1, <1>5 DEF Matches, Upgradable, Head
  <2>2. t \in Schemas
    BY SchemaReplaced, Revisions, Labels
  <2>3. Matches(t)
    BY <2>1 DEF Matches, Schemas
  <2>4. Upgraded(4, s) = t
    BY DEF Upgraded
  <2> QED BY <1>5, <2>1, <2>2, <2>3, <2>4
<1> QED BY <1>1, <1>2, <1>3, <1>4, <1>5

LEMMA DowngradeMatches ==
  ASSUME NEW s \in Schemas, Matches(s), NEW v \in 1..Head, v = s.revision
  PROVE  /\ Downgradable(v, s)
         /\ Downgraded(v, s) \in Schemas /\ Matches(Downgraded(v, s))
<1>1. v \in {1, 2, 3, 4}
  BY DEF Head
<1>2. CASE v = 1
  <2> DEFINE t == [s EXCEPT !.revision = 0, !.table = FALSE, !.type = FALSE]
             u == [t EXCEPT !.labels = {}]
  <2>1. Downgradable(1, s)
    BY <1>2 DEF Matches, Downgradable
  <2>2. t \in Schemas
    BY SchemaReplaced, Revisions, Labels
  <2>3. u \in Schemas
    BY <2>2 DEF Schemas, CancelLabels
  <2>4. Matches(u)
    BY <1>2 DEF Matches, Schemas
  <2>5. Downgraded(1, s) = u
    BY DEF Downgraded, Schemas
  <2> QED BY <1>2, <2>1, <2>3, <2>4, <2>5
<1>3. CASE v = 2
  <2> DEFINE t == [s EXCEPT !.revision = 1, !.settledColumns = FALSE]
  <2>1. Downgradable(2, s)
    BY <1>3 DEF Matches, Downgradable
  <2>2. t \in Schemas
    BY SchemaReplaced, Revisions, Labels
  <2>3. Matches(t)
    BY <1>3 DEF Matches, Schemas
  <2>4. Downgraded(2, s) = t
    BY DEF Downgraded
  <2> QED BY <1>3, <2>1, <2>2, <2>3, <2>4
<1>4. CASE v = 3
  <2> DEFINE t == [s EXCEPT !.revision = 2]
  <2>1. Downgradable(3, s)
    BY DEF Downgradable
  <2>2. t \in Schemas
    BY Revisions DEF Schemas
  <2>3. Matches(t)
    BY <1>4 DEF Matches, Schemas
  <2>4. Downgraded(3, s) = t
    BY DEF Downgraded
  <2> QED BY <1>4, <2>1, <2>2, <2>3, <2>4
<1>5. CASE v = 4
  <2> DEFINE t == [s EXCEPT !.revision = 3, !.labels = {"cancelled"}]
  <2>1. Downgradable(4, s)
    BY <1>5 DEF Matches, Downgradable
  <2>2. t \in Schemas
    BY SchemaReplaced, Revisions, Labels
  <2>3. Matches(t)
    BY <1>5 DEF Matches, Schemas
  <2>4. Downgraded(4, s) = t
    BY DEF Downgraded
  <2> QED BY <1>5, <2>1, <2>2, <2>3, <2>4
<1> QED BY <1>1, <1>2, <1>3, <1>4, <1>5

LEMMA MGStep ==
  ASSUME MG_Inv, [MG_Next]_migVars \/ Forgotten
  PROVE  MG_Inv'
<1>1. ASSUME NEW target \in 0..Head, StartRun(target)
      PROVE  MG_Inv'
  BY <1>1, WorkReplaced DEF StartRun, MG_Inv, MG_TypeOK
<1>2. ASSUME NEW v \in 1..Head, Upgrade(v)
      PROVE  MG_Inv'
  <2>1. mig \in Runs /\ mig.pc = "transaction" /\ mig.target \in 0..Head
        /\ mig.work \in Schemas /\ Matches(mig.work)
    BY <1>2, RunFields DEF Upgrade, MG_Inv
  <2>2. v # 3 /\ v = mig.work.revision + 1 /\ UNCHANGED db
    BY <1>2 DEF Upgrade
  <2>3. Upgradable(v, mig.work)
    BY <2>1, <2>2, UpgradeMatches
  <2>4. mig' = Run("transaction", mig.target, Upgraded(v, mig.work))
    BY <1>2, <2>1, <2>3 DEF Upgrade, Execute, Runs, Run
  <2>5. Upgraded(v, mig.work) \in Schemas /\ Matches(Upgraded(v, mig.work))
    BY <2>1, <2>2, UpgradeMatches
  <2> QED BY <2>1, <2>2, <2>4, <2>5, WorkReplaced
<1>3. ASSUME NEW v \in 1..Head, Downgrade(v)
      PROVE  MG_Inv'
  <2>1. mig \in Runs /\ mig.pc = "transaction" /\ mig.target \in 0..Head
        /\ mig.work \in Schemas /\ Matches(mig.work)
    BY <1>3, RunFields DEF Downgrade, MG_Inv
  <2>2. v = mig.work.revision /\ UNCHANGED db
    BY <1>3 DEF Downgrade
  <2>3. Downgradable(v, mig.work)
    BY <2>1, <2>2, DowngradeMatches
  <2>4. mig' = Run("transaction", mig.target, Downgraded(v, mig.work))
    BY <1>3, <2>1, <2>3 DEF Downgrade, Execute, Runs, Run
  <2>5. Downgraded(v, mig.work) \in Schemas /\ Matches(Downgraded(v, mig.work))
    BY <2>1, <2>2, DowngradeMatches
  <2> QED BY <2>1, <2>2, <2>4, <2>5, WorkReplaced
<1>4. CASE EnterAutocommit
  <2>1. mig \in Runs /\ mig.work \in Schemas /\ Matches(mig.work)
    BY <1>4, RunFields DEF EnterAutocommit, MG_Inv
  <2>2. mig' \in Runs /\ mig'.pc = "autocommit"
    BY <1>4, <2>1 DEF EnterAutocommit, Runs
  <2> QED BY <1>4, <2>1, <2>2 DEF EnterAutocommit, MG_Inv, MG_TypeOK, Matches
<1>5. CASE AddValue
  <2>1. mig \in Runs /\ mig.target \in 0..Head /\ db \in Schemas /\ Matches(db)
        /\ db.revision = 2
    BY <1>5, RunFields DEF AddValue, MG_Inv, MG_TypeOK
  <2>2. Upgradable(3, db)
    BY <2>1 DEF Upgradable, Matches
  <2> DEFINE added == [db EXCEPT !.labels = @ \cup {"cancelled"}]
  <2>3. db' = added /\ mig' = Run("added", mig.target, added)
    BY <1>5, <2>2 DEF AddValue
  <2>4. added \in Schemas /\ added.revision = 2 /\ added.labels = {"cancelled"}
    BY <2>1 DEF Schemas, CancelLabels, Matches
  <2>5. Matches(added)
    BY <2>1, <2>4 DEF Matches, Schemas
  <2> HIDE DEF added
  <2>6. Run("added", mig.target, added) \in Runs
    BY <2>1, <2>4 DEF Run, Runs
  <2> QED BY <2>3, <2>4, <2>5, <2>6 DEF MG_Inv, MG_TypeOK, Matches, Run
<1>6. CASE RecordThird
  <2> DEFINE third == [mig.work EXCEPT !.revision = 3]
  <2>1. mig.target \in 0..Head /\ db \in Schemas /\ Matches(db)
        /\ mig.work = db /\ db.revision = 2 /\ db.labels = {"cancelled"}
    BY <1>6, RunFields DEF RecordThird, MG_Inv, MG_TypeOK
  <2>2. third \in Schemas /\ Matches(third)
    BY <2>1 DEF Schemas, Matches, Head
  <2> QED BY <1>6, <2>1, <2>2, WorkReplaced DEF RecordThird
<1>7. CASE CommitRun
  <2>1. mig.work \in Schemas /\ Matches(mig.work)
    BY <1>7, RunFields DEF CommitRun, MG_Inv
  <2> QED BY <1>7, <2>1 DEF CommitRun, MG_Inv, MG_TypeOK, Matches, NoRun, Exits
<1>8. CASE Abort
  BY <1>8, ForgottenKeeps DEF Abort, Forgotten, Exits
<1>9. CASE UNCHANGED migVars
  BY <1>9 DEF migVars, MG_Inv, MG_TypeOK, Matches
<1> QED BY <1>1, <1>2, <1>3, <1>4, <1>5, <1>6, <1>7, <1>8, <1>9, ForgottenKeeps
        DEF MG_Next, RunGoesOn

LEMMA MGBegins == MG_Init => MG_Inv
<1> SUFFICES ASSUME MG_Init PROVE MG_Inv
  OBVIOUS
<1>1. db \in Schemas
  <2> DEFINE b == FALSE
  <2>1. b \in BOOLEAN
    OBVIOUS
  <2>2. db = [revision |-> 0, table |-> b, type |-> b, labels |-> {}, settledColumns |-> b]
    BY DEF MG_Init
  <2> HIDE DEF b
  <2> QED BY <2>1, <2>2, Revisions, Labels DEF Schemas
<1>2. Matches(db)
  <2>1. ~db.table /\ ~db.type /\ ~db.settledColumns /\ db.revision = 0 /\ db.labels = {}
    BY Zenon DEF MG_Init
  <2> QED BY <2>1 DEF Matches
<1>3. mig = NoRun("not run") /\ "not run" \in Exits
  BY DEF MG_Init, Exits
<1>4. mig.pc = "none"
  BY <1>3 DEF NoRun
<1> QED BY <1>1, <1>2, <1>3, <1>4 DEF MG_Inv, MG_TypeOK

LEMMA MGApplies ==
  ASSUME MG_Inv
  PROVE  EveryStatementApplies
<1>1. ASSUME mig.pc = "transaction", mig.work.revision < mig.target
      PROVE  Upgradable(mig.work.revision + 1, mig.work)
  <2>1. mig.target \in 0..Head /\ mig.work \in Schemas /\ Matches(mig.work)
    BY <1>1, RunFields DEF MG_Inv
  <2>2. mig.work.revision + 1 \in 1..Head
    BY <1>1, <2>1 DEF Schemas, Head
  <2> QED BY <2>1, <2>2, UpgradeMatches
<1>2. ASSUME mig.pc = "transaction", mig.work.revision > mig.target
      PROVE  Downgradable(mig.work.revision, mig.work)
  <2>1. mig.target \in 0..Head /\ mig.work \in Schemas /\ Matches(mig.work)
    BY <1>2, RunFields DEF MG_Inv
  <2>2. mig.work.revision \in 1..Head
    BY <1>2, <2>1 DEF Schemas, Head
  <2> QED BY <2>1, <2>2, DowngradeMatches
<1>3. ASSUME mig.pc = "autocommit"
      PROVE  Upgradable(3, db)
  BY <1>3 DEF MG_Inv, MG_TypeOK, Schemas, Matches, Upgradable
<1> QED BY <1>1, <1>2, <1>3 DEF EveryStatementApplies

LEMMA MGInvariant == MG_Spec => []MG_Inv
<1>1. MG_Inv /\ [MG_Next]_migVars => MG_Inv'
  BY MGStep
<1> QED BY <1>1, MGBegins, PTL DEF MG_Spec

\* Whatever runs are interrupted, repeated or undone, the recorded revision says
\* what is in the database (alembic/versions).
THEOREM MigrationsMatch == MG_Spec => []SchemaMatchesRevision
<1>1. MG_Inv => SchemaMatchesRevision
  BY DEF MG_Inv, SchemaMatchesRevision
<1> QED BY <1>1, MGInvariant, PTL

\* No migration ever meets a statement that what is there makes impossible.
THEOREM MigrationsApply == MG_Spec => []EveryStatementApplies
BY MGInvariant, MGApplies, PTL
-------------------------------------------------------------------------------
\* The steps a run has left at most; 0003 counts for three.
Distance(s, target) == IF s.revision < target THEN target - s.revision ELSE s.revision - target

MigrationRank ==
  CASE mig.pc = "none"        -> 0
    [] mig.pc = "transaction" -> 3 * Distance(mig.work, mig.target) + 1
    [] mig.pc = "autocommit"  -> 3 * (mig.target - 2)
    [] mig.pc = "added"       -> 3 * (mig.target - 2) - 1

\* 0003 is gone through only on the way up.
Upward == mig.pc \in {"autocommit", "added"} => mig.target \in 3..Head

MigrationAdvances == mig.pc = "none" \/ MigrationRank' < MigrationRank

LEMMA UpwardStep ==
  ASSUME MG_Inv, Upward, MG_Next
  PROVE  Upward'
<1>1. CASE mig'.pc \notin {"autocommit", "added"}
  BY <1>1 DEF Upward
<1>2. CASE EnterAutocommit
  <2>1. mig.target \in 0..Head /\ mig.target >= 3 /\ mig \in Runs
    BY <1>2, RunFields DEF EnterAutocommit
  <2>2. mig'.target = mig.target
    BY <1>2, <2>1 DEF EnterAutocommit, Runs
  <2> QED BY <2>1, <2>2 DEF Upward, Head
<1>3. CASE AddValue
  <2>1. mig'.pc \in {"autocommit", "added"} => mig'.target = mig.target
    BY <1>3 DEF AddValue, Run, NoRun
  <2> QED BY <1>3, <2>1 DEF AddValue, Upward
<1>4. ASSUME NEW v \in 1..Head, Upgrade(v) \/ Downgrade(v)
      PROVE  mig'.pc \notin {"autocommit", "added"}
  <2>1. mig \in Runs /\ mig.pc = "transaction"
    BY <1>4, RunFields DEF Upgrade, Downgrade
  <2> QED BY <1>4, <2>1 DEF Upgrade, Downgrade, Execute, NoRun, Runs
<1> QED BY <1>1, <1>2, <1>3, <1>4
        DEF MG_Next, RunGoesOn, StartRun, RecordThird, CommitRun, Abort, Run, NoRun

\* What is left is a number, and none is left only when the run is over.
LEMMA RankOfRun ==
  ASSUME MG_Inv, Upward
  PROVE  /\ MigrationRank \in 0..13
         /\ mig.pc # "none" => MigrationRank > 0
<1>1. CASE mig.pc = "none"
  BY <1>1 DEF MigrationRank
<1>2. CASE mig.pc # "none"
  <2>1. mig.target \in 0..4 /\ mig.work.revision \in 0..4
        /\ mig.pc \in {"transaction", "autocommit", "added"}
    BY <1>2, RunFields DEF Schemas, Head
  <2>2. Distance(mig.work, mig.target) \in 0..4
    BY <2>1 DEF Distance
  <2>3. mig.pc # "transaction" => mig.target \in 3..4
    BY <2>1 DEF Upward, Head
  <2> QED BY <2>1, <2>2, <2>3 DEF MigrationRank
<1> QED BY <1>1, <1>2

\* A statement of a run is taken, and brings the run nearer its end.
LEMMA RunAdvances ==
  ASSUME MG_Inv, Upward, RunGoesOn
  PROVE  MigrationRank' < MigrationRank /\ mig' # NoRun("failed")
<1> DEFINE rev == mig.work.revision
<1>1. mig.pc # "none"
  BY DEF RunGoesOn, Upgrade, Downgrade, EnterAutocommit, AddValue, RecordThird, CommitRun
<1>2. mig \in Runs /\ mig.target \in 0..4 /\ mig.work \in Schemas /\ rev \in 0..4
  BY <1>1, RunFields DEF Schemas, Head
<1>3. \A target, s : Run("transaction", target, s).pc = "transaction"
                     /\ Run("transaction", target, s).target = target
                     /\ Run("transaction", target, s).work = s
  BY DEF Run
<1>4. \A p : p.pc = "transaction" => p # NoRun("failed")
  BY DEF NoRun
<1>5. ASSUME NEW s, s.revision \in 0..4,
             mig' = Run("transaction", mig.target, s)
      PROVE  /\ MigrationRank' = 3 * Distance(s, mig.target) + 1
             /\ mig' # NoRun("failed")
  BY <1>3, <1>4, <1>5 DEF MigrationRank, Distance
<1>12. ASSUME NEW s, NEW r, NEW target, s.revision = r
       PROVE  Distance(s, target) = IF r < target THEN target - r ELSE r - target
  BY <1>12 DEF Distance
<1>13. Distance(mig.work, mig.target)
         = IF rev < mig.target THEN mig.target - rev ELSE rev - mig.target
  BY <1>12
<1>6. ASSUME NEW v \in 1..Head, Upgrade(v)
      PROVE  MigrationRank' < MigrationRank /\ mig' # NoRun("failed")
  <2>1. mig.pc = "transaction" /\ v = rev + 1 /\ v <= mig.target /\ v # 3 /\ Matches(mig.work)
    BY <1>6 DEF Upgrade, MG_Inv
  <2>2. Upgradable(v, mig.work)
    BY <1>2, <2>1, UpgradeMatches
  <2>3. mig' = Run("transaction", mig.target, Upgraded(v, mig.work))
    BY <1>2, <1>6, <2>1, <2>2 DEF Upgrade, Execute, Runs, Run
  <2>4. Upgraded(v, mig.work).revision = v
    BY <1>2, <2>1 DEF Upgraded, Schemas, Head
  <2>5. v \in 0..4
    BY DEF Head
  <2>6. MigrationRank' = 3 * Distance(Upgraded(v, mig.work), mig.target) + 1
    BY <1>5, <2>3, <2>4, <2>5
  <2>7. MigrationRank = 3 * Distance(mig.work, mig.target) + 1
    BY <2>1 DEF MigrationRank
  <2>8. Distance(Upgraded(v, mig.work), mig.target)
          = IF v < mig.target THEN mig.target - v ELSE v - mig.target
    BY <1>12, <2>4
  <2>9. Distance(Upgraded(v, mig.work), mig.target) = mig.target - v
        /\ Distance(mig.work, mig.target) = mig.target - rev
    BY <1>2, <1>13, <2>1, <2>5, <2>8
  <2>10. MigrationRank' < MigrationRank
    BY <1>2, <2>1, <2>6, <2>7, <2>9
  <2> QED BY <1>5, <2>3, <2>4, <2>5, <2>10
<1>7. ASSUME NEW v \in 1..Head, Downgrade(v)
      PROVE  MigrationRank' < MigrationRank /\ mig' # NoRun("failed")
  <2>1. mig.pc = "transaction" /\ v = rev /\ v > mig.target /\ Matches(mig.work)
    BY <1>7 DEF Downgrade, MG_Inv
  <2>2. Downgradable(v, mig.work)
    BY <1>2, <2>1, DowngradeMatches
  <2>3. mig' = Run("transaction", mig.target, Downgraded(v, mig.work))
    BY <1>2, <1>7, <2>1, <2>2 DEF Downgrade, Execute, Runs, Run
  <2>4. Downgraded(v, mig.work).revision = v - 1
    BY <1>2, <2>1 DEF Downgraded, Schemas, Head
  <2>5. v - 1 \in 0..4
    BY DEF Head
  <2>6. MigrationRank' = 3 * Distance(Downgraded(v, mig.work), mig.target) + 1
    BY <1>5, <2>3, <2>4, <2>5
  <2>7. MigrationRank = 3 * Distance(mig.work, mig.target) + 1
    BY <2>1 DEF MigrationRank
  <2>8. Distance(Downgraded(v, mig.work), mig.target)
          = IF v - 1 < mig.target THEN mig.target - (v - 1) ELSE v - 1 - mig.target
    BY <1>12, <2>4
  <2>9. MigrationRank' < MigrationRank
    BY <1>2, <1>13, <2>1, <2>5, <2>6, <2>7, <2>8
  <2> QED BY <1>5, <2>3, <2>4, <2>5, <2>9
<1>8. CASE EnterAutocommit
  <2>1. mig.pc = "transaction" /\ rev = 2 /\ mig.target >= 3
        /\ mig' = [mig EXCEPT !.pc = "autocommit"]
    BY <1>8 DEF EnterAutocommit
  <2>2. mig'.pc = "autocommit" /\ mig'.target = mig.target
    BY <1>2, <2>1 DEF Runs
  <2>3. MigrationRank = 3 * (mig.target - 2) + 1 /\ MigrationRank' = 3 * (mig.target - 2)
    BY <1>2, <2>1, <2>2 DEF MigrationRank, Distance
  <2>4. mig' # NoRun("failed")
    BY <2>2 DEF NoRun
  <2> QED BY <1>2, <2>3, <2>4
<1>9. CASE AddValue
  <2>1. mig.pc = "autocommit" /\ EveryStatementApplies
    BY <1>9, MGApplies DEF AddValue
  <2>2. Upgradable(3, db)
    BY <2>1 DEF EveryStatementApplies
  <2>3. PICK s : mig' = Run("added", mig.target, s)
    BY <1>9, <2>2 DEF AddValue
  <2>4. mig'.pc = "added" /\ mig'.target = mig.target /\ mig' # NoRun("failed")
    BY <2>3 DEF Run, NoRun
  <2>5. MigrationRank = 3 * (mig.target - 2) /\ MigrationRank' = 3 * (mig.target - 2) - 1
    BY <2>1, <2>4 DEF MigrationRank
  <2> QED BY <1>2, <2>4, <2>5
<1>10. CASE RecordThird
  <2> DEFINE third == [mig.work EXCEPT !.revision = 3]
  <2>1. mig.pc = "added" /\ mig' = Run("transaction", mig.target, third)
    BY <1>10 DEF RecordThird
  <2>2. third.revision = 3 /\ mig.target \in 3..4
    BY <1>2, <2>1 DEF Schemas, Upward, Head
  <2> HIDE DEF third
  <2>3. MigrationRank' = 3 * Distance(third, mig.target) + 1 /\ mig' # NoRun("failed")
    BY <1>5, <2>1, <2>2
  <2>4. MigrationRank = 3 * (mig.target - 2) - 1
    BY <2>1 DEF MigrationRank
  <2> QED BY <2>2, <2>3, <2>4 DEF Distance
<1>11. CASE CommitRun
  <2>1. mig.pc = "transaction" /\ rev = mig.target /\ mig' = NoRun("ok")
    BY <1>11 DEF CommitRun
  <2>2. mig'.pc = "none" /\ mig' # NoRun("failed")
    BY <2>1 DEF NoRun
  <2>3. MigrationRank = 1 /\ MigrationRank' = 0
    BY <1>2, <2>1, <2>2 DEF MigrationRank, Distance
  <2> QED BY <2>2, <2>3
<1> QED BY <1>6, <1>7, <1>8, <1>9, <1>10, <1>11 DEF RunGoesOn

LEMMA AbortEnds ==
  ASSUME MG_Inv, Upward, Abort
  PROVE  MigrationRank' < MigrationRank
<1>1. mig.pc # "none" /\ mig'.pc = "none"
  BY DEF Abort, NoRun
<1>2. MigrationRank' = 0
  BY <1>1 DEF MigrationRank
<1> QED BY <1>1, <1>2, RankOfRun

LEMMA UpwardAlways == MG_Spec => []Upward
<1>1. ASSUME MG_Init PROVE Upward
  <2>1. mig.pc = "none"
    BY <1>1 DEF MG_Init, NoRun
  <2> QED BY <2>1 DEF Upward
<1>2. MG_Inv /\ Upward /\ [MG_Next]_migVars => Upward'
  BY UpwardStep DEF migVars, Upward
<1> QED BY <1>1, <1>2, MGInvariant, PTL DEF MG_Spec

\* A migration is over after thirteen steps at most, whatever it starts from and goes
\* to: every step of it, a crash too, leaves fewer. TLC checks that it gets on.
THEOREM MigrationsCountDown ==
  MG_Spec => [](MigrationRank \in 0..13) /\ [][MigrationAdvances]_migVars
<1>1. MG_Inv /\ Upward => MigrationRank \in 0..13
  BY RankOfRun
<1>2. MG_Inv /\ Upward /\ [MG_Next]_migVars => [MigrationAdvances]_migVars
  <2> SUFFICES ASSUME MG_Inv, Upward, MG_Next
               PROVE  MigrationAdvances
    OBVIOUS
  <2>1. ASSUME NEW target \in 0..Head, StartRun(target)
        PROVE  mig.pc = "none"
    BY <2>1 DEF StartRun
  <2> QED BY <2>1, RunAdvances, AbortEnds DEF MG_Next, MigrationAdvances
<1> QED BY <1>1, <1>2, MGInvariant, UpwardAlways, PTL DEF MG_Spec

\* A migration fails only by dying: no statement of it is refused, so rerunning one
\* that was interrupted needs nothing repaired by hand.
THEOREM OnlyDyingFails == MG_Spec => [][RunGoesOn => mig' # NoRun("failed")]_migVars
<1>1. MG_Inv /\ Upward => (RunGoesOn => mig' # NoRun("failed"))
  BY RunAdvances
<1> QED BY <1>1, MGInvariant, UpwardAlways, PTL DEF MG_Spec
===============================================================================
