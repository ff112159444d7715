---------------------------- MODULE BetTableProofs ----------------------------
(***************************************************************************)
(* Theorems about table bets, for any number of events, bets and sessions. *)
(***************************************************************************)
EXTENDS BetTable, TLAPS

\* A verdict is what get_pending_locked's callers write, never PENDING: settling
\* a row of an event makes a settled row, which no longer passes the filter.
LEMMA SettledRowIsARow ==
  ASSUME NEW e \in Events, NEW v \in Verdicts
  PROVE  /\ SettledBet(e, v) \in Rows
         /\ PendingBet(e) \in Rows
         /\ \A f \in Events : SettledBet(e, v) # PendingBet(f)
<1>1. v.status # "PENDING"
  BY DEF Verdicts, StatusOf, TerminalStates
<1>2. SettledBet(e, v).status = v.status
  BY DEF SettledBet
<1>3. \A f \in Events : PendingBet(f).status = "PENDING"
  BY DEF PendingBet
<1>4. SettledBet(e, v) \in Rows /\ PendingBet(e) \in Rows
  BY DEF Rows, SettledRows, PendingRows
<1> QED BY <1>1, <1>2, <1>3, <1>4

\* An open session carries a transaction's fields.
LEMMA OpenIsTransaction ==
  ASSUME BT_TypeOK, NEW s \in Sessions, sess[s].pc = "open"
  PROVE  sess[s] \in Transactions
BY DEF BT_TypeOK, Idle

\* Type correctness: every action writes rows and transactions of the right shape.
THEOREM TypeCorrect == BT_Spec => []BT_TypeOK
<1>1. BT_Init => BT_TypeOK
  BY DEF BT_Init, BT_TypeOK
<1>2. BT_TypeOK /\ [BT_Next]_tableVars => BT_TypeOK'
  <2> SUFFICES ASSUME BT_TypeOK, [BT_Next]_tableVars
               PROVE  BT_TypeOK'
    OBVIOUS
  <2>1. ASSUME NEW b \in Bets, NEW e \in Events, Insert(b, e)
        PROVE  BT_TypeOK'
    <3>1. PendingBet(e) \in Rows
      BY DEF Rows, PendingRows
    <3> QED BY <2>1, <3>1 DEF Insert, BT_TypeOK
  <2>2. ASSUME NEW s \in Sessions, NEW e \in Events, NEW v \in Verdicts, Begin(s, e, v)
        PROVE  BT_TypeOK'
    <3>1. [pc |-> "open", event |-> e, verdict |-> v, todo |-> Pending(e), ids |-> {}]
            \in Transactions
      BY DEF Transactions, Pending
    <3> QED BY <2>2, <3>1 DEF Begin, BT_TypeOK
  <2>3. ASSUME NEW s \in Sessions, NEW b \in Bets, VisitRow(s, b)
        PROVE  BT_TypeOK'
    <3>1. sess[s] \in Transactions
      BY <2>3, OpenIsTransaction DEF VisitRow
    <3>2. sess'[s] \in Transactions
      BY <2>3, <3>1 DEF VisitRow, BT_TypeOK, Transactions
    <3> QED BY <2>3, <3>2 DEF VisitRow, BT_TypeOK
  <2>4. ASSUME NEW s \in Sessions, Commit(s)
        PROVE  BT_TypeOK'
    <3>1. sess[s] \in Transactions
      BY <2>4, OpenIsTransaction DEF Commit, Selected
    <3>2. SettledBet(sess[s].event, sess[s].verdict) \in Rows
      BY <3>1, SettledRowIsARow DEF Transactions
    <3> QED BY <2>4, <3>2 DEF Commit, BT_TypeOK
  <2>5. ASSUME NEW s \in Sessions, Rollback(s)
        PROVE  BT_TypeOK'
    BY <2>5 DEF Rollback, BT_TypeOK
  <2>6. CASE UNCHANGED tableVars
    BY <2>6 DEF tableVars, BT_TypeOK
  <2> QED BY <2>1, <2>2, <2>3, <2>4, <2>5, <2>6 DEF BT_Next
<1> QED BY <1>1, <1>2, PTL DEF BT_Spec

-------------------------------------------------------------------------------
\* The step that carries the lock discipline: it is inductive once the types are
\* known. VisitRow adds a row only when it is PENDING and nobody has it; Commit
\* settles only its own rows, which no other transaction relies on.
LEMMA LockDisciplineStep ==
  ASSUME BT_TypeOK, LockDiscipline, [BT_Next]_tableVars
  PROVE  LockDiscipline'
<1>1. ASSUME NEW b \in Bets, NEW e \in Events, Insert(b, e)
      PROVE  LockDiscipline'
  <2>1. \A c \in Bets, f \in Events : bets[c] = PendingBet(f) => bets'[c] = PendingBet(f)
    BY <1>1 DEF Insert, BT_TypeOK, NoBet, PendingBet
  <2>2. \A s \in Sessions : sess[s].ids # {} => sess[s] \in Transactions
    BY DEF BT_TypeOK, Idle
  <2> QED BY <1>1, <2>1, <2>2 DEF Insert, LockDiscipline, Transactions
<1>2. ASSUME NEW s \in Sessions, NEW e \in Events, NEW v \in Verdicts, Begin(s, e, v)
      PROVE  LockDiscipline'
  <2>1. /\ bets' = bets
        /\ sess'[s].ids = {}
        /\ \A t \in Sessions \ {s} : sess'[t] = sess[t]
    BY <1>2 DEF Begin, BT_TypeOK
  <2> QED BY <2>1 DEF LockDiscipline
<1>3. ASSUME NEW s \in Sessions, NEW b \in Bets, VisitRow(s, b)
      PROVE  LockDiscipline'
  <2>1. sess[s] \in Transactions
    BY <1>3, OpenIsTransaction DEF VisitRow
  <2>2. /\ bets' = bets
        /\ sess'[s].event = sess[s].event
        /\ \A t \in Sessions \ {s} : sess'[t] = sess[t]
    BY <1>3, <2>1 DEF VisitRow, BT_TypeOK, Transactions
  <2>3. CASE Lockable(s, b)
    <3>1. sess'[s].ids = sess[s].ids \cup {b}
      BY <1>3, <2>1, <2>3 DEF VisitRow, BT_TypeOK, Transactions
    <3>2. bets[b] = PendingBet(sess[s].event) /\ \A t \in Sessions : b \notin sess[t].ids
      BY <2>3 DEF Lockable, Locked
    <3> QED BY <2>2, <3>1, <3>2 DEF LockDiscipline
  <2>4. CASE ~Lockable(s, b)
    <3>1. sess'[s].ids = sess[s].ids
      BY <1>3, <2>1, <2>4 DEF VisitRow, BT_TypeOK, Transactions
    <3> QED BY <2>2, <3>1 DEF LockDiscipline
  <2> QED BY <2>3, <2>4
<1>4. ASSUME NEW s \in Sessions, Commit(s)
      PROVE  LockDiscipline'
  <2>1. /\ sess'[s].ids = {}
        /\ \A t \in Sessions \ {s} : sess'[t] = sess[t]
    BY <1>4 DEF Commit, BT_TypeOK, Idle
  <2>2. \A b \in Bets : b \notin sess[s].ids => bets'[b] = bets[b]
    BY <1>4 DEF Commit
  <2>3. \A t \in Sessions : sess[t].ids \subseteq Bets
    BY DEF BT_TypeOK, Transactions, Idle
  <2> QED BY <2>1, <2>2, <2>3 DEF LockDiscipline
<1>5. ASSUME NEW s \in Sessions, Rollback(s)
      PROVE  LockDiscipline'
  <2>1. /\ bets' = bets
        /\ sess'[s].ids = {}
        /\ \A t \in Sessions \ {s} : sess'[t] = sess[t]
    BY <1>5 DEF Rollback, BT_TypeOK, Idle
  <2> QED BY <2>1 DEF LockDiscipline
<1>6. CASE UNCHANGED tableVars
  BY <1>6 DEF tableVars, LockDiscipline
<1> QED BY <1>1, <1>2, <1>3, <1>4, <1>5, <1>6 DEF BT_Next

\* Every row a transaction has locked is a PENDING bet of its event, and no other
\* transaction has locked it.
THEOREM LockDisciplineHolds == BT_Spec => []LockDiscipline
<1>1. BT_Init => LockDiscipline
  BY DEF BT_Init, LockDiscipline, Idle
<1>2. BT_TypeOK /\ LockDiscipline /\ [BT_Next]_tableVars => LockDiscipline'
  BY LockDisciplineStep
<1> QED BY <1>1, <1>2, TypeCorrect, PTL DEF BT_Spec

-------------------------------------------------------------------------------
\* BetLedger's own copy of the vocabulary is this module's.
LEMMA SameVocabulary ==
  /\ LedgerPromise!NoBet = NoBet
  /\ LedgerPromise!Verdicts = Verdicts
  /\ \A e : LedgerPromise!PendingBet(e) = PendingBet(e)
  /\ \A e, v : LedgerPromise!SettledBet(e, v) = SettledBet(e, v)
<1>1. LedgerPromise!Verdicts = Verdicts
  BY DEF Verdicts, LedgerPromise!Verdicts, StatusOf, LedgerPromise!StatusOf,
         TerminalStates, LedgerPromise!TerminalStates, SettledVia, LedgerPromise!SettledVia
<1> QED
  BY <1>1 DEF NoBet, LedgerPromise!NoBet, PendingBet, LedgerPromise!PendingBet,
              SettledBet, LedgerPromise!SettledBet

\* Table bets implements BetLedger: an insert is a Place, a commit is a Settle of
\* the rows the transaction holds, and every other step leaves the ledger alone.
THEOREM LedgerRefinement == BT_Spec => KeepsLedgerPromise
<1>1. BT_Init => LedgerPromise!Init
  BY SameVocabulary DEF BT_Init, LedgerPromise!Init
<1>2. BT_TypeOK /\ LockDiscipline /\ [BT_Next]_tableVars => [LedgerPromise!Next]_bets
  <2> SUFFICES ASSUME BT_TypeOK, LockDiscipline, [BT_Next]_tableVars
               PROVE  [LedgerPromise!Next]_bets
    OBVIOUS
  <2>1. ASSUME NEW b \in Bets, NEW e \in Events, Insert(b, e)
        PROVE  LedgerPromise!Next
    BY <2>1, SameVocabulary DEF Insert, LedgerPromise!Next, LedgerPromise!Place
  <2>2. ASSUME NEW s \in Sessions, Commit(s)
        PROVE  LedgerPromise!Next
    <3>1. sess[s] \in Transactions
      BY <2>2, OpenIsTransaction DEF Commit, Selected
    <3>2. /\ sess[s].event \in Events
          /\ sess[s].verdict \in Verdicts
          /\ sess[s].ids \in SUBSET Bets
      BY <3>1 DEF Transactions
    <3>3. \A b \in sess[s].ids : bets[b] = PendingBet(sess[s].event)
      BY DEF LockDiscipline
    <3>4. LedgerPromise!Settle(sess[s].ids, sess[s].event, sess[s].verdict)
      BY <2>2, <3>3, SameVocabulary DEF Commit, LedgerPromise!Settle
    <3> QED BY <3>2, <3>4, SameVocabulary DEF LedgerPromise!Next
  <2>3. ASSUME NEW s \in Sessions,
               \/ \E e \in Events, v \in Verdicts : Begin(s, e, v)
               \/ \E b \in Bets : VisitRow(s, b)
               \/ Rollback(s)
        PROVE  UNCHANGED bets
    BY <2>3 DEF Begin, VisitRow, Rollback
  <2>4. CASE UNCHANGED tableVars
    BY <2>4 DEF tableVars
  <2> QED BY <2>1, <2>2, <2>3, <2>4 DEF BT_Next
<1> QED BY <1>1, <1>2, TypeCorrect, LockDisciplineHolds, PTL
        DEF BT_Spec, KeepsLedgerPromise, LedgerPromise!Spec

-------------------------------------------------------------------------------
(* What a reader of the table may rely on *)

LedgerTypeOK == bets \in [Bets -> Rows \cup {NoBet}]

\* What a step of the ledger does to one row.
Stays(b)           == bets'[b] = bets[b]
Appears(b, e)      == bets[b] = NoBet /\ bets'[b] = PendingBet(e)
IsSettled(b, e, v) == bets[b] = PendingBet(e) /\ bets'[b] = SettledBet(e, v)

\* A row takes one of two steps, each once, and keeps its event through both; and
\* the rows that are settled together are of one event and get one verdict.
RowHistory ==
  \/ \A b \in Bets : Stays(b) \/ \E e \in Events : Appears(b, e)
  \/ \E e \in Events, v \in Verdicts : \A b \in Bets : Stays(b) \/ IsSettled(b, e, v)

\* A settled bet keeps its status and its settled_via for ever.
VerdictsStand ==
  \A b \in Bets : bets[b].status \notin {"ABSENT", "PENDING"} => bets'[b] = bets[b]

LEMMA LedgerTypeStep ==
  ASSUME LedgerTypeOK, [LedgerPromise!Next]_bets
  PROVE  LedgerTypeOK' /\ RowHistory
<1>1. ASSUME NEW b \in Bets, NEW e \in Events, LedgerPromise!Place(b, e)
      PROVE  LedgerTypeOK' /\ RowHistory
  <2>1. bets[b] = NoBet /\ bets' = [bets EXCEPT ![b] = PendingBet(e)]
    BY <1>1, SameVocabulary DEF LedgerPromise!Place
  <2>2. PendingBet(e) \in Rows
    BY DEF Rows, PendingRows
  <2>3. \A c \in Bets : Stays(c) \/ Appears(c, e)
    BY <2>1 DEF LedgerTypeOK, Stays, Appears
  <2> QED BY <2>1, <2>2, <2>3 DEF LedgerTypeOK, RowHistory
<1>2. ASSUME NEW B \in SUBSET Bets, NEW e \in Events, NEW v \in Verdicts,
             LedgerPromise!Settle(B, e, v)
      PROVE  LedgerTypeOK' /\ RowHistory
  <2>1. /\ \A b \in B : bets[b] = PendingBet(e)
        /\ bets' = [b \in Bets |-> IF b \in B THEN SettledBet(e, v) ELSE bets[b]]
    BY <1>2, SameVocabulary DEF LedgerPromise!Settle
  <2>2. SettledBet(e, v) \in Rows
    BY SettledRowIsARow
  <2>3. \A b \in Bets : Stays(b) \/ IsSettled(b, e, v)
    BY <2>1 DEF Stays, IsSettled
  <2> QED BY <2>1, <2>2, <2>3 DEF LedgerTypeOK, RowHistory
<1>3. CASE UNCHANGED bets
  BY <1>3 DEF LedgerTypeOK, RowHistory, Stays
<1> QED BY <1>1, <1>2, <1>3, SameVocabulary DEF LedgerPromise!Next

LEMMA LedgerTypeCorrect == KeepsLedgerPromise => []LedgerTypeOK
<1>1. LedgerPromise!Init => LedgerTypeOK
  BY SameVocabulary DEF LedgerPromise!Init, LedgerTypeOK
<1>2. LedgerTypeOK /\ [LedgerPromise!Next]_bets => LedgerTypeOK'
  BY LedgerTypeStep
<1> QED BY <1>1, <1>2, PTL DEF KeepsLedgerPromise, LedgerPromise!Spec

\* What BetLedger is worth to a reader: a row appears PENDING, is settled at most
\* once and for the event it was placed on, and is never touched again, so that
\* neither a redelivered message nor a late cancel changes a verdict once read.
THEOREM LedgerKeepsVerdicts == KeepsLedgerPromise => [][RowHistory /\ VerdictsStand]_bets
<1>1. LedgerTypeOK /\ [LedgerPromise!Next]_bets => [RowHistory /\ VerdictsStand]_bets
  <2> SUFFICES ASSUME LedgerTypeOK, [LedgerPromise!Next]_bets
               PROVE  RowHistory /\ VerdictsStand
    OBVIOUS
  <2>1. RowHistory
    BY LedgerTypeStep
  <2>2. ASSUME NEW b \in Bets, bets[b].status \notin {"ABSENT", "PENDING"}
        PROVE  Stays(b)
    <3>1. /\ \A e \in Events : bets[b] # PendingBet(e)
          /\ bets[b] # NoBet
      BY <2>2 DEF PendingBet, NoBet
    <3> QED BY <2>1, <3>1 DEF RowHistory, Appears, IsSettled
  <2> QED BY <2>1, <2>2 DEF VerdictsStand, Stays
<1> QED BY <1>1, LedgerTypeCorrect, PTL DEF KeepsLedgerPromise, LedgerPromise!Spec

-------------------------------------------------------------------------------
(* Why a transaction ends *)

\* A SELECT visits a candidate once and never waits for one (SKIP LOCKED), and an
\* open transaction keeps what it has locked: it only goes on, or ends.
TransactionsAdvance ==
  \A s \in Sessions : sess[s].pc = "open" =>
    \/ sess'[s] = sess[s]
    \/ sess'[s] = Idle
    \/ \E b \in sess[s].todo :
         /\ sess'[s].pc = "open"
         /\ sess'[s].event = sess[s].event /\ sess'[s].verdict = sess[s].verdict
         /\ sess'[s].todo = sess[s].todo \ {b}
         /\ sess'[s].ids \in {sess[s].ids, sess[s].ids \cup {b}}

\* Locks are given back only at the end of a transaction, and a SELECT takes as many
\* steps as its snapshot has rows: with LockDiscipline, no two settling transactions
\* wait for each other (get_pending_locked).
THEOREM TransactionsOnlyAdvance == BT_Spec => [][TransactionsAdvance]_tableVars
<1>1. BT_TypeOK /\ [BT_Next]_tableVars => [TransactionsAdvance]_tableVars
  <2> SUFFICES ASSUME BT_TypeOK, [BT_Next]_tableVars, NEW s \in Sessions, sess[s].pc = "open"
               PROVE  \/ sess'[s] = sess[s]
                      \/ sess'[s] = Idle
                      \/ \E b \in sess[s].todo :
                           /\ sess'[s].pc = "open"
                           /\ sess'[s].event = sess[s].event /\ sess'[s].verdict = sess[s].verdict
                           /\ sess'[s].todo = sess[s].todo \ {b}
                           /\ sess'[s].ids \in {sess[s].ids, sess[s].ids \cup {b}}
    BY DEF TransactionsAdvance
  <2>1. ASSUME NEW b \in Bets, VisitRow(s, b)
        PROVE  /\ b \in sess[s].todo /\ sess'[s].pc = "open"
               /\ sess'[s].event = sess[s].event /\ sess'[s].verdict = sess[s].verdict
               /\ sess'[s].todo = sess[s].todo \ {b}
               /\ sess'[s].ids \in {sess[s].ids, sess[s].ids \cup {b}}
    <3>1. sess[s] \in Transactions
      BY OpenIsTransaction
    <3>2. sess'[s] = [sess[s] EXCEPT !.todo = @ \ {b},
                                     !.ids  = IF Lockable(s, b) THEN @ \cup {b} ELSE @]
      BY <2>1 DEF VisitRow, BT_TypeOK
    <3> QED BY <2>1, <3>1, <3>2 DEF VisitRow, Transactions
  <2>2. ASSUME NEW t \in Sessions, NEW b \in Bets, VisitRow(t, b), t # s
        PROVE  sess'[s] = sess[s]
    BY <2>2 DEF VisitRow, BT_TypeOK
  <2>3. ASSUME NEW t \in Sessions, NEW e \in Events, NEW v \in Verdicts, Begin(t, e, v)
        PROVE  sess'[s] = sess[s]
    BY <2>3 DEF Begin, BT_TypeOK, Idle
  <2>4. ASSUME NEW t \in Sessions, Commit(t) \/ Rollback(t)
        PROVE  sess'[s] = sess[s] \/ sess'[s] = Idle
    BY <2>4 DEF Commit, Rollback, BT_TypeOK
  <2>5. ASSUME (\E b \in Bets, e \in Events : Insert(b, e)) \/ UNCHANGED tableVars
        PROVE  sess' = sess
    BY <2>5 DEF Insert, tableVars
  <2>6. \/ (\E b \in Bets, e \in Events : Insert(b, e)) \/ UNCHANGED tableVars
        \/ \E t \in Sessions : \/ \E b \in Bets : VisitRow(t, b)
                               \/ \E e \in Events, v \in Verdicts : Begin(t, e, v)
                               \/ Commit(t) \/ Rollback(t)
    BY DEF BT_Next
  <2> QED BY <2>1, <2>2, <2>3, <2>4, <2>5, <2>6
<1> QED BY <1>1, TypeCorrect, PTL DEF BT_Spec
===============================================================================
