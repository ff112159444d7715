------------------------------- MODULE BetTable -------------------------------
(***************************************************************************)
(* Table bets and the transactions bet_maker runs against it.              *)
(*                                                                         *)
(* A session is a pooled connection. A settling transaction opens with the *)
(* SELECT ... WHERE event_id = e AND status = 'PENDING' FOR UPDATE SKIP    *)
(* LOCKED of get_pending_locked. Its snapshot fixes the candidate rows     *)
(* (todo); the server then visits them one at a time, skipping a row that  *)
(* another transaction holds and a row whose newest version is no longer   *)
(* PENDING, and locking the others (ids). The UPDATE ... WHERE id IN ids   *)
(* and the COMMIT are one step, because nobody sees the rows in between.   *)
(*                                                                         *)
(* A session may outlive the worker that opened it: a client that loses    *)
(* its connection leaves the server to commit or to roll back.             *)
(***************************************************************************)
EXTENDS BswTypes

CONSTANT Sessions

VARIABLES bets,  \* the committed rows
          sess   \* what each session is doing

tableVars == <<bets, sess>>

Idle == [pc |-> "idle", ids |-> {}]

Transactions == [pc : {"open"}, event : Events, verdict : Verdicts,
                 todo : SUBSET Bets, ids : SUBSET Bets]

BT_TypeOK == /\ bets \in [Bets -> Rows \cup {NoBet}]
             /\ sess \in [Sessions -> Transactions \cup {Idle}]
-------------------------------------------------------------------------------
BT_Init == /\ bets = [b \in Bets |-> NoBet]
           /\ sess = [s \in Sessions |-> Idle]

Pending(e) == {b \in Bets : bets[b] = PendingBet(e)}

Locked(b) == \E s \in Sessions : b \in sess[s].ids

\* The transaction of place_bet: one INSERT of a PENDING row, seen at its commit.
Insert(b, e) ==
  /\ bets[b] = NoBet
  /\ bets' = [bets EXCEPT ![b] = PendingBet(e)]
  /\ UNCHANGED sess

\* async with uow: and the start of get_pending_locked: the statement's snapshot.
Begin(s, e, v) ==
  /\ sess[s] = Idle
  /\ sess' = [sess EXCEPT ![s] = [pc |-> "open", event |-> e, verdict |-> v,
                                  todo |-> Pending(e), ids |-> {}]]
  /\ UNCHANGED bets

\* Mutants: a SELECT without FOR UPDATE SKIP LOCKED, and one that trusts its snapshot.
Lockable_Unguarded(s, b)    == bets[b] = PendingBet(sess[s].event)
Lockable_FromSnapshot(s, b) == ~Locked(b)

\* FOR UPDATE SKIP LOCKED visits one candidate row.
Lockable(s, b) == bets[b] = PendingBet(sess[s].event) /\ ~Locked(b)

VisitRow(s, b) ==
  /\ sess[s].pc = "open"
  /\ b \in sess[s].todo
  /\ sess' = [sess EXCEPT ![s].todo = @ \ {b},
                          ![s].ids  = IF Lockable(s, b) THEN @ \cup {b} ELSE @]
  /\ UNCHANGED bets

Selected(s) == sess[s].pc = "open" /\ sess[s].todo = {}

\* Mutant: an UPDATE that leaves settled_via out.
Commit_Unattributed(s) ==
  /\ Selected(s)
  /\ bets' = [b \in Bets |-> IF b \in sess[s].ids
                             THEN [bets[b] EXCEPT !.status = sess[s].verdict.status]
                             ELSE bets[b]]
  /\ sess' = [sess EXCEPT ![s] = Idle]

\* UPDATE by id, then the commit of the unit of work's clean exit, which also
\* releases the locks. With no id there is no UPDATE ("settle.noop").
Commit(s) ==
  /\ Selected(s)
  /\ bets' = [b \in Bets |-> IF b \in sess[s].ids
                             THEN SettledBet(sess[s].event, sess[s].verdict)
                             ELSE bets[b]]
  /\ sess' = [sess EXCEPT ![s] = Idle]

\* The unit of work's exit on an exception, or the server dropping a session
\* whose client is gone.
Rollback(s) ==
  /\ sess[s].pc = "open"
  /\ sess' = [sess EXCEPT ![s] = Idle]
  /\ UNCHANGED bets

BT_Next ==
  \/ \E b \in Bets, e \in Events : Insert(b, e)
  \/ \E s \in Sessions :
       \/ \E e \in Events, v \in Verdicts : Begin(s, e, v)
       \/ \E b \in Bets : VisitRow(s, b)
       \/ Commit(s)
       \/ Rollback(s)

BT_Spec == BT_Init /\ [][BT_Next]_tableVars
-------------------------------------------------------------------------------
\* The lock discipline everything rests on: a row that a transaction has locked
\* is still a PENDING bet of that transaction's event, and no other transaction
\* has it. The UPDATE filters by id alone, so only this keeps a settled bet from
\* being settled a second time (settle_bets_for_event, cancel_bets_for_event).
LockDiscipline ==
  \A s \in Sessions : \A b \in sess[s].ids :
    /\ bets[b] = PendingBet(sess[s].event)
    /\ \A t \in Sessions \ {s} : b \notin sess[t].ids

LedgerPromise == INSTANCE BetLedger

\* Table bets keeps the promise of BetLedger: every bet is settled at most once,
\* by one atomic verdict for its own event (the refinement maps bets to bets and
\* hides the sessions).
KeepsLedgerPromise == LedgerPromise!Spec

\* cancel_bets_for_event.py:16-19 and README.md, Reliability item 3: of a settle
\* and a cancel that run at once on one event, exactly one gets all the rows and
\* the other observes none.
OneOfTwoGetsAllRows ==
  \A s, t \in Sessions :
    ( /\ Selected(s) /\ Selected(t)
      /\ sess[s].event = sess[t].event
      /\ sess[s].verdict.status # "CANCELLED"
      /\ sess[t].verdict.status = "CANCELLED" )
    => (sess[s].ids = {} \/ sess[t].ids = {})
===============================================================================
