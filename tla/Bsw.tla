--------------------------------- MODULE Bsw ----------------------------------
(***************************************************************************)
(* The whole system: line_provider, the queue bet_maker.events.finished    *)
(* with its dead-letter queue, and bet_maker's three kinds of workers      *)
(* against table bets: POST /bet requests, the message handlers            *)
(* (on_event_finished) and the reconciler.                                 *)
(*                                                                         *)
(* bet_maker is one asyncio process, so what happens between two awaits is *)
(* one step, and every await is a place where anything else may happen.    *)
(* The sessions of BetTable outlive their client: a worker that loses its  *)
(* connection, or dies, leaves an orphan behind that PostgreSQL commits or *)
(* rolls back later.                                                       *)
(***************************************************************************)
EXTENDS LineProvider, BetTable, FiniteSets

CONSTANTS Handlers,     \* on_event_finished tasks that can run at once
          Strays,       \* messages of an unsupported schema_version in the queue
          MaxFaults,    \* bound: connections lost and crashes of bet_maker
          NoSession,    \* no session
          NoEventId     \* no event

ASSUME NothingAssumption == NoSession \notin Sessions /\ NoEventId \notin Events
ASSUME StraysAssumption  == Strays \cap Nat = {}
ASSUME MaxFaultsAssumption == MaxFaults \in Nat

VARIABLES ready,     \* messages waiting in bet_maker.events.finished
          dlq,       \* messages in bet_maker.events.finished.dlq
          acked,     \* messages the broker has dropped for an ack
          unrouted,  \* messages that never reached the queue
          settled,   \* messages whose settle has returned to its handler
          hand,      \* the handlers
          rec,       \* the reconciliation task
          post,      \* POST /bet requests that have passed validation
          faults

brokerVars == <<ready, dlq, acked, unrouted, settled>>
workerVars == <<hand, rec, post>>
vars       == <<lpVars, tableVars, brokerVars, workerVars, faults>>

MaxAttempts == 3   \* stop_after_attempt(3)

\* A handler holds a message from its delivery to its last statement. Its delivery
\* tag is live while the channel it came on is open. sess is the session of its
\* unit of work: the handler's own while it settles, perhaps a stale one after it.
Resting    == [pc |-> "idle", tag |-> FALSE, sess |-> NoSession]
Attempting == [pc : {"attempt"}, tag : BOOLEAN, msg : MessageIds \cup Strays,
               attempt : 0..MaxAttempts-1, sess : Sessions \cup {NoSession}]
Settling   == [pc : {"settling"}, tag : BOOLEAN, msg : MessageIds,
               attempt : 1..MaxAttempts, sess : Sessions]
Finishing  == [pc : {"acking", "rejecting"}, tag : BOOLEAN, msg : MessageIds \cup Strays,
               attempt : 0..MaxAttempts, sess : Sessions \cup {NoSession}]
Handling   == Attempting \cup Settling \cup Finishing

\* The reconciler holds the rest of its work-list, and from the answer of
\* line_provider to the end of its transaction the verdict it read from it.
Listing  == [pc : {"idle"}, todo : SUBSET Events, sess : {NoSession}]
Deciding == [pc : {"decided"}, todo : SUBSET Events, event : Events,
             verdict : Verdicts, sess : {NoSession}]
Sweeping == [pc : {"settling"}, todo : SUBSET Events, event : Events,
             verdict : Verdicts, sess : Sessions]

WorkerTypeOK == /\ hand \in [Handlers -> Handling \cup {Resting}]
                /\ rec \in Listing \cup Deciding \cup Sweeping
                /\ post \in [Bets -> Events \cup {NoEventId}]

TypeOK == /\ LP_TypeOK
          /\ BT_TypeOK
          /\ WorkerTypeOK
          /\ ready \cup dlq \cup acked \cup unrouted \cup settled \subseteq MessageIds \cup Strays
          /\ faults \in 0..MaxFaults
-------------------------------------------------------------------------------
AsleepReconciler == [pc |-> "idle", todo |-> {}, sess |-> NoSession]

Init == /\ LP_Init
        /\ BT_Init
        /\ ready = Strays
        /\ dlq = {} /\ acked = {} /\ unrouted = {} /\ settled = {}
        /\ hand = [h \in Handlers |-> Resting]
        /\ rec = AsleepReconciler
        /\ post = [b \in Bets |-> NoEventId]
        /\ faults = 0

Held   == {hand[h].msg : h \in {g \in Handlers : hand[g].tag}}
Using(h) == IF hand[h].pc = "settling" THEN hand[h].sess ELSE NoSession
Owned  == {Using(h) : h \in Handlers} \cup {rec.sess}
Orphan(s) == sess[s].pc = "open" /\ s \notin Owned

\* EventFinishedMessage as a settle reads it.
VerdictOf(i) == [status |-> StatusOf[published[i].new_state], via |-> "consumer"]

Fault == faults < MaxFaults /\ faults' = faults + 1
-------------------------------------------------------------------------------
(* line_provider and its exchange *)

LPStep(e) ==
  /\ \/ PostEvent(e)
     \/ \E new \in EventStates, open \in BOOLEAN : PutEvent(e, new, open)
     \/ Expire(e)
  /\ UNCHANGED <<tableVars, brokerVars, workerVars, faults>>

\* The message reaches the durable queue, or it does not: the broker is down, or
\* the queue is not bound yet and the exchange drops it.
Route(i) ==
  /\ EndPublish(i)
  /\ ready' = ready \cup {i}
  /\ UNCHANGED <<tableVars, dlq, acked, unrouted, settled, workerVars, faults>>

LoseMessage(i) ==
  /\ EndPublish(i)
  /\ unrouted' = unrouted \cup {i}
  /\ UNCHANGED <<tableVars, ready, dlq, acked, settled, workerVars, faults>>

LPRestart ==
  /\ Restart
  /\ unrouted' = unrouted \cup publishing
  /\ UNCHANGED <<tableVars, ready, dlq, acked, settled, workerVars, faults>>
-------------------------------------------------------------------------------
(* POST /bet *)

\* Mutant: the deadline of the snapshot is not looked at.
ValidateBet_AfterDeadline(b, e) ==
  /\ post[b] = NoEventId
  /\ bets[b] = NoBet
  /\ store[e].state = "NEW"
  /\ post' = [post EXCEPT ![b] = e]
  /\ UNCHANGED <<lpVars, tableVars, brokerVars, hand, rec, faults>>

\* place_bet's lookup and its three checks. What they saw may be stale by the
\* time of the INSERT.
ValidateBet(b, e) ==
  /\ post[b] = NoEventId
  /\ bets[b] = NoBet
  /\ Bettable(e)
  /\ post' = [post EXCEPT ![b] = e]
  /\ UNCHANGED <<lpVars, tableVars, brokerVars, hand, rec, faults>>

InsertBet(b) ==
  /\ post[b] \in Events
  /\ Insert(b, post[b])
  /\ post' = [post EXCEPT ![b] = NoEventId]
  /\ UNCHANGED <<lpVars, brokerVars, hand, rec, faults>>

\* The deadline passes on the way, or the unit of work fails; or PostgreSQL rolls
\* back what a dead request has left.
DropBet(b) ==
  /\ post[b] \in Events
  /\ post' = [post EXCEPT ![b] = NoEventId]
  /\ UNCHANGED <<lpVars, tableVars, brokerVars, hand, rec, faults>>
-------------------------------------------------------------------------------
(* on_event_finished *)

Deliver(h, i) ==
  /\ hand[h] = Resting
  /\ i \in ready
  /\ ready' = ready \ {i}
  /\ hand' = [hand EXCEPT ![h] = [pc |-> "attempt", tag |-> TRUE, msg |-> i,
                                  attempt |-> 0, sess |-> NoSession]]
  /\ UNCHANGED <<lpVars, tableVars, dlq, acked, unrouted, settled, rec, post, faults>>

\* UnsupportedSchemaVersion is raised before anything is settled. A body that is no
\* JSON object, which FastStream refuses before the handler runs, is left out: no
\* publisher of the repository sends one (messaging.py:147-152).
Refuse(h) ==
  /\ hand[h].pc = "attempt"
  /\ hand[h].msg \in Strays
  /\ hand' = [hand EXCEPT ![h].pc = "rejecting"]
  /\ UNCHANGED <<lpVars, tableVars, brokerVars, rec, post, faults>>

\* Mutant: a unit of work that has a session already does not open one.
StartSettle_KeepsStale(h, s) ==
  /\ hand[h].pc = "attempt"
  /\ hand[h].msg \notin Strays
  /\ Begin(s, published[hand[h].msg].event, VerdictOf(hand[h].msg))
  /\ hand' = [hand EXCEPT ![h].pc = "settling", ![h].attempt = @ + 1,
                          ![h].sess = IF @ = NoSession THEN s ELSE @]
  /\ UNCHANGED <<lpVars, brokerVars, rec, post, faults>>

\* _settle_with_retry calls settle_bets_for_event, which enters the unit of work:
\* __aenter__ puts the new session in the place of whatever a failed attempt left.
StartSettle(h, s) ==
  /\ hand[h].pc = "attempt"
  /\ hand[h].msg \notin Strays
  /\ Begin(s, published[hand[h].msg].event, VerdictOf(hand[h].msg))
  /\ hand' = [hand EXCEPT ![h].pc = "settling", ![h].attempt = @ + 1, ![h].sess = s]
  /\ UNCHANGED <<lpVars, brokerVars, rec, post, faults>>

\* The unit of work exits cleanly and settle_bets_for_event returns.
SettleReturns(h) ==
  /\ hand[h].pc = "settling"
  /\ Commit(hand[h].sess)
  /\ settled' = settled \cup {hand[h].msg}
  /\ hand' = [hand EXCEPT ![h].pc = "acking", ![h].sess = NoSession]
  /\ UNCHANGED <<lpVars, ready, dlq, acked, unrouted, rec, post, faults>>

\* Mutants: a retry without a limit, and a handler that acknowledges after the
\* last failure.
AfterFailure_Unlimited(h, attempt) ==
  \E pc \in {"rejecting", "attempt"} :
    hand' = [hand EXCEPT ![h].pc = pc, ![h].attempt = attempt, ![h].sess = NoSession]

AfterFailure_Acks(h, attempt) ==
  hand' = [hand EXCEPT ![h].pc = "acking", ![h].attempt = attempt, ![h].sess = NoSession]

\* An exception is retried when _is_transient says so and attempts are left, with
\* the same unit of work. Its __aexit__ has forgotten the session, unless it was
\* the rollback or the COMMIT in it that raised.
AfterFailure(h, attempt) ==
  \E pc \in {"rejecting"} \cup (IF attempt < MaxAttempts THEN {"attempt"} ELSE {}),
     stale \in {NoSession, hand[h].sess} :
    hand' = [hand EXCEPT ![h].pc = pc, ![h].attempt = attempt, ![h].sess = stale]

\* The attempt gets no connection at all.
SettleNeverStarts(h) ==
  /\ hand[h].pc = "attempt"
  /\ hand[h].msg \notin Strays
  /\ AfterFailure(h, hand[h].attempt + 1)
  /\ UNCHANGED <<lpVars, tableVars, brokerVars, rec, post, faults>>

\* The statement fails, or the COMMIT does. A scan cut short is a scan that skips
\* the rest of the rows, so the exception is taken at its end.
SettleRaises(h) ==
  /\ hand[h].pc = "settling"
  /\ Selected(hand[h].sess)
  /\ Rollback(hand[h].sess)
  /\ AfterFailure(h, hand[h].attempt)
  /\ UNCHANGED <<lpVars, brokerVars, rec, post, faults>>

\* The database connection breaks: the handler gets an exception while the server
\* still has the transaction, perhaps with its COMMIT already received.
SettleLosesConnection(h) ==
  /\ hand[h].pc = "settling"
  /\ Fault
  /\ AfterFailure(h, hand[h].attempt)
  /\ UNCHANGED <<lpVars, tableVars, brokerVars, rec, post>>

\* await msg.ack() and msg.reject(requeue=False). On a channel that is gone both
\* raise, the broker keeps what it has requeued, and the handler ends.
Ack(h) ==
  /\ hand[h].pc = "acking"
  /\ acked' = IF hand[h].tag THEN acked \cup {hand[h].msg} ELSE acked
  /\ hand' = [hand EXCEPT ![h] = Resting]
  /\ UNCHANGED <<lpVars, tableVars, ready, dlq, unrouted, settled, rec, post, faults>>

\* Mutant: nack(requeue=True).
Reject_Requeues(h) ==
  /\ hand[h].pc = "rejecting"
  /\ ready' = IF hand[h].tag THEN ready \cup {hand[h].msg} ELSE ready
  /\ hand' = [hand EXCEPT ![h] = Resting]
  /\ UNCHANGED <<lpVars, tableVars, dlq, acked, unrouted, settled, rec, post, faults>>

Reject(h) ==
  /\ hand[h].pc = "rejecting"
  /\ dlq' = IF hand[h].tag THEN dlq \cup {hand[h].msg} ELSE dlq
  /\ hand' = [hand EXCEPT ![h] = Resting]
  /\ UNCHANGED <<lpVars, tableVars, ready, acked, unrouted, settled, rec, post, faults>>
-------------------------------------------------------------------------------
(* The reconciliation task *)

PendingEvents == {e \in Events : Pending(e) # {}}

\* The sleep ends and get_pending_event_ids finds work.
Tick ==
  /\ rec = AsleepReconciler
  /\ PendingEvents # {}
  /\ rec' = [rec EXCEPT !.todo = PendingEvents]
  /\ UNCHANGED <<lpVars, tableVars, brokerVars, hand, post, faults>>

\* _reconcile_event's decision on the answer of line-provider: cancel on a 404,
\* settle a finished event, leave a NEW one for a later tick.
VerdictAt(e) ==
  [status |-> IF store[e] = NoEvent THEN "CANCELLED" ELSE StatusOf[store[e].state],
   via    |-> "reconciler"]

\* Mutant: an event that is gone is left alone like a NEW one.
LookUp_SkipsGone(e) ==
  /\ rec.pc = "idle"
  /\ e \in rec.todo
  /\ rec' = IF store[e].state \in {"NEW", "ABSENT"}
            THEN [rec EXCEPT !.todo = @ \ {e}]
            ELSE [pc |-> "decided", todo |-> rec.todo \ {e}, event |-> e,
                  verdict |-> VerdictAt(e), sess |-> NoSession]
  /\ UNCHANGED <<lpVars, tableVars, brokerVars, hand, post, faults>>

LookUp(e) ==
  /\ rec.pc = "idle"
  /\ e \in rec.todo
  /\ rec' = IF store[e].state = "NEW"
            THEN [rec EXCEPT !.todo = @ \ {e}]
            ELSE [pc |-> "decided", todo |-> rec.todo \ {e}, event |-> e,
                  verdict |-> VerdictAt(e), sess |-> NoSession]
  /\ UNCHANGED <<lpVars, tableVars, brokerVars, hand, post, faults>>

\* Mutants: an exception of the lookup ends the task, and a service that does not
\* answer is taken for one that has lost the event.
LookUpFails_EndsTask(e) ==
  /\ rec.pc = "idle"
  /\ e \in rec.todo
  /\ rec' = [rec EXCEPT !.pc = "dead"]
  /\ UNCHANGED <<lpVars, tableVars, brokerVars, hand, post, faults>>

LookUpFails_AsGone(e) ==
  /\ rec.pc = "idle"
  /\ e \in rec.todo
  /\ rec' = [pc |-> "decided", todo |-> rec.todo \ {e}, event |-> e, sess |-> NoSession,
             verdict |-> [status |-> "CANCELLED", via |-> "reconciler"]]
  /\ UNCHANGED <<lpVars, tableVars, brokerVars, hand, post, faults>>

\* LineProviderUnavailable, after five attempts: the tick goes on to the next id.
LookUpFails(e) ==
  /\ rec.pc = "idle"
  /\ e \in rec.todo
  /\ rec' = [rec EXCEPT !.todo = @ \ {e}]
  /\ UNCHANGED <<lpVars, tableVars, brokerVars, hand, post, faults>>

NextEvent == rec' = [pc |-> "idle", todo |-> rec.todo, sess |-> NoSession]

StartSweep(s) ==
  /\ rec.pc = "decided"
  /\ Begin(s, rec.event, rec.verdict)
  /\ rec' = [rec EXCEPT !.pc = "settling", !.sess = s]
  /\ UNCHANGED <<lpVars, brokerVars, hand, post, faults>>

SweepReturns ==
  /\ rec.pc = "settling"
  /\ Commit(rec.sess)
  /\ NextEvent
  /\ UNCHANGED <<lpVars, brokerVars, hand, post, faults>>

\* reconciler.event.failed: logged, and on to the next id.
SweepNeverStarts ==
  /\ rec.pc = "decided"
  /\ NextEvent
  /\ UNCHANGED <<lpVars, tableVars, brokerVars, hand, post, faults>>

\* Mutant: an exception ends the reconciliation task.
SweepRaises_EndsTask ==
  /\ rec.pc = "settling"
  /\ Selected(rec.sess)
  /\ Rollback(rec.sess)
  /\ rec' = [pc |-> "dead", todo |-> {}, sess |-> NoSession]
  /\ UNCHANGED <<lpVars, brokerVars, hand, post, faults>>

SweepRaises ==
  /\ rec.pc = "settling"
  /\ Selected(rec.sess)
  /\ Rollback(rec.sess)
  /\ NextEvent
  /\ UNCHANGED <<lpVars, brokerVars, hand, post, faults>>

SweepLosesConnection ==
  /\ rec.pc = "settling"
  /\ Fault
  /\ NextEvent
  /\ UNCHANGED <<lpVars, tableVars, brokerVars, hand, post>>
-------------------------------------------------------------------------------
(* PostgreSQL and the faults *)

LockNextRow(s) ==
  /\ \E b \in Bets : VisitRow(s, b)
  /\ UNCHANGED <<lpVars, brokerVars, workerVars, faults>>

\* A session without a client commits when it has got its COMMIT, else it is
\* rolled back.
EndOrphan(s) ==
  /\ Orphan(s)
  /\ Commit(s) \/ Rollback(s)
  /\ UNCHANGED <<lpVars, brokerVars, workerVars, faults>>

\* Mutant: handlers go on believing in their delivery tags.
LoseBroker_KeepsTags ==
  /\ Fault
  /\ ready' = ready \cup Held
  /\ UNCHANGED <<lpVars, tableVars, dlq, acked, unrouted, settled, hand, rec, post>>

\* The broker's connection drops: it requeues what is unacknowledged, while the
\* handlers run on with delivery tags of a dead channel.
LoseBroker ==
  /\ Fault
  /\ ready' = ready \cup Held
  /\ hand' = [h \in Handlers |-> [hand[h] EXCEPT !.tag = FALSE]]
  /\ UNCHANGED <<lpVars, tableVars, dlq, acked, unrouted, settled, rec, post>>

\* The process dies. Its messages return to the queue, its sessions are orphans,
\* and so are the INSERTs of the requests in sent, whose COMMIT is on its way:
\* PostgreSQL still ends each of them as InsertBet or DropBet.
Crash ==
  /\ Fault
  /\ ready' = ready \cup Held
  /\ hand' = [h \in Handlers |-> Resting]
  /\ rec' = AsleepReconciler
  /\ \E sent \in SUBSET Bets :
       post' = [b \in Bets |-> IF b \in sent THEN post[b] ELSE NoEventId]
  /\ UNCHANGED <<lpVars, tableVars, dlq, acked, unrouted, settled>>
-------------------------------------------------------------------------------
HandlerStep(h) ==
  \/ Refuse(h)
  \/ \E s \in Sessions : StartSettle(h, s)
  \/ SettleNeverStarts(h)
  \/ SettleReturns(h)
  \/ SettleRaises(h)
  \/ SettleLosesConnection(h)
  \/ Ack(h)
  \/ Reject(h)

ReconcilerStep ==
  \/ Tick
  \/ \E e \in Events : LookUp(e) \/ LookUpFails(e)
  \/ \E s \in Sessions : StartSweep(s)
  \/ SweepNeverStarts
  \/ SweepReturns
  \/ SweepRaises
  \/ SweepLosesConnection

Next ==
  \/ \E e \in Events : LPStep(e)
  \/ \E i \in MessageIds : Route(i) \/ LoseMessage(i)
  \/ LPRestart
  \/ \E b \in Bets : (\E e \in Events : ValidateBet(b, e)) \/ InsertBet(b) \/ DropBet(b)
  \/ \E h \in Handlers : (\E i \in ready : Deliver(h, i)) \/ HandlerStep(h)
  \/ ReconcilerStep
  \/ \E s \in Sessions : LockNextRow(s) \/ EndOrphan(s)
  \/ LoseBroker
  \/ Crash

Spec == Init /\ [][Next]_vars

\* What the environment owes: bet_maker, the broker and PostgreSQL go on taking
\* steps, and the reconciler's transactions do not all fail for ever. FairSpec
\* adds that no event's lookups do. No client has to do anything.
Fairness ==
  /\ WF_vars(\E i \in MessageIds : Route(i) \/ LoseMessage(i))
  /\ \A h \in Handlers : /\ WF_vars(\E i \in ready : Deliver(h, i))
                         /\ WF_vars(HandlerStep(h))
  /\ \A s \in Sessions : WF_vars(LockNextRow(s)) /\ WF_vars(EndOrphan(s))
  /\ WF_vars(ReconcilerStep)
  /\ SF_vars(\E s \in Sessions : StartSweep(s))
  /\ SF_vars(SweepReturns)

FairSpec == Spec /\ Fairness /\ \A e \in Events : SF_vars(LookUp(e))
IsolatedSpec == Spec /\ Fairness
-------------------------------------------------------------------------------
\* A session that is in use has one client, and the transaction in it is the one
\* that client asked for. A retry goes through the same unit of work object, which
\* may have kept the failed attempt's session (uow/postgres.py:50-64): by then it
\* is closed, an orphan with its COMMIT under way, or somebody else's.
SessionsHaveOneClient ==
  /\ \A h \in Handlers : Using(h) # NoSession =>
       /\ sess[Using(h)].pc = "open"
       /\ sess[Using(h)].event = published[hand[h].msg].event
       /\ Using(h) # rec.sess
       /\ \A g \in Handlers \ {h} : Using(g) # Using(h)
  /\ rec.sess # NoSession =>
       /\ rec.pc = "settling"
       /\ sess[rec.sess].pc = "open"
       /\ sess[rec.sess].event = rec.event

\* The broker neither loses nor doubles a message: it waits in the queue, is held
\* by one handler with a live tag, lies in the dead-letter queue, was acked, or
\* never arrived. This has to survive redelivery while the first handler still
\* runs, acks on dead channels, and crashes anywhere.
Whereabouts == <<publishing, ready, Held, dlq, acked, unrouted>>

EachMessageInOnePlace ==
  /\ \A i \in MessageIds \cup Strays :
       \E k \in DOMAIN Whereabouts :
         /\ i \in Whereabouts[k]
         /\ \A l \in DOMAIN Whereabouts \ {k} : i \notin Whereabouts[l]
  /\ \A g, h \in Handlers :
       (hand[g].tag /\ hand[h].tag /\ hand[g].msg = hand[h].msg) => g = h

\* README.md, Reliability item 2: an acknowledged message has had its settle
\* committed, whichever handler acked it and whatever broke in between.
AckedOnlyAfterCommit == acked \subseteq settled

\* Every settled bet has a reason in line_provider's history: a win or a loss was
\* announced for its event, and a cancel means the service has restarted. Stale
\* snapshots, redelivered messages and late commits change nothing about it.
SettledForAReason ==
  \A b \in Bets :
    /\ bets[b].status \in {"WON", "LOST"} =>
         \E i \in MessageIds : /\ published[i].event = bets[b].event
                               /\ StatusOf[published[i].new_state] = bets[b].status
    /\ bets[b].status = "CANCELLED" => epoch > 0

Betting == INSTANCE BettingPromise WITH
             bettable <- ActiveEvents,
             outcomes <- [e \in Events |-> Announced(e)],
             intents  <- [b \in Bets |-> {post[b]} \ {NoEventId}]

\* The system keeps the promise of BettingPromise: no bet but on an event found
\* bettable, no second verdict, none without its reason, whatever is lost,
\* redelivered, stale or late (the refinement hides the broker and the workers).
KeepsBettingPromise == Betting!Spec

\* As long as line_provider has not restarted, a settled bet has the outcome the
\* store holds for its event, and no bet is cancelled.
AgreesWithLineProvider ==
  epoch = 0 =>
    \A b \in Bets : bets[b].status \in {"ABSENT", "PENDING"}
                    \/ /\ Finished(bets[b].event)
                       /\ bets[b].status = StatusOf[store[bets[b].event].state]

\* README.md, Core Value: a bet does not stay PENDING once its event has finished,
\* though its message was lost, dead-lettered or acked before the bet was inserted.
CoreValue ==
  \A b \in Bets, e \in Events :
    (bets[b] = PendingBet(e) /\ Finished(e)) ~> bets[b] # PendingBet(e)

\* What remains of it when line_provider restarts: a bet on an event that has
\* finished or is gone is settled or cancelled, unless the event is created anew.
SweptUnlessReopened ==
  \A b \in Bets, e \in Events :
    (bets[b] = PendingBet(e) /\ store[e].state # "NEW")
      ~> (bets[b] # PendingBet(e) \/ store[e].state = "NEW")

\* reconciler.py:24-25, 96-106: a failure on one event does not hold up another. The
\* bets of an event are settled if the lookups of that event keep succeeding, even
\* when those of every other event fail for ever.
FailuresAreIsolated ==
  \A e \in Events :
    SF_vars(LookUp(e)) =>
      \A b \in Bets : (bets[b] = PendingBet(e) /\ Finished(e)) ~> bets[b] # PendingBet(e)

\* The queue empties: a message that has arrived ends acked or dead-lettered, and
\* one of an unsupported schema_version ends dead-lettered. One incarnation
\* announces an event once, so the ids never exceed MaxMessages.
MaxMessages == Cardinality(Events) * (MaxEpoch + 1)

QueueDrains ==
  \A i \in 1..MaxMessages \cup Strays :
    (i \in ready) ~> (i \in dlq \/ (i \in acked /\ i \notin Strays))

\* cancel_bets_for_event.py:6-9: a bet is cancelled because its event no longer
\* exists. Said of the commit that cancels it.
CancelsWhatIsGone ==
  \A b \in Bets :
    (bets[b].status = "PENDING" /\ bets'[b].status = "CANCELLED")
      => store[bets[b].event] = NoEvent

CancelledBecauseGone == [][CancelsWhatIsGone]_vars

\* schemas/bets.py:17-19: PENDING is a bet whose event has not finished yet, WON and
\* LOST one whose event has. Said of the commit that settles it while line_provider
\* holds the event, and holds it as NEW.
SettlesWhatIsFinished ==
  \A b \in Bets :
    (bets[b].status = "PENDING" /\ bets'[b].status \in {"WON", "LOST"})
      => store[bets[b].event].state # "NEW"

SettledBecauseFinished == [][SettlesWhatIsFinished]_vars
===============================================================================
