------------------------------ MODULE BswProofs -------------------------------
(***************************************************************************)
(* Theorems about the whole system, for any number of events, bets,        *)
(* sessions, handlers, restarts and faults.                                *)
(*                                                                         *)
(* First, the system is made of its components: every behaviour of Spec is *)
(* one of LP_Spec and one of BT_Spec, so that what LineProviderProofs and  *)
(* BetTableProofs say carries over. Then, on top of that, why a settled    *)
(* bet has a reason in line_provider's history.                            *)
(***************************************************************************)
EXTENDS Bsw, LineProviderProofs, BetTableProofs

\* Nothing but line_provider's own actions touches its variables.
LEMMA LineProviderStep == [Next]_vars => [LP_Next]_lpVars
<1> SUFFICES ASSUME [Next]_vars
             PROVE  [LP_Next]_lpVars
  OBVIOUS
<1>1. ASSUME NEW e \in Events, LPStep(e)
      PROVE  LP_Next
  BY <1>1 DEF LPStep, LP_Next
<1>2. ASSUME NEW i \in MessageIds, Route(i) \/ LoseMessage(i)
      PROVE  LP_Next
  BY <1>2 DEF Route, LoseMessage, LP_Next
<1>3. CASE LPRestart
  BY <1>3 DEF LPRestart, LP_Next
<1>4. ASSUME NEW b \in Bets,
             (\E e \in Events : ValidateBet(b, e)) \/ InsertBet(b) \/ DropBet(b)
      PROVE  UNCHANGED lpVars
  BY <1>4 DEF ValidateBet, InsertBet, DropBet
<1>5. ASSUME NEW h \in Handlers, (\E i \in ready : Deliver(h, i)) \/ HandlerStep(h)
      PROVE  UNCHANGED lpVars
  BY <1>5 DEF HandlerStep, Deliver, Refuse, StartSettle, SettleNeverStarts, SettleReturns,
              SettleRaises, SettleLosesConnection, Ack, Reject
<1>6. CASE ReconcilerStep
  BY <1>6 DEF ReconcilerStep, Tick, LookUp, LookUpFails, StartSweep, SweepNeverStarts,
              SweepReturns, SweepRaises, SweepLosesConnection
<1>7. CASE (\E s \in Sessions : LockNextRow(s) \/ EndOrphan(s)) \/ LoseBroker \/ Crash
  BY <1>7 DEF LockNextRow, EndOrphan, LoseBroker, Crash
<1>8. CASE UNCHANGED vars
  BY <1>8 DEF vars
<1> QED BY <1>1, <1>2, <1>3, <1>4, <1>5, <1>6, <1>7, <1>8 DEF Next

\* The system implements line_provider's specification.
THEOREM ImplementsLineProvider == Spec => LP_Spec
<1>1. Init => LP_Init
  BY DEF Init
<1> QED BY <1>1, LineProviderStep, PTL DEF Spec, LP_Spec

-------------------------------------------------------------------------------
\* What a message, and a lookup of an event that is not NEW, ask for is a verdict.
LEMMA VerdictsAreVerdicts ==
  ASSUME LP_TypeOK
  PROVE  /\ \A i \in MessageIds : published[i].event \in Events /\ VerdictOf(i) \in Verdicts
         /\ \A e \in Events : store[e].state # "NEW" => VerdictAt(e) \in Verdicts
<1>1. \A i \in MessageIds : published[i] \in Message
  BY DEF LP_TypeOK, MessageIds
<1>2. \A t \in TerminalStates, via \in SettledVia : [status |-> StatusOf[t], via |-> via] \in Verdicts
  BY DEF Verdicts
<1>3. [status |-> "CANCELLED", via |-> "reconciler"] \in Verdicts
  BY DEF Verdicts
<1>4. \A i \in MessageIds : published[i].event \in Events /\ VerdictOf(i) \in Verdicts
  BY <1>1, <1>2 DEF Message, VerdictOf, SettledVia
<1>5. ASSUME NEW e \in Events, store[e].state # "NEW"
      PROVE  VerdictAt(e) \in Verdicts
  <2>1. store[e] = NoEvent \/ store[e].state \in TerminalStates
    BY <1>5 DEF LP_TypeOK, Event, EventStates
  <2> QED BY <2>1, <1>2, <1>3 DEF VerdictAt, SettledVia
<1> QED BY <1>4, <1>5

\* What pc says of a worker's record.
LEMMA WorkerShapes ==
  ASSUME WorkerTypeOK
  PROVE  /\ \A h \in Handlers :
              /\ hand[h].pc = "attempt" => hand[h] \in Attempting
              /\ hand[h].pc = "settling" => hand[h] \in Settling
              /\ hand[h].pc \in {"acking", "rejecting"} => hand[h] \in Finishing
         /\ rec.pc = "idle" => rec \in Listing
         /\ rec.pc = "decided" => rec \in Deciding
         /\ rec.pc = "settling" => rec \in Sweeping
         /\ rec.todo \in SUBSET Events
         /\ \A b \in Bets : post[b] # NoEventId => post[b] \in Events
BY DEF WorkerTypeOK, Handling, Attempting, Settling, Finishing, Resting,
       Listing, Deciding, Sweeping

\* The record a handler has after its pc, its count and its session change.
LEMMA HandlerRecord ==
  ASSUME NEW P, NEW T, NEW M, NEW A, NEW S, NEW P2, NEW A2, NEW S2,
         NEW r \in [pc : P, tag : T, msg : M, attempt : A, sess : S],
         NEW p \in P2, NEW n \in A2, NEW s \in S2
  PROVE  /\ [r EXCEPT !.pc = p, !.attempt = n, !.sess = s]
              \in [pc : P2, tag : T, msg : M, attempt : A2, sess : S2]
         /\ [r EXCEPT !.pc = p, !.sess = s] \in [pc : P2, tag : T, msg : M, attempt : A, sess : S2]
OBVIOUS

\* What a failed attempt does to the handler: it rejects, or tries again, with a unit
\* of work that may have kept its session.
LEMMA FailureOutcome ==
  ASSUME NEW h \in Handlers, NEW n, AfterFailure(h, n)
  PROVE  \E pc \in {"rejecting", "attempt"}, stale \in {NoSession, hand[h].sess} :
           /\ pc = "attempt" => n < MaxAttempts
           /\ hand' = [hand EXCEPT ![h].pc = pc, ![h].attempt = n, ![h].sess = stale]
BY DEF AfterFailure

\* The handler still has the shape of one that tries again or rejects.
LEMMA FailureShape ==
  ASSUME LP_TypeOK, WorkerTypeOK, NEW h \in Handlers, NEW n \in 1..MaxAttempts,
         hand[h] \in Attempting \cup Settling, AfterFailure(h, n)
  PROVE  \E r \in Handling : hand' = [hand EXCEPT ![h] = r]
<1>1. PICK pc \in {"rejecting", "attempt"}, stale \in {NoSession, hand[h].sess} :
        /\ pc = "attempt" => n < MaxAttempts
        /\ hand' = [hand EXCEPT ![h].pc = pc, ![h].attempt = n, ![h].sess = stale]
  BY FailureOutcome
<1>0. stale \in Sessions \cup {NoSession}
  BY DEF Attempting, Settling
<1> DEFINE r == [hand[h] EXCEPT !.pc = pc, !.attempt = n, !.sess = stale]
<1>2. PICK P, A, S : hand[h] \in [pc : P, tag : BOOLEAN, msg : MessageIds \cup Strays, attempt : A, sess : S]
  <2>1. CASE hand[h] \in Attempting
    BY <2>1 DEF Attempting
  <2>2. CASE hand[h] \in Settling
    <3>1. hand[h] \in [pc : {"settling"}, tag : BOOLEAN, msg : MessageIds \cup Strays,
                       attempt : 1..MaxAttempts, sess : Sessions]
      BY <2>2 DEF Settling
    <3> QED BY <3>1
  <2> QED BY <2>1, <2>2
<1>3. CASE pc = "attempt"
  <2>1. n \in 0..MaxAttempts-1
    BY <1>1, <1>3 DEF MaxAttempts
  <2>2. r \in Attempting
    BY <1>0, <1>2, <1>3, <2>1, HandlerRecord DEF Attempting
  <2> HIDE DEF r
  <2> QED BY <1>1, <2>2 DEF Handling, r
<1>4. CASE pc = "rejecting"
  <2>1. n \in 0..MaxAttempts
    BY DEF MaxAttempts
  <2>2. r \in Finishing
    BY <1>0, <1>2, <1>4, <2>1, HandlerRecord DEF Finishing
  <2> HIDE DEF r
  <2> QED BY <1>1, <2>2 DEF Handling, r
<1> QED BY <1>1, <1>3, <1>4

\* A step of a handler changes its own record only, into one of the handler shapes.
LEMMA HandlerShapeStep ==
  ASSUME LP_TypeOK, WorkerTypeOK, NEW h \in Handlers, HandlerStep(h)
  PROVE  /\ \E r \in Handling \cup {Resting} : hand' = [hand EXCEPT ![h] = r]
         /\ UNCHANGED <<lpVars, rec, post>>
<1>1. ASSUME Refuse(h)
      PROVE  \E r \in Handling : hand' = [hand EXCEPT ![h] = r]
  <2>1. hand[h] \in Attempting /\ hand' = [hand EXCEPT ![h].pc = "rejecting"]
    BY <1>1, WorkerShapes DEF Refuse
  <2>2. [hand[h] EXCEPT !.pc = "rejecting"] \in Finishing
    BY <2>1 DEF Attempting, Finishing, MaxAttempts
  <2> QED BY <1>1, <2>1, <2>2 DEF Refuse, Handling
<1>2. ASSUME NEW s \in Sessions, StartSettle(h, s)
      PROVE  \E r \in Handling : hand' = [hand EXCEPT ![h] = r]
  <2>1. hand[h] \in Attempting /\ hand[h].msg \in MessageIds
    BY <1>2, WorkerShapes DEF StartSettle, Attempting
  <2>2. [hand[h] EXCEPT !.pc = "settling", !.attempt = @ + 1, !.sess = s] \in Settling
    <3>1. hand[h] \in [pc : {"attempt"}, tag : BOOLEAN, msg : MessageIds,
                       attempt : 0..MaxAttempts-1, sess : Sessions \cup {NoSession}]
      BY <2>1 DEF Attempting
    <3>2. hand[h].attempt + 1 \in 1..MaxAttempts
      BY <2>1 DEF Attempting, MaxAttempts
    <3> QED BY <3>1, <3>2, HandlerRecord DEF Settling
  <2> QED BY <1>2, <2>2 DEF StartSettle, Handling
<1>3. ASSUME SettleNeverStarts(h)
      PROVE  \E r \in Handling : hand' = [hand EXCEPT ![h] = r]
  <2>1. hand[h] \in Attempting /\ hand[h].attempt + 1 \in 1..MaxAttempts
    BY <1>3, WorkerShapes DEF SettleNeverStarts, Attempting, MaxAttempts
  <2> QED BY <1>3, <2>1, FailureShape DEF SettleNeverStarts
<1>4. ASSUME SettleReturns(h)
      PROVE  \E r \in Handling : hand' = [hand EXCEPT ![h] = r]
  <2>1. hand[h] \in Settling
    BY <1>4, WorkerShapes DEF SettleReturns
  <2>2. [hand[h] EXCEPT !.pc = "acking", !.sess = NoSession] \in Finishing
    <3>1. hand[h] \in [pc : {"settling"}, tag : BOOLEAN, msg : MessageIds \cup Strays,
                       attempt : 0..MaxAttempts, sess : Sessions]
      BY <2>1 DEF Settling, MaxAttempts
    <3> QED BY <3>1, HandlerRecord DEF Finishing
  <2> QED BY <1>4, <2>2 DEF SettleReturns, Handling
<1>5. ASSUME SettleRaises(h) \/ SettleLosesConnection(h)
      PROVE  \E r \in Handling : hand' = [hand EXCEPT ![h] = r]
  <2>1. hand[h] \in Settling /\ hand[h].attempt \in 1..MaxAttempts
    BY <1>5, WorkerShapes DEF SettleRaises, SettleLosesConnection, Settling
  <2>2. AfterFailure(h, hand[h].attempt)
    BY <1>5 DEF SettleRaises, SettleLosesConnection
  <2> QED BY <2>1, <2>2, FailureShape
<1>6. CASE Ack(h) \/ Reject(h)
  BY <1>6 DEF Ack, Reject
<1>7. UNCHANGED <<lpVars, rec, post>>
  BY DEF HandlerStep, Refuse, StartSettle, SettleNeverStarts, SettleReturns,
         SettleRaises, SettleLosesConnection, Ack, Reject
<1> QED BY <1>1, <1>2, <1>3, <1>4, <1>5, <1>6, <1>7 DEF HandlerStep

\* A step of the reconciler changes its own record only, into one of its shapes.
LEMMA ReconcilerShapeStep ==
  ASSUME LP_TypeOK, WorkerTypeOK, ReconcilerStep
  PROVE  /\ rec' \in Listing \cup Deciding \cup Sweeping
         /\ UNCHANGED <<lpVars, hand, post>>
<1>1. CASE Tick
  BY <1>1 DEF Tick, AsleepReconciler, PendingEvents, Listing
<1>2. ASSUME NEW e \in Events, LookUp(e)
      PROVE  rec' \in Listing \cup Deciding
  <2>1. rec \in Listing
    BY <1>2, WorkerShapes DEF LookUp
  <2>2. CASE store[e].state = "NEW"
    BY <1>2, <2>1, <2>2 DEF LookUp, Listing
  <2>3. CASE store[e].state # "NEW"
    BY <1>2, <2>1, <2>3, VerdictsAreVerdicts DEF LookUp, Listing, Deciding
  <2> QED BY <2>2, <2>3
<1>3. ASSUME NEW e \in Events, LookUpFails(e)
      PROVE  rec' \in Listing
  BY <1>3, WorkerShapes DEF LookUpFails, Listing
<1>4. CASE SweepNeverStarts \/ SweepReturns \/ SweepRaises \/ SweepLosesConnection
  BY <1>4, WorkerShapes
     DEF SweepNeverStarts, SweepReturns, SweepRaises, SweepLosesConnection, NextEvent, Listing
<1>5. ASSUME NEW s \in Sessions, StartSweep(s)
      PROVE  rec' \in Sweeping
  <2>1. rec \in Deciding
    BY <1>5, WorkerShapes DEF StartSweep
  <2>2. [rec EXCEPT !.pc = "settling", !.sess = s] \in Sweeping
    BY <2>1 DEF Deciding, Sweeping
  <2> QED BY <1>5, <2>2 DEF StartSweep
<1>6. UNCHANGED <<lpVars, hand, post>>
  BY DEF ReconcilerStep, Tick, LookUp, LookUpFails, StartSweep, SweepNeverStarts,
         SweepReturns, SweepRaises, SweepLosesConnection
<1> QED BY <1>1, <1>2, <1>3, <1>4, <1>5, <1>6 DEF ReconcilerStep

\* A handler's record stays one while the log of messages grows.
LEMMA ShapesSurviveTheLog ==
  ASSUME MessageIds \subseteq MessageIds'
  PROVE  Handling \subseteq Handling'
BY DEF Handling, Attempting, Settling, Finishing

\* The ids in the broker's hands: what a handler holds, it got from the queue.
QueuesTypeOK == ready \cup dlq \cup acked \cup unrouted \cup settled \subseteq MessageIds \cup Strays

\* What the broker takes back is a message.
LEMMA HeldIsTyped ==
  ASSUME WorkerTypeOK
  PROVE  Held \subseteq MessageIds \cup Strays
BY DEF WorkerTypeOK, Held, Resting, Handling, Attempting, Settling, Finishing

\* The workers keep their shapes: a handler's and the reconciler's own steps, the
\* requests, and the faults that reset them.
LEMMA WorkerTypeStep ==
  ASSUME LP_TypeOK, WorkerTypeOK, QueuesTypeOK, [Next]_vars
  PROVE  WorkerTypeOK'
<1>0. Handling \subseteq Handling'
  BY LineProviderStep, LogOnlyGrows, ShapesSurviveTheLog
<1>a. ASSUME UNCHANGED workerVars
      PROVE  WorkerTypeOK'
  BY <1>0, <1>a DEF workerVars, WorkerTypeOK
<1>1. ASSUME NEW e \in Events, LPStep(e)
      PROVE  WorkerTypeOK'
  BY <1>1, <1>a DEF LPStep
<1>2. ASSUME NEW i \in MessageIds, Route(i) \/ LoseMessage(i)
      PROVE  WorkerTypeOK'
  BY <1>2, <1>a DEF Route, LoseMessage
<1>3. CASE LPRestart
  BY <1>3, <1>a DEF LPRestart
<1>4. ASSUME NEW b \in Bets,
             (\E e \in Events : ValidateBet(b, e)) \/ InsertBet(b) \/ DropBet(b)
      PROVE  WorkerTypeOK'
  BY <1>0, <1>4 DEF ValidateBet, InsertBet, DropBet, WorkerTypeOK
<1>5. ASSUME NEW h \in Handlers, NEW i \in ready, Deliver(h, i)
      PROVE  WorkerTypeOK'
  <2>1. [pc |-> "attempt", tag |-> TRUE, msg |-> i, attempt |-> 0, sess |-> NoSession] \in Handling
    BY DEF Handling, Attempting, MaxAttempts, QueuesTypeOK
  <2> QED BY <1>0, <1>5, <2>1 DEF Deliver, WorkerTypeOK
<1>6. ASSUME NEW h \in Handlers, HandlerStep(h)
      PROVE  WorkerTypeOK'
  BY <1>0, <1>6, HandlerShapeStep DEF WorkerTypeOK
<1>7. CASE ReconcilerStep
  <2>1. UNCHANGED <<hand, post>> /\ rec' \in Listing \cup Deciding \cup Sweeping
    BY <1>7, ReconcilerShapeStep
  <2> QED BY <1>0, <2>1 DEF WorkerTypeOK, Listing, Deciding, Sweeping
<1>8. ASSUME NEW s \in Sessions, LockNextRow(s) \/ EndOrphan(s)
      PROVE  WorkerTypeOK'
  BY <1>8, <1>a DEF LockNextRow, EndOrphan
<1>9. CASE LoseBroker
  <2>1. \A r \in Handling \cup {Resting} : [r EXCEPT !.tag = FALSE] \in Handling \cup {Resting}
    <3>1. ASSUME NEW r \in Attempting
          PROVE  [r EXCEPT !.tag = FALSE] \in Attempting
      BY DEF Attempting
    <3>2. ASSUME NEW r \in Settling
          PROVE  [r EXCEPT !.tag = FALSE] \in Settling
      BY DEF Settling
    <3>3. ASSUME NEW r \in Finishing
          PROVE  [r EXCEPT !.tag = FALSE] \in Finishing
      BY DEF Finishing
    <3>4. [Resting EXCEPT !.tag = FALSE] = Resting
      <4>1. Resting \in [pc : {"idle"}, tag : BOOLEAN, sess : {NoSession}] /\ ~Resting.tag
        BY DEF Resting
      <4>2. ASSUME NEW r \in [pc : {"idle"}, tag : BOOLEAN, sess : {NoSession}], r.tag = FALSE
            PROVE  [r EXCEPT !.tag = FALSE] = r
        BY <4>2
      <4> QED BY <4>1, <4>2
    <3> QED BY <3>1, <3>2, <3>3, <3>4 DEF Handling
  <2> QED BY <1>0, <1>9, <2>1 DEF LoseBroker, WorkerTypeOK
<1>10. CASE Crash
  BY <1>10 DEF Crash, WorkerTypeOK, AsleepReconciler, Listing
<1>11. CASE UNCHANGED vars
  BY <1>11, <1>a DEF vars
<1> QED BY <1>1, <1>2, <1>3, <1>4, <1>5, <1>6, <1>7, <1>8, <1>9, <1>10, <1>11 DEF Next

\* The broker's sets hold messages and strays only.
LEMMA QueuesTypeStep ==
  ASSUME LP_TypeOK, WorkerTypeOK, QueuesTypeOK, [Next]_vars
  PROVE  QueuesTypeOK'
<1>0. MessageIds \subseteq MessageIds'
  BY LineProviderStep, LogOnlyGrows
<1>a. ASSUME UNCHANGED brokerVars
      PROVE  QueuesTypeOK'
  BY <1>0, <1>a DEF brokerVars, QueuesTypeOK
<1>1. ASSUME NEW e \in Events, LPStep(e)
      PROVE  QueuesTypeOK'
  BY <1>1, <1>a DEF LPStep
<1>2. ASSUME NEW i \in MessageIds, Route(i) \/ LoseMessage(i)
      PROVE  QueuesTypeOK'
  BY <1>0, <1>2 DEF Route, LoseMessage, QueuesTypeOK
<1>3. CASE LPRestart
  BY <1>0, <1>3 DEF LPRestart, QueuesTypeOK, LP_TypeOK
<1>4. ASSUME NEW b \in Bets,
             (\E e \in Events : ValidateBet(b, e)) \/ InsertBet(b) \/ DropBet(b)
      PROVE  QueuesTypeOK'
  BY <1>4, <1>a DEF ValidateBet, InsertBet, DropBet
<1>5. ASSUME NEW h \in Handlers, NEW i \in ready, Deliver(h, i)
      PROVE  QueuesTypeOK'
  BY <1>0, <1>5 DEF Deliver, QueuesTypeOK
<1>6. ASSUME NEW h \in Handlers, HandlerStep(h)
      PROVE  QueuesTypeOK'
  <2>1. CASE UNCHANGED brokerVars
    BY <2>1, <1>a
  <2>2. CASE SettleReturns(h) \/ Ack(h) \/ Reject(h)
    <3>1. hand[h].msg \in MessageIds \cup Strays
      BY <2>2, WorkerShapes DEF SettleReturns, Ack, Reject, Settling, Finishing
    <3> QED BY <1>0, <2>2, <3>1 DEF SettleReturns, Ack, Reject, QueuesTypeOK
  <2> QED BY <1>6, <2>1, <2>2 DEF HandlerStep, Refuse, StartSettle, SettleNeverStarts,
             SettleRaises, SettleLosesConnection
<1>7. CASE ReconcilerStep
  BY <1>7, <1>a DEF ReconcilerStep, Tick, LookUp, LookUpFails, StartSweep, SweepNeverStarts,
              SweepReturns, SweepRaises, SweepLosesConnection
<1>8. ASSUME NEW s \in Sessions, LockNextRow(s) \/ EndOrphan(s)
      PROVE  QueuesTypeOK'
  BY <1>8, <1>a DEF LockNextRow, EndOrphan
<1>9. CASE LoseBroker \/ Crash
  BY <1>0, <1>9, HeldIsTyped DEF LoseBroker, Crash, QueuesTypeOK
<1>10. CASE UNCHANGED vars
  BY <1>10, <1>a DEF vars
<1> QED BY <1>1, <1>2, <1>3, <1>4, <1>5, <1>6, <1>7, <1>8, <1>9, <1>10 DEF Next

\* The fault counter stays within its bound.
LEMMA FaultsTypeStep ==
  ASSUME faults \in 0..MaxFaults, [Next]_vars
  PROVE  faults' \in 0..MaxFaults
<1> USE MaxFaultsAssumption
<1>1. ASSUME Fault
      PROVE  faults' \in 0..MaxFaults
  BY <1>1 DEF Fault
<1>2. Fault \/ UNCHANGED faults
  BY DEF Next, vars, LPStep, Route, LoseMessage, LPRestart, ValidateBet, InsertBet, DropBet,
         Deliver, HandlerStep, Refuse, StartSettle, SettleNeverStarts, SettleReturns,
         SettleRaises, SettleLosesConnection, Ack, Reject, ReconcilerStep, Tick, LookUp,
         LookUpFails, StartSweep, SweepNeverStarts, SweepReturns, SweepRaises,
         SweepLosesConnection, LockNextRow, EndOrphan, LoseBroker, Crash
<1> QED BY <1>1, <1>2

-------------------------------------------------------------------------------
\* Every transaction the workers run is one of table bets': its event exists and
\* it asks for a verdict.
LEMMA TableStep ==
  ASSUME LP_TypeOK, WorkerTypeOK, [Next]_vars
  PROVE  [BT_Next]_tableVars
<1>1. ASSUME NEW b \in Bets, InsertBet(b)
      PROVE  BT_Next
  BY <1>1 DEF InsertBet, BT_Next
<1>2. ASSUME NEW h \in Handlers, NEW s \in Sessions, StartSettle(h, s)
      PROVE  BT_Next
  <2>1. hand[h].msg \in MessageIds
    BY <1>2, WorkerShapes DEF StartSettle, Attempting
  <2> QED BY <1>2, <2>1, VerdictsAreVerdicts DEF StartSettle, BT_Next
<1>3. ASSUME NEW h \in Handlers, SettleReturns(h) \/ SettleRaises(h)
      PROVE  BT_Next
  <2>1. hand[h].sess \in Sessions
    BY <1>3, WorkerShapes DEF SettleReturns, SettleRaises, Settling
  <2> QED BY <1>3, <2>1 DEF SettleReturns, SettleRaises, BT_Next
<1>4. ASSUME NEW s \in Sessions, StartSweep(s)
      PROVE  BT_Next
  <2>1. rec.event \in Events /\ rec.verdict \in Verdicts
    BY <1>4, WorkerShapes DEF StartSweep, Deciding
  <2> QED BY <1>4, <2>1 DEF StartSweep, BT_Next
<1>5. ASSUME SweepReturns \/ SweepRaises
      PROVE  BT_Next
  <2>1. rec.sess \in Sessions
    BY <1>5, WorkerShapes DEF SweepReturns, SweepRaises, Sweeping
  <2> QED BY <1>5, <2>1 DEF SweepReturns, SweepRaises, BT_Next
<1>6. ASSUME NEW s \in Sessions, LockNextRow(s) \/ EndOrphan(s)
      PROVE  BT_Next
  BY <1>6 DEF LockNextRow, EndOrphan, BT_Next
<1>7. CASE UNCHANGED tableVars
  BY <1>7
<1>8. ASSUME NEW h \in Handlers, (\E i \in ready : Deliver(h, i)) \/ HandlerStep(h)
      PROVE  [BT_Next]_tableVars
  BY <1>8, <1>2, <1>3 DEF Deliver, HandlerStep, Refuse, SettleNeverStarts,
     SettleLosesConnection, Ack, Reject
<1>9. ASSUME ReconcilerStep
      PROVE  [BT_Next]_tableVars
  BY <1>9, <1>4, <1>5 DEF ReconcilerStep, Tick, LookUp, LookUpFails, SweepNeverStarts,
     SweepLosesConnection
<1> QED BY <1>1, <1>6, <1>7, <1>8, <1>9 DEF Next, vars, LPStep, Route, LoseMessage, LPRestart,
           ValidateBet, DropBet, LoseBroker, Crash

\* Type correctness of everything but the table.
LEMMA WorkersTypeCorrect == Spec => [](WorkerTypeOK /\ QueuesTypeOK /\ faults \in 0..MaxFaults)
<1>1. Init => WorkerTypeOK /\ QueuesTypeOK /\ faults \in 0..MaxFaults
  BY MaxFaultsAssumption DEF Init, WorkerTypeOK, QueuesTypeOK, AsleepReconciler, Listing
<1>2. /\ LP_TypeOK /\ WorkerTypeOK /\ QueuesTypeOK /\ faults \in 0..MaxFaults /\ [Next]_vars
      => (WorkerTypeOK /\ QueuesTypeOK /\ faults \in 0..MaxFaults)'
  BY WorkerTypeStep, QueuesTypeStep, FaultsTypeStep
<1> QED BY <1>1, <1>2, ImplementsLineProvider, LPTypeCorrect, PTL DEF Spec

\* The system implements table bets: the workers' transactions, however they fail
\* and retry, are transactions of BT_Spec.
THEOREM ImplementsTable == Spec => BT_Spec
<1>1. Init => BT_Init
  BY DEF Init
<1>2. LP_TypeOK /\ WorkerTypeOK /\ [Next]_vars => [BT_Next]_tableVars
  BY TableStep
<1> QED BY <1>1, <1>2, ImplementsLineProvider, LPTypeCorrect, WorkersTypeCorrect, PTL
        DEF Spec, BT_Spec

\* So every bet is settled at most once, by one atomic verdict for its own event,
\* whatever messages are redelivered, retried or overtaken by the reconciler.
THEOREM SystemKeepsLedgerPromise == Spec => KeepsLedgerPromise
BY ImplementsTable, LedgerRefinement

\* Whoever reads a settled bet reads its last word: in the whole system, too, rows
\* go one way, and no crash, retry or late commit rewrites a verdict.
THEOREM SystemKeepsVerdicts == Spec => [][RowHistory /\ VerdictsStand]_bets
BY SystemKeepsLedgerPromise, LedgerKeepsVerdicts

\* Type correctness of the whole system.
THEOREM SystemTypeCorrect == Spec => []TypeOK
<1>1. LP_TypeOK /\ BT_TypeOK /\ WorkerTypeOK /\ QueuesTypeOK /\ faults \in 0..MaxFaults => TypeOK
  BY DEF TypeOK, QueuesTypeOK
<1> QED BY <1>1, ImplementsLineProvider, LPTypeCorrect, ImplementsTable, TypeCorrect,
           WorkersTypeCorrect, PTL

-------------------------------------------------------------------------------
(* Why a settled bet has a reason: SettledForAReason *)

\* A verdict has a reason in line_provider's history.
Justified(e, v) ==
  /\ v.status \in {"WON", "LOST"} =>
       \E i \in MessageIds : /\ published[i].event = e
                             /\ StatusOf[published[i].new_state] = v.status
  /\ v.status = "CANCELLED" => epoch > 0

RowsJustified == \A b \in Bets : Justified(bets[b].event, bets[b])
OpenJustified == \A s \in Sessions : sess[s].pc = "open" => Justified(sess[s].event, sess[s].verdict)
RecJustified  == rec.pc \in {"decided", "settling"} => Justified(rec.event, rec.verdict)

\* Until the first restart, every event somebody knows of is in the store, so that
\* no lookup answers with a 404.
KnownEvents ==
  epoch = 0 =>
    /\ \A b \in Bets : bets[b] # NoBet => store[bets[b].event] # NoEvent
    /\ \A b \in Bets : post[b] # NoEventId => store[post[b]] # NoEvent
    /\ \A e \in rec.todo : store[e] # NoEvent

ReasonInv == RowsJustified /\ OpenJustified /\ RecJustified /\ KnownEvents

\* The history only grows: a reason stays one.
LEMMA ReasonsStay ==
  ASSUME LP_TypeOK, [LP_Next]_lpVars, NEW e, NEW v, Justified(e, v)
  PROVE  Justified(e, v)'
<1>1. epoch \in Nat
  BY MaxEpochAssumption DEF LP_TypeOK
<1>2. ASSUME v.status \in {"WON", "LOST"}
      PROVE  \E i \in MessageIds' : /\ published'[i].event = e
                                    /\ StatusOf[published'[i].new_state] = v.status
  BY <1>2, LogOnlyGrows DEF Justified
<1>3. v.status = "CANCELLED" => epoch' > 0
  BY <1>1, LogOnlyGrows DEF Justified
<1> QED BY <1>2, <1>3 DEF Justified

\* What one step of table bets does to a row.
LEMMA RowChange ==
  ASSUME BT_TypeOK, [BT_Next]_tableVars, NEW b \in Bets
  PROVE  \/ bets'[b] = bets[b]
         \/ \E e \in Events : bets'[b] = PendingBet(e)
         \/ \E s \in Sessions : /\ sess[s].pc = "open"
                                /\ bets'[b] = SettledBet(sess[s].event, sess[s].verdict)
<1>1. ASSUME NEW c \in Bets, NEW e \in Events, Insert(c, e)
      PROVE  bets'[b] = bets[b] \/ bets'[b] = PendingBet(e)
  BY <1>1 DEF Insert, BT_TypeOK
<1>2. ASSUME NEW s \in Sessions, Commit(s)
      PROVE  \/ bets'[b] = bets[b]
             \/ sess[s].pc = "open" /\ bets'[b] = SettledBet(sess[s].event, sess[s].verdict)
  BY <1>2 DEF Commit, Selected
<1>3. ASSUME NEW s \in Sessions,
             \/ \E e \in Events, v \in Verdicts : Begin(s, e, v)
             \/ \E c \in Bets : VisitRow(s, c)
             \/ Rollback(s)
      PROVE  bets'[b] = bets[b]
  BY <1>3 DEF Begin, VisitRow, Rollback
<1>4. CASE UNCHANGED tableVars
  BY <1>4 DEF tableVars
<1> QED BY <1>1, <1>2, <1>3, <1>4 DEF BT_Next

\* A row changes only into a PENDING one, which needs no reason, or into what an
\* open session carries.
LEMMA RowsStep ==
  ASSUME TypeOK, RowsJustified, OpenJustified, [Next]_vars
  PROVE  RowsJustified'
<1> SUFFICES ASSUME NEW b \in Bets
             PROVE  Justified(bets[b].event, bets[b])'
  BY DEF RowsJustified
<1>1. LP_TypeOK /\ BT_TypeOK /\ WorkerTypeOK
  BY DEF TypeOK
<1>2. [LP_Next]_lpVars /\ [BT_Next]_tableVars
  BY <1>1, LineProviderStep, TableStep
<1>3. \A e, v : Justified(e, v) => Justified(e, v)'
  BY <1>1, <1>2, ReasonsStay
<1>4. CASE bets'[b] = bets[b]
  BY <1>3, <1>4 DEF RowsJustified, Justified
<1>5. ASSUME NEW e \in Events, bets'[b] = PendingBet(e)
      PROVE  Justified(bets[b].event, bets[b])'
  BY <1>5 DEF Justified, PendingBet
<1>6. ASSUME NEW s \in Sessions, sess[s].pc = "open",
             bets'[b] = SettledBet(sess[s].event, sess[s].verdict)
      PROVE  Justified(bets[b].event, bets[b])'
  <2>1. bets'[b].event = sess[s].event /\ bets'[b].status = sess[s].verdict.status
    BY <1>6 DEF SettledBet
  <2> QED BY <1>3, <1>6, <2>1 DEF OpenJustified, Justified
<1> QED BY <1>1, <1>2, <1>4, <1>5, <1>6, RowChange

\* What one step of the system does to an open session.
LEMMA SessionChange ==
  ASSUME TypeOK, [Next]_vars, NEW s \in Sessions, sess'[s].pc = "open"
  PROVE  \/ /\ sess[s].pc = "open"
            /\ sess'[s].event = sess[s].event
            /\ sess'[s].verdict = sess[s].verdict
         \/ /\ rec.pc = "decided"
            /\ sess'[s].event = rec.event
            /\ sess'[s].verdict = rec.verdict
         \/ \E i \in MessageIds : /\ sess'[s].event = published[i].event
                                  /\ sess'[s].verdict = VerdictOf(i)
<1> USE DEF TypeOK
<1>1. ASSUME NEW h \in Handlers, NEW t \in Sessions, StartSettle(h, t)
      PROVE  \/ sess'[s] = sess[s]
             \/ \E i \in MessageIds : /\ sess'[s].event = published[i].event
                                      /\ sess'[s].verdict = VerdictOf(i)
  <2>1. hand[h].msg \in MessageIds
    BY <1>1, WorkerShapes DEF StartSettle, Attempting
  <2> QED BY <1>1, <2>1 DEF StartSettle, Begin, BT_TypeOK
<1>2. ASSUME NEW t \in Sessions, StartSweep(t)
      PROVE  \/ sess'[s] = sess[s]
             \/ /\ rec.pc = "decided"
                /\ sess'[s].event = rec.event
                /\ sess'[s].verdict = rec.verdict
  BY <1>2 DEF StartSweep, Begin, BT_TypeOK
<1>3. ASSUME NEW t \in Sessions, NEW b \in Bets, VisitRow(t, b)
      PROVE  /\ sess[s].pc = "open"
             /\ sess'[s].event = sess[s].event
             /\ sess'[s].verdict = sess[s].verdict
  <2>1. sess[t] \in Transactions
    BY <1>3, OpenIsTransaction DEF VisitRow
  <2> QED BY <1>3, <2>1 DEF VisitRow, BT_TypeOK, Transactions
<1>4. ASSUME NEW t \in Sessions, Commit(t) \/ Rollback(t)
      PROVE  sess'[s] = sess[s]
  BY <1>4 DEF Commit, Rollback, BT_TypeOK, Idle
<1>5. ASSUME NEW h \in Handlers, SettleReturns(h) \/ SettleRaises(h)
      PROVE  sess'[s] = sess[s]
  <2>1. hand[h].sess \in Sessions
    BY <1>5, WorkerShapes DEF SettleReturns, SettleRaises, Settling
  <2> QED BY <1>4, <1>5, <2>1 DEF SettleReturns, SettleRaises
<1>6. ASSUME SweepReturns \/ SweepRaises
      PROVE  sess'[s] = sess[s]
  <2>1. rec.sess \in Sessions
    BY <1>6, WorkerShapes DEF SweepReturns, SweepRaises, Sweeping
  <2> QED BY <1>4, <1>6, <2>1 DEF SweepReturns, SweepRaises
<1>7. ASSUME NEW t \in Sessions, EndOrphan(t)
      PROVE  sess'[s] = sess[s]
  BY <1>4, <1>7 DEF EndOrphan
<1>8. CASE UNCHANGED sess
  BY <1>8
<1>9. ASSUME NEW h \in Handlers, HandlerStep(h)
      PROVE  \/ sess'[s] = sess[s]
             \/ \E i \in MessageIds : /\ sess'[s].event = published[i].event
                                      /\ sess'[s].verdict = VerdictOf(i)
  BY <1>1, <1>5, <1>9 DEF HandlerStep, Refuse, SettleNeverStarts, SettleLosesConnection,
                          Ack, Reject, tableVars
<1>10. ASSUME ReconcilerStep
       PROVE  \/ sess'[s] = sess[s]
              \/ /\ rec.pc = "decided"
                 /\ sess'[s].event = rec.event
                 /\ sess'[s].verdict = rec.verdict
  BY <1>2, <1>6, <1>10 DEF ReconcilerStep, Tick, LookUp, LookUpFails, SweepNeverStarts,
                           SweepLosesConnection, tableVars
<1>11. \/ UNCHANGED sess
       \/ \E h \in Handlers : HandlerStep(h)
       \/ ReconcilerStep
       \/ \E t \in Sessions : (\E b \in Bets : VisitRow(t, b)) \/ EndOrphan(t)
  BY DEF Next, vars, tableVars, LPStep, Route, LoseMessage, LPRestart, ValidateBet, InsertBet,
         Insert, DropBet, Deliver, LockNextRow, LoseBroker, Crash
<1> QED BY <1>3, <1>7, <1>8, <1>9, <1>10, <1>11

\* A message is its own reason.
LEMMA MessagesAreReasons ==
  ASSUME LP_TypeOK, NEW i \in MessageIds
  PROVE  Justified(published[i].event, VerdictOf(i))
<1>0. published[i] \in Message
  BY DEF LP_TypeOK, MessageIds
<1>1. published[i].new_state \in TerminalStates
  BY <1>0 DEF Message
<1>2. VerdictOf(i).status = StatusOf[published[i].new_state]
  BY DEF VerdictOf
<1>3. VerdictOf(i).status # "CANCELLED"
  BY <1>1, <1>2 DEF StatusOf, TerminalStates
<1> QED BY <1>2, <1>3 DEF Justified

\* What an open session is about to write has a reason: it was handed over by a
\* handler or by the reconciler.
LEMMA OpenStep ==
  ASSUME TypeOK, OpenJustified, RecJustified, [Next]_vars
  PROVE  OpenJustified'
<1> SUFFICES ASSUME NEW s \in Sessions, sess'[s].pc = "open"
             PROVE  Justified(sess[s].event, sess[s].verdict)'
  BY DEF OpenJustified
<1>1. \A e, v : Justified(e, v) => Justified(e, v)'
  BY LineProviderStep, ReasonsStay DEF TypeOK
<1>2. ASSUME NEW e, NEW v, Justified(e, v), sess'[s].event = e, sess'[s].verdict = v
      PROVE  Justified(sess[s].event, sess[s].verdict)'
  BY <1>1, <1>2 DEF Justified
<1>3. CASE sess[s].pc = "open" /\ sess'[s].event = sess[s].event
             /\ sess'[s].verdict = sess[s].verdict
  <2>1. Justified(sess[s].event, sess[s].verdict)
    BY <1>3 DEF OpenJustified
  <2> QED BY <1>2, <1>3, <2>1
<1>4. CASE rec.pc = "decided" /\ sess'[s].event = rec.event /\ sess'[s].verdict = rec.verdict
  <2>1. Justified(rec.event, rec.verdict)
    BY <1>4 DEF RecJustified
  <2> QED BY <1>2, <1>4, <2>1
<1>5. ASSUME NEW i \in MessageIds,
             sess'[s].event = published[i].event, sess'[s].verdict = VerdictOf(i)
      PROVE  Justified(sess[s].event, sess[s].verdict)'
  BY <1>2, <1>5, MessagesAreReasons DEF TypeOK
<1> QED BY <1>3, <1>4, <1>5, SessionChange

\* The answer of line_provider is a reason when it is given: what the store holds
\* was announced, and an event that somebody knew of is gone only after a restart.
LEMMA AnswersAreReasons ==
  ASSUME LP_TypeOK, AnnouncementInv, KnownEvents, NEW e \in Events, e \in rec.todo,
         store[e].state # "NEW"
  PROVE  Justified(e, VerdictAt(e))
<1>1. CASE store[e] = NoEvent
  <2>1. epoch > 0
    BY <1>1, MaxEpochAssumption DEF KnownEvents, LP_TypeOK
  <2>2. VerdictAt(e).status = "CANCELLED"
    BY <1>1 DEF VerdictAt
  <2> QED BY <2>1, <2>2 DEF Justified
<1>2. CASE store[e] # NoEvent
  <2>1. store[e].state \in TerminalStates
    BY <1>2 DEF LP_TypeOK, Event, EventStates
  <2>2. PICK i \in MessageIds : published[i].event = e /\ published[i].epoch = epoch
    BY <2>1 DEF AnnouncementInv, AnnouncedIsStored, Finished
  <2>3. published[i].new_state = store[e].state
    BY <2>2 DEF AnnouncementInv, AnnouncedIsStored
  <2>4. VerdictAt(e).status = StatusOf[store[e].state] /\ VerdictAt(e).status # "CANCELLED"
    BY <1>2, <2>1 DEF VerdictAt, StatusOf, TerminalStates
  <2> QED BY <2>2, <2>3, <2>4 DEF Justified
<1> QED BY <1>1, <1>2

\* What one step of the system does to the verdict the reconciler holds.
LEMMA RecChange ==
  ASSUME TypeOK, [Next]_vars
  PROVE  /\ rec'.pc \in {"decided", "settling"} =>
              \/ /\ rec.pc \in {"decided", "settling"}
                 /\ rec'.event = rec.event
                 /\ rec'.verdict = rec.verdict
              \/ \E e \in Events : /\ e \in rec.todo
                                   /\ store[e].state # "NEW"
                                   /\ rec'.event = e
                                   /\ rec'.verdict = VerdictAt(e)
         /\ rec'.todo \subseteq rec.todo \cup PendingEvents
<1> USE DEF TypeOK
<1> DEFINE Kept == /\ rec'.pc \in {"decided", "settling"} =>
                        /\ rec.pc \in {"decided", "settling"}
                        /\ rec'.event = rec.event
                        /\ rec'.verdict = rec.verdict
                   /\ rec'.todo \subseteq rec.todo
<1>1. CASE Tick
  BY <1>1 DEF Tick, AsleepReconciler
<1>2. ASSUME NEW e \in Events, LookUp(e)
      PROVE  \/ Kept
             \/ /\ e \in rec.todo /\ store[e].state # "NEW"
                /\ rec'.event = e /\ rec'.verdict = VerdictAt(e)
                /\ rec'.todo \subseteq rec.todo
  <2>1. rec \in Listing
    BY <1>2, WorkerShapes DEF LookUp
  <2> QED BY <1>2, <2>1 DEF LookUp, Listing
<1>3. ASSUME NEW e \in Events, LookUpFails(e)
      PROVE  Kept
  <2>1. rec \in Listing
    BY <1>3, WorkerShapes DEF LookUpFails
  <2> QED BY <1>3, <2>1 DEF LookUpFails, Listing
<1>4. ASSUME NEW s \in Sessions, StartSweep(s)
      PROVE  Kept
  <2>1. rec \in Deciding
    BY <1>4, WorkerShapes DEF StartSweep
  <2> QED BY <1>4, <2>1 DEF StartSweep, Deciding
<1>5. CASE SweepNeverStarts \/ SweepReturns \/ SweepRaises \/ SweepLosesConnection
  <2>1. Kept
    BY <1>5 DEF SweepNeverStarts, SweepReturns, SweepRaises, SweepLosesConnection, NextEvent
  <2> QED BY <2>1
<1>6. CASE Crash
  BY <1>6 DEF Crash, AsleepReconciler
<1>7. CASE UNCHANGED rec
  BY <1>7
<1>8. UNCHANGED rec \/ ReconcilerStep \/ Crash
  BY DEF Next, vars, workerVars, LPStep, Route, LoseMessage, LPRestart, ValidateBet, InsertBet,
         DropBet, Deliver, HandlerStep, Refuse, StartSettle, SettleNeverStarts, SettleReturns,
         SettleRaises, SettleLosesConnection, Ack, Reject, LockNextRow, EndOrphan, LoseBroker
<1> QED BY <1>1, <1>2, <1>3, <1>4, <1>5, <1>6, <1>7, <1>8 DEF ReconcilerStep

\* The reconciler's verdict had its reason when it was read, and reasons stay.
LEMMA RecStep ==
  ASSUME TypeOK, AnnouncementInv, RecJustified, KnownEvents, [Next]_vars
  PROVE  RecJustified'
<1> SUFFICES ASSUME rec'.pc \in {"decided", "settling"}
             PROVE  Justified(rec.event, rec.verdict)'
  BY DEF RecJustified
<1>1. \A e, v : Justified(e, v) => Justified(e, v)'
  BY LineProviderStep, ReasonsStay DEF TypeOK
<1>2. CASE rec.pc \in {"decided", "settling"} /\ rec'.event = rec.event
             /\ rec'.verdict = rec.verdict
  BY <1>1, <1>2 DEF RecJustified, Justified
<1>3. ASSUME NEW e \in Events, e \in rec.todo, store[e].state # "NEW",
             rec'.event = e, rec'.verdict = VerdictAt(e)
      PROVE  Justified(rec.event, rec.verdict)'
  BY <1>1, <1>3, AnswersAreReasons DEF Justified, TypeOK
<1> QED BY <1>2, <1>3, RecChange

-------------------------------------------------------------------------------
\* Until a restart, the store only gains events.
LEMMA StoreOnlyGrows ==
  ASSUME LP_TypeOK, [LP_Next]_lpVars, epoch' = 0
  PROVE  /\ epoch = 0
         /\ \A e \in Events : store[e] # NoEvent => store'[e] # NoEvent
<1>0. epoch \in Nat
  BY MaxEpochAssumption DEF LP_TypeOK
<1>1. ASSUME NEW e \in Events, PostEvent(e)
      PROVE  epoch' = epoch /\ \A f \in Events : store[f] # NoEvent => store'[f] # NoEvent
  BY <1>1 DEF PostEvent, Add, LP_TypeOK
<1>2. ASSUME NEW e \in Events, NEW new \in EventStates, NEW open \in BOOLEAN,
             PutEvent(e, new, open)
      PROVE  epoch' = epoch /\ \A f \in Events : store[f] # NoEvent => store'[f] # NoEvent
  <2>1. [state |-> new, open |-> open] # NoEvent
    BY DEF NoEvent, EventStates, TerminalStates
  <2> QED BY <1>2, <2>1 DEF PutEvent, Update, LP_TypeOK
<1>3. ASSUME NEW e \in Events, Expire(e)
      PROVE  epoch' = epoch /\ \A f \in Events : store[f] # NoEvent => store'[f] # NoEvent
  <2>1. store[e] \in Event
    BY <1>3 DEF Expire, LP_TypeOK
  <2>2. [store[e] EXCEPT !.open = FALSE] \in Event
    BY <2>1 DEF Event
  <2>3. NoEvent \notin Event
    BY DEF NoEvent, Event, EventStates, TerminalStates
  <2> QED BY <1>3, <2>2, <2>3 DEF Expire, LP_TypeOK
<1>4. ASSUME NEW i \in MessageIds, EndPublish(i)
      PROVE  UNCHANGED <<store, epoch>>
  BY <1>4 DEF EndPublish
<1>5. ~Restart
  BY <1>0 DEF Restart
<1>6. CASE UNCHANGED lpVars
  BY <1>6 DEF lpVars
<1> QED BY <1>1, <1>2, <1>3, <1>4, <1>5, <1>6 DEF LP_Next

\* A commit writes rows of its own event only: they are the rows it has locked.
LEMMA CommitKeepsEvent ==
  ASSUME BT_TypeOK, LockDiscipline, NEW s \in Sessions, Commit(s), NEW b \in Bets
  PROVE  \/ bets'[b] = bets[b]
         \/ bets[b] # NoBet /\ bets'[b].event = bets[b].event
<1>1. CASE b \in sess[s].ids
  <2>1. bets[b] = PendingBet(sess[s].event)
    BY <1>1 DEF LockDiscipline
  <2>2. bets'[b] = SettledBet(sess[s].event, sess[s].verdict)
    BY <1>1 DEF Commit
  <2>3. bets[b].event = sess[s].event /\ bets[b].status = "PENDING"
    BY <2>1 DEF PendingBet
  <2>4. bets'[b].event = sess[s].event
    BY <2>2 DEF SettledBet
  <2> QED BY <2>3, <2>4 DEF NoBet
<1>2. CASE b \notin sess[s].ids
  BY <1>2 DEF Commit
<1> QED BY <1>1, <1>2

\* A row keeps its event, and gets it from the request that inserts it.
LEMMA RowKeepsEvent ==
  ASSUME TypeOK, LockDiscipline, [Next]_vars, NEW b \in Bets
  PROVE  \/ bets'[b] = bets[b]
         \/ bets[b] # NoBet /\ bets'[b].event = bets[b].event
         \/ post[b] # NoEventId /\ bets'[b].event = post[b]
<1> USE DEF TypeOK
<1>1. ASSUME NEW c \in Bets, InsertBet(c)
      PROVE  bets'[b] = bets[b] \/ (post[b] # NoEventId /\ bets'[b].event = post[b])
  BY <1>1, NothingAssumption DEF InsertBet, Insert, BT_TypeOK, PendingBet
<1>2. ASSUME NEW h \in Handlers, SettleReturns(h)
      PROVE  \E s \in Sessions : Commit(s)
  <2>1. hand[h].sess \in Sessions
    BY <1>2, WorkerShapes DEF SettleReturns, Settling
  <2> QED BY <1>2, <2>1 DEF SettleReturns
<1>3. ASSUME SweepReturns
      PROVE  \E s \in Sessions : Commit(s)
  <2>1. rec.sess \in Sessions
    BY <1>3, WorkerShapes DEF SweepReturns, Sweeping
  <2> QED BY <1>3, <2>1 DEF SweepReturns
<1>4. ASSUME NEW s \in Sessions, EndOrphan(s)
      PROVE  Commit(s) \/ UNCHANGED bets
  BY <1>4 DEF EndOrphan, Rollback
<1>5. ASSUME NEW h \in Handlers, HandlerStep(h)
      PROVE  SettleReturns(h) \/ UNCHANGED bets
  BY <1>5 DEF HandlerStep, Refuse, StartSettle, Begin, SettleNeverStarts, SettleRaises, Rollback,
              SettleLosesConnection, Ack, Reject, tableVars
<1>6. ASSUME ReconcilerStep
      PROVE  SweepReturns \/ UNCHANGED bets
  BY <1>6 DEF ReconcilerStep, Tick, LookUp, LookUpFails, StartSweep, Begin, SweepNeverStarts,
              SweepRaises, Rollback, SweepLosesConnection, tableVars
<1>7. \/ UNCHANGED bets
      \/ \E c \in Bets : InsertBet(c)
      \/ \E h \in Handlers : HandlerStep(h)
      \/ ReconcilerStep
      \/ \E s \in Sessions : EndOrphan(s)
  BY DEF Next, vars, tableVars, LPStep, Route, LoseMessage, LPRestart, ValidateBet, DropBet,
         Deliver, LockNextRow, VisitRow, LoseBroker, Crash
<1> QED BY <1>1, <1>2, <1>3, <1>4, <1>5, <1>6, <1>7, CommitKeepsEvent

\* A request names an event that was there when it was validated.
LEMMA PostChange ==
  ASSUME TypeOK, [Next]_vars, NEW b \in Bets
  PROVE  \/ post'[b] = NoEventId
         \/ post'[b] = post[b]
         \/ post'[b] \in Events /\ store[post'[b]] # NoEvent
<1> USE DEF TypeOK, WorkerTypeOK
<1>1. ASSUME NEW c \in Bets, NEW e \in Events, ValidateBet(c, e)
      PROVE  post'[b] = post[b] \/ (post'[b] \in Events /\ store[post'[b]] # NoEvent)
  BY <1>1 DEF ValidateBet, Bettable
<1>2. ASSUME NEW c \in Bets, InsertBet(c) \/ DropBet(c)
      PROVE  post'[b] = NoEventId \/ post'[b] = post[b]
  BY <1>2 DEF InsertBet, DropBet
<1>3. CASE Crash
  BY <1>3 DEF Crash
<1>4. CASE UNCHANGED post
  BY <1>4
<1>5. \/ UNCHANGED post
      \/ \E c \in Bets : (\E e \in Events : ValidateBet(c, e)) \/ InsertBet(c) \/ DropBet(c)
      \/ Crash
  BY DEF Next, vars, workerVars, LPStep, Route, LoseMessage, LPRestart, Deliver, HandlerStep,
         Refuse, StartSettle, SettleNeverStarts, SettleReturns, SettleRaises,
         SettleLosesConnection, Ack, Reject, ReconcilerStep, Tick, LookUp, LookUpFails,
         StartSweep, SweepNeverStarts, SweepReturns, SweepRaises, SweepLosesConnection,
         LockNextRow, EndOrphan, LoseBroker
<1> QED BY <1>1, <1>2, <1>3, <1>4, <1>5

\* Nobody comes to know of an event that the store does not hold.
LEMMA KnownStep ==
  ASSUME TypeOK, LockDiscipline, KnownEvents, [Next]_vars
  PROVE  KnownEvents'
<1> SUFFICES ASSUME epoch' = 0
             PROVE  /\ \A b \in Bets : bets'[b] # NoBet => store'[bets'[b].event] # NoEvent
                    /\ \A b \in Bets : post'[b] # NoEventId => store'[post'[b]] # NoEvent
                    /\ \A e \in rec'.todo : store'[e] # NoEvent
  BY DEF KnownEvents
<1>1. epoch = 0 /\ \A e \in Events : store[e] # NoEvent => store'[e] # NoEvent
  BY StoreOnlyGrows, LineProviderStep DEF TypeOK
<1>2. ASSUME NEW b \in Bets, bets[b] # NoBet
      PROVE  bets[b].event \in Events /\ store[bets[b].event] # NoEvent
  <2>1. bets[b] \in Rows
    BY <1>2 DEF TypeOK, BT_TypeOK
  <2>2. bets[b].event \in Events
    BY <2>1 DEF Rows, PendingRows, SettledRows, PendingBet, SettledBet
  <2> QED BY <1>1, <1>2, <2>2 DEF KnownEvents
<1>3. ASSUME NEW b \in Bets, post[b] # NoEventId
      PROVE  post[b] \in Events /\ store[post[b]] # NoEvent
  BY <1>1, <1>3 DEF KnownEvents, TypeOK, WorkerTypeOK
<1>4. ASSUME NEW b \in Bets, bets'[b] # NoBet
      PROVE  store'[bets'[b].event] # NoEvent
  BY <1>1, <1>2, <1>3, <1>4, RowKeepsEvent
<1>5. ASSUME NEW b \in Bets, post'[b] # NoEventId
      PROVE  store'[post'[b]] # NoEvent
  BY <1>1, <1>3, <1>5, PostChange
<1>6. ASSUME NEW e \in rec'.todo
      PROVE  store'[e] # NoEvent
  <2>1. e \in rec.todo \/ e \in PendingEvents
    BY RecChange
  <2>2. CASE e \in rec.todo
    <3>1. e \in Events
      BY <2>2, WorkerShapes DEF TypeOK
    <3> QED BY <1>1, <2>2, <3>1 DEF KnownEvents
  <2>3. CASE e \in PendingEvents
    <3>1. PICK b \in Bets : bets[b] = PendingBet(e)
      BY <2>3 DEF PendingEvents, Pending
    <3>2. bets[b].event = e /\ bets[b] # NoBet
      BY <3>1 DEF PendingBet, NoBet
    <3> QED BY <1>1, <1>2, <3>2
  <2> QED BY <2>1, <2>2, <2>3
<1> QED BY <1>4, <1>5, <1>6

\* The inductive invariant behind SettledForAReason: a verdict has its reason in
\* every place it passes through, from the message or the lookup to the row.
THEOREM ReasonInvariant == Spec => []ReasonInv
<1>1. Init => ReasonInv
  BY DEF Init, LP_Init, BT_Init, ReasonInv, RowsJustified, OpenJustified, RecJustified,
         KnownEvents, Justified, NoBet, Idle, AsleepReconciler
<1>2. TypeOK /\ AnnouncementInv /\ LockDiscipline /\ ReasonInv /\ [Next]_vars => ReasonInv'
  BY RowsStep, OpenStep, RecStep, KnownStep DEF ReasonInv
<1> QED BY <1>1, <1>2, SystemTypeCorrect, ImplementsLineProvider, AnnouncementInvariant,
           ImplementsTable, LockDisciplineHolds, PTL DEF Spec

\* A win or a loss was announced for the bet's event, and a cancel means a restart.
THEOREM SettledForAReasonAlways == Spec => []SettledForAReason
<1>1. ReasonInv => SettledForAReason
  BY DEF ReasonInv, RowsJustified, Justified, SettledForAReason
<1> QED BY <1>1, ReasonInvariant, PTL

\* Until line_provider restarts, the two services agree on the outcome of every
\* settled bet: its reason was announced by the running incarnation, which still
\* holds what it announced.
THEOREM AgreesWithLineProviderAlways == Spec => []AgreesWithLineProvider
<1>1. TypeOK /\ AnnouncementInv /\ ReasonInv => AgreesWithLineProvider
  <2> SUFFICES ASSUME TypeOK, AnnouncementInv, ReasonInv, epoch = 0, NEW b \in Bets,
                      bets[b].status \notin {"ABSENT", "PENDING"}
               PROVE  /\ Finished(bets[b].event)
                      /\ bets[b].status = StatusOf[store[bets[b].event].state]
    BY DEF AgreesWithLineProvider
  <2>1. bets[b].status \in {"WON", "LOST", "CANCELLED"}
    <3>1. bets[b] \in SettledRows
      BY DEF TypeOK, BT_TypeOK, Rows, PendingRows, PendingBet, NoBet
    <3>2. PICK e \in Events, v \in Verdicts : bets[b] = SettledBet(e, v)
      BY <3>1 DEF SettledRows
    <3>3. bets[b].status = v.status
      BY <3>2 DEF SettledBet
    <3> QED BY <3>3 DEF Verdicts, StatusOf, TerminalStates
  <2>2. Justified(bets[b].event, bets[b])
    BY DEF ReasonInv, RowsJustified
  <2>3. bets[b].status # "CANCELLED"
    BY <2>2 DEF Justified
  <2>4. PICK i \in MessageIds : /\ published[i].event = bets[b].event
                                /\ StatusOf[published[i].new_state] = bets[b].status
    BY <2>1, <2>2, <2>3 DEF Justified
  <2>5. published[i] \in Message
    BY DEF TypeOK, LP_TypeOK, MessageIds
  <2>6. published[i].epoch = 0
    BY <2>5, MaxEpochAssumption DEF AnnouncementInv, NoneFromTheFuture, Message
  <2>7. store[bets[b].event].state = published[i].new_state
    BY <2>4, <2>6 DEF AnnouncementInv, AnnouncedIsStored
  <2> QED BY <2>4, <2>5, <2>7 DEF Finished, Message
<1> QED BY <1>1, SystemTypeCorrect, ImplementsLineProvider, AnnouncementInvariant,
           ReasonInvariant, PTL

-------------------------------------------------------------------------------
(* What an acknowledgement says *)

\* A handler that is about to ack has seen its own settle return.
AckInv == /\ acked \subseteq settled
          /\ \A h \in Handlers : hand[h].pc = "acking" => hand[h].msg \in settled

\* Only SettleReturns brings a handler to its ack, and only Ack drops a message.
THEOREM AckedOnlyAfterCommitAlways == Spec => []AckedOnlyAfterCommit
<1>1. Init => AckInv
  BY DEF Init, AckInv, Resting
<1>2. TypeOK /\ AckInv /\ [Next]_vars => AckInv'
  <2> SUFFICES ASSUME TypeOK, AckInv, [Next]_vars
               PROVE  AckInv'
    OBVIOUS
  <2> USE DEF AckInv, TypeOK
  <2>s. \A h \in Handlers : hand[h] \in Handling \cup {Resting}
    BY DEF WorkerTypeOK
  <2>d. DOMAIN hand = Handlers
    BY DEF WorkerTypeOK
  <2>1. ASSUME NEW h \in Handlers, NEW i \in ready, Deliver(h, i)
        PROVE  AckInv'
    BY <2>1, <2>d DEF Deliver
  <2>2. ASSUME NEW h \in Handlers, NEW n \in 1..MaxAttempts,
               hand[h] \in Attempting \cup Settling, AfterFailure(h, n),
               UNCHANGED <<acked, settled>>
        PROVE  AckInv'
    <3>1. PICK pc \in {"rejecting", "attempt"}, stale \in {NoSession, hand[h].sess} :
            hand' = [hand EXCEPT ![h].pc = pc, ![h].attempt = n, ![h].sess = stale]
      BY <2>2, FailureOutcome
    <3>2. \A g \in Handlers \ {h} : hand'[g] = hand[g]
      BY <3>1, <2>d
    <3>3. hand'[h].pc = pc
      BY <3>1, <2>2, <2>d DEF Attempting, Settling
    <3> QED BY <2>2, <3>2, <3>3
  <2>3. ASSUME NEW h \in Handlers, Refuse(h)
        PROVE  AckInv'
    <3>1. hand[h] \in Attempting
      BY <2>3, WorkerShapes DEF Refuse
    <3>2. hand'[h].pc = "rejecting" /\ \A g \in Handlers \ {h} : hand'[g] = hand[g]
      BY <2>3, <2>d, <3>1 DEF Refuse, Attempting
    <3> QED BY <2>3, <3>2 DEF Refuse, brokerVars
  <2>4. ASSUME NEW h \in Handlers, NEW s \in Sessions, StartSettle(h, s)
        PROVE  AckInv'
    <3>1. hand[h] \in Attempting
      BY <2>4, WorkerShapes DEF StartSettle
    <3>2. hand'[h].pc = "settling" /\ \A g \in Handlers \ {h} : hand'[g] = hand[g]
      BY <2>4, <2>d, <3>1 DEF StartSettle, Attempting
    <3>3. UNCHANGED <<acked, settled>>
      BY <2>4 DEF StartSettle, brokerVars
    <3> QED BY <3>2, <3>3
  <2>5. ASSUME NEW h \in Handlers, SettleReturns(h)
        PROVE  AckInv'
    <3>1. hand[h] \in Settling
      BY <2>5, WorkerShapes DEF SettleReturns
    <3>2. hand'[h].msg = hand[h].msg /\ \A g \in Handlers \ {h} : hand'[g] = hand[g]
      BY <2>5, <2>d, <3>1 DEF SettleReturns, Settling
    <3>3. acked' = acked /\ settled' = settled \cup {hand[h].msg}
      BY <2>5 DEF SettleReturns
    <3> QED BY <3>2, <3>3
  <2>6. ASSUME NEW h \in Handlers,
               SettleNeverStarts(h) \/ SettleRaises(h) \/ SettleLosesConnection(h)
        PROVE  AckInv'
    <3>1. CASE SettleNeverStarts(h)
      <4>1. hand[h] \in Attempting
        BY <3>1, WorkerShapes DEF SettleNeverStarts
      <4>2. hand[h].attempt + 1 \in 1..MaxAttempts
        BY <4>1 DEF Attempting, MaxAttempts
      <4> QED BY <2>2, <3>1, <4>1, <4>2 DEF SettleNeverStarts, brokerVars
    <3>2. CASE SettleRaises(h) \/ SettleLosesConnection(h)
      <4>1. hand[h] \in Settling
        BY <3>2, WorkerShapes DEF SettleRaises, SettleLosesConnection
      <4>2. hand[h].attempt \in 1..MaxAttempts
        BY <4>1 DEF Settling
      <4> QED BY <2>2, <3>2, <4>1, <4>2 DEF SettleRaises, SettleLosesConnection, brokerVars
    <3> QED BY <2>6, <3>1, <3>2
  <2>7. ASSUME NEW h \in Handlers, Ack(h) \/ Reject(h)
        PROVE  AckInv'
    BY <2>7, <2>d DEF Ack, Reject, Resting
  <2>8. CASE LoseBroker
    <3>1. \A h \in Handlers : hand'[h].pc = hand[h].pc /\ hand[h].pc = "acking" => hand'[h].msg = hand[h].msg
      <4> TAKE h \in Handlers
      <4>1. hand'[h] = [hand[h] EXCEPT !.tag = FALSE]
        BY <2>8 DEF LoseBroker
      <4> QED BY <4>1, <2>s DEF Handling, Attempting, Settling, Finishing, Resting
    <3>2. \A h \in Handlers : hand'[h].pc = hand[h].pc
      <4> TAKE h \in Handlers
      <4>1. hand'[h] = [hand[h] EXCEPT !.tag = FALSE]
        BY <2>8 DEF LoseBroker
      <4> QED BY <4>1, <2>s DEF Handling, Attempting, Settling, Finishing, Resting
    <3> QED BY <2>8, <3>1, <3>2 DEF LoseBroker
  <2>9. CASE Crash
    BY <2>9 DEF Crash, Resting
  <2>10. CASE UNCHANGED <<hand, acked, settled>>
    BY <2>10
  <2>11. \/ \E h \in Handlers : (\E i \in ready : Deliver(h, i)) \/ HandlerStep(h)
         \/ LoseBroker
         \/ Crash
         \/ UNCHANGED <<hand, acked, settled>>
    BY DEF Next, vars, brokerVars, workerVars, LPStep, Route, LoseMessage, LPRestart, ValidateBet,
           InsertBet, DropBet, ReconcilerStep, Tick, LookUp, LookUpFails, StartSweep,
           SweepNeverStarts, SweepReturns, SweepRaises, SweepLosesConnection, LockNextRow, EndOrphan
  <2> QED BY <2>1, <2>3, <2>4, <2>5, <2>6, <2>7, <2>8, <2>9, <2>10, <2>11 DEF HandlerStep
<1>3. AckInv => AckedOnlyAfterCommit
  BY DEF AckInv, AckedOnlyAfterCommit
<1> QED BY <1>1, <1>2, <1>3, SystemTypeCorrect, PTL DEF Spec
-------------------------------------------------------------------------------
(* The promise to the bettors: BettingPromise *)

\* BettingPromise's own copy of the vocabulary is this module's.
LEMMA SameBettingVocabulary ==
  /\ Betting!NoBet = NoBet
  /\ Betting!Outcomes = {StatusOf[t] : t \in TerminalStates}
  /\ Betting!Verdicts = Verdicts
  /\ \A e : Betting!PendingBet(e) = PendingBet(e)
  /\ \A e, v : Betting!SettledBet(e, v) = SettledBet(e, v)
<1>1. Betting!Verdicts = Verdicts /\ Betting!Outcomes = {StatusOf[t] : t \in TerminalStates}
  BY DEF Verdicts, Betting!Verdicts, Betting!Outcomes, StatusOf, Betting!StatusOf,
         TerminalStates, Betting!TerminalStates, SettledVia, Betting!SettledVia
<1> QED
  BY <1>1 DEF NoBet, Betting!NoBet, PendingBet, Betting!PendingBet,
              SettledBet, Betting!SettledBet

\* What a step does to requests and rows: it leaves both alone, or is one of five
\* actions, of which a commit touches nothing but its rows.
LEMMA BettingSteps ==
  ASSUME TypeOK, [Next]_vars
  PROVE  \/ UNCHANGED <<post, bets>>
         \/ \E b \in Bets : (\E e \in Events : ValidateBet(b, e)) \/ InsertBet(b) \/ DropBet(b)
         \/ Crash
         \/ \E s \in Sessions : Commit(s) /\ UNCHANGED <<lpVars, post>>
<1> USE DEF TypeOK
<1>1. ASSUME NEW h \in Handlers, SettleReturns(h)
      PROVE  \E s \in Sessions : Commit(s) /\ UNCHANGED <<lpVars, post>>
  <2>1. hand[h].sess \in Sessions
    BY <1>1, WorkerShapes DEF SettleReturns, Settling
  <2> QED BY <1>1, <2>1 DEF SettleReturns
<1>2. ASSUME SweepReturns
      PROVE  \E s \in Sessions : Commit(s) /\ UNCHANGED <<lpVars, post>>
  <2>1. rec.sess \in Sessions
    BY <1>2, WorkerShapes DEF SweepReturns, Sweeping
  <2> QED BY <1>2, <2>1 DEF SweepReturns
<1>3. ASSUME NEW s \in Sessions, EndOrphan(s)
      PROVE  (Commit(s) /\ UNCHANGED <<lpVars, post>>) \/ UNCHANGED <<post, bets>>
  BY <1>3 DEF EndOrphan, Rollback, workerVars
<1>4. ASSUME NEW h \in Handlers, HandlerStep(h)
      PROVE  SettleReturns(h) \/ UNCHANGED <<post, bets>>
  BY <1>4 DEF HandlerStep, Refuse, StartSettle, Begin, SettleNeverStarts, SettleRaises, Rollback,
              SettleLosesConnection, Ack, Reject, tableVars
<1>5. ASSUME ReconcilerStep
      PROVE  SweepReturns \/ UNCHANGED <<post, bets>>
  BY <1>5 DEF ReconcilerStep, Tick, LookUp, LookUpFails, StartSweep, Begin, SweepNeverStarts,
              SweepRaises, Rollback, SweepLosesConnection, tableVars
<1>6. \/ UNCHANGED <<post, bets>>
      \/ \E b \in Bets : (\E e \in Events : ValidateBet(b, e)) \/ InsertBet(b) \/ DropBet(b)
      \/ \E h \in Handlers : HandlerStep(h)
      \/ ReconcilerStep
      \/ \E s \in Sessions : EndOrphan(s)
      \/ Crash
  BY DEF Next, vars, tableVars, workerVars, LPStep, Route, LoseMessage, LPRestart,
         Deliver, LockNextRow, VisitRow, LoseBroker
<1> QED BY <1>1, <1>2, <1>3, <1>4, <1>5, <1>6

\* While requests and rows stay, whatever line_provider does is a step of the market.
LEMMA MarketMoves ==
  ASSUME LP_TypeOK, MarketShut', [LP_Next]_lpVars, UNCHANGED <<post, bets>>
  PROVE  Betting!Market
<1>1. ActiveEvents' \subseteq Events
  BY DEF ActiveEvents
<1>2. [e \in Events |-> Announced(e)]' \in [Events -> SUBSET Betting!Outcomes]
  BY SameBettingVocabulary DEF MarketShut
<1>3. epoch' \in Nat /\ epoch <= epoch'
  <2>1. epoch \in Nat
    BY MaxEpochAssumption DEF LP_TypeOK
  <2> QED BY <2>1, LogOnlyGrows
<1>4. ASSUME NEW e \in Events
      PROVE  /\ Announced(e) \subseteq Announced(e)'
             /\ (epoch' = 0 /\ Announced(e)' # {}) =>
                  (e \notin ActiveEvents' /\ \E o \in Betting!Outcomes : Announced(e)' = {o})
  BY AnnouncedGrows, SameBettingVocabulary DEF MarketShut, ActiveEvents
<1> QED BY <1>1, <1>2, <1>3, <1>4 DEF Betting!Market

\* A commit is one verdict for the rows its session has locked, and the session has
\* its verdict from a message or from an answer of line_provider.
LEMMA CommitSettles ==
  ASSUME TypeOK, LockDiscipline, OpenJustified,
         NEW s \in Sessions, Commit(s), UNCHANGED <<lpVars, post>>
  PROVE  Betting!Settle(sess[s].ids, sess[s].event, sess[s].verdict)
<1> DEFINE e == sess[s].event
           v == sess[s].verdict
<1>1. sess[s] \in Transactions
  BY OpenIsTransaction DEF Commit, Selected, TypeOK
<1>2. e \in Events /\ v \in Verdicts /\ sess[s].pc = "open"
  BY <1>1 DEF Transactions
<1>3. Justified(e, v)
  BY <1>2 DEF OpenJustified
<1>4. v.status = "CANCELLED" => epoch > 0
  BY <1>3 DEF Justified
<1>5. ASSUME v.status \in Betting!Outcomes
      PROVE  v.status \in Announced(e)
  <2>1. v.status \in {"WON", "LOST"}
    BY <1>5, SameBettingVocabulary DEF StatusOf, TerminalStates
  <2>2. PICK i \in MessageIds : published[i].event = e /\ StatusOf[published[i].new_state] = v.status
    BY <1>3, <2>1 DEF Justified
  <2> QED BY <2>2 DEF Announced
<1>6. \A b \in sess[s].ids : bets[b] = Betting!PendingBet(e)
  BY SameBettingVocabulary DEF LockDiscipline
<1>7. bets' = [b \in Bets |-> IF b \in sess[s].ids THEN Betting!SettledBet(e, v) ELSE bets[b]]
  BY SameBettingVocabulary DEF Commit
<1>8. UNCHANGED <<ActiveEvents, [f \in Events |-> Announced(f)], epoch>>
  BY DEF lpVars, ActiveEvents, Bettable, Announced, MessageIds
<1>9. UNCHANGED [b \in Bets |-> {post[b]} \ {NoEventId}]
  OBVIOUS
<1> HIDE DEF e, v
<1> QED BY <1>2, <1>4, <1>5, <1>6, <1>7, <1>8, <1>9
        DEF Betting!Settle, Betting!marketVars, e, v

\* The system implements BettingPromise. A validated request is an Accept, its INSERT
\* a Place, a dropped request or a crash an Abandon, a commit a Settle; everything
\* else is a step of the market, or nothing.
THEOREM SystemKeepsBettingPromise == Spec => KeepsBettingPromise
<1>1. Init => Betting!Init
  <2> SUFFICES ASSUME Init
               PROVE  Betting!Init
    OBVIOUS
  <2>1. ActiveEvents = {}
    BY DEF Init, LP_Init, ActiveEvents, Bettable
  <2>2. [e \in Events |-> Announced(e)] = [e \in Events |-> {}]
    BY DEF Init, LP_Init, Announced, MessageIds
  <2>3. [b \in Bets |-> {post[b]} \ {NoEventId}] = [b \in Bets |-> {}]
    BY DEF Init
  <2>4. epoch = 0 /\ bets = [b \in Bets |-> Betting!NoBet]
    BY SameBettingVocabulary DEF Init, LP_Init, BT_Init
  <2> QED BY <2>1, <2>2, <2>3, <2>4 DEF Betting!Init
<1>2. TypeOK /\ LockDiscipline /\ OpenJustified /\ MarketShut' /\ [Next]_vars
        => [Betting!Next]_<<Betting!marketVars, [b \in Bets |-> {post[b]} \ {NoEventId}], bets>>
  <2> SUFFICES ASSUME TypeOK, LockDiscipline, OpenJustified, MarketShut', [Next]_vars
               PROVE  Betting!Next
    OBVIOUS
  <2> USE DEF TypeOK, WorkerTypeOK
  <2> DEFINE intents == [b \in Bets |-> {post[b]} \ {NoEventId}]
  <2>1. CASE UNCHANGED <<post, bets>>
    BY <2>1, MarketMoves, LineProviderStep DEF Betting!Next
  <2>u. ASSUME UNCHANGED lpVars
        PROVE  UNCHANGED Betting!marketVars
    BY <2>u DEF lpVars, Betting!marketVars, ActiveEvents, Bettable, Announced, MessageIds
  <2>2. ASSUME NEW b \in Bets, NEW e \in Events, ValidateBet(b, e)
        PROVE  Betting!Accept(b, e)
    <3>1. e \in ActiveEvents /\ bets[b] = Betting!NoBet
      BY <2>2, SameBettingVocabulary DEF ValidateBet, ActiveEvents
    <3>2. intents[b] = {} /\ intents' = [intents EXCEPT ![b] = {e}]
      BY <2>2, NothingAssumption DEF ValidateBet
    <3>3. UNCHANGED <<Betting!marketVars, bets>>
      BY <2>2, <2>u DEF ValidateBet, tableVars
    <3> QED BY <3>1, <3>2, <3>3 DEF Betting!Accept
  <2>3. ASSUME NEW b \in Bets, InsertBet(b)
        PROVE  \E e \in Events : Betting!Place(b, e)
    <3> PICK e \in Events : e = post[b]
      BY <2>3 DEF InsertBet
    <3>1. intents[b] = {e} /\ intents' = [intents EXCEPT ![b] = {}]
      BY <2>3, NothingAssumption DEF InsertBet
    <3>2. /\ bets[b] = Betting!NoBet
          /\ bets' = [bets EXCEPT ![b] = Betting!PendingBet(e)]
      BY <2>3, SameBettingVocabulary DEF InsertBet, Insert
    <3>3. UNCHANGED Betting!marketVars
      BY <2>3, <2>u DEF InsertBet
    <3> QED BY <3>1, <3>2, <3>3 DEF Betting!Place
  <2>4. ASSUME NEW b \in Bets, DropBet(b)
        PROVE  Betting!Abandon({b})
    <3>1. intents' = [c \in Bets |-> IF c \in {b} THEN {} ELSE intents[c]]
      BY <2>4 DEF DropBet
    <3>2. UNCHANGED <<Betting!marketVars, bets>>
      BY <2>4, <2>u DEF DropBet, tableVars
    <3> QED BY <3>1, <3>2 DEF Betting!Abandon
  <2>5. ASSUME Crash
        PROVE  \E B \in SUBSET Bets : Betting!Abandon(B)
    <3>1. PICK sent \in SUBSET Bets :
            post' = [c \in Bets |-> IF c \in sent THEN post[c] ELSE NoEventId]
      BY <2>5 DEF Crash
    <3>2. intents' = [c \in Bets |-> IF c \in Bets \ sent THEN {} ELSE intents[c]]
      BY <3>1
    <3>3. UNCHANGED <<Betting!marketVars, bets>>
      BY <2>5, <2>u DEF Crash, tableVars
    <3>4. Betting!Abandon(Bets \ sent)
      BY <3>2, <3>3 DEF Betting!Abandon
    <3> QED BY <3>4
  <2>6. ASSUME NEW s \in Sessions, Commit(s), UNCHANGED <<lpVars, post>>
        PROVE  Betting!Next
    <3>1. sess[s] \in Transactions
      BY <2>6, OpenIsTransaction DEF Commit, Selected
    <3>2. /\ sess[s].ids \in SUBSET Bets
          /\ sess[s].event \in Events
          /\ sess[s].verdict \in Betting!Verdicts
      BY <3>1, SameBettingVocabulary DEF Transactions
    <3> QED BY <2>6, <3>2, CommitSettles DEF Betting!Next
  <2>7. ASSUME NEW b \in Bets, NEW e \in Events, Betting!Accept(b, e) \/ Betting!Place(b, e)
        PROVE  Betting!Next
    BY <2>7 DEF Betting!Next
  <2>8. ASSUME NEW B \in SUBSET Bets, Betting!Abandon(B)
        PROVE  Betting!Next
    BY <2>8 DEF Betting!Next
  <2>9. ASSUME NEW b \in Bets, DropBet(b)
        PROVE  Betting!Next
    BY <2>4, <2>8, <2>9
  <2>10. CASE Crash
    BY <2>5, <2>8, <2>10
  <2>11. ASSUME NEW b \in Bets, (\E e \in Events : ValidateBet(b, e)) \/ InsertBet(b)
         PROVE  Betting!Next
    BY <2>2, <2>3, <2>7, <2>11
  <2>12. \/ UNCHANGED <<post, bets>>
         \/ \E b \in Bets : (\E e \in Events : ValidateBet(b, e)) \/ InsertBet(b) \/ DropBet(b)
         \/ Crash
         \/ \E s \in Sessions : Commit(s) /\ UNCHANGED <<lpVars, post>>
    BY BettingSteps
  <2> HIDE DEF TypeOK, WorkerTypeOK, intents
  <2> QED BY <2>1, <2>6, <2>9, <2>10, <2>11, <2>12
<1>3. ReasonInv => OpenJustified
  BY DEF ReasonInv
<1> QED BY <1>1, <1>2, <1>3, SystemTypeCorrect, ImplementsTable, LockDisciplineHolds,
           ReasonInvariant, ImplementsLineProvider, OutcomeEndsBetting, PTL
        DEF Spec, KeepsBettingPromise, Betting!Spec

-------------------------------------------------------------------------------
(* What the promises are worth *)

\* BettingPromise is the stronger promise: it implies BetLedger's, for any market
\* and any requests.
THEOREM BettingImpliesLedger == KeepsBettingPromise => KeepsLedgerPromise
<1>1. Betting!Init => LedgerPromise!Init
  BY SameVocabulary, SameBettingVocabulary DEF Betting!Init, LedgerPromise!Init
<1>2. ASSUME [Betting!Next]_<<Betting!marketVars, [b \in Bets |-> {post[b]} \ {NoEventId}], bets>>
      PROVE  [LedgerPromise!Next]_bets
  <2>1. ASSUME NEW b \in Bets, NEW e \in Events, Betting!Place(b, e)
        PROVE  LedgerPromise!Place(b, e)
    BY <2>1, SameVocabulary, SameBettingVocabulary DEF Betting!Place, LedgerPromise!Place
  <2>2. ASSUME NEW B \in SUBSET Bets, NEW e \in Events, NEW v \in Verdicts,
               Betting!Settle(B, e, v)
        PROVE  LedgerPromise!Settle(B, e, v)
    BY <2>2, SameVocabulary, SameBettingVocabulary DEF Betting!Settle, LedgerPromise!Settle
  <2>3. ASSUME \/ Betting!Market
               \/ \E b \in Bets, e \in Events : Betting!Accept(b, e)
               \/ \E B \in SUBSET Bets : Betting!Abandon(B)
        PROVE  UNCHANGED bets
    BY <2>3 DEF Betting!Market, Betting!Accept, Betting!Abandon
  <2>4. \/ UNCHANGED bets
        \/ \E b \in Bets, e \in Events : Betting!Place(b, e)
        \/ \E B \in SUBSET Bets, e \in Events, v \in Verdicts : Betting!Settle(B, e, v)
    BY <1>2, <2>3, SameBettingVocabulary DEF Betting!Next
  <2> QED BY <2>1, <2>2, <2>4, SameVocabulary DEF LedgerPromise!Next
<1> QED BY <1>1, <1>2, PTL
        DEF KeepsBettingPromise, Betting!Spec, KeepsLedgerPromise, LedgerPromise!Spec

\* SettledForAReason in the terms of the promise.
Explained ==
  \A b \in Bets :
    /\ \A e \in Events :
         (bets[b].status \in {"WON", "LOST"} /\ bets[b].event = e)
           => bets[b].status \in Announced(e)
    /\ bets[b].status = "CANCELLED" => epoch > 0

LEMMA ExplainedStep ==
  ASSUME LedgerTypeOK, epoch \in Nat, Explained,
         [Betting!Next]_<<Betting!marketVars, [b \in Bets |-> {post[b]} \ {NoEventId}], bets>>
  PROVE  epoch' \in Nat /\ Explained'
<1>1. CASE Betting!Market
  <2>1. epoch' \in Nat /\ epoch <= epoch' /\ UNCHANGED bets
    BY <1>1 DEF Betting!Market
  <2>2. \A e \in Events : Announced(e) \subseteq Announced(e)'
    BY <1>1 DEF Betting!Market
  <2> QED BY <2>1, <2>2 DEF Explained
<1>2. ASSUME UNCHANGED Betting!marketVars
      PROVE  epoch' = epoch /\ \A e \in Events : Announced(e)' = Announced(e)
  <2> DEFINE said == [e \in Events |-> Announced(e)]
  <2>1. epoch' = epoch /\ said' = said
    BY <1>2 DEF Betting!marketVars
  <2>2. \A e \in Events : said[e] = Announced(e) /\ (said[e])' = Announced(e)'
    OBVIOUS
  <2> HIDE DEF said
  <2> QED BY <2>1, <2>2
<1>3. ASSUME UNCHANGED <<Betting!marketVars, bets>>
      PROVE  epoch' \in Nat /\ Explained'
  BY <1>2, <1>3 DEF Explained
<1>4. ASSUME NEW b \in Bets, NEW e \in Events, Betting!Place(b, e)
      PROVE  epoch' \in Nat /\ Explained'
  <2>1. bets' = [bets EXCEPT ![b] = PendingBet(e)] /\ UNCHANGED Betting!marketVars
    BY <1>4, SameBettingVocabulary DEF Betting!Place
  <2>2. /\ \A c \in Bets \ {b} : bets'[c] = bets[c]
        /\ bets'[b].status = "PENDING"
    BY <2>1 DEF LedgerTypeOK, PendingBet
  <2> QED BY <1>2, <2>1, <2>2 DEF Explained
<1>5. ASSUME NEW B \in SUBSET Bets, NEW e \in Events, NEW v \in Verdicts, Betting!Settle(B, e, v)
      PROVE  epoch' \in Nat /\ Explained'
  <2>1. /\ bets' = [b \in Bets |-> IF b \in B THEN SettledBet(e, v) ELSE bets[b]]
        /\ UNCHANGED Betting!marketVars
        /\ v.status \in Betting!Outcomes => v.status \in Announced(e)
        /\ v.status = "CANCELLED" => epoch > 0
    BY <1>5, SameBettingVocabulary DEF Betting!Settle
  <2>2. v.status \in {"WON", "LOST"} => v.status \in Announced(e)
    BY <2>1, SameBettingVocabulary DEF StatusOf, TerminalStates
  <2>3. ASSUME NEW b \in B
        PROVE  bets'[b].status = v.status /\ bets'[b].event = e
    BY <2>1 DEF SettledBet
  <2>4. \A b \in Bets \ B : bets'[b] = bets[b]
    BY <2>1
  <2> QED BY <1>2, <2>1, <2>2, <2>3, <2>4 DEF Explained
<1>6. \/ Betting!Market
      \/ UNCHANGED <<Betting!marketVars, bets>>
      \/ \E b \in Bets, e \in Events : Betting!Place(b, e)
      \/ \E B \in SUBSET Bets, e \in Events, v \in Verdicts : Betting!Settle(B, e, v)
  BY SameBettingVocabulary DEF Betting!Next, Betting!Accept, Betting!Abandon
<1> QED BY <1>1, <1>3, <1>4, <1>5, <1>6

\* The reasons are in the promise: whoever keeps BettingPromise has for each win or
\* loss the announcement it came from and for each cancel a restart, with nothing
\* assumed of messages, lookups or transactions.
THEOREM BettingExplainsVerdicts == KeepsBettingPromise => []SettledForAReason
<1>1. Betting!Init => epoch \in Nat /\ Explained
  BY SameBettingVocabulary DEF Betting!Init, Explained, NoBet
<1>2. LedgerTypeOK /\ epoch \in Nat /\ Explained
      /\ [Betting!Next]_<<Betting!marketVars, [b \in Bets |-> {post[b]} \ {NoEventId}], bets>>
      => (epoch \in Nat /\ Explained)'
  BY ExplainedStep
<1>3. LedgerTypeOK /\ Explained => SettledForAReason
  <2> SUFFICES ASSUME LedgerTypeOK, Explained, NEW b \in Bets, bets[b].status \in {"WON", "LOST"}
               PROVE  \E i \in MessageIds : /\ published[i].event = bets[b].event
                                            /\ StatusOf[published[i].new_state] = bets[b].status
    BY DEF SettledForAReason, Explained
  <2>1. bets[b].event \in Events
    BY DEF LedgerTypeOK, Rows, PendingRows, SettledRows, NoBet, PendingBet, SettledBet
  <2>2. PICK e \in Events : e = bets[b].event
    BY <2>1
  <2>3. bets[b].status \in Announced(e)
    BY <2>2 DEF Explained
  <2> QED BY <2>2, <2>3 DEF Announced
<1> QED BY <1>1, <1>2, <1>3, BettingImpliesLedger, LedgerTypeCorrect, PTL
        DEF KeepsBettingPromise, Betting!Spec

\* Until a restart, two bets on one event that are both settled have one outcome.
OneOutcome ==
  epoch = 0 =>
    \A b, c \in Bets :
      (/\ bets[b].status \notin {"ABSENT", "PENDING"}
       /\ bets[c].status \notin {"ABSENT", "PENDING"}
       /\ bets[b].event = bets[c].event) => bets[b].status = bets[c].status

\* AgreesWithLineProvider ties every verdict to the store; so bettors on one event
\* win or lose together, whether the message or the reconciler settled them.
THEOREM OneOutcomeAlways == Spec => []OneOutcome
<1>1. AgreesWithLineProvider => OneOutcome
  BY DEF AgreesWithLineProvider, OneOutcome
<1> QED BY <1>1, AgreesWithLineProviderAlways, PTL

\* A commit of the first incarnation writes what line_provider's store says.
LEMMA FirstCommitAgrees ==
  ASSUME TypeOK, LockDiscipline, AgreesWithLineProvider', epoch = 0,
         NEW s \in Sessions, Commit(s), UNCHANGED lpVars, NEW b \in Bets, bets[b].status = "PENDING"
  PROVE  \/ bets'[b] = bets[b]
         \/ /\ bets'[b].status # "CANCELLED"
            /\ store[bets[b].event].state # "NEW"
<1>1. UNCHANGED <<store, epoch>>
  BY DEF lpVars
<1>2. CASE b \in sess[s].ids
  <2>1. sess[s] \in Transactions
    BY OpenIsTransaction DEF Commit, Selected, TypeOK
  <2>2. /\ bets'[b].status = sess[s].verdict.status
        /\ bets'[b].event = bets[b].event
    <3>1. bets'[b] = SettledBet(sess[s].event, sess[s].verdict)
      BY <1>2 DEF Commit
    <3>2. bets[b] = PendingBet(sess[s].event)
      BY <1>2 DEF LockDiscipline
    <3> QED BY <3>1, <3>2 DEF PendingBet, SettledBet
  <2>3. sess[s].verdict.status \notin {"ABSENT", "PENDING"}
    BY <2>1 DEF Transactions, Verdicts, StatusOf, TerminalStates
  <2>4. /\ store[bets[b].event].state \in TerminalStates
        /\ bets'[b].status = StatusOf[store[bets[b].event].state]
    BY <1>1, <2>2, <2>3 DEF AgreesWithLineProvider, Finished
  <2> QED BY <2>4 DEF StatusOf, TerminalStates
<1>3. CASE b \notin sess[s].ids
  BY <1>3 DEF Commit
<1> QED BY <1>2, <1>3

\* Two sentences of the docs that a restart of line_provider refutes (the runs
\* bsw_stale_cancel and bsw_stale_message): until the first restart they hold. No
\* bet is cancelled whose event exists, and none is won or lost on a NEW event.
THEOREM DocsHoldUntilRestart ==
  Spec => [][epoch = 0 => CancelsWhatIsGone /\ SettlesWhatIsFinished]_vars
<1>1. TypeOK /\ LockDiscipline /\ AgreesWithLineProvider' /\ [Next]_vars
        => [epoch = 0 => CancelsWhatIsGone /\ SettlesWhatIsFinished]_vars
  <2> SUFFICES ASSUME TypeOK, LockDiscipline, AgreesWithLineProvider', [Next]_vars, epoch = 0,
                      NEW b \in Bets, bets[b].status = "PENDING"
               PROVE  \/ bets'[b] = bets[b]
                      \/ /\ bets'[b].status # "CANCELLED"
                         /\ store[bets[b].event].state # "NEW"
    BY DEF CancelsWhatIsGone, SettlesWhatIsFinished
  <2>1. ASSUME NEW c \in Bets, (\E e \in Events : ValidateBet(c, e)) \/ InsertBet(c) \/ DropBet(c)
        PROVE  bets'[b] = bets[b]
    BY <2>1 DEF ValidateBet, InsertBet, Insert, DropBet, tableVars, TypeOK, BT_TypeOK, NoBet
  <2>2. CASE Crash
    BY <2>2 DEF Crash, tableVars
  <2>3. ASSUME NEW s \in Sessions, Commit(s), UNCHANGED <<lpVars, post>>
        PROVE  \/ bets'[b] = bets[b]
               \/ /\ bets'[b].status # "CANCELLED"
                  /\ store[bets[b].event].state # "NEW"
    BY <2>3, FirstCommitAgrees
  <2> QED BY <2>1, <2>2, <2>3, BettingSteps
<1> QED BY <1>1, SystemTypeCorrect, ImplementsTable, LockDisciplineHolds,
           AgreesWithLineProviderAlways, PTL DEF Spec

\* With finitely many events there are at most MaxMessages messages, in the whole
\* system too: a bound over ids 1..MaxMessages, as in QueueDrains, is over them all.
THEOREM MessagesAreCounted ==
  ASSUME IsFiniteSet(Events)
  PROVE  Spec => [](MessageIds \subseteq 1..MaxMessages)
<1>1. LP_TypeOK /\ MessageIds = 1..Len(published)
        /\ Len(published) <= Cardinality(Events) * (MaxEpoch + 1)
      => MessageIds \subseteq 1..MaxMessages
  <2> SUFFICES ASSUME LP_TypeOK, MessageIds = 1..Len(published),
                      Len(published) <= MaxMessages
               PROVE  MessageIds \subseteq 1..MaxMessages
    BY DEF MaxMessages
  <2>1. MaxMessages \in Nat
    BY FS_CardinalityType, MaxEpochAssumption DEF MaxMessages
  <2>2. Len(published) \in Nat
    BY DEF LP_TypeOK
  <2> HIDE DEF MaxMessages
  <2> QED BY <2>1, <2>2
<1> QED BY <1>1, ImplementsLineProvider, LPTypeCorrect, LogIsBounded, PTL
===============================================================================
