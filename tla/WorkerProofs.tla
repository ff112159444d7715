----------------------------- MODULE WorkerProofs -----------------------------
(***************************************************************************)
(* Theorems about who holds what in the whole system: which worker a       *)
(* session belongs to, and where a message is. Both are inductive with the *)
(* types; the work is in what a step does to the one worker it concerns    *)
(* and in that every other worker stays apart from it.                     *)
(***************************************************************************)
EXTENDS BswProofs

\* A failed attempt keeps the handler's message and tag, and uses its session no more.
LEMMA FailureFields ==
  ASSUME LP_TypeOK, WorkerTypeOK, NEW h \in Handlers, NEW n,
         hand[h] \in Attempting \cup Settling, AfterFailure(h, n)
  PROVE  /\ \A g \in Handlers \ {h} : hand'[g] = hand[g]
         /\ hand'[h].msg = hand[h].msg /\ hand'[h].tag = hand[h].tag
         /\ hand'[h].pc # "settling"
<1>1. PICK pc \in {"rejecting", "attempt"}, stale \in {NoSession, hand[h].sess} :
        hand' = [hand EXCEPT ![h].pc = pc, ![h].attempt = n, ![h].sess = stale]
  BY FailureOutcome
<1>2. \A g \in Handlers \ {h} : hand'[g] = hand[g]
  BY <1>1 DEF WorkerTypeOK
<1>3. hand'[h] = [hand[h] EXCEPT !.pc = pc, !.attempt = n, !.sess = stale]
  BY <1>1 DEF WorkerTypeOK
<1> QED BY <1>2, <1>3 DEF Attempting, Settling

\* What a step of a handler leaves of its record.
LEMMA HandlerFields ==
  ASSUME LP_TypeOK, WorkerTypeOK, NEW h \in Handlers, HandlerStep(h)
  PROVE  /\ \A g \in Handlers \ {h} : hand'[g] = hand[g]
         /\ \/ hand'[h].msg = hand[h].msg /\ hand'[h].tag = hand[h].tag
            \/ Ack(h) \/ Reject(h)
         /\ \/ hand'[h].pc # "settling"
            \/ \E s \in Sessions : StartSettle(h, s)
<1>1. CASE Refuse(h)
  <2>1. hand[h] \in Attempting
    BY <1>1, WorkerShapes DEF Refuse
  <2>2. hand'[h] = [hand[h] EXCEPT !.pc = "rejecting"]
    BY <1>1 DEF Refuse, WorkerTypeOK
  <2> QED BY <1>1, <2>1, <2>2 DEF Refuse, WorkerTypeOK, Attempting
<1>2. ASSUME NEW s \in Sessions, StartSettle(h, s)
      PROVE  /\ \A g \in Handlers \ {h} : hand'[g] = hand[g]
             /\ hand'[h].msg = hand[h].msg /\ hand'[h].tag = hand[h].tag
  <2>1. hand[h] \in Attempting
    BY <1>2, WorkerShapes DEF StartSettle
  <2>2. hand'[h] = [hand[h] EXCEPT !.pc = "settling", !.attempt = @ + 1, !.sess = s]
    BY <1>2 DEF StartSettle, WorkerTypeOK
  <2> QED BY <1>2, <2>1, <2>2 DEF StartSettle, WorkerTypeOK, Attempting
<1>3. CASE SettleNeverStarts(h)
  <2>1. hand[h] \in Attempting
    BY <1>3, WorkerShapes DEF SettleNeverStarts
  <2> QED BY <1>3, <2>1, FailureFields DEF SettleNeverStarts
<1>4. CASE SettleReturns(h)
  <2>1. hand[h] \in Settling
    BY <1>4, WorkerShapes DEF SettleReturns
  <2>2. hand'[h] = [hand[h] EXCEPT !.pc = "acking", !.sess = NoSession]
    BY <1>4 DEF SettleReturns, WorkerTypeOK
  <2> QED BY <1>4, <2>1, <2>2 DEF SettleReturns, WorkerTypeOK, Settling
<1>5. CASE SettleRaises(h) \/ SettleLosesConnection(h)
  <2>1. hand[h] \in Settling
    BY <1>5, WorkerShapes DEF SettleRaises, SettleLosesConnection
  <2> QED BY <1>5, <2>1, FailureFields DEF SettleRaises, SettleLosesConnection
<1>6. CASE Ack(h) \/ Reject(h)
  BY <1>6 DEF Ack, Reject, Resting, WorkerTypeOK
<1> QED BY <1>1, <1>2, <1>3, <1>4, <1>5, <1>6 DEF HandlerStep

\* A lost broker leaves a handler everything but its tag.
LEMMA BrokenTags ==
  ASSUME WorkerTypeOK, LoseBroker, NEW h \in Handlers
  PROVE  /\ hand'[h].pc = hand[h].pc /\ hand'[h].sess = hand[h].sess
         /\ hand'[h].tag = FALSE
         /\ hand[h].sess # NoSession => hand'[h].msg = hand[h].msg
<1>1. hand'[h] = [hand[h] EXCEPT !.tag = FALSE]
  BY DEF LoseBroker
<1>2. CASE hand[h] = Resting
  BY <1>1, <1>2 DEF Resting
<1>3. CASE hand[h] \in Handling
  BY <1>1, <1>3 DEF Handling, Attempting, Settling, Finishing
<1> QED BY <1>2, <1>3 DEF WorkerTypeOK
-------------------------------------------------------------------------------
(* Sessions *)

\* A handler uses a session only while it settles.
LEMMA UsedWhileSettling ==
  ASSUME NEW h \in Handlers
  PROVE  /\ Using(h) # NoSession => hand[h].pc = "settling"
         /\ hand[h].pc = "settling" => Using(h) = hand[h].sess
         /\ Using(h)' # NoSession => hand'[h].pc = "settling"
         /\ hand'[h].pc = "settling" => Using(h)' = hand'[h].sess
         /\ hand'[h] = hand[h] => Using(h)' = Using(h)
BY DEF Using

LEMMA SameHandsUseTheSame ==
  ASSUME UNCHANGED <<hand, rec>>
  PROVE  /\ \A h \in Handlers : Using(h)' = Using(h)
         /\ Owned' = Owned
BY DEF Using, Owned

\* What a step of a handler does to the sessions in use.
LEMMA UsedAfterStep ==
  ASSUME LP_TypeOK, WorkerTypeOK, NEW h \in Handlers, HandlerStep(h)
  PROVE  /\ \A g \in Handlers \ {h} : hand'[g] = hand[g] /\ Using(g)' = Using(g)
         /\ Using(h)' = NoSession \/ \E s \in Sessions : StartSettle(h, s)
BY HandlerFields, UsedWhileSettling

\* In a step that opens no transaction for a worker, the workers that keep their
\* session keep it open.
LEMMA SessionsStand ==
  ASSUME LP_TypeOK, WorkerTypeOK, SessionsHaveOneClient, [LP_Next]_lpVars,
         \A h \in Handlers : \/ Using(h)' = NoSession
                             \/ /\ Using(h)' = Using(h) /\ hand'[h].pc = hand[h].pc
                                /\ Using(h) # NoSession => hand'[h].msg = hand[h].msg,
         \/ rec'.sess = NoSession
         \/ rec'.sess = rec.sess /\ rec'.pc = rec.pc /\ rec'.event = rec.event,
         \A s \in Owned' \ {NoSession} :
           sess[s].pc = "open" => sess'[s].pc = "open" /\ sess'[s].event = sess[s].event
  PROVE  SessionsHaveOneClient'
<1>1. ASSUME NEW h \in Handlers, Using(h)' # NoSession
      PROVE  /\ sess'[Using(h)'].pc = "open"
             /\ sess'[Using(h)'].event = published'[hand'[h].msg].event
             /\ Using(h)' # rec'.sess
             /\ \A g \in Handlers \ {h} : Using(g)' # Using(h)'
  <2>1. /\ Using(h)' = Using(h) /\ hand'[h].pc = hand[h].pc /\ hand'[h].msg = hand[h].msg
        /\ hand[h].pc = "settling" /\ sess[Using(h)].pc = "open"
        /\ sess[Using(h)].event = published[hand[h].msg].event
    BY <1>1, UsedWhileSettling DEF SessionsHaveOneClient
  <2>2. Using(h)' \in Owned' \ {NoSession}
    BY <1>1 DEF Owned
  <2>3. hand[h].msg \in MessageIds
    BY <2>1, WorkerShapes DEF Settling
  <2>4. published'[hand[h].msg] = published[hand[h].msg]
    BY <2>3, LogOnlyGrows
  <2>5. Using(h)' # rec'.sess
    BY <1>1, <2>1 DEF SessionsHaveOneClient
  <2>6. \A g \in Handlers \ {h} : Using(g)' # Using(h)'
    BY <1>1, <2>1 DEF SessionsHaveOneClient
  <2> QED BY <2>1, <2>2, <2>4, <2>5, <2>6
<1>2. ASSUME rec'.sess # NoSession
      PROVE  /\ rec'.pc = "settling"
             /\ sess'[rec'.sess].pc = "open"
             /\ sess'[rec'.sess].event = rec'.event
  <2>1. /\ rec'.sess = rec.sess /\ rec'.pc = rec.pc /\ rec'.event = rec.event
        /\ rec.pc = "settling" /\ sess[rec.sess].pc = "open"
        /\ sess[rec.sess].event = rec.event
    BY <1>2 DEF SessionsHaveOneClient
  <2>2. rec'.sess \in Owned' \ {NoSession}
    BY <1>2 DEF Owned
  <2> QED BY <2>1, <2>2
<1> QED BY <1>1, <1>2 DEF SessionsHaveOneClient

\* A commit or a rollback ends the transaction of its own session only.
LEMMA OthersStayOpen ==
  ASSUME BT_TypeOK, NEW t \in Sessions, Commit(t) \/ Rollback(t)
  PROVE  \A s \in Sessions \ {t} : sess'[s] = sess[s]
BY DEF Commit, Rollback, BT_TypeOK

\* A worker that opens a transaction takes a session nobody has.
LEMMA BegunIsFree ==
  ASSUME BT_TypeOK, WorkerTypeOK, SessionsHaveOneClient,
         NEW t \in Sessions, NEW e, NEW v, Begin(t, e, v)
  PROVE  /\ sess'[t].pc = "open" /\ sess'[t].event = e
         /\ t \notin Owned
         /\ \A s \in Sessions \ {t} : sess'[s] = sess[s]
<1>1. sess[t].pc # "open"
  BY DEF Begin, Idle
<1>2. t # NoSession
  BY NothingAssumption
<1>3. t \notin Owned
  BY <1>1, <1>2 DEF Owned, SessionsHaveOneClient
<1> QED BY <1>3 DEF Begin, BT_TypeOK

LEMMA OwnedAreSessions ==
  ASSUME WorkerTypeOK
  PROVE  /\ Owned \subseteq Sessions \cup {NoSession}
         /\ \A h \in Handlers : Using(h) \in Sessions \cup {NoSession}
         /\ rec.sess \in Sessions \cup {NoSession}
<1>1. \A h \in Handlers : Using(h) \in Sessions \cup {NoSession}
  BY DEF WorkerTypeOK, Handling, Attempting, Settling, Finishing, Resting, Using
<1>2. rec.sess \in Sessions \cup {NoSession}
  BY DEF WorkerTypeOK, Listing, Deciding, Sweeping
<1> QED BY <1>1, <1>2 DEF Owned

\* A handler starts to settle.
LEMMA StartSettleTakes ==
  ASSUME TypeOK, SessionsHaveOneClient, [Next]_vars,
         NEW h \in Handlers, NEW t \in Sessions, StartSettle(h, t)
  PROVE  SessionsHaveOneClient'
<1> USE DEF TypeOK
<1>1. /\ sess'[t].pc = "open" /\ sess'[t].event = published[hand[h].msg].event
      /\ t \notin Owned
      /\ \A s \in Sessions \ {t} : sess'[s] = sess[s]
  BY BegunIsFree DEF StartSettle
<1>2. hand[h] \in Attempting /\ hand[h].msg \in MessageIds
  BY WorkerShapes DEF StartSettle, Attempting
<1>3. /\ hand'[h].pc = "settling" /\ Using(h)' = t /\ hand'[h].msg = hand[h].msg
      /\ \A g \in Handlers \ {h} : hand'[g] = hand[g] /\ Using(g)' = Using(g)
  <2>1. hand'[h] = [hand[h] EXCEPT !.pc = "settling", !.attempt = @ + 1, !.sess = t]
    BY DEF StartSettle, WorkerTypeOK
  <2>2. hand'[h].pc = "settling" /\ hand'[h].sess = t /\ hand'[h].msg = hand[h].msg
    BY <1>2, <2>1 DEF Attempting
  <2>3. \A g \in Handlers \ {h} : hand'[g] = hand[g]
    BY DEF StartSettle, WorkerTypeOK
  <2> QED BY <2>2, <2>3, UsedWhileSettling
<1>4. published' = published /\ rec' = rec
  BY DEF StartSettle, lpVars
<1>5. \A g \in Handlers : Using(g) # t
  BY <1>1 DEF Owned
<1>6. rec.sess # t
  BY <1>1 DEF Owned
<1>7. t # NoSession
  BY NothingAssumption
<1>8. ASSUME NEW g \in Handlers, Using(g)' # NoSession
      PROVE  /\ sess'[Using(g)'].pc = "open"
             /\ sess'[Using(g)'].event = published'[hand'[g].msg].event
             /\ Using(g)' # rec'.sess
             /\ \A f \in Handlers \ {g} : Using(f)' # Using(g)'
  <2>1. CASE g = h
    BY <1>1, <1>3, <1>4, <1>5, <1>6, <2>1
  <2>2. CASE g # h
    <3>1. Using(g) \in Sessions \ {t} /\ hand'[g] = hand[g]
      BY <1>3, <1>5, <1>8, <2>2, OwnedAreSessions
    <3>2. sess'[Using(g)] = sess[Using(g)]
      BY <1>1, <3>1
    <3>4. Using(g)' = Using(g) /\ Using(g) # NoSession /\ hand'[g].msg = hand[g].msg
      BY <1>3, <2>2, <1>8
    <3>3. \A f \in Handlers \ {g} : Using(f)' # Using(g)
      <4> TAKE f \in Handlers \ {g}
      <4>1. CASE f = h
        BY <1>3, <1>5, <4>1
      <4>2. CASE f # h
        BY <1>3, <3>4, <4>2 DEF SessionsHaveOneClient
      <4> QED BY <4>1, <4>2
    <3>5. rec'.sess # Using(g)
      BY <1>4, <3>4 DEF SessionsHaveOneClient
    <3>6. sess[Using(g)].pc = "open" /\ sess[Using(g)].event = published[hand[g].msg].event
      BY <3>4 DEF SessionsHaveOneClient
    <3> QED BY <1>4, <3>2, <3>3, <3>4, <3>5, <3>6
  <2> QED BY <2>1, <2>2
<1>9. ASSUME rec'.sess # NoSession
      PROVE  /\ rec'.pc = "settling"
             /\ sess'[rec'.sess].pc = "open"
             /\ sess'[rec'.sess].event = rec'.event
  <2>1. rec.sess \in Sessions \ {t}
    BY <1>4, <1>6, <1>9, OwnedAreSessions
  <2>2. sess'[rec.sess] = sess[rec.sess]
    BY <1>1, <2>1
  <2> QED BY <1>4, <1>9, <2>2 DEF SessionsHaveOneClient
<1> QED BY <1>8, <1>9 DEF SessionsHaveOneClient

\* The reconciler starts to settle or to cancel.
LEMMA StartSweepTakes ==
  ASSUME TypeOK, SessionsHaveOneClient, NEW t \in Sessions, StartSweep(t)
  PROVE  SessionsHaveOneClient'
<1> USE DEF TypeOK
<1>1. /\ sess'[t].pc = "open" /\ sess'[t].event = rec.event
      /\ t \notin Owned
      /\ \A s \in Sessions \ {t} : sess'[s] = sess[s]
  BY BegunIsFree DEF StartSweep
<1>2. rec'.pc = "settling" /\ rec'.sess = t /\ rec'.event = rec.event
  <2>1. rec \in Deciding
    BY WorkerShapes DEF StartSweep
  <2> QED BY <2>1 DEF StartSweep, Deciding
<1>3. hand' = hand /\ published' = published
  BY DEF StartSweep, lpVars
<1>4. \A g \in Handlers : Using(g) # t
  BY <1>1 DEF Owned
<1>5. ASSUME NEW g \in Handlers, Using(g) # NoSession
      PROVE  /\ sess'[Using(g)].pc = "open"
             /\ sess'[Using(g)].event = published[hand[g].msg].event
             /\ \A f \in Handlers \ {g} : Using(f) # Using(g)
  <2>1. Using(g) \in Sessions \ {t}
    BY <1>4, <1>5, OwnedAreSessions
  <2>2. sess'[Using(g)] = sess[Using(g)]
    BY <1>1, <2>1
  <2> QED BY <1>5, <2>2 DEF SessionsHaveOneClient
<1>6. \A g \in Handlers : Using(g)' = Using(g)
  BY <1>3 DEF Using
<1> QED BY <1>1, <1>2, <1>3, <1>4, <1>5, <1>6 DEF SessionsHaveOneClient

\* Every step leaves every session with its one client.
LEMMA SessionsStep ==
  ASSUME TypeOK, SessionsHaveOneClient, [Next]_vars
  PROVE  SessionsHaveOneClient'
<1> USE DEF TypeOK
<1>0. [LP_Next]_lpVars
  BY LineProviderStep
<1> DEFINE HandsKeep == \A h \in Handlers :
             \/ Using(h)' = NoSession
             \/ /\ Using(h)' = Using(h) /\ hand'[h].pc = hand[h].pc
                /\ Using(h) # NoSession => hand'[h].msg = hand[h].msg
           RecKeeps == \/ rec'.sess = NoSession
                       \/ rec'.sess = rec.sess /\ rec'.pc = rec.pc /\ rec'.event = rec.event
           SessKeep == \A s \in Owned' \ {NoSession} :
             sess[s].pc = "open" => sess'[s].pc = "open" /\ sess'[s].event = sess[s].event
<1>s. HandsKeep /\ RecKeeps /\ SessKeep => SessionsHaveOneClient'
  BY <1>0, SessionsStand
<1>h. hand' = hand => HandsKeep
  BY DEF Using
<1>r. rec' = rec => RecKeeps
  OBVIOUS
<1>t. sess' = sess => SessKeep
  OBVIOUS
<1> HIDE DEF HandsKeep, RecKeeps, SessKeep
<1>1. ASSUME UNCHANGED <<hand, rec, sess>>
      PROVE  SessionsHaveOneClient'
  BY <1>1, <1>s, <1>h, <1>r, <1>t
<1>2. ASSUME NEW h \in Handlers, NEW i \in ready, Deliver(h, i)
      PROVE  SessionsHaveOneClient'
  <2>1. HandsKeep
    BY <1>2 DEF Deliver, WorkerTypeOK, HandsKeep, Using
  <2> QED BY <1>2, <2>1, <1>s, <1>r, <1>t DEF Deliver, tableVars
<1>3. ASSUME NEW h \in Handlers, HandlerStep(h), Using(h)' = NoSession
      PROVE  SessionsHaveOneClient'
  <2>1. HandsKeep
    BY <1>3, UsedAfterStep DEF HandsKeep
  <2>2. RecKeeps
    BY <1>3, <1>r, HandlerShapeStep
  <2>3. SessKeep
    <3>1. CASE SettleReturns(h) \/ SettleRaises(h)
      <4>1. Using(h) = hand[h].sess /\ Using(h) \in Sessions /\ Using(h) # NoSession
        BY <3>1, WorkerShapes, NothingAssumption, UsedWhileSettling
           DEF SettleReturns, SettleRaises, Settling
      <4>2. \A s \in Sessions \ {Using(h)} : sess'[s] = sess[s]
        BY <3>1, <4>1, OthersStayOpen DEF SettleReturns, SettleRaises
      <4>3. Using(h) \notin Owned'
        <5>1. \A g \in Handlers \ {h} : Using(g)' # Using(h)
          BY <1>3, <4>1, UsedAfterStep DEF SessionsHaveOneClient
        <5>2. rec'.sess # Using(h)
          BY <1>3, <4>1, HandlerShapeStep DEF SessionsHaveOneClient
        <5> QED BY <1>3, <4>1, <5>1, <5>2 DEF Owned
      <4>4. Owned' \subseteq Sessions \cup {NoSession}
        <5>1. \A g \in Handlers : Using(g)' \in Sessions \cup {NoSession}
          BY <1>3, UsedAfterStep, OwnedAreSessions
        <5>2. rec'.sess \in Sessions \cup {NoSession}
          BY <1>3, HandlerShapeStep, OwnedAreSessions
        <5> QED BY <5>1, <5>2 DEF Owned
      <4> QED BY <4>2, <4>3, <4>4 DEF SessKeep
    <3>2. CASE UNCHANGED sess
      BY <3>2, <1>t
    <3>3. ASSUME NEW s \in Sessions, StartSettle(h, s)
          PROVE  FALSE
      <4>1. hand[h] \in Attempting
        BY <3>3, WorkerShapes DEF StartSettle
      <4>2. hand'[h] = [hand[h] EXCEPT !.pc = "settling", !.attempt = @ + 1, !.sess = s]
        BY <3>3 DEF StartSettle, WorkerTypeOK
      <4>3. Using(h)' = s
        BY <4>1, <4>2 DEF Attempting, Using
      <4> QED BY <1>3, <4>3, NothingAssumption
    <3> QED BY <1>3, <3>1, <3>2, <3>3 DEF HandlerStep, Refuse, SettleNeverStarts,
               SettleLosesConnection, Ack, Reject, tableVars
  <2> QED BY <2>1, <2>2, <2>3, <1>s
<1>4. ASSUME NEW h \in Handlers, HandlerStep(h)
      PROVE  SessionsHaveOneClient'
  BY <1>3, <1>4, UsedAfterStep, StartSettleTakes
<1>5. CASE ReconcilerStep
  <2>1. ASSUME NEW s \in Sessions, StartSweep(s)
        PROVE  SessionsHaveOneClient'
    BY <2>1, StartSweepTakes
  <2>2. CASE SweepReturns \/ SweepRaises
    <3>1. rec.sess \in Sessions /\ rec.sess # NoSession
      BY <2>2, WorkerShapes, NothingAssumption DEF SweepReturns, SweepRaises, Sweeping
    <3>2. rec'.sess = NoSession /\ hand' = hand
      BY <2>2 DEF SweepReturns, SweepRaises, NextEvent
    <3>3. \A s \in Sessions \ {rec.sess} : sess'[s] = sess[s]
      BY <2>2, <3>1, OthersStayOpen DEF SweepReturns, SweepRaises
    <3>4. \A h \in Handlers : Using(h) # rec.sess
      BY <3>1 DEF SessionsHaveOneClient
    <3>u. \A h \in Handlers : Using(h)' = Using(h)
      BY <3>2 DEF Using
    <3>5. rec.sess \notin Owned' /\ Owned' \subseteq Sessions \cup {NoSession}
      BY <3>1, <3>2, <3>4, <3>u, OwnedAreSessions DEF Owned
    <3>6. SessKeep
      BY <3>3, <3>5 DEF SessKeep
    <3> QED BY <3>2, <3>6, <1>s, <1>h DEF RecKeeps
  <2>3. CASE rec'.sess = NoSession /\ UNCHANGED <<hand, sess>>
    BY <2>3, <1>s, <1>h, <1>t DEF RecKeeps
  <2>4. CASE Tick
    BY <2>3, <2>4 DEF Tick, AsleepReconciler, tableVars
  <2>5. ASSUME NEW e \in Events, LookUp(e) \/ LookUpFails(e)
        PROVE  SessionsHaveOneClient'
    <3>1. rec \in Listing
      BY <2>5, WorkerShapes DEF LookUp, LookUpFails
    <3>2. rec'.sess = NoSession
      BY <2>5, <3>1 DEF LookUp, LookUpFails, Listing
    <3> QED BY <2>3, <2>5, <3>2 DEF LookUp, LookUpFails, tableVars
  <2>6. CASE SweepNeverStarts \/ SweepLosesConnection
    BY <2>3, <2>6 DEF SweepNeverStarts, SweepLosesConnection, NextEvent, tableVars
  <2> QED BY <1>5, <2>1, <2>2, <2>4, <2>5, <2>6 DEF ReconcilerStep
<1>6. ASSUME NEW t \in Sessions, LockNextRow(t)
      PROVE  SessionsHaveOneClient'
  <2>1. \A s \in Sessions : sess[s].pc = "open" =>
          sess'[s].pc = "open" /\ sess'[s].event = sess[s].event
    <3>1. sess[t] \in Transactions
      BY <1>6 DEF LockNextRow, VisitRow, BT_TypeOK, Idle
    <3>2. PICK b \in Bets : VisitRow(t, b)
      BY <1>6 DEF LockNextRow
    <3>3. sess'[t] = [sess[t] EXCEPT !.todo = @ \ {b},
                                     !.ids = IF Lockable(t, b) THEN @ \cup {b} ELSE @]
      BY <3>2 DEF VisitRow, BT_TypeOK
    <3>4. sess'[t].pc = "open" /\ sess'[t].event = sess[t].event
      BY <3>1, <3>3 DEF Transactions
    <3>5. \A s \in Sessions \ {t} : sess'[s] = sess[s]
      BY <3>2 DEF VisitRow, BT_TypeOK
    <3> QED BY <3>4, <3>5
  <2>2. hand' = hand /\ rec' = rec
    BY <1>6 DEF LockNextRow, workerVars
  <2>3. Owned' \subseteq Sessions \cup {NoSession}
    BY <2>2, OwnedAreSessions, SameHandsUseTheSame
  <2>4. SessKeep
    BY <2>1, <2>3 DEF SessKeep
  <2> QED BY <2>2, <2>4, <1>s, <1>h, <1>r
<1>7. ASSUME NEW t \in Sessions, EndOrphan(t)
      PROVE  SessionsHaveOneClient'
  <2>1. hand' = hand /\ rec' = rec /\ t \notin Owned
    BY <1>7 DEF EndOrphan, Orphan, workerVars
  <2>2. Owned' = Owned
    BY <2>1, SameHandsUseTheSame
  <2>3. \A s \in Sessions \ {t} : sess'[s] = sess[s]
    BY <1>7, OthersStayOpen DEF EndOrphan
  <2>4. SessKeep
    BY <2>1, <2>2, <2>3, OwnedAreSessions DEF SessKeep
  <2> QED BY <2>1, <2>4, <1>s, <1>h, <1>r
<1>8. CASE LoseBroker
  <2>1. HandsKeep
    <3>1. \A h \in Handlers : Using(h)' = Using(h)
      BY <1>8, BrokenTags DEF Using
    <3>2. \A h \in Handlers : Using(h) # NoSession => hand'[h].msg = hand[h].msg
      BY <1>8, BrokenTags DEF Using
    <3>3. \A h \in Handlers : hand'[h].pc = hand[h].pc
      BY <1>8, BrokenTags
    <3> QED BY <3>1, <3>2, <3>3 DEF HandsKeep
  <2> QED BY <1>8, <2>1, <1>s, <1>r, <1>t DEF LoseBroker, tableVars
<1>9. CASE Crash
  <2>1. HandsKeep /\ RecKeeps
    BY <1>9 DEF Crash, Resting, AsleepReconciler, HandsKeep, RecKeeps, Using
  <2> QED BY <1>9, <2>1, <1>s, <1>t DEF Crash, tableVars
<1>10. \/ UNCHANGED <<hand, rec, sess>>
       \/ \E h \in Handlers : (\E i \in ready : Deliver(h, i)) \/ HandlerStep(h)
       \/ ReconcilerStep
       \/ \E s \in Sessions : LockNextRow(s) \/ EndOrphan(s)
       \/ LoseBroker
       \/ Crash
  BY DEF Next, vars, tableVars, workerVars, LPStep, Route, LoseMessage, LPRestart,
         ValidateBet, InsertBet, Insert, DropBet
<1> QED BY <1>1, <1>2, <1>4, <1>5, <1>6, <1>7, <1>8, <1>9, <1>10

\* A session has one client, for any number of handlers, sessions and failures, and
\* a retry never works in the session of the attempt before it.
THEOREM SessionsHaveOneClientAlways == Spec => []SessionsHaveOneClient
<1>1. Init => SessionsHaveOneClient
  BY DEF Init, Resting, AsleepReconciler, SessionsHaveOneClient, Using
<1>2. TypeOK /\ SessionsHaveOneClient /\ [Next]_vars => SessionsHaveOneClient'
  BY SessionsStep
<1> QED BY <1>1, <1>2, SystemTypeCorrect, PTL DEF Spec

-------------------------------------------------------------------------------
(* Messages *)

\* A message is somewhere, and only there.
Placed(i) ==
  \/ i \in publishing /\ i \notin ready \cup Held \cup dlq \cup acked \cup unrouted
  \/ i \in ready      /\ i \notin publishing \cup Held \cup dlq \cup acked \cup unrouted
  \/ i \in Held       /\ i \notin publishing \cup ready \cup dlq \cup acked \cup unrouted
  \/ i \in dlq        /\ i \notin publishing \cup ready \cup Held \cup acked \cup unrouted
  \/ i \in acked      /\ i \notin publishing \cup ready \cup Held \cup dlq \cup unrouted
  \/ i \in unrouted   /\ i \notin publishing \cup ready \cup Held \cup dlq \cup acked

OneHolder == \A g, h \in Handlers :
               (hand[g].tag /\ hand[h].tag /\ hand[g].msg = hand[h].msg) => g = h

PlaceInv == (\A i \in MessageIds \cup Strays : Placed(i)) /\ OneHolder

LEMMA PlacedIsInOnePlace ==
  ASSUME NEW i, NEW P, NEW R, NEW H, NEW D, NEW A, NEW U
  PROVE  LET W == <<P, R, H, D, A, U>> IN
         ( \/ i \in P /\ i \notin R \cup H \cup D \cup A \cup U
           \/ i \in R /\ i \notin P \cup H \cup D \cup A \cup U
           \/ i \in H /\ i \notin P \cup R \cup D \cup A \cup U
           \/ i \in D /\ i \notin P \cup R \cup H \cup A \cup U
           \/ i \in A /\ i \notin P \cup R \cup H \cup D \cup U
           \/ i \in U /\ i \notin P \cup R \cup H \cup D \cup A )
         => \E k \in DOMAIN W : i \in W[k] /\ \A l \in DOMAIN W \ {k} : i \notin W[l]
<1> DEFINE W == <<P, R, H, D, A, U>>
<1>1. DOMAIN W = 1..6
  OBVIOUS
<1>2. W[1] = P /\ W[2] = R /\ W[3] = H /\ W[4] = D /\ W[5] = A /\ W[6] = U
  OBVIOUS
<1>3. \A k \in 1..6 : k = 1 \/ k = 2 \/ k = 3 \/ k = 4 \/ k = 5 \/ k = 6
  OBVIOUS
<1> HIDE DEF W
<1>4. (i \in P /\ i \notin R \cup H \cup D \cup A \cup U)
      => \E k \in 1..6 : i \in W[k] /\ \A l \in 1..6 \ {k} : i \notin W[l]
  BY <1>2, <1>3
<1>5. (i \in R /\ i \notin P \cup H \cup D \cup A \cup U)
      => \E k \in 1..6 : i \in W[k] /\ \A l \in 1..6 \ {k} : i \notin W[l]
  BY <1>2, <1>3
<1>6. (i \in H /\ i \notin P \cup R \cup D \cup A \cup U)
      => \E k \in 1..6 : i \in W[k] /\ \A l \in 1..6 \ {k} : i \notin W[l]
  BY <1>2, <1>3
<1>7. (i \in D /\ i \notin P \cup R \cup H \cup A \cup U)
      => \E k \in 1..6 : i \in W[k] /\ \A l \in 1..6 \ {k} : i \notin W[l]
  BY <1>2, <1>3
<1>8. (i \in A /\ i \notin P \cup R \cup H \cup D \cup U)
      => \E k \in 1..6 : i \in W[k] /\ \A l \in 1..6 \ {k} : i \notin W[l]
  BY <1>2, <1>3
<1>9. (i \in U /\ i \notin P \cup R \cup H \cup D \cup A)
      => \E k \in 1..6 : i \in W[k] /\ \A l \in 1..6 \ {k} : i \notin W[l]
  BY <1>2, <1>3
<1>10. (LET V == <<P, R, H, D, A, U>> IN
          \E k \in DOMAIN V : i \in V[k] /\ \A l \in DOMAIN V \ {k} : i \notin V[l])
       <=> \E k \in 1..6 : i \in W[k] /\ \A l \in 1..6 \ {k} : i \notin W[l]
  BY <1>1 DEF W
<1> QED BY <1>4, <1>5, <1>6, <1>7, <1>8, <1>9, <1>10

\* What a step of one handler does to the messages held.
LEMMA HeldByOne ==
  ASSUME WorkerTypeOK, NEW h \in Handlers,
         \A g \in Handlers \ {h} : hand'[g] = hand[g]
  PROVE  /\ hand'[h].tag = hand[h].tag /\ hand'[h].msg = hand[h].msg => Held' = Held
         /\ ~hand[h].tag /\ ~hand'[h].tag => Held' = Held
         /\ hand[h].tag /\ ~hand'[h].tag /\ OneHolder => Held' = Held \ {hand[h].msg}
         /\ ~hand[h].tag /\ hand'[h].tag => Held' = Held \cup {hand'[h].msg}
<1>1. \A i : i \in Held <=> \E g \in Handlers : hand[g].tag /\ hand[g].msg = i
  BY DEF Held
<1>2. \A i : i \in Held' <=> \E g \in Handlers : hand'[g].tag /\ hand'[g].msg = i
  BY DEF Held
<1>3. ASSUME hand'[h].tag = hand[h].tag, hand'[h].msg = hand[h].msg
      PROVE  Held' = Held
  BY <1>1, <1>2, <1>3
<1>4. ASSUME ~hand[h].tag, ~hand'[h].tag
      PROVE  Held' = Held
  <2>1. ASSUME NEW g \in Handlers, hand[g].tag \/ hand'[g].tag
        PROVE  hand'[g] = hand[g]
    BY <1>4, <2>1
  <2>2. \A i : i \in Held <=> i \in Held'
    BY <1>1, <1>2, <2>1
  <2> QED BY <2>2
<1>5. ASSUME hand[h].tag, ~hand'[h].tag, OneHolder
      PROVE  Held' = Held \ {hand[h].msg}
  BY <1>1, <1>2, <1>5 DEF OneHolder
<1>6. ASSUME ~hand[h].tag, hand'[h].tag
      PROVE  Held' = Held \cup {hand'[h].msg}
  BY <1>1, <1>2, <1>6
<1> QED BY <1>3, <1>4, <1>5, <1>6

\* Where messages are does not change while the broker, line_provider's calls and
\* the messages held do not.
LEMMA PlacesStand ==
  ASSUME PlaceInv, UNCHANGED <<published, publishing, ready, Held, dlq, acked, unrouted>>, OneHolder'
  PROVE  PlaceInv'
BY DEF PlaceInv, Placed, MessageIds

\* A publication begins under an id that nobody has seen.
LEMMA LPStepPlaces ==
  ASSUME TypeOK, PlaceInv, NEW e \in Events, LPStep(e)
  PROVE  PlaceInv'
<1> USE DEF TypeOK
<1>1. UNCHANGED <<ready, dlq, acked, unrouted, hand>>
  BY DEF LPStep, brokerVars, workerVars
<1>2. Held' = Held /\ OneHolder'
  BY <1>1 DEF Held, PlaceInv, OneHolder
<1>3. CASE UNCHANGED <<published, publishing>>
  BY <1>1, <1>2, <1>3, PlacesStand
<1>4. ASSUME NEW new \in TerminalStates, Announce(e, new)
      PROVE  PlaceInv'
  <2>1. PICK n \in Nat : /\ MessageIds' = MessageIds \cup {n}
                         /\ n \notin MessageIds
                         /\ publishing' = publishing \cup {n}
    <3>1. Len(published) + 1 \in Nat
      BY DEF LP_TypeOK
    <3> QED BY <1>4, <3>1, AnnounceAppends DEF Announce
  <2>2. n \notin Strays
    BY StraysAssumption
  <2>4. n \notin publishing \cup ready \cup Held \cup dlq \cup acked \cup unrouted
    BY <2>1, <2>2, HeldIsTyped DEF LP_TypeOK
  <2>5. ASSUME NEW i \in MessageIds \cup Strays
        PROVE  Placed(i)'
    <3>1. Placed(i) /\ i # n
      BY <2>1, <2>2 DEF PlaceInv
    <3> QED BY <1>1, <1>2, <2>1, <3>1 DEF Placed
  <2>6. Placed(n)'
    BY <1>1, <1>2, <2>1, <2>4 DEF Placed
  <2> QED BY <1>2, <2>1, <2>5, <2>6 DEF PlaceInv
<1>5. ASSUME NEW new \in EventStates, NEW open \in BOOLEAN, PutEvent(e, new, open)
      PROVE  PlaceInv'
  <2>1. (new \in TerminalStates /\ Announce(e, new)) \/ UNCHANGED <<published, publishing>>
    BY <1>5, PutCases
  <2> QED BY <1>3, <1>4, <2>1
<1>6. CASE PostEvent(e) \/ Expire(e)
  BY <1>3, <1>6 DEF PostEvent, Expire
<1> QED BY <1>5, <1>6 DEF LPStep

\* A publication ends in the queue or nowhere, and a restart ends them all.
LEMMA EndPublishPlaces ==
  ASSUME TypeOK, PlaceInv,
         (\E i \in MessageIds : Route(i) \/ LoseMessage(i)) \/ LPRestart
  PROVE  PlaceInv'
<1> USE DEF TypeOK
<1>1. UNCHANGED <<published, dlq, acked, hand>>
  BY DEF Route, LoseMessage, LPRestart, EndPublish, Restart, workerVars
<1>2. Held' = Held /\ OneHolder' /\ MessageIds' = MessageIds
  BY <1>1 DEF Held, PlaceInv, OneHolder, MessageIds
<1>3. ASSUME NEW j \in MessageIds \cup Strays
      PROVE  Placed(j)'
  <2>1. Placed(j)
    BY DEF PlaceInv
  <2>2. ASSUME NEW i \in MessageIds, Route(i)
        PROVE  Placed(j)'
    <3>1. /\ i \in publishing /\ publishing' = publishing \ {i}
          /\ ready' = ready \cup {i} /\ unrouted' = unrouted
      BY <2>2 DEF Route, EndPublish
    <3> QED BY <1>1, <1>2, <2>1, <3>1 DEF Placed
  <2>3. ASSUME NEW i \in MessageIds, LoseMessage(i)
        PROVE  Placed(j)'
    <3>1. /\ i \in publishing /\ publishing' = publishing \ {i}
          /\ unrouted' = unrouted \cup {i} /\ ready' = ready
      BY <2>3 DEF LoseMessage, EndPublish
    <3> QED BY <1>1, <1>2, <2>1, <3>1 DEF Placed
  <2>4. CASE LPRestart
    <3>1. publishing' = {} /\ unrouted' = unrouted \cup publishing /\ ready' = ready
      BY <2>4 DEF LPRestart, Restart
    <3> QED BY <1>1, <1>2, <2>1, <3>1 DEF Placed
  <2> QED BY <2>2, <2>3, <2>4
<1> QED BY <1>2, <1>3 DEF PlaceInv

\* A delivery moves a message from the queue to one handler.
LEMMA DeliverPlaces ==
  ASSUME TypeOK, PlaceInv, NEW h \in Handlers, NEW i \in ready, Deliver(h, i)
  PROVE  PlaceInv'
<1> USE DEF TypeOK
<1>1. UNCHANGED <<published, publishing, dlq, acked, unrouted>> /\ ready' = ready \ {i}
  BY DEF Deliver, lpVars
<1>2. /\ \A g \in Handlers \ {h} : hand'[g] = hand[g]
      /\ hand'[h].tag /\ hand'[h].msg = i /\ ~hand[h].tag
  BY DEF Deliver, WorkerTypeOK, Resting
<1>3. Held' = Held \cup {i}
  BY <1>2, HeldByOne
<1>4. i \in MessageIds \cup Strays
  OBVIOUS
<1>5. i \notin Held
  BY <1>4 DEF PlaceInv, Placed
<1>6. OneHolder'
  <2>1. \A g \in Handlers \ {h} : hand[g].tag => hand[g].msg # i
    BY <1>5 DEF Held
  <2> SUFFICES ASSUME NEW f \in Handlers, NEW g \in Handlers,
                      hand'[f].tag, hand'[g].tag, hand'[f].msg = hand'[g].msg, f # g
               PROVE  FALSE
    BY DEF OneHolder
  <2>2. CASE f = h
    BY <1>2, <2>1, <2>2
  <2>3. CASE g = h
    BY <1>2, <2>1, <2>3
  <2>4. CASE f # h /\ g # h
    <3>1. hand'[f] = hand[f] /\ hand'[g] = hand[g]
      BY <1>2, <2>4
    <3> QED BY <3>1 DEF PlaceInv, OneHolder
  <2> QED BY <2>2, <2>3, <2>4
<1>7. ASSUME NEW j \in MessageIds \cup Strays
      PROVE  Placed(j)'
  <2>1. Placed(j)
    BY DEF PlaceInv
  <2> QED BY <1>1, <1>3, <2>1 DEF Placed
<1> QED BY <1>1, <1>6, <1>7 DEF PlaceInv, MessageIds

\* A handler keeps its message until it acks or rejects it; on a dead channel the
\* message is not its own any more.
LEMMA HandlerPlaces ==
  ASSUME TypeOK, PlaceInv, NEW h \in Handlers, HandlerStep(h)
  PROVE  PlaceInv'
<1> USE DEF TypeOK
<1>1. UNCHANGED lpVars /\ MessageIds' = MessageIds
  BY HandlerShapeStep DEF lpVars, MessageIds
<1>2. \A g \in Handlers \ {h} : hand'[g] = hand[g]
  BY HandlerFields
<1>3. CASE ~(Ack(h) \/ Reject(h))
  <2>1. hand'[h].msg = hand[h].msg /\ hand'[h].tag = hand[h].tag
    BY <1>3, HandlerFields
  <2>2. UNCHANGED <<ready, dlq, acked, unrouted>>
    BY <1>3 DEF HandlerStep, Refuse, StartSettle, SettleNeverStarts, SettleReturns, SettleRaises,
                SettleLosesConnection, brokerVars
  <2>3. Held' = Held
    BY <1>2, <2>1, HeldByOne
  <2>4. \A g \in Handlers : hand'[g].msg = hand[g].msg /\ hand'[g].tag = hand[g].tag
    BY <1>2, <2>1
  <2>5. OneHolder'
    BY <2>4 DEF PlaceInv, OneHolder
  <2> QED BY <1>1, <2>2, <2>3, <2>5, PlacesStand DEF lpVars
<1>4. CASE Ack(h) \/ Reject(h)
  <2>1. ~hand'[h].tag
    <3>1. hand'[h] = Resting
      BY <1>4 DEF Ack, Reject, WorkerTypeOK
    <3>2. Resting.tag = FALSE
      BY DEF Resting
    <3> QED BY <3>1, <3>2
  <2>2. OneHolder'
    <3> SUFFICES ASSUME NEW f \in Handlers, NEW g \in Handlers,
                        hand'[f].tag, hand'[g].tag, hand'[f].msg = hand'[g].msg
                 PROVE  f = g
      BY DEF OneHolder
    <3>1. f # h /\ g # h
      BY <2>1
    <3>2. hand'[f] = hand[f] /\ hand'[g] = hand[g]
      BY <1>2, <3>1
    <3> QED BY <3>2 DEF PlaceInv, OneHolder
  <2>3. UNCHANGED <<ready, unrouted>>
    BY <1>4 DEF Ack, Reject
  <2>4. CASE ~hand[h].tag
    <3>1. UNCHANGED <<dlq, acked>>
      BY <1>4, <2>4 DEF Ack, Reject
    <3>2. Held' = Held
      BY <1>2, <2>1, <2>4, HeldByOne
    <3> QED BY <1>1, <2>2, <2>3, <3>1, <3>2, PlacesStand DEF lpVars
  <2>5. CASE hand[h].tag
    <3> DEFINE m == hand[h].msg
    <3>1. Held' = Held \ {m}
      BY <1>2, <2>1, <2>5, HeldByOne DEF PlaceInv
    <3>2. m \in Held
      BY <2>5 DEF Held
    <3>3. \/ acked' = acked \cup {m} /\ dlq' = dlq
          \/ dlq' = dlq \cup {m} /\ acked' = acked
      BY <1>4, <2>5 DEF Ack, Reject
    <3>4. publishing' = publishing
      BY <1>1 DEF lpVars
    <3> HIDE DEF m
    <3>5. ASSUME NEW j \in MessageIds \cup Strays
          PROVE  Placed(j)'
      <4>1. Placed(j)
        BY DEF PlaceInv
      <4>2. CASE acked' = acked \cup {m} /\ dlq' = dlq
        BY <2>3, <3>1, <3>2, <3>4, <4>1, <4>2 DEF Placed
      <4>3. CASE dlq' = dlq \cup {m} /\ acked' = acked
        BY <2>3, <3>1, <3>2, <3>4, <4>1, <4>3 DEF Placed
      <4> QED BY <3>3, <4>2, <4>3
    <3> QED BY <1>1, <2>2, <3>5 DEF PlaceInv
  <2> QED BY <2>4, <2>5
<1> QED BY <1>3, <1>4

\* A lost connection and a crash give back to the queue what was held.
LEMMA FaultPlaces ==
  ASSUME TypeOK, PlaceInv, LoseBroker \/ Crash
  PROVE  PlaceInv'
<1> USE DEF TypeOK
<1>1. \A h \in Handlers : hand'[h].tag = FALSE
  <2>1. CASE LoseBroker
    BY <2>1, BrokenTags
  <2>2. CASE Crash
    BY <2>2 DEF Crash, Resting
  <2> QED BY <2>1, <2>2
<1>2. Held' = {} /\ OneHolder'
  BY <1>1 DEF Held, OneHolder
<1>3. UNCHANGED <<published, publishing, dlq, acked, unrouted>> /\ ready' = ready \cup Held
  BY DEF LoseBroker, Crash, lpVars
<1>4. ASSUME NEW j \in MessageIds \cup Strays
      PROVE  Placed(j)'
  <2>1. Placed(j)
    BY DEF PlaceInv
  <2> QED BY <1>2, <1>3, <2>1 DEF Placed
<1> QED BY <1>2, <1>3, <1>4 DEF PlaceInv, MessageIds

\* The broker neither loses nor doubles a message, through any number of
\* redeliveries, acks on dead channels, crashes and restarts of line_provider.
THEOREM EachMessageInOnePlaceAlways == Spec => []EachMessageInOnePlace
<1>1. Init => PlaceInv
  <2> SUFFICES ASSUME Init
               PROVE  PlaceInv
    OBVIOUS
  <2>1. MessageIds = {} /\ publishing = {} /\ ready = Strays /\ dlq = {} /\ acked = {} /\ unrouted = {}
    BY DEF Init, LP_Init, MessageIds
  <2>2. \A h \in Handlers : hand[h].tag = FALSE
    BY DEF Init, Resting
  <2>3. Held = {} /\ OneHolder
    BY <2>2 DEF Held, OneHolder
  <2> QED BY <2>1, <2>3 DEF PlaceInv, Placed
<1>2. TypeOK /\ PlaceInv /\ [Next]_vars => PlaceInv'
  <2> SUFFICES ASSUME TypeOK, PlaceInv, [Next]_vars
               PROVE  PlaceInv'
    OBVIOUS
  <2>1. CASE UNCHANGED <<published, publishing, ready, dlq, acked, unrouted, hand>>
    <3>1. Held' = Held /\ OneHolder'
      BY <2>1 DEF Held, PlaceInv, OneHolder
    <3> QED BY <2>1, <3>1, PlacesStand
  <2>2. \/ UNCHANGED <<published, publishing, ready, dlq, acked, unrouted, hand>>
        \/ \E e \in Events : LPStep(e)
        \/ (\E i \in MessageIds : Route(i) \/ LoseMessage(i)) \/ LPRestart
        \/ \E h \in Handlers : (\E i \in ready : Deliver(h, i)) \/ HandlerStep(h)
        \/ LoseBroker \/ Crash
    BY DEF Next, vars, lpVars, brokerVars, workerVars, ValidateBet, InsertBet, DropBet,
           ReconcilerStep, Tick, LookUp, LookUpFails, StartSweep, SweepNeverStarts, SweepReturns,
           SweepRaises, SweepLosesConnection, LockNextRow, EndOrphan
  <2> QED BY <2>1, <2>2, LPStepPlaces, EndPublishPlaces, DeliverPlaces, HandlerPlaces, FaultPlaces
<1>3. PlaceInv => EachMessageInOnePlace
  <2> SUFFICES ASSUME PlaceInv
               PROVE  EachMessageInOnePlace
    OBVIOUS
  <2>1. ASSUME NEW i \in MessageIds \cup Strays
        PROVE  \E k \in DOMAIN Whereabouts :
                 i \in Whereabouts[k] /\ \A l \in DOMAIN Whereabouts \ {k} : i \notin Whereabouts[l]
    <3>1. Placed(i)
      BY DEF PlaceInv
    <3> QED BY <3>1, PlacedIsInOnePlace, Zenon DEF Placed, Whereabouts
  <2> QED BY <2>1 DEF PlaceInv, OneHolder, EachMessageInOnePlace
<1> QED BY <1>1, <1>2, <1>3, SystemTypeCorrect, PTL DEF Spec

-------------------------------------------------------------------------------
(* Why a handler comes to rest, and a tick ends *)

\* What a handler has left to do: two steps for each attempt, and its ack or reject.
HandlerRank(r) ==
  IF r.pc = "attempt" THEN 2 * (MaxAttempts - r.attempt) + 1
  ELSE IF r.pc = "settling" THEN 2 * (MaxAttempts - r.attempt) + 2
  ELSE IF r.pc \in {"acking", "rejecting"} THEN 1 ELSE 0

\* A handler that holds a message never has more left to do than before, and less
\* after each of its own steps.
HandlersAdvance ==
  \A h \in Handlers : hand[h].pc # "idle" =>
    /\ HandlerRank(hand[h]) \in 1..(2 * MaxAttempts + 1)
    /\ HandlerRank(hand'[h]) \in 0..HandlerRank(hand[h])
    /\ HandlerStep(h) => HandlerRank(hand'[h]) < HandlerRank(hand[h])

LEMMA RankOfHandler ==
  ASSUME WorkerTypeOK, NEW h \in Handlers
  PROVE  /\ hand[h].pc = "idle" \/ HandlerRank(hand[h]) \in 1..(2 * MaxAttempts + 1)
         /\ HandlerRank(hand[h]) \in Nat
         /\ hand[h].pc = "attempt" =>
              /\ hand[h].attempt \in 0..2
              /\ HandlerRank(hand[h]) = 2 * (MaxAttempts - hand[h].attempt) + 1
         /\ hand[h].pc = "settling" =>
              /\ hand[h].attempt \in 1..3
              /\ HandlerRank(hand[h]) = 2 * (MaxAttempts - hand[h].attempt) + 2
         /\ hand[h].pc \in {"acking", "rejecting"} => HandlerRank(hand[h]) = 1
<1>1. CASE hand[h] = Resting
  BY <1>1 DEF Resting, HandlerRank
<1>2. CASE hand[h] \in Attempting
  <2>1. hand[h].pc = "attempt" /\ hand[h].attempt \in 0..2
    BY <1>2 DEF Attempting, MaxAttempts
  <2> QED BY <2>1 DEF HandlerRank, MaxAttempts
<1>3. CASE hand[h] \in Settling
  <2>1. hand[h].pc = "settling" /\ hand[h].attempt \in 1..3
    BY <1>3 DEF Settling, MaxAttempts
  <2> QED BY <2>1 DEF HandlerRank, MaxAttempts
<1>4. CASE hand[h] \in Finishing
  <2>1. hand[h].pc \in {"acking", "rejecting"}
    BY <1>4 DEF Finishing
  <2> QED BY <2>1 DEF HandlerRank, MaxAttempts
<1> QED BY <1>1, <1>2, <1>3, <1>4 DEF WorkerTypeOK, Handling

\* A failed attempt is retried with a higher number or not at all.
LEMMA FailureAdvances ==
  ASSUME WorkerTypeOK, NEW h \in Handlers, NEW n \in 1..3,
         hand[h] \in Attempting \cup Settling, AfterFailure(h, n)
  PROVE  HandlerRank(hand'[h]) = 1 \/ HandlerRank(hand'[h]) = 2 * (MaxAttempts - n) + 1
<1>1. PICK pc \in {"rejecting", "attempt"}, stale \in {NoSession, hand[h].sess} :
        hand' = [hand EXCEPT ![h].pc = pc, ![h].attempt = n, ![h].sess = stale]
  BY FailureOutcome
<1>2. hand'[h] = [hand[h] EXCEPT !.pc = pc, !.attempt = n, !.sess = stale]
  BY <1>1 DEF WorkerTypeOK
<1>3. hand'[h].pc = pc /\ hand'[h].attempt = n
  BY <1>2 DEF Attempting, Settling
<1> QED BY <1>3 DEF HandlerRank

LEMMA HandlerStepAdvances ==
  ASSUME LP_TypeOK, WorkerTypeOK, WorkerTypeOK', NEW h \in Handlers, HandlerStep(h)
  PROVE  HandlerRank(hand'[h]) < HandlerRank(hand[h])
<1> USE DEF MaxAttempts
<1>1. CASE Refuse(h)
  <2>1. hand'[h].pc = "rejecting"
    BY <1>1, WorkerShapes DEF Refuse, WorkerTypeOK, Attempting
  <2>2. HandlerRank(hand'[h]) = 1
    BY <2>1 DEF HandlerRank
  <2> QED BY <1>1, <2>2, RankOfHandler DEF Refuse
<1>2. ASSUME NEW s \in Sessions, StartSettle(h, s)
      PROVE  HandlerRank(hand'[h]) < HandlerRank(hand[h])
  <2>1. hand[h] \in Attempting
    BY <1>2, WorkerShapes DEF StartSettle
  <2>2. hand'[h] = [hand[h] EXCEPT !.pc = "settling", !.attempt = @ + 1, !.sess = s]
    BY <1>2 DEF StartSettle, WorkerTypeOK
  <2>3. hand'[h].pc = "settling" /\ hand'[h].attempt = hand[h].attempt + 1
    BY <2>1, <2>2 DEF Attempting
  <2>4. HandlerRank(hand'[h]) = 2 * (MaxAttempts - (hand[h].attempt + 1)) + 2
    BY <2>3 DEF HandlerRank
  <2> QED BY <1>2, <2>4, RankOfHandler DEF StartSettle
<1>3. CASE SettleNeverStarts(h)
  <2>1. hand[h] \in Attempting /\ hand[h].attempt + 1 \in 1..3
    BY <1>3, WorkerShapes, RankOfHandler DEF SettleNeverStarts
  <2>2. \/ HandlerRank(hand'[h]) = 1
        \/ HandlerRank(hand'[h]) = 2 * (MaxAttempts - (hand[h].attempt + 1)) + 1
    BY <1>3, <2>1, FailureAdvances DEF SettleNeverStarts
  <2> QED BY <1>3, <2>1, <2>2, RankOfHandler DEF SettleNeverStarts
<1>4. CASE SettleReturns(h)
  <2>1. hand[h] \in Settling
    BY <1>4, WorkerShapes DEF SettleReturns
  <2>2. hand'[h] = [hand[h] EXCEPT !.pc = "acking", !.sess = NoSession]
    BY <1>4 DEF SettleReturns, WorkerTypeOK
  <2>3. hand'[h].pc = "acking"
    BY <2>1, <2>2 DEF Settling
  <2>4. HandlerRank(hand'[h]) = 1
    BY <2>3 DEF HandlerRank
  <2> QED BY <1>4, <2>4, RankOfHandler DEF SettleReturns
<1>5. CASE SettleRaises(h) \/ SettleLosesConnection(h)
  <2>1. hand[h].pc = "settling" /\ hand[h] \in Settling /\ hand[h].attempt \in 1..3
    BY <1>5, WorkerShapes, RankOfHandler DEF SettleRaises, SettleLosesConnection
  <2>2. \/ HandlerRank(hand'[h]) = 1
        \/ HandlerRank(hand'[h]) = 2 * (MaxAttempts - hand[h].attempt) + 1
    BY <1>5, <2>1, FailureAdvances DEF SettleRaises, SettleLosesConnection
  <2> QED BY <2>1, <2>2, RankOfHandler
<1>6. CASE Ack(h) \/ Reject(h)
  <2>1. hand'[h] = Resting /\ hand[h].pc \in {"acking", "rejecting"}
    BY <1>6 DEF Ack, Reject, WorkerTypeOK
  <2>2. HandlerRank(hand'[h]) = 0
    BY <2>1 DEF HandlerRank, Resting
  <2> QED BY <2>1, <2>2, RankOfHandler
<1> QED BY <1>1, <1>2, <1>3, <1>4, <1>5, <1>6 DEF HandlerStep

\* A delivery ends: whatever fails, a handler is done after at most 2 * MaxAttempts + 1
\* steps of its own, and nothing that others do, a lost broker or a crash included,
\* gives it more to do (_settle_with_retry is bounded).
THEOREM HandlersCountDown == Spec => [][HandlersAdvance]_vars
<1>1. TypeOK /\ TypeOK' /\ [Next]_vars => [HandlersAdvance]_vars
  <2> SUFFICES ASSUME TypeOK, TypeOK', [Next]_vars, NEW h \in Handlers, hand[h].pc # "idle"
               PROVE  /\ HandlerRank(hand[h]) \in 1..(2 * MaxAttempts + 1)
                      /\ HandlerRank(hand'[h]) \in 0..HandlerRank(hand[h])
                      /\ HandlerStep(h) => HandlerRank(hand'[h]) < HandlerRank(hand[h])
    BY DEF HandlersAdvance
  <2> USE DEF TypeOK
  <2>1. HandlerRank(hand[h]) \in 1..(2 * MaxAttempts + 1) /\ HandlerRank(hand[h]) \in Nat
    BY RankOfHandler
  <2>2. HandlerRank(hand'[h]) \in Nat
    <3>1. hand'[h] = Resting \/ hand'[h] \in Handling'
      BY DEF WorkerTypeOK
    <3>2. \/ hand'[h].pc \in {"idle", "acking", "rejecting"}
          \/ hand'[h].attempt \in 0..3
      BY <3>1 DEF Resting, Handling, Attempting, Settling, Finishing, MaxAttempts
    <3>3. CASE hand'[h].pc \in {"idle", "acking", "rejecting"}
      BY <3>3 DEF HandlerRank
    <3>4. CASE hand'[h].attempt \in 0..3
      BY <3>4 DEF HandlerRank, MaxAttempts
    <3> QED BY <3>2, <3>3, <3>4
  <2>3. HandlerStep(h) => HandlerRank(hand'[h]) < HandlerRank(hand[h])
    BY HandlerStepAdvances
  <2>4. ASSUME NEW g \in Handlers \ {h}, HandlerStep(g) \/ \E i \in ready : Deliver(g, i)
        PROVE  hand'[h] = hand[h]
    BY <2>4, HandlerFields DEF Deliver, WorkerTypeOK
  <2>5. ASSUME NEW i \in ready
        PROVE  ~Deliver(h, i)
    BY DEF Deliver, Resting
  <2>6. CASE LoseBroker
    <3>1. hand'[h] = [hand[h] EXCEPT !.tag = FALSE]
      BY <2>6 DEF LoseBroker
    <3>2. hand[h] \in Handling
      BY DEF WorkerTypeOK, Resting
    <3>3. hand'[h].pc = hand[h].pc /\ hand'[h].attempt = hand[h].attempt
      BY <3>1, <3>2 DEF Handling, Attempting, Settling, Finishing
    <3> QED BY <2>1, <2>2, <2>3, <3>3 DEF HandlerRank
  <2>7. CASE Crash
    <3>1. HandlerRank(hand'[h]) = 0
      BY <2>7 DEF Crash, HandlerRank, Resting
    <3> QED BY <2>1, <2>2, <2>3, <3>1
  <2>8. CASE hand'[h] = hand[h]
    BY <2>1, <2>3, <2>8
  <2>9. \/ \E g \in Handlers : (\E i \in ready : Deliver(g, i)) \/ HandlerStep(g)
        \/ LoseBroker \/ Crash \/ UNCHANGED hand
    BY DEF Next, vars, workerVars, LPStep, Route, LoseMessage, LPRestart, ValidateBet, InsertBet,
           DropBet, ReconcilerStep, Tick, LookUp, LookUpFails, StartSweep, SweepNeverStarts,
           SweepReturns, SweepRaises, SweepLosesConnection, LockNextRow, EndOrphan
  <2> HIDE DEF TypeOK
  <2> QED BY <2>1, <2>2, <2>3, <2>4, <2>5, <2>6, <2>7, <2>8, <2>9
<1> QED BY <1>1, SystemTypeCorrect, PTL DEF Spec

\* What a tick has left to do: for each id of its work-list the lookup, the start of
\* a settle and its end, and what remains of the one it is at.
SweepRank(r) ==
  3 * Cardinality(r.todo) + (IF r.pc = "decided" THEN 2 ELSE IF r.pc = "settling" THEN 1 ELSE 0)

\* A tick only moves forward, is started only when the last one is through, and
\* takes an event off its list only by looking that event up.
TicksAdvance ==
  /\ SweepRank(rec) \in 0..(3 * Cardinality(Events) + 2)
  /\ rec' # rec => ReconcilerStep \/ Crash
  /\ ReconcilerStep => Tick \/ SweepRank(rec') < SweepRank(rec)
  /\ \A e \in rec.todo \ rec'.todo : LookUp(e) \/ LookUpFails(e) \/ Crash

LEMMA RankOfSweep ==
  ASSUME IsFiniteSet(Events), NEW r, r.todo \in SUBSET Events
  PROVE  /\ Cardinality(r.todo) \in 0..Cardinality(Events)
         /\ SweepRank(r) \in 0..(3 * Cardinality(Events) + 2)
<1>1. /\ Cardinality(Events) \in Nat
      /\ Cardinality(r.todo) \in Nat
      /\ Cardinality(r.todo) <= Cardinality(Events)
  BY FS_CardinalityType, FS_Subset
<1> QED BY <1>1 DEF SweepRank

\* Looking an event up takes it off the list and leaves at most its settle to do.
LEMMA LookUpAdvances ==
  ASSUME IsFiniteSet(Events), WorkerTypeOK, NEW e \in Events, LookUp(e) \/ LookUpFails(e)
  PROVE  rec'.todo = rec.todo \ {e} /\ SweepRank(rec') < SweepRank(rec)
<1>1. rec.pc = "idle" /\ e \in rec.todo /\ rec.todo \in SUBSET Events /\ rec \in Listing
  BY WorkerShapes DEF LookUp, LookUpFails
<1>2. rec'.todo = rec.todo \ {e} /\ rec'.pc \in {"idle", "decided"}
  BY <1>1 DEF LookUp, LookUpFails, Listing
<1>3. /\ Cardinality(rec.todo) \in Nat
      /\ Cardinality(rec.todo \ {e}) = Cardinality(rec.todo) - 1
  BY <1>1, FS_Subset, FS_CardinalityType, FS_RemoveElement
<1>4. SweepRank(rec) = 3 * Cardinality(rec.todo)
  BY <1>1, <1>3 DEF SweepRank
<1>5. SweepRank(rec') \in {3 * (Cardinality(rec.todo) - 1), 3 * (Cardinality(rec.todo) - 1) + 2}
  BY <1>2, <1>3 DEF SweepRank
<1> QED BY <1>2, <1>3, <1>4, <1>5

\* A settle of the tick goes on to its end, with or without success, and then the
\* tick goes on to the next event.
LEMMA SweepAdvances ==
  ASSUME IsFiniteSet(Events), WorkerTypeOK,
         \/ \E s \in Sessions : StartSweep(s)
         \/ SweepNeverStarts \/ SweepReturns \/ SweepRaises \/ SweepLosesConnection
  PROVE  rec'.todo = rec.todo /\ SweepRank(rec') < SweepRank(rec)
<1>1. rec.todo \in SUBSET Events /\ Cardinality(rec.todo) \in Nat
  BY WorkerShapes, FS_Subset, FS_CardinalityType
<1>2. ASSUME NEW s \in Sessions, StartSweep(s)
      PROVE  rec.pc = "decided" /\ rec'.pc = "settling" /\ rec'.todo = rec.todo
  BY <1>2, WorkerShapes DEF StartSweep, Deciding
<1>3. ASSUME SweepNeverStarts \/ SweepReturns \/ SweepRaises \/ SweepLosesConnection
      PROVE  rec.pc \in {"decided", "settling"} /\ rec'.pc = "idle" /\ rec'.todo = rec.todo
  BY <1>3 DEF SweepNeverStarts, SweepReturns, SweepRaises, SweepLosesConnection, NextEvent
<1>4. CASE \E s \in Sessions : StartSweep(s)
  BY <1>1, <1>2, <1>4 DEF SweepRank
<1>5. CASE SweepNeverStarts \/ SweepReturns \/ SweepRaises \/ SweepLosesConnection
  BY <1>1, <1>3, <1>5 DEF SweepRank
<1> QED BY <1>4, <1>5

\* A tick ends, and one event does not hold up another: with finitely many events
\* each step of a tick leaves less of it, no failure of a lookup or of a settle takes
\* any other event off the list, and nobody but a crash interferes
\* (Reconciler._tick and _reconcile_event).
THEOREM TicksCountDown ==
  ASSUME IsFiniteSet(Events)
  PROVE  Spec => [][TicksAdvance]_vars
<1>1. TypeOK /\ [Next]_vars => [TicksAdvance]_vars
  <2> SUFFICES ASSUME TypeOK, [Next]_vars
               PROVE  TicksAdvance
    OBVIOUS
  <2> USE DEF TypeOK
  <2>1. SweepRank(rec) \in 0..(3 * Cardinality(Events) + 2)
    BY WorkerShapes, RankOfSweep
  <2>2. ReconcilerStep \/ Crash \/ UNCHANGED rec
    BY DEF Next, vars, workerVars, LPStep, Route, LoseMessage, LPRestart, ValidateBet, InsertBet,
           DropBet, Deliver, HandlerStep, Refuse, StartSettle, SettleNeverStarts, SettleReturns,
           SettleRaises, SettleLosesConnection, Ack, Reject, LockNextRow, EndOrphan, LoseBroker
  <2>3. ASSUME ReconcilerStep
        PROVE  /\ Tick \/ SweepRank(rec') < SweepRank(rec)
               /\ \A e \in rec.todo \ rec'.todo : LookUp(e) \/ LookUpFails(e)
    <3>1. CASE Tick
      BY <3>1 DEF Tick, AsleepReconciler
    <3>2. ASSUME NEW e \in Events, LookUp(e) \/ LookUpFails(e)
          PROVE  /\ SweepRank(rec') < SweepRank(rec)
                 /\ \A f \in rec.todo \ rec'.todo : LookUp(f) \/ LookUpFails(f)
      <4>1. \A f \in rec.todo \ rec'.todo : f = e
        BY <3>2, LookUpAdvances
      <4> QED BY <3>2, <4>1, LookUpAdvances
    <3>3. CASE \/ \E s \in Sessions : StartSweep(s)
               \/ SweepNeverStarts \/ SweepReturns \/ SweepRaises \/ SweepLosesConnection
      BY <3>3, SweepAdvances
    <3> QED BY <2>3, <3>1, <3>2, <3>3 DEF ReconcilerStep
  <2> HIDE DEF TypeOK
  <2> QED BY <2>1, <2>2, <2>3 DEF TicksAdvance
<1> QED BY <1>1, SystemTypeCorrect, PTL DEF Spec
===============================================================================
