-------------------------- MODULE LineProviderProofs --------------------------
(***************************************************************************)
(* Theorems about line_provider, for any number of events and restarts.    *)
(*                                                                         *)
(* AnnouncedIsStored and AnnouncedOnce are inductive together with         *)
(* NoneFromTheFuture: a restart must find no message of the incarnation it *)
(* begins, or its empty store would contradict it.                         *)
(***************************************************************************)
EXTENDS LineProvider, FiniteSetTheorems, TLAPS

\* Appending a message keeps the earlier ones and adds one id.
LEMMA AnnounceAppends ==
  ASSUME LP_TypeOK, NEW e \in Events, NEW new \in TerminalStates, Announce(e, new)
  PROVE  /\ published' \in Seq(Message)
         /\ MessageIds' = MessageIds \cup {Len(published) + 1}
         /\ Len(published) + 1 \notin MessageIds
         /\ \A i \in MessageIds : published'[i] = published[i]
         /\ published'[Len(published) + 1] = [event |-> e, new_state |-> new, epoch |-> epoch]
<1>1. published \in Seq(Message) /\ [event |-> e, new_state |-> new, epoch |-> epoch] \in Message
  BY DEF LP_TypeOK, Message
<1> QED BY <1>1 DEF Announce, MessageIds

\* The two cases of a PUT, as the store and the log see it.
LEMMA PutCases ==
  ASSUME LP_TypeOK, NEW e \in Events, NEW new \in EventStates, NEW open \in BOOLEAN,
         PutEvent(e, new, open)
  PROVE  /\ store[e] \in Event
         /\ store' = [store EXCEPT ![e] = [state |-> new, open |-> open]]
         /\ \/ store[e].state = "NEW" /\ new \in TerminalStates /\ Announce(e, new)
            \/ store[e].state = new /\ UNCHANGED <<published, publishing>>
<1>1. store[e] \in Event
  BY DEF LP_TypeOK, PutEvent, Update
<1>2. store[e].state = new \/ (store[e].state = "NEW" /\ new \in TerminalStates)
  BY DEF PutEvent, IsTransitionAllowed, AllowedTransitions
<1>3. CASE store[e].state = "NEW" /\ new \in TerminalStates
  BY <1>1, <1>3 DEF PutEvent, Update
<1>4. CASE ~(store[e].state = "NEW" /\ new \in TerminalStates)
  BY <1>1, <1>2, <1>4 DEF PutEvent, Update
<1> QED BY <1>3, <1>4

\* Type correctness of the service and its log of publish calls.
THEOREM LPTypeCorrect == LP_Spec => []LP_TypeOK
<1>1. LP_Init => LP_TypeOK
  <2>1. <<>> \in Seq(Message) /\ 0 \in 0..MaxEpoch
    BY MaxEpochAssumption
  <2> QED BY <2>1 DEF LP_Init, LP_TypeOK
<1>2. LP_TypeOK /\ [LP_Next]_lpVars => LP_TypeOK'
  <2> SUFFICES ASSUME LP_TypeOK, [LP_Next]_lpVars
               PROVE  LP_TypeOK'
    OBVIOUS
  <2>1. ASSUME NEW e \in Events, PostEvent(e)
        PROVE  LP_TypeOK'
    BY <2>1 DEF PostEvent, Add, LP_TypeOK, Event, EventStates, MessageIds
  <2>2. ASSUME NEW e \in Events, NEW new \in EventStates, NEW open \in BOOLEAN,
               PutEvent(e, new, open)
        PROVE  LP_TypeOK'
    <3>1. store' \in [Events -> Event \cup {NoEvent}]
      BY <2>2, PutCases DEF LP_TypeOK, Event
    <3>2. epoch' \in 0..MaxEpoch
      BY <2>2 DEF PutEvent, LP_TypeOK
    <3>3. published' \in Seq(Message) /\ publishing' \subseteq MessageIds'
      <4>1. CASE new \in TerminalStates /\ Announce(e, new)
        BY <4>1, AnnounceAppends DEF LP_TypeOK, Announce
      <4>2. CASE UNCHANGED <<published, publishing>>
        BY <4>2 DEF LP_TypeOK, MessageIds
      <4> QED BY <2>2, <4>1, <4>2, PutCases
    <3> QED BY <3>1, <3>2, <3>3 DEF LP_TypeOK
  <2>3. ASSUME NEW e \in Events, Expire(e)
        PROVE  LP_TypeOK'
    <3>1. store[e] \in Event /\ store' = [store EXCEPT ![e].open = FALSE]
      BY <2>3 DEF Expire, LP_TypeOK
    <3>2. [store[e] EXCEPT !.open = FALSE] \in Event
      BY <3>1 DEF Event
    <3> QED BY <2>3, <3>1, <3>2 DEF Expire, LP_TypeOK, MessageIds
  <2>4. ASSUME NEW i \in MessageIds, EndPublish(i)
        PROVE  LP_TypeOK'
    BY <2>4 DEF EndPublish, LP_TypeOK, MessageIds
  <2>5. CASE Restart
    BY <2>5, MaxEpochAssumption DEF Restart, LP_TypeOK, MessageIds
  <2>6. CASE UNCHANGED lpVars
    BY <2>6 DEF lpVars, LP_TypeOK, MessageIds
  <2> QED BY <2>1, <2>2, <2>3, <2>4, <2>5, <2>6 DEF LP_Next
<1> QED BY <1>1, <1>2, PTL DEF LP_Spec

-------------------------------------------------------------------------------
AnnouncementInv == AnnouncedIsStored /\ AnnouncedOnce /\ NoneFromTheFuture

\* The store, seen through its states alone: only a PUT announces, and only a
\* PUT, a POST of an unknown event or a restart changes a state.
LEMMA AnnouncementStep ==
  ASSUME LP_TypeOK, AnnouncementInv, [LP_Next]_lpVars
  PROVE  AnnouncementInv'
<1> USE DEF AnnouncementInv
<1>t. /\ \A i \in MessageIds : /\ published[i].event \in Events
                               /\ published[i].new_state \in TerminalStates
                               /\ published[i].epoch \in Nat
      /\ epoch \in Nat
      /\ NoEvent.state \notin EventStates
  <2>1. \A i \in MessageIds : published[i] \in Message
    BY DEF LP_TypeOK, MessageIds
  <2>2. \A m \in Message : m.event \in Events /\ m.new_state \in TerminalStates /\ m.epoch \in Nat
    BY MaxEpochAssumption DEF Message
  <2>3. epoch \in Nat
    BY MaxEpochAssumption DEF LP_TypeOK
  <2>4. NoEvent.state \notin EventStates
    BY DEF NoEvent, EventStates, TerminalStates
  <2> QED BY <2>1, <2>2, <2>3, <2>4
<1>a. ASSUME UNCHANGED <<epoch, published>>,
             \A e \in Events : \/ store'[e].state = store[e].state
                               \/ ~Finished(e) /\ ~Finished(e)'
      PROVE  AnnouncementInv'
  BY <1>a, <1>t DEF AnnouncedIsStored, AnnouncedOnce, NoneFromTheFuture, Finished, MessageIds
<1>1. ASSUME NEW e \in Events, PostEvent(e)
      PROVE  AnnouncementInv'
  <2>1. ~Finished(e) /\ ~Finished(e)'
    BY <1>1 DEF PostEvent, Add, Finished, NoEvent, TerminalStates, LP_TypeOK
  <2> QED BY <1>1, <1>a, <2>1 DEF PostEvent, Add, LP_TypeOK
<1>2. ASSUME NEW e \in Events, NEW new \in EventStates, NEW open \in BOOLEAN,
             PutEvent(e, new, open)
      PROVE  AnnouncementInv'
  <2>1. /\ epoch' = epoch
        /\ store'[e].state = new
        /\ \A f \in Events \ {e} : store'[f] = store[f]
    BY <1>2, PutCases DEF PutEvent, LP_TypeOK
  <2>2. CASE store[e].state = new /\ UNCHANGED <<published, publishing>>
    BY <2>1, <2>2, <1>a
  <2>3. CASE store[e].state = "NEW" /\ new \in TerminalStates /\ Announce(e, new)
    <3> DEFINE n == Len(published) + 1
    <3>1. /\ MessageIds' = MessageIds \cup {n} /\ n \notin MessageIds
          /\ \A i \in MessageIds : published'[i] = published[i]
          /\ published'[n] = [event |-> e, new_state |-> new, epoch |-> epoch]
      BY <2>3, AnnounceAppends
    <3>2. "NEW" \notin TerminalStates
      BY DEF TerminalStates
    <3>3. \A i \in MessageIds : ~(published[i].event = e /\ published[i].epoch = epoch)
      BY <2>3, <3>2, <1>t DEF AnnouncedIsStored
    <3> HIDE DEF n
    <3>4. AnnouncedOnce'
      BY <3>1, <3>3 DEF AnnouncedOnce
    <3>5. AnnouncedIsStored'
      <4>1. \A i \in MessageIds' :
              published'[i].epoch = epoch' =>
                store'[published'[i].event].state = published'[i].new_state
        BY <2>1, <3>1, <3>3, <1>t DEF AnnouncedIsStored
      <4>2. \A f \in Events :
              Finished(f)' => \E i \in MessageIds' : /\ published'[i].event = f
                                                     /\ published'[i].epoch = epoch'
        BY <2>1, <3>1 DEF AnnouncedIsStored, Finished
      <4> QED BY <4>1, <4>2 DEF AnnouncedIsStored
    <3>6. NoneFromTheFuture'
      BY <2>1, <3>1, <1>t DEF NoneFromTheFuture
    <3> QED BY <3>4, <3>5, <3>6
  <2> QED BY <1>2, <2>2, <2>3, PutCases
<1>3. ASSUME NEW e \in Events, Expire(e)
      PROVE  AnnouncementInv'
  <2>1. store[e] \in Event /\ store' = [store EXCEPT ![e].open = FALSE]
    BY <1>3 DEF Expire, LP_TypeOK
  <2>2. \A f \in Events : store'[f].state = store[f].state
    BY <2>1 DEF LP_TypeOK, Event
  <2> QED BY <1>3, <1>a, <2>2 DEF Expire
<1>4. ASSUME NEW i \in MessageIds, EndPublish(i)
      PROVE  AnnouncementInv'
  BY <1>4, <1>a DEF EndPublish
<1>5. CASE Restart
  <2>1. \A i \in MessageIds' : published'[i].epoch # epoch'
    BY <1>5, <1>t DEF Restart, NoneFromTheFuture, MessageIds
  <2>2. \A e \in Events : ~Finished(e)'
    BY <1>5, <1>t DEF Restart, Finished, EventStates
  <2> QED BY <1>5, <2>1, <2>2, <1>t
          DEF Restart, AnnouncedIsStored, AnnouncedOnce, NoneFromTheFuture, MessageIds
<1>6. CASE UNCHANGED lpVars
  BY <1>6, <1>a DEF lpVars
<1> QED BY <1>1, <1>2, <1>3, <1>4, <1>5, <1>6 DEF LP_Next

\* The inductive invariant: what is announced is stored, once, and by no
\* incarnation to come.
THEOREM AnnouncementInvariant == LP_Spec => []AnnouncementInv
<1>1. LP_Init => AnnouncementInv
  BY DEF LP_Init, AnnouncementInv, AnnouncedIsStored, AnnouncedOnce, NoneFromTheFuture,
         MessageIds, Finished, NoEvent, TerminalStates
<1>2. LP_TypeOK /\ AnnouncementInv /\ [LP_Next]_lpVars => AnnouncementInv'
  BY AnnouncementStep
<1> QED BY <1>1, <1>2, LPTypeCorrect, PTL DEF LP_Spec

\* What an incarnation announces of an event and what it holds agree.
THEOREM AnnouncedIsStoredAlways == LP_Spec => []AnnouncedIsStored
BY AnnouncementInvariant, PTL DEF AnnouncementInv

\* An incarnation announces an event at most once.
THEOREM AnnouncedOnceAlways == LP_Spec => []AnnouncedOnce
BY AnnouncementInvariant, PTL DEF AnnouncementInv

\* A finished event keeps its state for as long as the service runs: the transition
\* table lets it go nowhere, and no POST replaces it.
THEOREM FinalStateSticksAlways == LP_Spec => FinalStateSticks
<1>1. LP_TypeOK /\ [LP_Next]_lpVars =>
        [\A e \in Events : (Finished(e) /\ epoch' = epoch) => store'[e].state = store[e].state]_lpVars
  <2> SUFFICES ASSUME LP_TypeOK, LP_Next, NEW f \in Events, Finished(f), epoch' = epoch
               PROVE  store'[f].state = store[f].state
    OBVIOUS
  <2>1. ASSUME NEW e \in Events, PostEvent(e)
        PROVE  store'[f] = store[f]
    BY <2>1 DEF PostEvent, Add, Finished, NoEvent, TerminalStates, LP_TypeOK
  <2>2. ASSUME NEW e \in Events, NEW new \in EventStates, NEW open \in BOOLEAN,
               PutEvent(e, new, open)
        PROVE  store'[f].state = store[f].state
    <3>1. "NEW" \notin TerminalStates
      BY DEF TerminalStates
    <3> QED BY <2>2, <3>1, PutCases DEF Finished, LP_TypeOK
  <2>3. ASSUME NEW e \in Events, Expire(e)
        PROVE  store'[f].state = store[f].state
    <3>1. store[e] \in Event /\ store' = [store EXCEPT ![e].open = FALSE]
      BY <2>3 DEF Expire, LP_TypeOK
    <3> QED BY <3>1 DEF LP_TypeOK, Event
  <2>4. ASSUME NEW i \in MessageIds, EndPublish(i)
        PROVE  store'[f] = store[f]
    BY <2>4 DEF EndPublish
  <2>5. CASE Restart
    BY <2>5 DEF Restart, LP_TypeOK
  <2> QED BY <2>1, <2>2, <2>3, <2>4, <2>5 DEF LP_Next
<1> QED BY <1>1, LPTypeCorrect, PTL DEF LP_Spec, FinalStateSticks
\* An id stays an id, and keeps its message, whatever happens.
LEMMA LogOnlyGrows ==
  ASSUME LP_TypeOK, [LP_Next]_lpVars
  PROVE  /\ MessageIds \subseteq MessageIds'
         /\ \A i \in MessageIds : published'[i] = published[i]
         /\ epoch' \in Nat /\ epoch' >= epoch
<1>0. epoch \in Nat
  BY MaxEpochAssumption DEF LP_TypeOK
<1>1. ASSUME NEW e \in Events, NEW new \in EventStates, NEW open \in BOOLEAN,
             PutEvent(e, new, open)
      PROVE  /\ MessageIds \subseteq MessageIds'
             /\ \A i \in MessageIds : published'[i] = published[i]
             /\ epoch' = epoch
  <2>1. CASE new \in TerminalStates /\ Announce(e, new)
    BY <1>1, <2>1, AnnounceAppends DEF PutEvent
  <2>2. CASE UNCHANGED <<published, publishing>>
    BY <1>1, <2>2 DEF PutEvent, MessageIds
  <2> QED BY <1>1, <2>1, <2>2, PutCases
<1>2. ASSUME NEW e \in Events, PostEvent(e) \/ Expire(e)
      PROVE  UNCHANGED <<epoch, published>>
  BY <1>2 DEF PostEvent, Expire
<1>3. ASSUME NEW i \in MessageIds, EndPublish(i)
      PROVE  UNCHANGED <<epoch, published>>
  BY <1>3 DEF EndPublish
<1>4. CASE Restart
  BY <1>0, <1>4 DEF Restart, MessageIds
<1>5. CASE UNCHANGED lpVars
  BY <1>0, <1>5 DEF lpVars, MessageIds
<1> QED BY <1>0, <1>1, <1>2, <1>3, <1>4, <1>5 DEF LP_Next, MessageIds

-------------------------------------------------------------------------------
(* What a bettor sees of line_provider: the market of BettingPromise *)

\* Announcements are never taken back.
LEMMA AnnouncedGrows ==
  ASSUME LP_TypeOK, [LP_Next]_lpVars, NEW e \in Events
  PROVE  /\ epoch \in Nat /\ epoch' \in Nat /\ epoch <= epoch'
         /\ Announced(e) \subseteq Announced(e)'
<1>1. epoch \in Nat
  BY MaxEpochAssumption DEF LP_TypeOK
<1>2. ASSUME NEW i \in MessageIds, published[i].event = e
      PROVE  StatusOf[published[i].new_state] \in Announced(e)'
  BY <1>2, LogOnlyGrows DEF Announced
<1> QED BY <1>1, <1>2, LogOnlyGrows DEF Announced

\* What is announced is an outcome, and while the first incarnation runs it is the
\* only one, of an event that accepts no more bets.
MarketShut ==
  \A e \in Events :
    /\ Announced(e) \subseteq {StatusOf[t] : t \in TerminalStates}
    /\ (epoch = 0 /\ Announced(e) # {}) =>
         ~Bettable(e) /\ \E o \in {StatusOf[t] : t \in TerminalStates} : Announced(e) = {o}

\* An outcome ends the betting: until line_provider restarts, an event has one
\* announced outcome at most, and from its announcement on accepts no bet (the
\* transition table and the announcement of set_event_state).
THEOREM OutcomeEndsBetting == LP_Spec => []MarketShut
<1>1. LP_TypeOK /\ AnnouncementInv => MarketShut
  <2> SUFFICES ASSUME LP_TypeOK, AnnouncementInv, NEW e \in Events
               PROVE  /\ Announced(e) \subseteq {StatusOf[t] : t \in TerminalStates}
                      /\ (epoch = 0 /\ Announced(e) # {}) =>
                           /\ ~Bettable(e)
                           /\ \E o \in {StatusOf[t] : t \in TerminalStates} : Announced(e) = {o}
    BY DEF MarketShut
  <2>1. \A i \in MessageIds : published[i] \in Message
    BY DEF LP_TypeOK, MessageIds
  <2>2. \A i \in MessageIds : published[i].new_state \in TerminalStates /\ published[i].epoch \in Nat
    BY <2>1, MaxEpochAssumption DEF Message
  <2>3. Announced(e) \subseteq {StatusOf[t] : t \in TerminalStates}
    BY <2>2 DEF Announced
  <2>4. ASSUME epoch = 0, Announced(e) # {}
        PROVE  ~Bettable(e) /\ \E o \in {StatusOf[t] : t \in TerminalStates} : Announced(e) = {o}
    <3>1. \A i \in MessageIds : published[i].event = e => store[e].state = published[i].new_state
      BY <2>2, <2>4 DEF AnnouncementInv, NoneFromTheFuture, AnnouncedIsStored
    <3>2. PICK i \in MessageIds : published[i].event = e
      BY <2>4 DEF Announced
    <3>3. store[e].state \in TerminalStates
      BY <2>2, <3>1, <3>2
    <3>4. Announced(e) = {StatusOf[store[e].state]}
      BY <3>1, <3>2 DEF Announced
    <3>5. ~Bettable(e)
      BY <3>3 DEF Bettable, TerminalStates
    <3> QED BY <3>3, <3>4, <3>5
  <2> QED BY <2>3, <2>4
<1> QED BY <1>1, LPTypeCorrect, AnnouncementInvariant, PTL
-------------------------------------------------------------------------------
(* How many messages there can be *)

\* With finitely many events the log of publish calls is bounded: an incarnation
\* announces an event once, so a message is told from another by its event and its
\* incarnation, however many PUTs are retried.
THEOREM LogIsBounded ==
  ASSUME IsFiniteSet(Events)
  PROVE  LP_Spec => [](MessageIds = 1..Len(published) /\ Len(published) <= Cardinality(Events) * (MaxEpoch + 1))
<1>1. LP_TypeOK /\ AnnouncementInv =>
        MessageIds = 1..Len(published) /\ Len(published) <= Cardinality(Events) * (MaxEpoch + 1)
  <2> SUFFICES ASSUME LP_TypeOK, AnnouncementInv
               PROVE  /\ MessageIds = 1..Len(published)
                      /\ Len(published) <= Cardinality(Events) * (MaxEpoch + 1)
    OBVIOUS
  <2> DEFINE Slots == Events \X (0..MaxEpoch)
             slot  == [i \in MessageIds |-> <<published[i].event, published[i].epoch>>]
  <2>1. MessageIds = 1..Len(published) /\ Len(published) \in Nat
    BY DEF LP_TypeOK, MessageIds
  <2>2. \A i \in MessageIds : published[i] \in Message
    BY DEF LP_TypeOK, MessageIds
  <2>3. slot \in [MessageIds -> Slots]
    BY <2>2 DEF Message
  <2>4. \A i, j \in MessageIds : slot[i] = slot[j] => i = j
    BY DEF AnnouncementInv, AnnouncedOnce
  <2>5. slot \in Injection(MessageIds, Slots)
    BY <2>3, <2>4 DEF Injection, IsInjective
  <2>6. /\ IsFiniteSet(0..MaxEpoch)
        /\ Cardinality(0..MaxEpoch) = MaxEpoch + 1
    BY MaxEpochAssumption, FS_Interval
  <2>7. /\ IsFiniteSet(Slots)
        /\ Cardinality(Slots) = Cardinality(Events) * (MaxEpoch + 1)
    BY <2>6, FS_Product
  <2>8. Cardinality(MessageIds) <= Cardinality(Slots)
    BY <2>5, <2>7, FS_Injection
  <2>9. Cardinality(MessageIds) = Len(published)
    <3> DEFINE n == Len(published)
    <3>1. n \in Nat /\ MessageIds = 1..n
      BY <2>1
    <3> HIDE DEF n
    <3>2. Cardinality(1..n) = n
      BY <3>1, FS_Interval
    <3> QED BY <3>1, <3>2 DEF n
  <2> QED BY <2>1, <2>7, <2>8, <2>9
<1> QED BY <1>1, LPTypeCorrect, AnnouncementInvariant, PTL
===============================================================================
