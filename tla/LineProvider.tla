----------------------------- MODULE LineProvider -----------------------------
(***************************************************************************)
(* line_provider: the in-memory event store, the two write routes, and the *)
(* announcement of a finished event.                                       *)
(*                                                                         *)
(* set_event_state suspends only at event_bus.publish: get_by_id and the   *)
(* update under the store's uncontended lock run without yielding to the   *)
(* event loop, so the check, the update and the start of the publication   *)
(* are one step. The publication ends later, and the store keeps the new   *)
(* state whether it succeeds or not.                                       *)
(***************************************************************************)
EXTENDS BswTypes, Naturals, Sequences

CONSTANT MaxEpoch   \* bound: how often the service restarts

ASSUME MaxEpochAssumption == MaxEpoch \in Nat

VARIABLES store,       \* InMemoryEventStore._data
          epoch,       \* which incarnation of the service is running
          published,   \* every publish call made; a position is the message's id
          publishing   \* the calls that have not ended

lpVars == <<store, epoch, published, publishing>>

\* Of an event's fields, those a bet depends on: its state and whether its
\* deadline lies in the future.
NoEvent == [state |-> "ABSENT"]
Event   == [state : EventStates, open : BOOLEAN]
Message == [event : Events, new_state : TerminalStates, epoch : 0..MaxEpoch]

MessageIds == DOMAIN published

LP_TypeOK == /\ store \in [Events -> Event \cup {NoEvent}]
             /\ epoch \in 0..MaxEpoch
             /\ published \in Seq(Message)
             /\ publishing \subseteq MessageIds
-------------------------------------------------------------------------------
LP_Init == /\ store = [e \in Events |-> NoEvent]
           /\ epoch = 0
           /\ published = <<>>
           /\ publishing = {}

AllowedTransitions == {"NEW"} \X TerminalStates

\* Mutant: any final state may replace another.
IsTransitionAllowed_AnyFinal(current, new) == current = new \/ new \in TerminalStates

IsTransitionAllowed(current, new) ==
  current = new \/ <<current, new>> \in AllowedTransitions

\* InMemoryEventStore.add and update, each under the store's lock.
Add(e, event) ==
  /\ store[e] = NoEvent
  /\ store' = [store EXCEPT ![e] = event]

Update(e, event) ==
  /\ store[e] # NoEvent
  /\ store' = [store EXCEPT ![e] = event]

\* POST /event, 201: a NEW event with a deadline in the future. A known id is
\* answered 409 and changes nothing.
PostEvent(e) ==
  /\ Add(e, [state |-> "NEW", open |-> TRUE])
  /\ UNCHANGED <<epoch, published, publishing>>

\* Mutant: the call in flight is recorded under the wrong id.
Announce_OffByOne(e, new) ==
  /\ published' = Append(published, [event |-> e, new_state |-> new, epoch |-> epoch])
  /\ publishing' = publishing \cup {Len(published) + 2}

\* set_event_state announces the step out of NEW, and only that step.
Announce(e, new) ==
  /\ published' = Append(published, [event |-> e, new_state |-> new, epoch |-> epoch])
  /\ publishing' = publishing \cup {Len(published) + 1}

\* Mutant: every PUT of a final state publishes.
PutEvent_Republishes(e, new, open) ==
  /\ IsTransitionAllowed(store[e].state, new)
  /\ Update(e, [state |-> new, open |-> open])
  /\ IF new \in TerminalStates THEN Announce(e, new) ELSE UNCHANGED <<published, publishing>>
  /\ UNCHANGED epoch

\* PUT /event/{event_id}. An unknown id is a 404, a forbidden transition a 422,
\* and neither changes anything. The new deadline may be anything.
PutEvent(e, new, open) ==
  /\ IsTransitionAllowed(store[e].state, new)
  /\ Update(e, [state |-> new, open |-> open])
  /\ IF store[e].state = "NEW" /\ new \in TerminalStates
     THEN Announce(e, new)
     ELSE UNCHANGED <<published, publishing>>
  /\ UNCHANGED epoch

\* RabbitEventBus.publish ends: with the message handed to the exchange or not,
\* and with an answer to the client that nothing here depends on. Nobody
\* publishes this message again.
EndPublish(i) ==
  /\ i \in publishing
  /\ publishing' = publishing \ {i}
  /\ UNCHANGED <<store, epoch, published>>

\* Time passes an event's deadline.
Expire(e) ==
  /\ store[e] # NoEvent
  /\ store[e].open
  /\ store' = [store EXCEPT ![e].open = FALSE]
  /\ UNCHANGED <<epoch, published, publishing>>

\* The process dies and comes back: lifespan builds an empty store, and the
\* requests suspended in a publication are gone.
Restart ==
  /\ epoch < MaxEpoch
  /\ epoch' = epoch + 1
  /\ store' = [e \in Events |-> NoEvent]
  /\ publishing' = {}
  /\ UNCHANGED published

LP_Next ==
  \/ \E e \in Events :
       \/ PostEvent(e)
       \/ \E new \in EventStates, open \in BOOLEAN : PutEvent(e, new, open)
       \/ Expire(e)
  \/ \E i \in MessageIds : EndPublish(i)
  \/ Restart

LP_Spec == LP_Init /\ [][LP_Next]_lpVars
-------------------------------------------------------------------------------
Finished(e) == store[e].state \in TerminalStates

\* What line_provider holds as NEW with its deadline ahead, which is what GET /events
\* lists; and what it has announced of an event, in whichever incarnation.
Bettable(e)  == store[e] # NoEvent /\ store[e].state = "NEW" /\ store[e].open
ActiveEvents == {e \in Events : Bettable(e)}
Announced(e) == {StatusOf[published[i].new_state] : i \in {j \in MessageIds : published[j].event = e}}

\* What one incarnation says of an event and what it holds are the same: it has
\* announced e exactly when it holds e as finished, with that very outcome. Two
\* PUTs at once must not announce two outcomes, or one that was overwritten.
AnnouncedIsStored ==
  /\ \A i \in MessageIds :
       published[i].epoch = epoch =>
         store[published[i].event].state = published[i].new_state
  /\ \A e \in Events :
       Finished(e) => \E i \in MessageIds : published[i].event = e /\ published[i].epoch = epoch

\* An incarnation announces an event once, however often its final state is PUT:
\* the repeated PUT of a client that got a 500 is not a second announcement.
AnnouncedOnce ==
  \A i, j \in MessageIds :
    (published[i].event = published[j].event /\ published[i].epoch = published[j].epoch)
      => i = j

\* What the two rest on: no message carries the number of an incarnation to come.
NoneFromTheFuture == \A i \in MessageIds : published[i].epoch <= epoch

\* A finished event never changes its state while the service runs.
FinalStateSticks ==
  [][\A e \in Events :
       (Finished(e) /\ epoch' = epoch) => store'[e].state = store[e].state]_lpVars
===============================================================================
