---------------------------- MODULE BettingPromise ----------------------------
(***************************************************************************)
(* What the two services promise together, to whoever places a bet and     *)
(* later reads what has become of it. A bet comes from a request that      *)
(* found its event bettable; it is settled at most once; a win or a loss   *)
(* is the outcome line_provider announced, the only one it announces, and  *)
(* after which nobody can bet on the event any more; and a bet is          *)
(* cancelled only when line_provider has lost its events. Nothing here     *)
(* knows of messages, lookups, transactions, retries or crashes.           *)
(***************************************************************************)
EXTENDS BswTypes, Naturals

VARIABLES bettable,  \* the events that accept bets
          outcomes,  \* what has been announced for each event
          epoch,     \* how often line_provider has lost its events
          intents,   \* the event each request under way has found bettable, if any
          bets       \* the ledger, as in BetLedger

marketVars == <<bettable, outcomes, epoch>>

Outcomes == {StatusOf[t] : t \in TerminalStates}

Init == /\ bettable = {}
        /\ outcomes = [e \in Events |-> {}]
        /\ epoch = 0
        /\ intents = [b \in Bets |-> {}]
        /\ bets = [b \in Bets |-> NoBet]

\* line_provider opens and closes events and announces outcomes. Until it has lost
\* its events, an event has one outcome at most and accepts no bet afterwards.
Market ==
  /\ bettable' \subseteq Events
  /\ outcomes' \in [Events -> SUBSET Outcomes]
  /\ epoch' \in Nat
  /\ epoch <= epoch'
  /\ \A e \in Events :
       /\ outcomes[e] \subseteq outcomes'[e]
       /\ (epoch' = 0 /\ outcomes'[e] # {}) =>
            (e \notin bettable' /\ \E o \in Outcomes : outcomes'[e] = {o})
  /\ UNCHANGED <<intents, bets>>

\* A request asks for its event while that accepts bets.
Accept(b, e) ==
  /\ e \in bettable
  /\ intents[b] = {}
  /\ bets[b] = NoBet
  /\ intents' = [intents EXCEPT ![b] = {e}]
  /\ UNCHANGED <<marketVars, bets>>

\* Requests fail, are refused after all, or die with their process.
Abandon(B) ==
  /\ intents' = [b \in Bets |-> IF b \in B THEN {} ELSE intents[b]]
  /\ UNCHANGED <<marketVars, bets>>

Place(b, e) ==
  /\ intents[b] = {e}
  /\ bets[b] = NoBet
  /\ bets' = [bets EXCEPT ![b] = PendingBet(e)]
  /\ intents' = [intents EXCEPT ![b] = {}]
  /\ UNCHANGED marketVars

\* One verdict for a set of bets of one event, for the reason the verdict names.
Settle(B, e, v) ==
  /\ v.status \in Outcomes => v.status \in outcomes[e]
  /\ v.status = "CANCELLED" => epoch > 0
  /\ \A b \in B : bets[b] = PendingBet(e)
  /\ bets' = [b \in Bets |-> IF b \in B THEN SettledBet(e, v) ELSE bets[b]]
  /\ UNCHANGED <<marketVars, intents>>

Next ==
  \/ Market
  \/ \E b \in Bets, e \in Events : Accept(b, e) \/ Place(b, e)
  \/ \E B \in SUBSET Bets : Abandon(B)
  \/ \E B \in SUBSET Bets, e \in Events, v \in Verdicts : Settle(B, e, v)

Spec == Init /\ [][Next]_<<marketVars, intents, bets>>
===============================================================================
