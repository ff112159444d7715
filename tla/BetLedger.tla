------------------------------ MODULE BetLedger -------------------------------
(***************************************************************************)
(* What table bets promises its readers (GET /bets, GET /bet/{bet_id}):    *)
(* a bet appears PENDING on one event, and is settled at most once, in one *)
(* atomic step that gives one verdict to a whole set of bets of one event. *)
(* Nothing here knows of transactions, locks, messages or retries.         *)
(***************************************************************************)
EXTENDS BswTypes

VARIABLE bets

Init == bets = [b \in Bets |-> NoBet]

Place(b, e) ==
  /\ bets[b] = NoBet
  /\ bets' = [bets EXCEPT ![b] = PendingBet(e)]

Settle(B, e, v) ==
  /\ \A b \in B : bets[b] = PendingBet(e)
  /\ bets' = [b \in Bets |-> IF b \in B THEN SettledBet(e, v) ELSE bets[b]]

Next == \/ \E b \in Bets, e \in Events : Place(b, e)
        \/ \E B \in SUBSET Bets, e \in Events, v \in Verdicts : Settle(B, e, v)

Spec == Init /\ [][Next]_bets
===============================================================================
