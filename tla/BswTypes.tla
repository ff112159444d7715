------------------------------- MODULE BswTypes -------------------------------
(***************************************************************************)
(* The vocabulary the two services share: event states, bet statuses, the  *)
(* map from the one to the other, and the shape of a row of table bets.    *)
(***************************************************************************)
CONSTANTS Events,   \* event ids, chosen by the caller of POST /event
          Bets      \* bet ids, uuid4 generated by POST /bet

TerminalStates == {"FINISHED_WIN", "FINISHED_LOSE"}
EventStates    == {"NEW"} \cup TerminalStates
BetStatuses    == {"PENDING", "WON", "LOST", "CANCELLED"}
SettledVia     == {"consumer", "reconciler"}

\* _TERMINAL_TO_STATUS: the status a bet takes when its event has finished.
StatusOf == [t \in TerminalStates |-> IF t = "FINISHED_WIN" THEN "WON" ELSE "LOST"]

\* What the two interactors may write: a settle by either caller, a cancel
\* only by the reconciler (cancelled_via is Literal["reconciler"]).
Verdicts == [status : {StatusOf[t] : t \in TerminalStates}, via : SettledVia]
              \cup [status : {"CANCELLED"}, via : {"reconciler"}]

\* A row of table bets; NoBet stands for an id no row carries yet. settled_at
\* is NULL exactly when settled_via is, so one field stands for the two.
NoBet           == [status |-> "ABSENT"]
PendingBet(e)   == [event |-> e, status |-> "PENDING", via |-> "NULL"]
SettledBet(e,v) == [event |-> e, status |-> v.status, via |-> v.via]

PendingRows == {PendingBet(e) : e \in Events}
SettledRows == {SettledBet(e, v) : e \in Events, v \in Verdicts}
Rows        == PendingRows \cup SettledRows
===============================================================================
