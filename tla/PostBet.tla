------------------------------- MODULE PostBet --------------------------------
(***************************************************************************)
(* POST /bet from its body to its answer: validation of the amount, the    *)
(* lookup with its retries, place_bet's three checks, the unit of work and *)
(* the status code. Other coroutines of the process (the reconciler,       *)
(* GET /events) use the same HTTP client meanwhile.                        *)
(*                                                                         *)
(* Money is counted in thousandths, so a body can have a digit too many.   *)
(***************************************************************************)
EXTENDS EventLookup

CONSTANTS Posts,       \* POST /bet requests; each would insert a row of its own
          Amounts,     \* amounts in the bodies, in thousandths
          MaxDigits,   \* of schemas/bets.py; 12 in the code
          Precision    \* of column bets.amount, Numeric(12, 2)

ASSUME PostsAssumption   == Posts \subseteq Callers
ASSUME AmountsAssumption == Amounts \subseteq Nat
ASSUME DigitsAssumption  == MaxDigits \in 2..Precision /\ Precision \in Nat

VARIABLES post,   \* the requests
          rows,   \* table bets: the row of each request
          chance  \* history: the event was bettable at some time of the lookup

pbVars == <<elVars, post, rows, chance>>

Cent == 10
Unit == 1000

\* Mutant: the limit schemas/bets.py:39 speaks of, twelve digits before the point.
Accepts_AllDigitsWhole(n) == n > 0 /\ n % Cent = 0 /\ n < 10^MaxDigits * Unit

\* Field(gt=0, max_digits, decimal_places=2): two places at most, and no more than
\* max_digits - 2 digits before them, which keeps the total below max_digits.
Accepts(n) == n > 0 /\ n % Cent = 0 /\ n < 10^(MaxDigits - 2) * Unit

\* quantize(0.01, ROUND_HALF_UP), and what a Numeric(Precision, 2) can hold.
Quantize(n) == ((n + Cent \div 2) \div Cent) * Cent
Fits(n)     == n < 10^(Precision - 2) * Unit

NoPost  == [pc |-> "none"]
NoRow   == [amount |-> 0]
Row     == [event : Events, amount : Nat]
Open    == [pc : {"validating", "inserting", "committed"}, event : Events, amount : Amounts]
Orphan  == [pc : {"orphan"}, event : Events, amount : Amounts, status : {"500", "dropped"}]
Done    == [pc : {"done"}, event : Events, amount : Amounts,
            status : {"201", "422", "500", "503", "dropped"}]

PB_TypeOK == /\ LP_TypeOK
             /\ EL_TypeOK
             /\ post \in [Posts -> Open \cup Orphan \cup Done \cup {NoPost}]
             /\ rows \in [Posts -> Row \cup {NoRow}]
             /\ chance \in [Posts -> BOOLEAN]
-------------------------------------------------------------------------------
Init == /\ EL_Init
        /\ post = [c \in Posts |-> NoPost]
        /\ rows = [c \in Posts |-> NoRow]
        /\ chance = [c \in Posts |-> FALSE]

Request(pc, e, n)  == [pc |-> pc, event |-> e, amount |-> n]
Over(pc, p, status) ==
  [pc |-> pc, event |-> p.event, amount |-> p.amount, status |-> status]
End(p, status)     == Over("done", p, status)

\* The body is refused before anybody is asked.
RejectBody(c, e, n) ==
  /\ post[c] = NoPost
  /\ ~Accepts(n)
  /\ post' = [post EXCEPT ![c] = End(Request("none", e, n), "422")]
  /\ UNCHANGED <<elVars, rows>>

Submit(c, e, n) ==
  /\ post[c] = NoPost
  /\ Accepts(n)
  /\ Ask(c, "bet", e)
  /\ post' = [post EXCEPT ![c] = Request("validating", e, n)]
  /\ UNCHANGED <<lpVars, rows>>

\* Mutant: the deadline of the snapshot is not looked at.
NextSteps_AfterDeadline(answer) ==
  CASE answer = Unavailable  -> {"503"}
    [] answer = Untranslated -> {"500"}
    [] answer = NoEvent      -> {"422"}
    [] OTHER -> IF answer.state = "NEW" THEN {"insert", "422"} ELSE {"422"}

\* What follows from an answer: the ladder of post_bet, place_bet's three checks.
\* A deadline that was in the future may have passed by the time it is compared.
NextSteps(answer) ==
  CASE answer = Unavailable  -> {"503"}
    [] answer = Untranslated -> {"500"}
    [] answer = NoEvent      -> {"422"}
    [] OTHER -> IF answer.state = "NEW" /\ answer.open THEN {"insert", "422"} ELSE {"422"}

Decide(c) ==
  /\ post[c].pc = "validating"
  /\ Take(c)
  /\ \E next \in NextSteps(call[c].answer) :
       post' = [post EXCEPT ![c] = IF next = "insert"
                                   THEN Request("inserting", @.event, @.amount)
                                   ELSE End(@, next)]
  /\ UNCHANGED <<lpVars, rows>>

\* Mutant: the unit of work is entered before the checks.
CommitRow_BeforeChecks(c) ==
  /\ call[c].pc = "answered"
  /\ post[c].pc = "validating"
  /\ rows' = [rows EXCEPT ![c] = [event |-> post[c].event, amount |-> Quantize(post[c].amount)]]
  /\ UNCHANGED <<elVars, post>>

\* The INSERT and the COMMIT of the unit of work's clean exit.
CommitRow(c) ==
  /\ post[c].pc = "inserting"
  /\ Fits(Quantize(post[c].amount))
  /\ rows' = [rows EXCEPT ![c] = [event |-> post[c].event, amount |-> Quantize(post[c].amount)]]
  /\ post' = [post EXCEPT ![c].pc = "committed"]
  /\ UNCHANGED elVars

\* A statement raises and the unit of work rolls back; or the answer to COMMIT is
\* lost and nobody here knows that the row is there. Both are a 500.
InsertRaises(c) ==
  /\ post[c].pc \in {"inserting", "committed"}
  /\ post' = [post EXCEPT ![c] = End(@, "500")]
  /\ UNCHANGED <<elVars, rows>>

\* The connection breaks with the COMMIT on its way: a 500 too, and the transaction
\* is left to PostgreSQL.
InsertLosesConnection(c) ==
  /\ post[c].pc = "inserting"
  /\ post' = [post EXCEPT ![c] = Over("orphan", @, "500")]
  /\ UNCHANGED <<elVars, rows>>

\* PostgreSQL gets the COMMIT of a request that is over, or rolls it back.
EndOrphan(c) ==
  /\ post[c].pc = "orphan"
  /\ \/ /\ Fits(Quantize(post[c].amount))
        /\ rows' = [rows EXCEPT ![c] = [event  |-> post[c].event,
                                        amount |-> Quantize(post[c].amount)]]
     \/ UNCHANGED rows
  /\ post' = [post EXCEPT ![c] = End(@, @.status)]
  /\ UNCHANGED elVars

Respond(c) ==
  /\ post[c].pc = "committed"
  /\ post' = [post EXCEPT ![c] = End(@, "201")]
  /\ UNCHANGED <<elVars, rows>>

\* The process dies: no request gets an answer, what is committed stays, and what
\* was inserting may have sent its COMMIT.
Crash ==
  /\ DropCalls
  /\ \E sent \in SUBSET {c \in Posts : post[c].pc = "inserting"} :
       post' = [c \in Posts |->
                  IF c \in sent THEN Over("orphan", post[c], "dropped")
                  ELSE IF post[c] \in Open THEN End(post[c], "dropped") ELSE post[c]]
  /\ UNCHANGED <<lpVars, rows>>

\* The reconciler and GET /events ask too. A failed GET /events is a 503, and what
\* the reconciler does with its answer is in Bsw.
OtherUser(c) ==
  /\ \/ \E user \in Users \ {"bet"}, s \in Subjects : Ask(c, user, s)
     \/ Take(c)
  /\ UNCHANGED <<lpVars, post, rows>>

Client(c)  == ClientStep(c) /\ UNCHANGED <<lpVars, post, rows>>
Handler(c) == \/ Decide(c) \/ CommitRow(c) \/ Respond(c)
              \/ InsertRaises(c) \/ InsertLosesConnection(c)

Step ==
  \/ LP_Next /\ UNCHANGED <<call, post, rows>>
  \/ \E c \in Callers : Client(c)
  \/ \E c \in Callers \ Posts : OtherUser(c)
  \/ \E c \in Posts :
       \/ \E e \in Events, n \in Amounts : RejectBody(c, e, n) \/ Submit(c, e, n)
       \/ Handler(c)
       \/ EndOrphan(c)
  \/ Crash

\* While a request's lookup lasts, every chance to bet is remembered.
Waiting(c) == post[c].pc = "validating" /\ Bettable(post[c].event)
Remember   == chance' = [c \in Posts |-> chance[c] \/ Waiting(c)']

Next == Step /\ Remember

\* An await ends: the timeout of the HTTP client sees to the lookup, and the
\* database answers or the connection breaks.
Fairness == \A c \in Posts : /\ WF_pbVars(Client(c) /\ Remember)
                             /\ WF_pbVars(Handler(c) /\ Remember)

Spec == Init /\ [][Next]_pbVars /\ Fairness
-------------------------------------------------------------------------------
\* A status code says what is in the table: 201 that the bet is there with the very
\* amount of the body, 422 and 503 that it is not and the client may try again.
StatusTellsTheTruth ==
  \A c \in Posts : post[c].pc = "done" =>
    /\ post[c].status = "201" => rows[c] = [event |-> post[c].event, amount |-> post[c].amount]
    /\ post[c].status \in {"422", "503"} => rows[c] = NoRow

\* No bet without a chance: a row's event was NEW, with its deadline ahead, at some
\* moment between its request and the checks, whatever was retried or changed on
\* the way (place_bet works on a snapshot).
PlacedWhileBettable ==
  \A c \in Posts : rows[c] # NoRow => chance[c]

\* What a request intends once a lookup has shown its event as bettable: the reply
\* is on its way, or the answer is taken, or its row is about to be inserted, by the
\* request or after it.
Favourable(a) == a.state = "NEW" /\ a.open
SeenBettable(k) == \/ k.pc = "replied" /\ Favourable(k.reply)
                   \/ k.pc = "answered" /\ Favourable(k.answer)
Intent(c) ==
  IF post[c].pc \in {"inserting", "orphan"} \/ (post[c].pc = "validating" /\ SeenBettable(call[c]))
  THEN {post[c].event} ELSE {}

Betting == INSTANCE BettingPromise WITH
             Bets     <- Posts,
             bettable <- ActiveEvents,
             outcomes <- [e \in Events |-> Announced(e)],
             intents  <- [c \in Posts |-> Intent(c)],
             bets     <- [c \in Posts |-> IF rows[c] = NoRow THEN NoBet
                                         ELSE PendingBet(rows[c].event)]

\* POST /bet keeps its part of BettingPromise, the same promise the whole system
\* keeps: its retries, its status codes, its crashes and a COMMIT that arrives after
\* them place no other bet.
KeepsBettingPromise == Betting!Spec

\* What the body's validation lets through, the column takes as it is: max_digits
\* and Numeric count differently, and quantize_amount has nothing left to round.
AcceptedIsStorable ==
  \A c \in Posts : post[c].pc \in {"inserting", "orphan"} =>
    /\ Quantize(post[c].amount) = post[c].amount
    /\ Fits(Quantize(post[c].amount))

\* Every request comes to an end, however line_provider behaves: the attempts of a
\* lookup are limited (stop_after_attempt). Its transaction may outlive it.
EveryRequestEnds ==
  \A c \in Posts : (post[c] \in Open) ~> (post[c] \in Orphan \cup Done)
===============================================================================
