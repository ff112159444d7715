----------------------------- MODULE PostBetProofs ----------------------------
(***************************************************************************)
(* Theorems about POST /bet, for any number of requests, callers, events   *)
(* and attempts, and any amounts.                                          *)
(*                                                                         *)
(* The invariant follows a request: its lookup asks for its event; what    *)
(* the lookup has learnt in its favour was true while it lasted; and the   *)
(* row is there exactly from the COMMIT on.                                *)
(***************************************************************************)
EXTENDS PostBet, EventLookupProofs

\* The lookup of a request, and what has been learnt from it.
Looked(c) ==
  post[c].pc = "validating" =>
    /\ call[c].pc # "idle"
    /\ call[c].subject = post[c].event
    /\ InFlight(c) => call[c].user = "bet"
    /\ call[c].pc = "replied" /\ Favourable(call[c].reply) => chance[c]
    /\ call[c].pc = "answered" /\ Favourable(call[c].answer) => chance[c]
    /\ Bettable(post[c].event) => chance[c]

Chanced(c) ==
  post[c].pc \in {"inserting", "committed", "orphan"} \/ rows[c] # NoRow => chance[c]

\* The row of a request, and what its client may have been told of it.
RowOf(p) == [event |-> p.event, amount |-> p.amount]

Told(c) ==
  /\ post[c].pc \in {"none", "validating", "inserting", "orphan"} => rows[c] = NoRow
  /\ post[c].pc = "committed" => rows[c] = RowOf(post[c])
  /\ post[c].pc = "done" /\ post[c].status = "201" => rows[c] = RowOf(post[c])
  /\ post[c].pc = "done" /\ post[c].status \in {"422", "503"} => rows[c] = NoRow

Accepted(c) ==
  post[c].pc \in {"validating", "inserting", "committed", "orphan"} => Accepts(post[c].amount)

RequestOK(c) == Looked(c) /\ Chanced(c) /\ Told(c) /\ Accepted(c)

RequestTypes == /\ post \in [Posts -> Open \cup Orphan \cup Done \cup {NoPost}]
                /\ rows \in [Posts -> Row \cup {NoRow}]
                /\ chance \in [Posts -> BOOLEAN]

PB_Inv == EL_Inv /\ RequestTypes /\ \A c \in Posts : RequestOK(c)
-------------------------------------------------------------------------------
\* quantize_amount has nothing to round in what the body may hold.
LEMMA QuantizeKeeps ==
  ASSUME NEW n \in Nat, Accepts(n)
  PROVE  Quantize(n) = n
<1>1. PICK k \in Nat : n = 10 * k
  <2>1. n % 10 = 0
    BY DEF Accepts, Cent
  <2> QED BY <2>1
<1>2. (10 * k + 5) \div 10 = k
  OBVIOUS
<1> QED BY <1>1, <1>2 DEF Quantize, Cent

LEMMA EventsAreSubjects ==
  /\ Events \subseteq Subjects
  /\ \A e \in Events : e \in SubjectsOf("bet") /\ View(e) = store[e]
  /\ "bet" \in Users
BY EventListAssumption DEF Subjects, SubjectsOf, View, Users

LEMMA PostFields ==
  ASSUME RequestTypes, NEW c \in Posts
  PROVE  /\ post[c].pc \in {"none", "validating", "inserting", "committed", "orphan", "done"}
         /\ post[c].pc # "none" => post[c].event \in Events /\ post[c].amount \in Amounts
         /\ post[c].pc = "orphan" => post[c] \in Orphan
         /\ post[c].pc \in {"validating", "inserting", "committed"} => post[c] \in Open
<1>1. post[c] \in Open \cup Orphan \cup Done \cup {NoPost}
  BY DEF RequestTypes
<1>2. CASE post[c] \in Open
  BY <1>2 DEF Open
<1>3. CASE post[c] \in Done
  BY <1>3 DEF Done
<1>4. CASE post[c] = NoPost
  BY <1>4 DEF NoPost
<1>5. CASE post[c] \in Orphan
  BY <1>5 DEF Orphan
<1> QED BY <1>1, <1>2, <1>3, <1>4, <1>5

\* A request's step is a step of the client, or none.
LEMMA StepIsLookupStep ==
  ASSUME [Next]_pbVars
  PROVE  [EL_Next]_elVars
<1>1. ASSUME NEW c \in Callers, Client(c)
      PROVE  EL_Next
  BY <1>1 DEF Client, EL_Next
<1>2. ASSUME NEW c \in Callers \ Posts, OtherUser(c)
      PROVE  EL_Next
  BY <1>2 DEF OtherUser, EL_Next
<1>3. ASSUME NEW c \in Posts, NEW e \in Events, NEW n \in Amounts, Submit(c, e, n)
      PROVE  EL_Next
  BY <1>3, PostsAssumption, EventsAreSubjects DEF Submit, EL_Next
<1>4. ASSUME NEW c \in Posts, NEW e \in Events, NEW n \in Amounts, RejectBody(c, e, n)
      PROVE  UNCHANGED elVars
  BY <1>4 DEF RejectBody
<1>5. ASSUME NEW c \in Posts, Handler(c)
      PROVE  EL_Next \/ UNCHANGED elVars
  BY <1>5, PostsAssumption
     DEF Handler, Decide, CommitRow, InsertRaises, InsertLosesConnection, Respond, EL_Next
<1>9. ASSUME NEW c \in Posts, EndOrphan(c)
      PROVE  UNCHANGED elVars
  BY <1>9 DEF EndOrphan
<1>6. CASE Crash
  BY <1>6 DEF Crash, EL_Next
<1>7. CASE LP_Next /\ UNCHANGED <<call, post, rows>>
  BY <1>7 DEF EL_Next
<1>8. CASE UNCHANGED pbVars
  BY <1>8 DEF pbVars
<1> QED BY <1>1, <1>2, <1>3, <1>4, <1>5, <1>6, <1>7, <1>8, <1>9 DEF Next, Step

\* A chance is remembered, and one that is there now is noticed.
LEMMA ChanceRemembered ==
  ASSUME RequestTypes, Remember, NEW c \in Posts
  PROVE  /\ chance' \in [Posts -> BOOLEAN]
         /\ chance[c] => chance'[c]
         /\ post'[c].pc = "validating" /\ Bettable(post[c].event)' => chance'[c]
<1>1. chance'[c] = (chance[c] \/ Waiting(c)')
  BY DEF Remember
<1>2. chance' \in [Posts -> BOOLEAN]
  <2>1. \A d \in Posts : (chance[d] \/ Waiting(d)') \in BOOLEAN
    OBVIOUS
  <2> QED BY <2>1 DEF Remember
<1>3. Waiting(c)' <=> post'[c].pc = "validating" /\ Bettable(post[c].event)'
  BY DEF Waiting
<1> QED BY <1>1, <1>2, <1>3, Zenon

\* A request that a step does not concern.
LEMMA Untouched ==
  ASSUME RequestTypes, Remember, NEW c \in Posts, RequestOK(c),
         post'[c] = post[c], rows'[c] = rows[c], call'[c] = call[c]
  PROVE  RequestOK(c)'
<1>1. /\ chance[c] => chance'[c]
      /\ post'[c].pc = "validating" /\ Bettable(post[c].event)' => chance'[c]
  BY ChanceRemembered
<1>2. Looked(c)'
  BY <1>1 DEF RequestOK, Looked, InFlight, Favourable
<1>3. Chanced(c)'
  BY <1>1 DEF RequestOK, Chanced
<1>4. Told(c)' /\ Accepted(c)'
  BY DEF RequestOK, Told, Accepted, RowOf
<1> QED BY <1>2, <1>3, <1>4 DEF RequestOK

\* An attempt of the request's own lookup.
LEMMA LookupAdvances ==
  ASSUME PB_Inv, Remember, NEW c \in Posts, ClientStep(c), UNCHANGED <<lpVars, post, rows>>
  PROVE  RequestOK(c)'
<1> USE DEF PB_Inv
<1>1. /\ chance[c] => chance'[c]
      /\ post'[c].pc = "validating" /\ Bettable(post[c].event)' => chance'[c]
  BY ChanceRemembered
<1>2. Chanced(c)' /\ Told(c)' /\ Accepted(c)'
  BY <1>1 DEF RequestOK, Chanced, Told, Accepted, RowOf
<1>3. ASSUME post[c].pc = "validating" PROVE Looked(c)'
  <2>1. c \in Callers /\ call \in [Callers -> Calls]
    BY PostsAssumption DEF EL_Inv, EL_TypeOK
  <2>2. post[c].event \in Events
    BY <1>3, PostFields
  <2>3. call[c].subject = post[c].event
    BY <1>3 DEF RequestOK, Looked
  <2>4. CASE Serve(c)
    <3>1. call'[c] = Replied(call[c], store[post[c].event])
      BY <2>1, <2>2, <2>3, <2>4, EventsAreSubjects DEF Serve
    <3>2. ASSUME Favourable(store[post[c].event]) PROVE chance[c]
      <4>1. store[post[c].event] # NoEvent
        BY <3>2 DEF Favourable, NoEvent
      <4>2. Bettable(post[c].event)
        BY <3>2, <4>1 DEF Favourable, Bettable
      <4> QED BY <1>3, <4>2 DEF RequestOK, Looked
    <3>3. call'[c].pc = "replied" /\ call'[c].subject = post[c].event
          /\ call'[c].reply = store[post[c].event] /\ call'[c].user = "bet"
      BY <1>3, <2>3, <2>4, <3>1 DEF Replied, Serve, InFlight, RequestOK, Looked
    <3> QED BY <1>1, <3>2, <3>3 DEF Looked, InFlight
  <2>5. CASE Receive(c)
    <3>1. call'[c].pc = "answered" /\ call'[c].subject = post[c].event
          /\ call'[c].answer = call[c].reply /\ call[c].pc = "replied"
      BY <2>1, <2>3, <2>5 DEF Receive, Answered
    <3>2. Favourable(call[c].reply) => chance[c]
      BY <1>3, <3>1 DEF RequestOK, Looked
    <3> QED BY <1>1, <3>1, <3>2 DEF Looked, InFlight
  <2>6. ASSUME NEW f \in Failures PROVE ~Favourable(f)
    BY DEF Favourable, Failures, Unavailable, Untranslated
  <2>7. CASE AttemptFails(c)
    <3>1. \/ call'[c] = Answered(call[c], Unavailable)
          \/ call'[c] = Asking(call[c].user, call[c].subject, call[c].attempt + 1)
      BY <2>1, <2>7 DEF AttemptFails, RetryOrGiveUp
    <3>2. CASE call'[c] = Answered(call[c], Unavailable)
      <4>1. call'[c].pc = "answered" /\ call'[c].subject = post[c].event
            /\ call'[c].answer = Unavailable /\ ~Favourable(call'[c].answer)
        BY <2>3, <2>6, <3>2 DEF Answered, Failures
      <4> QED BY <1>1, <4>1 DEF Looked, InFlight
    <3>3. CASE call'[c] = Asking(call[c].user, call[c].subject, call[c].attempt + 1)
      <4>1. call'[c].pc = "asking" /\ call'[c].subject = post[c].event /\ call'[c].user = "bet"
        BY <1>3, <2>3, <2>7, <3>3 DEF Asking, AttemptFails, RequestOK, Looked
      <4> QED BY <1>1, <4>1 DEF Looked, InFlight
    <3> QED BY <3>1, <3>2, <3>3
  <2>8. ASSUME NEW f \in Failures, Refuse(c, f) PROVE Looked(c)'
    <3>1. call'[c].pc = "answered" /\ call'[c].subject = post[c].event
          /\ call'[c].answer = f /\ ~Favourable(call'[c].answer)
      BY <2>1, <2>3, <2>6, <2>8 DEF Refuse, Answered
    <3> QED BY <1>1, <3>1 DEF Looked, InFlight
  <2> QED BY <2>4, <2>5, <2>7, <2>8 DEF ClientStep
<1>4. ASSUME post[c].pc # "validating" PROVE Looked(c)'
  BY <1>4 DEF Looked
<1> QED BY <1>2, <1>3, <1>4 DEF RequestOK

LEMMA TypesStep ==
  ASSUME PB_Inv, Next
  PROVE  RequestTypes'
<1> USE DEF PB_Inv
<1>1. chance' \in [Posts -> BOOLEAN]
  BY DEF Next, Remember
<1>2. ASSUME NEW c \in Posts, NEW p \in Open \cup Orphan \cup Done, post' = [post EXCEPT ![c] = p],
             UNCHANGED rows
      PROVE  RequestTypes'
  BY <1>1, <1>2 DEF RequestTypes
<1>3. ASSUME NEW c \in Posts, post[c] \in Open, NEW status \in {"422", "500", "503", "201", "dropped"}
      PROVE  /\ End(post[c], status) \in Done
             /\ status \in {"500", "dropped"} => Over("orphan", post[c], status) \in Orphan
  BY <1>3 DEF End, Over, Open, Done, Orphan
<1>4. ASSUME NEW c \in Posts, NEW e \in Events, NEW n \in Amounts, RejectBody(c, e, n)
      PROVE  RequestTypes'
  <2>1. End(Request("none", e, n), "422") \in Done
    BY DEF End, Over, Request, Done
  <2> QED BY <1>2, <1>4, <2>1 DEF RejectBody
<1>5. ASSUME NEW c \in Posts, NEW e \in Events, NEW n \in Amounts, Submit(c, e, n)
      PROVE  RequestTypes'
  <2>1. Request("validating", e, n) \in Open
    BY DEF Request, Open
  <2> QED BY <1>2, <1>5, <2>1 DEF Submit
<1>6. ASSUME NEW c \in Posts, Decide(c)
      PROVE  RequestTypes'
  <2>1. post[c] \in Open
    BY <1>6, PostFields DEF Decide
  <2>2. PICK next \in NextSteps(call[c].answer) :
          post' = [post EXCEPT ![c] = IF next = "insert"
                                      THEN Request("inserting", post[c].event, post[c].amount)
                                      ELSE End(post[c], next)]
    BY <1>6 DEF Decide
  <2>3. next \in {"insert", "422", "500", "503"}
    BY <2>2 DEF NextSteps
  <2>4. Request("inserting", post[c].event, post[c].amount) \in Open
    BY <2>1 DEF Request, Open
  <2>5. next # "insert" => End(post[c], next) \in Done
    BY <1>3, <2>1, <2>3
  <2> QED BY <1>2, <1>6, <2>2, <2>4, <2>5 DEF Decide
<1>7. ASSUME NEW c \in Posts, CommitRow(c)
      PROVE  RequestTypes'
  <2>1. post[c] \in Open
    BY <1>7, PostFields DEF CommitRow
  <2>2. [post[c] EXCEPT !.pc = "committed"] \in Open
    BY <2>1 DEF Open
  <2>3. post' = [post EXCEPT ![c] = [post[c] EXCEPT !.pc = "committed"]]
    BY <1>7 DEF CommitRow
  <2>4. Quantize(post[c].amount) = post[c].amount /\ post[c].amount \in Nat
    BY <1>7, <2>1, AmountsAssumption, QuantizeKeeps DEF CommitRow, Open, RequestOK, Accepted
  <2>5. [event |-> post[c].event, amount |-> Quantize(post[c].amount)] \in Row
    BY <2>1, <2>4 DEF Open, Row
  <2>6. rows' \in [Posts -> Row \cup {NoRow}]
    BY <1>7, <2>5 DEF CommitRow, RequestTypes
  <2> QED BY <1>1, <2>2, <2>3, <2>6 DEF RequestTypes
<1>8. ASSUME NEW c \in Posts, InsertRaises(c) \/ Respond(c) \/ InsertLosesConnection(c)
      PROVE  RequestTypes'
  <2>1. post[c] \in Open
    BY <1>8, PostFields DEF InsertRaises, Respond, InsertLosesConnection
  <2>2. /\ UNCHANGED rows
        /\ \/ \E status \in {"500", "201"} : post' = [post EXCEPT ![c] = End(post[c], status)]
           \/ post' = [post EXCEPT ![c] = Over("orphan", post[c], "500")]
    BY <1>8 DEF InsertRaises, Respond, InsertLosesConnection
  <2> QED BY <1>2, <1>3, <2>1, <2>2
<1>11. ASSUME NEW c \in Posts, EndOrphan(c)
       PROVE  RequestTypes'
  <2>1. post[c] \in Orphan /\ Accepts(post[c].amount)
    BY <1>11, PostFields DEF EndOrphan, RequestOK, Accepted
  <2>2. End(post[c], post[c].status) \in Done
    BY <2>1 DEF Orphan, End, Over, Done
  <2>3. post' \in [Posts -> Open \cup Orphan \cup Done \cup {NoPost}]
    BY <1>11, <2>2 DEF EndOrphan, RequestTypes
  <2>4. Quantize(post[c].amount) = post[c].amount /\ post[c].amount \in Nat
    BY <2>1, AmountsAssumption, QuantizeKeeps DEF Orphan
  <2>5. [event |-> post[c].event, amount |-> Quantize(post[c].amount)] \in Row
    BY <2>1, <2>4 DEF Orphan, Row
  <2>6. rows' \in [Posts -> Row \cup {NoRow}]
    BY <1>11, <2>5 DEF EndOrphan, RequestTypes
  <2> QED BY <1>1, <2>3, <2>6 DEF RequestTypes
<1>9. CASE Crash
  <2> PICK sent \in SUBSET {c \in Posts : post[c].pc = "inserting"} :
        post' = [c \in Posts |->
                   IF c \in sent THEN Over("orphan", post[c], "dropped")
                   ELSE IF post[c] \in Open THEN End(post[c], "dropped") ELSE post[c]]
    BY <1>9 DEF Crash
  <2>1. ASSUME NEW c \in Posts
        PROVE  post'[c] \in Open \cup Orphan \cup Done \cup {NoPost}
    <3>1. CASE c \in sent
      <4>1. post[c] \in Open
        BY <3>1, PostFields
      <4> QED BY <1>3, <3>1, <4>1
    <3>2. CASE c \notin sent
      BY <1>3, <3>2 DEF RequestTypes
    <3> QED BY <3>1, <3>2
  <2>2. post' \in [Posts -> Open \cup Orphan \cup Done \cup {NoPost}]
    BY <2>1
  <2> QED BY <1>1, <1>9, <2>2 DEF Crash, RequestTypes
<1>10. CASE UNCHANGED <<post, rows>>
  BY <1>1, <1>10 DEF RequestTypes
<1> QED BY <1>4, <1>5, <1>6, <1>7, <1>8, <1>9, <1>10, <1>11
        DEF Next, Step, Handler, Client, OtherUser

\* A request that ends with its COMMIT on the way.
LEMMA OrphanLeft ==
  ASSUME RequestTypes, NEW c \in Posts, RequestOK(c), post[c].pc = "inserting",
         NEW status, post'[c] = Over("orphan", post[c], status),
         UNCHANGED rows, chance[c] => chance'[c]
  PROVE  RequestOK(c)'
<1>1. post'[c].pc = "orphan" /\ post'[c].amount = post[c].amount
  BY DEF Over
<1> QED BY <1>1 DEF RequestOK, Looked, Chanced, Told, Accepted

\* A step of one request's handler, as it is seen by that request.
LEMMA HandlerAdvances ==
  ASSUME PB_Inv, Next, NEW c \in Posts, Handler(c)
  PROVE  RequestOK(c)'
<1> USE DEF PB_Inv
<1>1. chance[c] => chance'[c]
  BY ChanceRemembered DEF Next
<1>2. RequestOK(c) /\ c \in Callers
  BY PostsAssumption
<1>3. CASE Decide(c)
  <2>1. post[c] \in Open /\ rows[c] = NoRow /\ Accepts(post[c].amount)
    BY <1>2, <1>3, PostFields DEF Decide, RequestOK, Told, Accepted
  <2>2. PICK next \in NextSteps(call[c].answer) :
          post'[c] = IF next = "insert"
                     THEN Request("inserting", post[c].event, post[c].amount)
                     ELSE End(post[c], next)
    BY <1>3 DEF Decide, RequestTypes
  <2>3. next \in {"insert", "422", "500", "503"} /\ UNCHANGED rows
    BY <1>3, <2>2 DEF NextSteps, Decide
  <2>4. CASE next = "insert"
    <3>1. Favourable(call[c].answer)
      BY <2>2, <2>4 DEF NextSteps, Favourable
    <3>2. chance[c]
      BY <1>2, <1>3, <3>1 DEF Decide, Take, RequestOK, Looked
    <3>3. post'[c].pc = "inserting" /\ post'[c].amount = post[c].amount
      BY <2>2, <2>4 DEF Request
    <3> QED BY <1>1, <2>1, <2>3, <3>2, <3>3 DEF RequestOK, Looked, Chanced, Told, Accepted
  <2>5. CASE next # "insert"
    <3>1. post'[c].pc = "done" /\ post'[c].status = next
      BY <2>2, <2>5 DEF End, Over
    <3> QED BY <2>1, <2>3, <2>5, <3>1 DEF RequestOK, Looked, Chanced, Told, Accepted
  <2> QED BY <2>4, <2>5
<1>4. CASE CommitRow(c)
  <2>1. post[c] \in Open /\ Accepts(post[c].amount) /\ chance[c]
    BY <1>2, <1>4, PostFields DEF CommitRow, RequestOK, Accepted, Chanced
  <2>2. Quantize(post[c].amount) = post[c].amount
    BY <2>1, AmountsAssumption, QuantizeKeeps DEF Open
  <2>3. rows'[c] = RowOf(post[c])
    BY <1>4, <2>2 DEF CommitRow, RequestTypes, RowOf
  <2>4. post'[c] = [post[c] EXCEPT !.pc = "committed"]
    BY <1>4 DEF CommitRow, RequestTypes
  <2>5. post'[c].pc = "committed" /\ post'[c].event = post[c].event
        /\ post'[c].amount = post[c].amount
    BY <2>1, <2>4 DEF Open
  <2> QED BY <1>1, <2>1, <2>3, <2>5 DEF RequestOK, Looked, Chanced, Told, Accepted, RowOf
<1>5. CASE InsertRaises(c)
  <2>1. post'[c] = End(post[c], "500") /\ UNCHANGED rows
    BY <1>5 DEF InsertRaises, RequestTypes
  <2>2. post'[c].pc = "done" /\ post'[c].status = "500"
    BY <2>1 DEF End, Over
  <2> QED BY <1>1, <1>2, <2>1, <2>2 DEF RequestOK, Looked, Chanced, Told, Accepted
<1>6. CASE Respond(c)
  <2>1. post'[c] = End(post[c], "201") /\ UNCHANGED rows /\ post[c].pc = "committed"
    BY <1>6 DEF Respond, RequestTypes
  <2>2. post'[c].pc = "done" /\ post'[c].status = "201" /\ RowOf(post'[c]) = RowOf(post[c])
    BY <2>1 DEF End, Over, RowOf
  <2>3. rows'[c] = RowOf(post'[c])
    BY <1>2, <2>1, <2>2 DEF RequestOK, Told
  <2> QED BY <1>1, <1>2, <2>1, <2>2, <2>3 DEF RequestOK, Looked, Chanced, Told, Accepted, RowOf
<1>7. CASE InsertLosesConnection(c)
  <2>1. post[c] \in Open /\ post[c].pc = "inserting" /\ UNCHANGED rows
    BY <1>7, PostFields DEF InsertLosesConnection
  <2>2. post'[c] = Over("orphan", post[c], "500")
    BY <1>7 DEF InsertLosesConnection, RequestTypes
  <2> QED BY <1>1, <1>2, <2>1, <2>2, OrphanLeft
<1> QED BY <1>3, <1>4, <1>5, <1>6, <1>7 DEF Handler

\* PostgreSQL ends the transaction of a request that is over.
LEMMA OrphanEnds ==
  ASSUME PB_Inv, Next, NEW c \in Posts, EndOrphan(c)
  PROVE  RequestOK(c)'
<1> USE DEF PB_Inv
<1>1. chance[c] => chance'[c]
  BY ChanceRemembered DEF Next
<1>2. post[c] \in Orphan /\ chance[c]
  BY PostFields DEF EndOrphan, RequestOK, Chanced
<1>3. post'[c] = End(post[c], post[c].status)
  BY DEF EndOrphan, RequestTypes
<1>4. post'[c].pc = "done" /\ post'[c].status \in {"500", "dropped"}
  BY <1>2, <1>3 DEF End, Over, Orphan
<1> QED BY <1>1, <1>2, <1>4 DEF RequestOK, Looked, Chanced, Told, Accepted

\* A request's first step: its body is refused, or its lookup starts.
LEMMA RequestBegins ==
  ASSUME PB_Inv, Next, NEW c \in Posts, NEW e \in Events, NEW n \in Amounts,
         RejectBody(c, e, n) \/ Submit(c, e, n)
  PROVE  RequestOK(c)'
<1> USE DEF PB_Inv
<1>1. /\ chance[c] => chance'[c]
      /\ post'[c].pc = "validating" /\ Bettable(post[c].event)' => chance'[c]
  BY ChanceRemembered DEF Next
<1>2. post[c].pc = "none" /\ rows[c] = NoRow /\ UNCHANGED rows
  BY DEF RejectBody, Submit, NoPost, RequestOK, Told
<1>3. CASE RejectBody(c, e, n)
  <2>1. post'[c] = End(Request("none", e, n), "422")
    BY <1>3 DEF RejectBody, RequestTypes
  <2>2. post'[c].pc = "done" /\ post'[c].status = "422"
    BY <2>1 DEF End, Over
  <2> QED BY <1>2, <2>2 DEF RequestOK, Looked, Chanced, Told, Accepted
<1>4. CASE Submit(c, e, n)
  <2>1. post'[c] = Request("validating", e, n)
    BY <1>4 DEF Submit, RequestTypes
  <2>2. post'[c].pc = "validating" /\ post'[c].event = e /\ post'[c].amount = n
    BY <2>1 DEF Request
  <2>3. call'[c] = Asking("bet", e, 1)
    BY <1>4, PostsAssumption DEF Submit, Ask, EL_Inv, EL_TypeOK
  <2>4. call'[c].pc = "asking" /\ call'[c].subject = e /\ call'[c].user = "bet"
    BY <2>3 DEF Asking
  <2>5. Accepts(n)
    BY <1>4 DEF Submit
  <2>6. Looked(c)'
    BY <1>1, <2>2, <2>4 DEF Looked, InFlight
  <2> QED BY <1>2, <2>2, <2>5, <2>6 DEF RequestOK, Chanced, Told, Accepted
<1> QED BY <1>3, <1>4

\* The process dies with the requests it holds.
LEMMA RequestDropped ==
  ASSUME PB_Inv, Next, Crash, NEW c \in Posts
  PROVE  RequestOK(c)'
<1> USE DEF PB_Inv
<1>1. chance[c] => chance'[c]
  BY ChanceRemembered DEF Next
<1>2. RequestOK(c) /\ UNCHANGED rows
  BY DEF Crash
<1> PICK sent \in SUBSET {d \in Posts : post[d].pc = "inserting"} :
      post' = [d \in Posts |->
                 IF d \in sent THEN Over("orphan", post[d], "dropped")
                 ELSE IF post[d] \in Open THEN End(post[d], "dropped") ELSE post[d]]
  BY DEF Crash
<1>5. CASE c \in sent
  <2>1. post[c].pc = "inserting" /\ post'[c] = Over("orphan", post[c], "dropped")
    BY <1>5
  <2> QED BY <1>1, <1>2, <2>1, OrphanLeft
<1>3. CASE c \notin sent /\ post[c] \in Open
  <2>1. post'[c] = End(post[c], "dropped")
    BY <1>3
  <2>2. post'[c].pc = "done" /\ post'[c].status = "dropped"
    BY <2>1 DEF End, Over
  <2> QED BY <1>1, <1>2, <2>2 DEF RequestOK, Looked, Chanced, Told, Accepted
<1>4. CASE c \notin sent /\ post[c] \notin Open
  <2>1. post'[c] = post[c] /\ post[c].pc \notin {"validating", "inserting", "committed"}
    BY <1>4, PostFields
  <2> QED BY <1>1, <1>2, <2>1 DEF RequestOK, Looked, Chanced, Told, Accepted, RowOf
<1> QED BY <1>3, <1>4, <1>5

\* The steps of one caller leave the requests of the others alone.
LEMMA OthersStand ==
  ASSUME PB_Inv, Remember, NEW c \in Posts, NEW d \in Callers, c # d,
         \/ UNCHANGED call
         \/ \E k : call' = [call EXCEPT ![d] = k],
         \/ UNCHANGED post
         \/ \E p : post' = [post EXCEPT ![d] = p],
         \/ UNCHANGED rows
         \/ \E r : rows' = [rows EXCEPT ![d] = r]
  PROVE  RequestOK(c)'
<1> USE DEF PB_Inv
<1>1. call'[c] = call[c]
  BY PostsAssumption DEF EL_Inv, EL_TypeOK
<1>2. post'[c] = post[c] /\ rows'[c] = rows[c]
  BY DEF RequestTypes
<1> QED BY <1>1, <1>2, Untouched

LEMMA PBStep ==
  ASSUME PB_Inv, EL_Inv', [Next]_pbVars
  PROVE  PB_Inv'
<1> USE DEF PB_Inv
<1>1. CASE UNCHANGED pbVars
  <2>1. UNCHANGED <<store, call, post, rows, chance>>
    BY <1>1 DEF pbVars, elVars, lpVars
  <2>2. RequestTypes'
    BY <2>1 DEF RequestTypes
  <2>3. \A c \in Posts : RequestOK(c)'
    BY <2>1 DEF RequestOK, Looked, InFlight, Chanced, Told, Accepted, RowOf, Bettable, Favourable
  <2> QED BY <2>2, <2>3
<1>2. CASE Next
  <2>1. RequestTypes'
    BY <1>2, TypesStep
  <2> SUFFICES ASSUME NEW c \in Posts PROVE RequestOK(c)'
    BY <2>1
  <2>2. Remember /\ c \in Callers /\ Posts \subseteq Callers
    BY <1>2, PostsAssumption DEF Next
  <2>3. CASE LP_Next /\ UNCHANGED <<call, post, rows>>
    BY <2>2, <2>3, Untouched
  <2>4. ASSUME NEW d \in Callers, Client(d)
        PROVE  RequestOK(c)'
    <3>1. CASE c = d
      BY <2>2, <2>4, <3>1, LookupAdvances DEF Client
    <3>2. CASE c # d
      <4>1. \E k : call' = [call EXCEPT ![d] = k]
        BY <2>4 DEF Client, ClientStep, Serve, Receive, AttemptFails, Refuse
      <4> QED BY <2>2, <2>4, <3>2, <4>1, OthersStand DEF Client
    <3> QED BY <3>1, <3>2
  <2>5. ASSUME NEW d \in Callers \ Posts, OtherUser(d)
        PROVE  RequestOK(c)'
    <3>1. \E k : call' = [call EXCEPT ![d] = k]
      BY <2>5 DEF OtherUser, Ask, Take
    <3> QED BY <2>2, <2>5, <3>1, OthersStand DEF OtherUser
  <2>6. ASSUME NEW d \in Posts, NEW e \in Events, NEW n \in Amounts,
               RejectBody(d, e, n) \/ Submit(d, e, n)
        PROVE  RequestOK(c)'
    <3>1. CASE c = d
      BY <1>2, <2>6, <3>1, RequestBegins
    <3>2. CASE c # d
      <4>1. UNCHANGED call \/ \E k : call' = [call EXCEPT ![d] = k]
        BY <2>6 DEF RejectBody, Submit, Ask, elVars
      <4>2. UNCHANGED rows /\ \E p : post' = [post EXCEPT ![d] = p]
        BY <2>6 DEF RejectBody, Submit
      <4> QED BY <2>2, <3>2, <4>1, <4>2, OthersStand
    <3> QED BY <3>1, <3>2
  <2>7. ASSUME NEW d \in Posts, Handler(d)
        PROVE  RequestOK(c)'
    <3>1. CASE c = d
      BY <1>2, <2>7, <3>1, HandlerAdvances
    <3>2. CASE c # d
      <4>1. UNCHANGED call \/ \E k : call' = [call EXCEPT ![d] = k]
        BY <2>7 DEF Handler, Decide, CommitRow, InsertRaises, InsertLosesConnection, Respond,
                    Take, elVars
      <4>2. \E p : post' = [post EXCEPT ![d] = p]
        BY <2>7 DEF Handler, Decide, CommitRow, InsertRaises, InsertLosesConnection, Respond
      <4>3. UNCHANGED rows \/ \E r : rows' = [rows EXCEPT ![d] = r]
        BY <2>7 DEF Handler, Decide, CommitRow, InsertRaises, InsertLosesConnection, Respond
      <4> QED BY <2>2, <3>2, <4>1, <4>2, <4>3, OthersStand
    <3> QED BY <3>1, <3>2
  <2>8. CASE Crash
    BY <1>2, <2>8, RequestDropped
  <2>9. ASSUME NEW d \in Posts, EndOrphan(d)
        PROVE  RequestOK(c)'
    <3>1. CASE c = d
      BY <1>2, <2>9, <3>1, OrphanEnds
    <3>2. CASE c # d
      <4>1. UNCHANGED call /\ \E p : post' = [post EXCEPT ![d] = p]
        BY <2>9 DEF EndOrphan, elVars
      <4>2. UNCHANGED rows \/ \E r : rows' = [rows EXCEPT ![d] = r]
        BY <2>9 DEF EndOrphan
      <4> QED BY <2>2, <3>2, <4>1, <4>2, OthersStand
    <3> QED BY <3>1, <3>2
  <2> QED BY <1>2, <2>3, <2>4, <2>5, <2>6, <2>7, <2>8, <2>9 DEF Next, Step
<1> QED BY <1>1, <1>2

LEMMA PBInit ==
  ASSUME Init, EL_Inv
  PROVE  PB_Inv
<1>1. RequestTypes
  <2>1. post \in [Posts -> Open \cup Orphan \cup Done \cup {NoPost}] /\ rows \in [Posts -> Row \cup {NoRow}]
    BY DEF Init
  <2>2. chance \in [Posts -> BOOLEAN]
    BY Zenon DEF Init
  <2> QED BY <2>1, <2>2 DEF RequestTypes
<1>2. ASSUME NEW c \in Posts PROVE RequestOK(c)
  <2>1. post[c].pc = "none" /\ rows[c] = NoRow
    BY DEF Init, NoPost
  <2> QED BY <2>1 DEF RequestOK, Looked, Chanced, Told, Accepted
<1> QED BY <1>1, <1>2 DEF PB_Inv

LEMMA PBInvariant == Spec => []PB_Inv
<1>1. Init => EL_Init
  BY DEF Init
<1>2. [Next]_pbVars => [EL_Next]_elVars
  BY StepIsLookupStep
<1>3. Spec => []EL_Inv
  BY <1>1, <1>2, LookupTypeCorrect, PTL DEF Spec, EL_Spec
<1>4. Init /\ EL_Inv => PB_Inv
  BY PBInit
<1>5. PB_Inv /\ EL_Inv' /\ [Next]_pbVars => PB_Inv'
  BY PBStep
<1> QED BY <1>3, <1>4, <1>5, PTL DEF Spec
-------------------------------------------------------------------------------
\* Requests, rows and the calls they wait for are of the types their code gives them.
THEOREM PostBetTypes == Spec => []PB_TypeOK
<1>1. PB_Inv => PB_TypeOK
  BY DEF PB_Inv, EL_Inv, RequestTypes, PB_TypeOK
<1> QED BY <1>1, PBInvariant, PTL

\* A row is there only if its event was bettable at some moment of its lookup, for
\* any number of attempts and of competing callers (place_bet's snapshot).
THEOREM BetsPlacedWhileBettable == Spec => []PlacedWhileBettable
<1>1. PB_Inv => PlacedWhileBettable
  BY DEF PB_Inv, RequestOK, Chanced, PlacedWhileBettable
<1> QED BY <1>1, PBInvariant, PTL

\* A status code tells what is in table bets: 201 the row with the amount of the
\* body, 422 and 503 no row (post_bet's ladder and the unit of work).
THEOREM StatusIsTrue == Spec => []StatusTellsTheTruth
<1>1. PB_Inv => StatusTellsTheTruth
  BY DEF PB_Inv, RequestOK, Told, RowOf, StatusTellsTheTruth
<1> QED BY <1>1, PBInvariant, PTL

\* What the schema accepts, the column holds as it is, when both count the same
\* number of digits, as they do in the code (12 and Numeric(12, 2)).
THEOREM AcceptedStorable ==
  ASSUME MaxDigits = Precision
  PROVE  Spec => []AcceptedIsStorable
<1>1. PB_Inv => AcceptedIsStorable
  <2> SUFFICES ASSUME PB_Inv, NEW c \in Posts, post[c].pc \in {"inserting", "orphan"}
               PROVE  /\ Quantize(post[c].amount) = post[c].amount
                      /\ Fits(Quantize(post[c].amount))
    BY DEF AcceptedIsStorable
  <2>1. post[c].amount \in Nat /\ Accepts(post[c].amount)
    BY PostFields, AmountsAssumption DEF PB_Inv, RequestOK, Accepted
  <2>2. Quantize(post[c].amount) = post[c].amount
    BY <2>1, QuantizeKeeps
  <2> QED BY <2>1, <2>2 DEF Accepts, Fits
<1> QED BY <1>1, PBInvariant, PTL

\* The lookups of POST /bet and of the client's other users keep the promise of a
\* single question: no retry, failure or crash answers with anything else.
THEOREM PostBetRefinesLookup == Spec => KeepsLookupPromise
<1>1. Init => EL_Init
  BY DEF Init
<1>2. [Next]_pbVars => [EL_Next]_elVars
  BY StepIsLookupStep
<1> QED BY <1>1, <1>2, LookupRefinement, PTL DEF Spec, EL_Spec
-------------------------------------------------------------------------------
(* The promise to the bettors: BettingPromise *)

Intents == [c \in Posts |-> Intent(c)]
Ledger  == [c \in Posts |-> IF rows[c] = NoRow THEN NoBet ELSE PendingBet(rows[c].event)]

\* BettingPromise's own copy of the vocabulary is this module's.
LEMMA SameBettingVocabulary ==
  /\ Betting!NoBet = NoBet
  /\ Betting!Outcomes = {StatusOf[t] : t \in TerminalStates}
  /\ \A e : Betting!PendingBet(e) = PendingBet(e)
BY DEF NoBet, Betting!NoBet, PendingBet, Betting!PendingBet, Betting!Outcomes,
       StatusOf, Betting!StatusOf, TerminalStates, Betting!TerminalStates

\* While requests and rows stay, whatever line_provider does is a step of the market.
LEMMA MarketMoves ==
  ASSUME LP_TypeOK, MarketShut', [LP_Next]_lpVars, UNCHANGED <<Intents, Ledger>>
  PROVE  Betting!Market
<1>1. ActiveEvents' \subseteq Events
  BY DEF ActiveEvents
<1>2. [e \in Events |-> Announced(e)]' \in [Events -> SUBSET Betting!Outcomes]
  BY SameBettingVocabulary DEF MarketShut
<1>3. epoch' \in Nat /\ epoch <= epoch'
  <2>1. epoch \in Nat
    BY MaxEpochAssumption DEF LP_TypeOK
  <2> QED BY <2>1, LogOnlyGrows
<1>4. ASSUME NEW e \in Events
      PROVE  /\ Announced(e) \subseteq Announced(e)'
             /\ (epoch' = 0 /\ Announced(e)' # {}) =>
                  (e \notin ActiveEvents' /\ \E o \in Betting!Outcomes : Announced(e)' = {o})
  BY AnnouncedGrows, SameBettingVocabulary DEF MarketShut, ActiveEvents
<1> QED BY <1>1, <1>2, <1>3, <1>4 DEF Betting!Market, Intents, Ledger

\* Steps of bet_maker leave the market alone.
LEMMA MarketStands ==
  ASSUME UNCHANGED lpVars
  PROVE  UNCHANGED Betting!marketVars
BY DEF lpVars, Betting!marketVars, ActiveEvents, Bettable, Announced, MessageIds

\* A step in which every request keeps its intent or gives it up is an Abandon.
LEMMA IntentsEnd ==
  ASSUME UNCHANGED <<lpVars, rows>>, \A c \in Posts : Intent(c)' = Intent(c) \/ Intent(c)' = {}
  PROVE  Betting!Next
<1> PICK B \in SUBSET Posts : B = {c \in Posts : Intent(c)' # Intent(c)}
  OBVIOUS
<1>1. Intents' = [c \in Posts |-> IF c \in B THEN {} ELSE Intents[c]]
  BY DEF Intents
<1>2. UNCHANGED Ledger
  BY DEF Ledger
<1>3. Betting!Abandon(B)
  BY <1>1, <1>2, MarketStands DEF Betting!Abandon, Intents, Ledger
<1> QED BY <1>3 DEF Betting!Next

\* A request that a step does not concern keeps its intent; one that is neither
\* validating nor inserting, nor has its COMMIT on the way, has none.
LEMMA IntentStands ==
  ASSUME NEW c \in Posts, post'[c] = post[c], call'[c] = call[c]
  PROVE  Intent(c)' = Intent(c)
BY DEF Intent, SeenBettable, Favourable

LEMMA NoIntent ==
  ASSUME NEW c \in Posts
  PROVE  /\ post[c].pc \notin {"validating", "inserting", "orphan"} => Intent(c) = {}
         /\ post'[c].pc \notin {"validating", "inserting", "orphan"} => Intent(c)' = {}
BY DEF Intent

\* An attempt that shows nothing new: an answer is taken in, or the lookup failed.
LEMMA LookupKeepsIntent ==
  ASSUME PB_Inv, NEW c \in Posts, Receive(c) \/ AttemptFails(c) \/ \E f \in Failures : Refuse(c, f),
         UNCHANGED post
  PROVE  Intent(c)' = Intent(c) \/ Intent(c)' = {}
<1> c \in Callers
  BY PostsAssumption
<1>e. EL_TypeOK
  BY DEF PB_Inv, EL_Inv
<1>1. CASE Receive(c)
  <2>1. call'[c] = Answered(call[c], call[c].reply) /\ call[c].pc = "replied"
    BY <1>1, <1>e DEF Receive, EL_TypeOK
  <2>2. call'[c].pc = "answered" /\ call'[c].answer = call[c].reply
    BY <2>1 DEF Answered
  <2>3. SeenBettable(call[c])' = Favourable(call[c].reply)
    BY <2>2 DEF SeenBettable, Favourable
  <2>4. SeenBettable(call[c]) = Favourable(call[c].reply)
    BY <2>1 DEF SeenBettable, Favourable
  <2> QED BY <2>3, <2>4 DEF Intent
<1>f. ASSUME NEW f \in Failures
      PROVE  ~Favourable(f)
  BY DEF Favourable, Failures, Unavailable, Untranslated
<1>2. ASSUME NEW f \in Failures, call' = [call EXCEPT ![c] = Answered(call[c], f)]
      PROVE  ~SeenBettable(call[c])'
  <2>1. call'[c] = Answered(call[c], f)
    BY <1>2, <1>e DEF EL_TypeOK
  <2>2. call'[c].pc = "answered" /\ call'[c].answer = f
    BY <2>1 DEF Answered
  <2> QED BY <2>2, <1>f DEF SeenBettable, Favourable
<1>3. CASE AttemptFails(c)
  <2>1. CASE call[c].attempt < Attempts(call[c].user)
    <3>1. call'[c] = Asking(call[c].user, call[c].subject, call[c].attempt + 1)
      BY <1>3, <1>e, <2>1 DEF AttemptFails, RetryOrGiveUp, EL_TypeOK
    <3>2. call'[c].pc = "asking"
      BY <3>1 DEF Asking
    <3>3. ~SeenBettable(call[c])'
      BY <3>2 DEF SeenBettable
    <3> QED BY <3>3 DEF Intent
  <2>2. CASE ~(call[c].attempt < Attempts(call[c].user))
    <3>1. call' = [call EXCEPT ![c] = Answered(call[c], Unavailable)] /\ Unavailable \in Failures
      BY <1>3, <2>2 DEF AttemptFails, RetryOrGiveUp, Failures
    <3>2. ~SeenBettable(call[c])'
      BY <3>1, <1>2
    <3> QED BY <3>2 DEF Intent
  <2> QED BY <2>1, <2>2
<1>4. ASSUME NEW f \in Failures, Refuse(c, f)
      PROVE  Intent(c)' = Intent(c) \/ Intent(c)' = {}
  <2>1. ~SeenBettable(call[c])'
    BY <1>2, <1>4 DEF Refuse
  <2> QED BY <2>1 DEF Intent
<1> QED BY <1>1, <1>3, <1>4
\* line_provider answers a request's lookup: if with a bettable event, that is when
\* the request comes to intend its bet.
LEMMA ServeAccepts ==
  ASSUME PB_Inv, NEW c \in Posts, Serve(c), UNCHANGED <<lpVars, post, rows>>
  PROVE  Betting!Next
<1> c \in Callers
  BY PostsAssumption
<1>e. EL_TypeOK /\ RequestTypes /\ RequestOK(c)
  BY DEF PB_Inv, EL_Inv
<1>1. ~SeenBettable(call[c]) /\ InFlight(c)
  BY DEF Serve, SeenBettable, InFlight
<1>2. call'[c].pc = "replied" /\ call'[c].reply = View(call[c].subject)
  BY <1>e DEF Serve, EL_TypeOK, Replied
<1>3. ASSUME NEW d \in Posts, d # c
      PROVE  Intent(d)' = Intent(d)
  <2>1. call'[d] = call[d]
    BY <1>3, PostsAssumption, <1>e DEF Serve, EL_TypeOK
  <2> QED BY <2>1, IntentStands
<1>4. CASE post[c].pc = "validating" /\ Bettable(post[c].event)
  <2> PICK e \in Events : e = post[c].event
    BY <1>4, <1>e, PostFields
  <2>1. e \in ActiveEvents
    BY <1>4 DEF ActiveEvents
  <2>2. Intents[c] = {}
    BY <1>1, <1>4 DEF Intents, Intent
  <2>3. Ledger[c] = Betting!NoBet
    BY <1>4, <1>e, SameBettingVocabulary DEF RequestOK, Told, Ledger
  <2>4. Intent(c)' = {e}
    <3>1. call'[c].reply = store[e]
      BY <1>2, <1>4, <1>e, EventsAreSubjects DEF RequestOK, Looked
    <3>2. Favourable(store[e])
      BY <1>4 DEF Bettable, Favourable
    <3>3. SeenBettable(call[c])'
      BY <1>2, <3>1, <3>2 DEF SeenBettable, Favourable
    <3> QED BY <1>4, <3>3 DEF Intent
  <2>5. Intents' = [Intents EXCEPT ![c] = {e}]
    BY <1>3, <2>4 DEF Intents
  <2>6. UNCHANGED Ledger
    BY DEF Ledger
  <2>7. Betting!Accept(c, e)
    BY <2>1, <2>2, <2>3, <2>5, <2>6, MarketStands DEF Betting!Accept, Intents, Ledger
  <2> QED BY <2>7 DEF Betting!Next
<1>5. CASE ~(post[c].pc = "validating" /\ Bettable(post[c].event))
  <2>1. CASE post[c].pc = "validating"
    <3>1. call'[c].reply = store[post[c].event]
      BY <1>2, <2>1, <1>e, PostFields, EventsAreSubjects DEF RequestOK, Looked
    <3>2. ~Favourable(store[post[c].event])
      BY <1>5, <2>1 DEF Bettable, Favourable, NoEvent
    <3>3. ~SeenBettable(call[c])'
      BY <1>2, <3>1, <3>2 DEF SeenBettable, Favourable
    <3>4. Intent(c)' = {}
      BY <2>1, <3>3 DEF Intent
    <3> QED BY <1>3, <3>4, IntentsEnd
  <2>2. CASE post[c].pc # "validating"
    <3>1. Intent(c)' = Intent(c)
      BY <2>2 DEF Intent
    <3> QED BY <1>3, <3>1, IntentsEnd
  <2> QED BY <2>1, <2>2
<1> QED BY <1>4, <1>5

\* What the answer allows: the checks let a request through only after an answer
\* that showed its event as bettable.
LEMMA DecideKeepsIntent ==
  ASSUME PB_Inv, NEW c \in Posts, Decide(c)
  PROVE  Intent(c)' = Intent(c) \/ Intent(c)' = {}
<1>e. RequestTypes
  BY DEF PB_Inv
<1>1. PICK next \in NextSteps(call[c].answer) :
        post' = [post EXCEPT ![c] = IF next = "insert"
                                    THEN Request("inserting", @.event, @.amount)
                                    ELSE End(@, next)]
  BY DEF Decide
<1>2. CASE next = "insert"
  <2>1. Favourable(call[c].answer)
    BY <1>1, <1>2 DEF NextSteps, Favourable
  <2>2. Intent(c) = {post[c].event}
    BY <2>1 DEF Decide, Take, Intent, SeenBettable
  <2>3. post'[c].pc = "inserting" /\ post'[c].event = post[c].event
    BY <1>1, <1>2, <1>e DEF RequestTypes, Request
  <2> QED BY <2>2, <2>3 DEF Intent
<1>3. CASE next # "insert"
  <2>1. post'[c].pc = "done"
    BY <1>1, <1>3, <1>e DEF RequestTypes, End, Over
  <2> QED BY <2>1, NoIntent
<1> QED BY <1>2, <1>3

\* The row of a request that still intends it: by CommitRow, or by the COMMIT of a
\* request that is over.
RowAdded(c) ==
  rows' = [rows EXCEPT ![c] = [event |-> post[c].event, amount |-> Quantize(post[c].amount)]]

LEMMA CommitPlaces ==
  ASSUME PB_Inv, NEW c \in Posts, post[c].pc \in {"inserting", "orphan"}, RowAdded(c),
         UNCHANGED <<lpVars, call>>, post'[c].pc \in {"committed", "done"},
         \A d \in Posts : d # c => post'[d] = post[d]
  PROVE  Betting!Next
<1>e. RequestTypes /\ RequestOK(c)
  BY DEF PB_Inv
<1> PICK e \in Events : e = post[c].event
  BY <1>e, PostFields
<1>1. Intents[c] = {e}
  BY DEF Intents, Intent
<1>2. Ledger[c] = Betting!NoBet
  BY <1>e, SameBettingVocabulary DEF RequestOK, Told, Ledger
<1>4. Intents' = [Intents EXCEPT ![c] = {}]
  <2>1. Intent(c)' = {}
    BY NoIntent
  <2>2. ASSUME NEW d \in Posts, d # c
        PROVE  Intent(d)' = Intent(d)
    BY <2>2, IntentStands
  <2> QED BY <2>1, <2>2 DEF Intents
<1>5. Ledger' = [Ledger EXCEPT ![c] = Betting!PendingBet(e)]
  <2>1. rows' = [rows EXCEPT ![c] = [event |-> e, amount |-> Quantize(post[c].amount)]]
    BY DEF RowAdded
  <2>2. \A d \in Posts : d # c => rows'[d] = rows[d]
    BY <2>1, <1>e DEF RequestTypes
  <2>3. rows'[c].event = e /\ rows'[c] # NoRow
    BY <2>1, <1>e DEF RequestTypes, NoRow
  <2> QED BY <2>2, <2>3, SameBettingVocabulary DEF Ledger
<1>6. Betting!Place(c, e)
  BY <1>1, <1>2, <1>4, <1>5, MarketStands DEF Betting!Place, Intents, Ledger
<1> QED BY <1>6 DEF Betting!Next

\* The steps of one request and of its lookup, all but the answer of line_provider
\* and the COMMIT.
LEMMA OneRequestEnds ==
  ASSUME PB_Inv, NEW c \in Posts, UNCHANGED <<lpVars, rows>>,
         Intent(c)' = Intent(c) \/ Intent(c)' = {},
         \A d \in Posts : d # c => post'[d] = post[d] /\ call'[d] = call[d]
  PROVE  Betting!Next
BY IntentsEnd, IntentStands

\* POST /bet implements BettingPromise. The answer of line_provider is the Accept,
\* the COMMIT the Place, also the one that arrives when its request is over; a failed
\* or repeated attempt, a refusal, an exception and a crash are Abandons, or nothing
\* when there was no intent or PostgreSQL may still commit it.
THEOREM PostBetKeepsBettingPromise == Spec => KeepsBettingPromise
<1>1. Init => Betting!Init
  <2> SUFFICES ASSUME Init
               PROVE  Betting!Init
    OBVIOUS
  <2> USE DEF Init, EL_Init, LP_Init
  <2>1. ActiveEvents = {} /\ epoch = 0
    BY DEF ActiveEvents, Bettable
  <2>2. [e \in Events |-> Announced(e)] = [e \in Events |-> {}]
    BY DEF Announced, MessageIds
  <2>3. Intents = [c \in Posts |-> {}]
    BY DEF Intents, Intent, NoPost
  <2>4. Ledger = [c \in Posts |-> Betting!NoBet]
    BY SameBettingVocabulary DEF Ledger
  <2> QED BY <2>1, <2>2, <2>3, <2>4 DEF Betting!Init, Intents, Ledger
<1>2. PB_Inv /\ MarketShut' /\ [Next]_pbVars
        => [Betting!Next]_<<Betting!marketVars, Intents, Ledger>>
  <2> SUFFICES ASSUME PB_Inv, MarketShut', [Next]_pbVars
               PROVE  [Betting!Next]_<<Betting!marketVars, Intents, Ledger>>
    OBVIOUS
  <2>e. RequestTypes /\ EL_TypeOK /\ LP_TypeOK
    BY DEF PB_Inv, EL_Inv
  <2>1. CASE UNCHANGED <<call, post, rows>> /\ [LP_Next]_lpVars
    <3>1. UNCHANGED Intents
      BY <2>1 DEF Intents, Intent, SeenBettable, Favourable
    <3>2. UNCHANGED Ledger
      BY <2>1 DEF Ledger
    <3> QED BY <2>1, <2>e, <3>1, <3>2, MarketMoves DEF Betting!Next
  <2>2. ASSUME NEW c \in Callers, Client(c)
        PROVE  Betting!Next
    <3>1. \A d \in Callers : d # c => call'[d] = call[d]
      BY <2>2, <2>e DEF Client, ClientStep, Serve, Receive, AttemptFails, Refuse, EL_TypeOK
    <3>2. CASE c \in Posts
      <4>1. CASE Serve(c)
        BY <2>2, <3>2, <4>1, ServeAccepts DEF Client
      <4>2. CASE Receive(c) \/ AttemptFails(c) \/ \E f \in Failures : Refuse(c, f)
        BY <2>2, <3>1, <3>2, <4>2, LookupKeepsIntent, OneRequestEnds, PostsAssumption DEF Client
      <4> QED BY <2>2, <4>1, <4>2 DEF Client, ClientStep
    <3>3. CASE c \notin Posts
      BY <2>2, <3>1, <3>3, IntentStands, IntentsEnd, PostsAssumption DEF Client
    <3> QED BY <3>2, <3>3
  <2>3. ASSUME NEW c \in Callers \ Posts, OtherUser(c)
        PROVE  Betting!Next
    <3>1. \A d \in Callers : d # c => call'[d] = call[d]
      BY <2>3, <2>e DEF OtherUser, Ask, Take, EL_TypeOK
    <3> QED BY <2>3, <3>1, IntentStands, IntentsEnd, PostsAssumption DEF OtherUser
  <2>4. ASSUME NEW c \in Posts, NEW e \in Events, NEW n \in Amounts,
               RejectBody(c, e, n) \/ Submit(c, e, n)
        PROVE  Betting!Next
    <3>1. \A d \in Posts : d # c => post'[d] = post[d] /\ call'[d] = call[d]
      BY <2>4, <2>e, PostsAssumption DEF RejectBody, Submit, Ask, elVars, RequestTypes, EL_TypeOK
    <3>2. UNCHANGED <<lpVars, rows>>
      BY <2>4 DEF RejectBody, Submit, elVars
    <3>3. Intent(c)' = {}
      <4>1. CASE RejectBody(c, e, n)
        <5>1. post'[c].pc = "done"
          BY <4>1, <2>e DEF RejectBody, RequestTypes, End, Over
        <5> QED BY <5>1, NoIntent
      <4>2. CASE Submit(c, e, n)
        <5>1. post'[c].pc = "validating"
          BY <4>2, <2>e DEF Submit, RequestTypes, Request
        <5>2. call'[c].pc = "asking"
          BY <4>2, <2>e, PostsAssumption DEF Submit, Ask, Asking, EL_TypeOK
        <5> QED BY <5>1, <5>2 DEF Intent, SeenBettable
      <4> QED BY <2>4, <4>1, <4>2
    <3> QED BY <3>1, <3>2, <3>3, OneRequestEnds
  <2>5. ASSUME NEW c \in Posts, Handler(c)
        PROVE  Betting!Next
    <3>1. \A d \in Posts : d # c => post'[d] = post[d] /\ call'[d] = call[d]
      BY <2>5, <2>e, PostsAssumption
         DEF Handler, Decide, CommitRow, InsertRaises, InsertLosesConnection, Respond, Take,
             elVars, RequestTypes, EL_TypeOK
    <3>2. CASE Decide(c)
      BY <3>1, <3>2, DecideKeepsIntent, OneRequestEnds DEF Decide
    <3>3. CASE CommitRow(c)
      <4>1. post[c] \in Open /\ post'[c] = [post[c] EXCEPT !.pc = "committed"]
        BY <3>3, <2>e, PostFields DEF CommitRow, RequestTypes
      <4>2. post'[c].pc = "committed"
        BY <4>1 DEF Open
      <4> QED BY <3>1, <3>3, <4>2, CommitPlaces DEF CommitRow, RowAdded, elVars
    <3>5. CASE InsertLosesConnection(c)
      <4>1. /\ post'[c].pc = "orphan" /\ post'[c].event = post[c].event
            /\ post[c].pc = "inserting" /\ UNCHANGED <<lpVars, rows>>
        BY <3>5, <2>e DEF InsertLosesConnection, elVars, RequestTypes, Over
      <4>2. Intent(c)' = Intent(c)
        BY <4>1 DEF Intent
      <4> QED BY <3>1, <4>1, <4>2, OneRequestEnds
    <3>4. CASE InsertRaises(c) \/ Respond(c)
      <4>1. post'[c].pc = "done" /\ UNCHANGED <<lpVars, rows>>
        BY <3>4, <2>e DEF InsertRaises, Respond, elVars, RequestTypes, End, Over
      <4>2. Intent(c)' = {}
        BY <4>1, NoIntent
      <4> QED BY <3>1, <4>1, <4>2, OneRequestEnds
    <3> QED BY <2>5, <3>2, <3>3, <3>4, <3>5 DEF Handler
  <2>7. ASSUME NEW c \in Posts, EndOrphan(c)
        PROVE  Betting!Next
    <3>1. /\ \A d \in Posts : d # c => post'[d] = post[d] /\ call'[d] = call[d]
          /\ post'[c].pc = "done" /\ post[c].pc = "orphan" /\ UNCHANGED <<lpVars, call>>
      BY <2>7, <2>e DEF EndOrphan, elVars, RequestTypes, End, Over
    <3>2. CASE RowAdded(c)
      BY <3>1, <3>2, CommitPlaces
    <3>3. CASE UNCHANGED rows
      BY <3>1, <3>3, NoIntent, OneRequestEnds
    <3> QED BY <2>7, <3>2, <3>3 DEF EndOrphan, RowAdded
  <2>6. CASE Crash
    <3> PICK sent \in SUBSET {c \in Posts : post[c].pc = "inserting"} :
          post' = [c \in Posts |->
                     IF c \in sent THEN Over("orphan", post[c], "dropped")
                     ELSE IF post[c] \in Open THEN End(post[c], "dropped") ELSE post[c]]
      BY <2>6 DEF Crash
    <3>1. ASSUME NEW c \in Posts
          PROVE  Intent(c)' = Intent(c) \/ Intent(c)' = {}
      <4>1. CASE c \in sent
        <5>1. post'[c].pc = "orphan" /\ post'[c].event = post[c].event /\ post[c].pc = "inserting"
          BY <4>1 DEF Over
        <5> QED BY <5>1 DEF Intent
      <4>2. CASE c \notin sent /\ post[c] \in Open
        <5>1. post'[c].pc = "done"
          BY <4>2 DEF End, Over
        <5> QED BY <5>1, NoIntent
      <4>3. CASE c \notin sent /\ post[c] \notin Open
        <5>1. post'[c] = post[c] /\ post[c].pc \notin {"validating", "inserting"}
          BY <4>3, <2>e, PostFields
        <5> QED BY <5>1 DEF Intent
      <4> QED BY <4>1, <4>2, <4>3
    <3> QED BY <2>6, <3>1, IntentsEnd DEF Crash
  <2> QED BY <2>1, <2>2, <2>3, <2>4, <2>5, <2>6, <2>7 DEF Next, Step, pbVars, elVars
<1>3. Init => EL_Init
  BY DEF Init
<1>4. [Next]_pbVars => [EL_Next]_elVars
  BY StepIsLookupStep
<1>5. EL_Init => LP_Init
  BY DEF EL_Init
<1>6. [EL_Next]_elVars => [LP_Next]_lpVars
  BY DEF EL_Next, elVars
<1>7. Spec => []MarketShut
  BY <1>3, <1>4, <1>5, <1>6, OutcomeEndsBetting, PTL DEF Spec, LP_Spec
<1> QED BY <1>1, <1>2, <1>7, PBInvariant, PTL
        DEF Spec, KeepsBettingPromise, Betting!Spec, Intents, Ledger

-------------------------------------------------------------------------------
(* Why a request ends *)

\* The steps of another caller are none of this request's.
LEMMA OthersDoNothing ==
  ASSUME PB_Inv, NEW c \in Posts, NEW d \in Callers \ {c},
         \/ Client(d) \/ (d \notin Posts /\ OtherUser(d))
         \/ d \in Posts /\ \/ \E e \in Events, n \in Amounts : RejectBody(d, e, n) \/ Submit(d, e, n)
                           \/ Handler(d) \/ EndOrphan(d)
  PROVE  post'[c] = post[c] /\ call'[c] = call[c]
<1> USE DEF PB_Inv, EL_Inv
<1>1. UNCHANGED call \/ \E k : call' = [call EXCEPT ![d] = k]
  BY DEF Client, ClientStep, Serve, Receive, AttemptFails, Refuse, OtherUser, Ask, Take,
         RejectBody, Submit, Handler, Decide, CommitRow, InsertRaises, InsertLosesConnection,
         Respond, EndOrphan, elVars
<1>2. UNCHANGED post \/ \E p : post' = [post EXCEPT ![d] = p]
  BY DEF Client, OtherUser, RejectBody, Submit, Handler, Decide, CommitRow, InsertRaises,
         InsertLosesConnection, Respond, EndOrphan
<1>3. call'[c] = call[c]
  BY <1>1, PostsAssumption DEF EL_TypeOK
<1>4. post'[c] = post[c]
  BY <1>2 DEF RequestTypes
<1> QED BY <1>3, <1>4

\* A request asks only while it validates.
Quiet == \A c \in Posts : post[c].pc # "validating" => call[c] = NoCall

LEMMA QuietStep ==
  ASSUME PB_Inv, Quiet, [Next]_pbVars
  PROVE  Quiet'
<1> SUFFICES ASSUME NEW c \in Posts, post'[c].pc # "validating"
             PROVE  call'[c] = NoCall
  BY DEF Quiet
<1> USE DEF PB_Inv, EL_Inv
<1>1. c \in Callers /\ Posts \subseteq Callers
  BY PostsAssumption
<1>2. CASE post'[c] = post[c] /\ call'[c] = call[c]
  BY <1>2 DEF Quiet
<1>3. CASE Client(c)
  <2>1. call[c] # NoCall
    BY <1>3 DEF Client, ClientStep, Serve, Receive, AttemptFails, Refuse, InFlight, NoCall
  <2> QED BY <1>3, <2>1 DEF Client, Quiet
<1>4. ASSUME NEW e \in Events, NEW n \in Amounts, RejectBody(c, e, n) \/ Submit(c, e, n)
      PROVE  call'[c] = NoCall
  <2>1. RejectBody(c, e, n)
    BY <1>4 DEF Submit, Request, RequestTypes
  <2> QED BY <2>1 DEF RejectBody, NoPost, elVars, Quiet
<1>5. CASE Handler(c) \/ EndOrphan(c)
  <2>1. CASE Decide(c)
    BY <1>1, <2>1 DEF Decide, Take, EL_TypeOK
  <2>2. CASE CommitRow(c) \/ InsertRaises(c) \/ InsertLosesConnection(c) \/ Respond(c)
             \/ EndOrphan(c)
    BY <2>2 DEF CommitRow, InsertRaises, InsertLosesConnection, Respond, EndOrphan, elVars, Quiet
  <2> QED BY <1>5, <2>1, <2>2 DEF Handler
<1>6. CASE Crash
  BY <1>1, <1>6 DEF Crash, DropCalls
<1>7. CASE LP_Next /\ UNCHANGED <<call, post, rows>>
  BY <1>2, <1>7
<1>8. CASE UNCHANGED pbVars
  BY <1>2, <1>8 DEF pbVars, elVars
<1>9. ASSUME NEW d \in Callers, d # c,
             \/ Client(d) \/ (d \notin Posts /\ OtherUser(d))
             \/ d \in Posts /\ \/ \E e \in Events, n \in Amounts : RejectBody(d, e, n) \/ Submit(d, e, n)
                               \/ Handler(d) \/ EndOrphan(d)
      PROVE  call'[c] = NoCall
  BY <1>2, <1>9, OthersDoNothing
<1>10. CASE Step
  BY <1>1, <1>3, <1>4, <1>5, <1>6, <1>7, <1>9, <1>10 DEF Step
<1> QED BY <1>8, <1>10 DEF Next

LEMMA QuietAlways == Spec => []Quiet
<1>1. Init => Quiet
  BY PostsAssumption DEF Init, EL_Init, Quiet
<1>2. PB_Inv /\ Quiet /\ [Next]_pbVars => Quiet'
  BY QuietStep
<1> QED BY <1>1, <1>2, PBInvariant, PTL DEF Spec

\* What a request has left to do: the rest of its lookup, the decision on it, the
\* transaction and the answer.
RequestRank(p, k) ==
  IF p.pc = "validating" THEN 3 + CallRank(k)
  ELSE IF p.pc = "inserting" THEN 2
  ELSE IF p.pc = "committed" THEN 1 ELSE 0

\* An open request only goes on: a step leaves it and its lookup alone, or leaves
\* less of it, and each step of its own lookup or handler does the latter. One that
\* waits has a lookup to wait for.
RequestsAdvance ==
  \A c \in Posts : post[c] \in Open =>
    /\ RequestRank(post[c], call[c]) \in 1..(2 * RouteAttempts + 3)
    /\ RequestRank(post'[c], call'[c]) \in Nat
    /\ \/ post'[c] = post[c] /\ call'[c] = call[c]
       \/ RequestRank(post'[c], call'[c]) < RequestRank(post[c], call[c])
    /\ Client(c) \/ Handler(c) => post'[c] # post[c] \/ call'[c] # call[c]
    /\ post[c].pc = "validating" => InFlight(c) \/ call[c].pc = "answered"

LEMMA RankOfRequest ==
  ASSUME PB_Inv, NEW c \in Posts, post[c] \in Open
  PROVE  /\ c \in Callers
         /\ RequestRank(post[c], call[c]) \in 1..(2 * RouteAttempts + 3)
         /\ RequestRank(post[c], call[c]) \in Nat
         /\ post[c].pc = "validating" =>
              /\ InFlight(c) \/ call[c].pc = "answered"
              /\ RequestRank(post[c], call[c]) = 3 + CallRank(call[c])
              /\ CallRank(call[c]) \in Nat
         /\ post[c].pc = "inserting" => RequestRank(post[c], call[c]) = 2
         /\ post[c].pc = "committed" => RequestRank(post[c], call[c]) = 1
         /\ post[c].pc \in {"validating", "inserting", "committed"}
<1> USE DEF PB_Inv, EL_Inv
<1>1. c \in Callers /\ RouteAttempts \in Nat \ {0}
  BY PostsAssumption, AttemptsAssumption
<1>2. post[c].pc \in {"validating", "inserting", "committed"}
  BY DEF Open
<1>3. CASE post[c].pc = "validating"
  <2>1. Looked(c)
    BY DEF RequestOK
  <2>2. InFlight(c) \/ call[c].pc = "answered"
    BY <1>1, <1>3, <2>1 DEF Looked, EL_TypeOK, Calls, InFlight
  <2>3. CallRank(call[c]) \in 0..(2 * RouteAttempts)
    <3>1. CASE InFlight(c)
      <4>1. Attempts(call[c].user) = RouteAttempts
        BY <1>3, <2>1, <3>1 DEF Looked, Attempts
      <4>2. CallRank(call[c]) \in 1..(2 * RouteAttempts)
        BY <1>1, <3>1, <4>1, RankOfCall
      <4> QED BY <1>1, <4>2
    <3>2. CASE ~InFlight(c)
      BY <1>1, <3>2 DEF CallRank, InFlight
    <3> QED BY <3>1, <3>2
  <2>4. RequestRank(post[c], call[c]) = 3 + CallRank(call[c])
    BY <1>3 DEF RequestRank
  <2> HIDE DEF PB_Inv, EL_Inv
  <2> QED BY <1>1, <1>3, <2>2, <2>3, <2>4
<1>4. CASE post[c].pc \in {"inserting", "committed"}
  BY <1>1, <1>4 DEF RequestRank
<1> QED BY <1>1, <1>2, <1>3, <1>4

\* The handler's own steps: the decision, the commit, and the two ends.
LEMMA HandlerCountsDown ==
  ASSUME PB_Inv, NEW c \in Posts, post[c] \in Open, Handler(c)
  PROVE  /\ RequestRank(post'[c], call'[c]) \in Nat
         /\ RequestRank(post'[c], call'[c]) < RequestRank(post[c], call[c])
<1> USE DEF PB_Inv
<1>1. \A k, pc, status : pc \in {"done", "orphan"} => RequestRank(Over(pc, post[c], status), k) = 0
  BY DEF RequestRank, Over
<1>2. CASE Decide(c)
  <2>1. PICK next \in NextSteps(call[c].answer) :
          post'[c] = IF next = "insert"
                     THEN Request("inserting", post[c].event, post[c].amount)
                     ELSE End(post[c], next)
    BY <1>2 DEF Decide, RequestTypes
  <2>2. \A k : RequestRank(Request("inserting", post[c].event, post[c].amount), k) = 2
    BY DEF RequestRank, Request
  <2>3. RequestRank(post'[c], call'[c]) \in {0, 2}
    BY <1>1, <2>1, <2>2 DEF End
  <2>4. post[c].pc = "validating"
    BY <1>2 DEF Decide
  <2> QED BY <2>3, <2>4, RankOfRequest
<1>3. CASE CommitRow(c)
  <2>1. post[c].pc = "inserting" /\ post'[c] = [post[c] EXCEPT !.pc = "committed"]
    BY <1>3 DEF CommitRow, RequestTypes
  <2>2. post'[c].pc = "committed"
    BY <2>1 DEF Open
  <2>3. RequestRank(post'[c], call'[c]) = 1
    BY <2>2 DEF RequestRank
  <2> QED BY <2>1, <2>3, RankOfRequest
<1>4. CASE InsertRaises(c) \/ InsertLosesConnection(c) \/ Respond(c)
  <2>1. \E status : \E pc \in {"done", "orphan"} : post'[c] = Over(pc, post[c], status)
    BY <1>4 DEF InsertRaises, InsertLosesConnection, Respond, RequestTypes, End
  <2>2. RequestRank(post'[c], call'[c]) = 0
    BY <1>1, <2>1
  <2> QED BY <2>2, RankOfRequest
<1> QED BY <1>2, <1>3, <1>4 DEF Handler

\* Every request ends if its lookup and its handler go on: it has at most
\* 2 * RouteAttempts + 3 steps to go, and nothing makes that more, a line_provider that
\* changes or fails at every attempt included. EveryRequestEnds adds the fairness.
THEOREM RequestsCountDown == Spec => [][RequestsAdvance]_pbVars
<1>1. PB_Inv /\ Quiet /\ [Next]_pbVars => [RequestsAdvance]_pbVars
  <2> SUFFICES ASSUME PB_Inv, Quiet, [Next]_pbVars, NEW c \in Posts, post[c] \in Open
               PROVE  /\ RequestRank(post[c], call[c]) \in 1..(2 * RouteAttempts + 3)
                      /\ RequestRank(post'[c], call'[c]) \in Nat
                      /\ \/ post'[c] = post[c] /\ call'[c] = call[c]
                         \/ RequestRank(post'[c], call'[c]) < RequestRank(post[c], call[c])
                      /\ Client(c) \/ Handler(c) => post'[c] # post[c] \/ call'[c] # call[c]
                      /\ post[c].pc = "validating" => InFlight(c) \/ call[c].pc = "answered"
    BY DEF RequestsAdvance
  <2>1. /\ c \in Callers
        /\ RequestRank(post[c], call[c]) \in 1..(2 * RouteAttempts + 3)
        /\ RequestRank(post[c], call[c]) \in Nat
        /\ post[c].pc = "validating" => InFlight(c) \/ call[c].pc = "answered"
    BY RankOfRequest
  <2>2. CASE Handler(c)
    BY <2>1, <2>2, HandlerCountsDown
  <2>3. CASE Client(c)
    <3>1. InFlight(c) /\ CallRank(call'[c]) \in Nat /\ CallRank(call'[c]) < CallRank(call[c])
          /\ post' = post
      BY <2>1, <2>3, ClientStepAdvances DEF Client, PB_Inv, EL_Inv
    <3>2. post[c].pc = "validating"
      BY <3>1 DEF Quiet, InFlight, NoCall
    <3>3. RequestRank(post'[c], call'[c]) = 3 + CallRank(call'[c])
      BY <3>1, <3>2 DEF RequestRank
    <3>4. /\ RequestRank(post[c], call[c]) = 3 + CallRank(call[c])
          /\ CallRank(call[c]) \in Nat
      BY <3>2, RankOfRequest
    <3> QED BY <2>1, <3>1, <3>3, <3>4
  <2>4. CASE Crash
    <3>1. post'[c].pc \in {"orphan", "done"}
      BY <2>4 DEF Crash, End, Over
    <3>2. RequestRank(post'[c], call'[c]) = 0
      BY <3>1 DEF RequestRank
    <3>3. post'[c] # post[c]
      BY <3>1 DEF Open
    <3> QED BY <2>1, <3>2, <3>3
  <2>5. ASSUME NEW e \in Events, NEW n \in Amounts
        PROVE  ~RejectBody(c, e, n) /\ ~Submit(c, e, n)
    BY DEF RejectBody, Submit, Open, NoPost
  <2>9. ~EndOrphan(c)
    BY DEF EndOrphan, Open
  <2>6. CASE ~Handler(c) /\ ~Client(c) /\ post'[c] = post[c] /\ call'[c] = call[c]
    BY <2>1, <2>6
  <2>7. ASSUME NEW d \in Callers, d # c,
               \/ Client(d) \/ (d \notin Posts /\ OtherUser(d))
               \/ d \in Posts /\ \/ \E e \in Events, n \in Amounts : RejectBody(d, e, n) \/ Submit(d, e, n)
                                 \/ Handler(d) \/ EndOrphan(d)
        PROVE  post'[c] = post[c] /\ call'[c] = call[c]
    BY <2>7, OthersDoNothing
  <2>8. \/ Handler(c) \/ Client(c) \/ Crash
        \/ post'[c] = post[c] /\ call'[c] = call[c]
    BY <2>1, <2>5, <2>7, <2>9, PostsAssumption DEF Next, Step, pbVars, elVars
  <2> QED BY <2>2, <2>3, <2>4, <2>6, <2>8
<1> QED BY <1>1, PBInvariant, QuietAlways, PTL DEF Spec
===============================================================================
