-------------------------- MODULE EventLookupProofs ---------------------------
(***************************************************************************)
(* Theorems about bet_maker's HTTP client, for any number of callers and   *)
(* events and any limits of attempts: the client keeps LookupPromise. A    *)
(* step of one call maps to the step of the promise that its shown part    *)
(* makes; whatever line_provider does maps to Change.                      *)
(***************************************************************************)
EXTENDS EventLookup, LineProviderProofs

EL_Inv == LP_TypeOK /\ EL_TypeOK

\* What line_provider answers is an answer, and no caller asks for anything else.
LEMMA ViewIsValue ==
  ASSUME LP_TypeOK, NEW s \in Subjects
  PROVE  View(s) \in Values
<1>1. CASE s = EventList
  BY <1>1 DEF View, Values, ActiveEvents
<1>2. CASE s # EventList
  BY <1>2 DEF View, Values, Subjects, LP_TypeOK
<1> QED BY <1>1, <1>2

LEMMA ViewIsValueNext ==
  ASSUME LP_TypeOK', NEW s \in Subjects
  PROVE  View(s)' \in Values
<1>1. CASE s = EventList
  BY <1>1 DEF View, Values, ActiveEvents
<1>2. CASE s # EventList
  BY <1>2 DEF View, Values, Subjects, LP_TypeOK
<1> QED BY <1>1, <1>2

LEMMA SubjectsAreSubjects ==
  ASSUME NEW user \in Users
  PROVE  SubjectsOf(user) \subseteq Subjects /\ Attempts(user) \in Nat \ {0}
BY AttemptsAssumption DEF SubjectsOf, Subjects, Attempts

\* A call in flight, field by field.
LEMMA InFlightCall ==
  ASSUME EL_TypeOK, NEW c \in Callers, InFlight(c)
  PROVE  /\ call[c].user \in Users
         /\ call[c].subject \in SubjectsOf(call[c].user)
         /\ call[c].subject \in Subjects
         /\ call[c].attempt \in 1..Attempts(call[c].user)
         /\ call[c].pc = "replied" => call[c].reply \in Values
<1>1. call[c] \in Calls
  BY DEF EL_TypeOK
<1> QED BY <1>1 DEF EL_TypeOK, InFlight, Calls

\* The record a call may be replaced by.
CallOK(k) ==
  /\ k \in Calls
  /\ k.pc \in {"asking", "replied"} => /\ k.attempt \in 1..Attempts(k.user)
                                       /\ k.subject \in SubjectsOf(k.user)

LEMMA CallReplaced ==
  ASSUME EL_TypeOK, NEW c \in Callers, NEW k, CallOK(k), call' = [call EXCEPT ![c] = k]
  PROVE  EL_TypeOK'
<1>1. call' \in [Callers -> Calls]
  BY DEF EL_TypeOK, CallOK
<1>2. \A d \in Callers : call'[d] = IF d = c THEN k ELSE call[d]
  BY DEF EL_TypeOK
<1> QED BY <1>1, <1>2 DEF EL_TypeOK, CallOK

\* The three ends of an attempt.
LEMMA AnsweredOK ==
  ASSUME EL_TypeOK, NEW c \in Callers, InFlight(c), NEW answer \in Values \cup Failures
  PROVE  CallOK(Answered(call[c], answer))
BY InFlightCall DEF CallOK, Calls, Answered

LEMMA RetryOK ==
  ASSUME EL_TypeOK, NEW c \in Callers, InFlight(c)
  PROVE  CallOK(RetryOrGiveUp(call[c]))
<1>1. CASE call[c].attempt < Attempts(call[c].user)
  <2> DEFINE k == call[c]
  <2>1. k.user \in Users /\ k.subject \in Subjects /\ k.subject \in SubjectsOf(k.user)
    BY InFlightCall
  <2>2. k.attempt + 1 \in 1..Attempts(k.user) /\ k.attempt + 1 \in Nat
    BY <1>1, <2>1, InFlightCall, SubjectsAreSubjects
  <2> HIDE DEF k
  <2>3. Asking(k.user, k.subject, k.attempt + 1) \in Calls
    BY <2>1, <2>2 DEF Asking, Calls
  <2>4. CallOK(Asking(k.user, k.subject, k.attempt + 1))
    BY <2>1, <2>2, <2>3 DEF CallOK, Asking
  <2> QED BY <1>1, <2>4 DEF RetryOrGiveUp, k
<1>2. CASE ~(call[c].attempt < Attempts(call[c].user))
  BY <1>2, AnsweredOK DEF RetryOrGiveUp, Failures
<1> QED BY <1>1, <1>2

LEMMA ELTypeStep ==
  ASSUME EL_Inv, [EL_Next]_elVars
  PROVE  EL_TypeOK'
<1> USE DEF EL_Inv
<1>1. CASE UNCHANGED call
  BY <1>1 DEF EL_TypeOK
<1>2. ASSUME NEW c \in Callers, NEW user \in Users, NEW s \in Subjects, Ask(c, user, s)
      PROVE  EL_TypeOK'
  <2>1. CallOK(Asking(user, s, 1))
    BY <1>2, SubjectsAreSubjects DEF CallOK, Asking, Calls, Ask
  <2> QED BY <1>2, <2>1, CallReplaced DEF Ask
<1>3. ASSUME NEW c \in Callers, Serve(c)
      PROVE  EL_TypeOK'
  <2>1. InFlight(c)
    BY <1>3 DEF Serve, InFlight
  <2>2. View(call[c].subject) \in Values
    BY <2>1, InFlightCall, ViewIsValue
  <2>3. CallOK(Replied(call[c], View(call[c].subject)))
    BY <2>1, <2>2, InFlightCall, SubjectsAreSubjects DEF CallOK, Replied, Calls
  <2> QED BY <1>3, <2>3, CallReplaced DEF Serve
<1>4. ASSUME NEW c \in Callers, Receive(c)
      PROVE  EL_TypeOK'
  <2>1. InFlight(c) /\ call[c].reply \in Values
    BY <1>4, InFlightCall DEF Receive, InFlight
  <2> QED BY <1>4, <2>1, AnsweredOK, CallReplaced DEF Receive
<1>5. ASSUME NEW c \in Callers, AttemptFails(c)
      PROVE  EL_TypeOK'
  BY <1>5, RetryOK, CallReplaced DEF AttemptFails
<1>6. ASSUME NEW c \in Callers, NEW failure \in Failures, Refuse(c, failure)
      PROVE  EL_TypeOK'
  BY <1>6, AnsweredOK, CallReplaced DEF Refuse
<1>7. NoCall \in Calls /\ NoCall.pc = "idle"
  BY DEF NoCall, Calls
<1>8. ASSUME NEW c \in Callers, Take(c)
      PROVE  EL_TypeOK'
  BY <1>7, <1>8, CallReplaced DEF Take, CallOK
<1>9. CASE DropCalls
  BY <1>7, <1>9 DEF DropCalls, EL_TypeOK
<1> QED
  BY <1>1, <1>2, <1>3, <1>4, <1>5, <1>6, <1>8, <1>9 DEF EL_Next, elVars, ClientStep

\* Types of the client and of the service behind it; that an attempt stays within
\* its limit is part of them.
THEOREM LookupTypeCorrect == EL_Spec => []EL_Inv
<1>1. EL_Init => LP_Init /\ EL_TypeOK
  BY DEF EL_Init, EL_TypeOK, NoCall, Calls
<1>2. [EL_Next]_elVars => [LP_Next]_lpVars
  BY DEF EL_Next, elVars
<1>3. EL_Spec => []LP_TypeOK
  BY <1>1, <1>2, LPTypeCorrect, PTL DEF EL_Spec, LP_Spec
<1>4. LP_TypeOK /\ EL_TypeOK /\ [EL_Next]_elVars => EL_TypeOK'
  BY ELTypeStep DEF EL_Inv
<1> QED BY <1>1, <1>3, <1>4, PTL DEF EL_Spec, EL_Inv
-------------------------------------------------------------------------------
ShownView == [s \in Subjects |-> View(s)]
ShownCall == [c \in Callers |-> Shown(call[c])]

\* One call is replaced: the promise sees the shown part of that one call change.
LEMMA ShownReplaced ==
  ASSUME EL_TypeOK, NEW c \in Callers, NEW k, call' = [call EXCEPT ![c] = k]
  PROVE  ShownCall' = [ShownCall EXCEPT ![c] = Shown(k)]
<1>1. \A d \in Callers : call'[d] = IF d = c THEN k ELSE call[d]
  BY DEF EL_TypeOK
<1>2. \A d \in Callers : Shown(call[d])' = Shown(call'[d])
  BY DEF Shown
<1>3. ShownCall' = [d \in Callers |-> IF d = c THEN Shown(k) ELSE Shown(call[d])]
  BY <1>1, <1>2 DEF ShownCall
<1> QED BY <1>3 DEF ShownCall

\* While nothing happens to the store, the view stays.
LEMMA ShownViewStays ==
  ASSUME UNCHANGED lpVars
  PROVE  ShownView' = ShownView
<1>1. \A s : View(s)' = View(s)
  BY DEF lpVars, View, ActiveEvents, Bettable
<1> QED BY <1>1 DEF ShownView

\* A call in flight shows as a question, with what its last attempt has seen.
LEMMA ShownInFlight ==
  ASSUME NEW c \in Callers, InFlight(c)
  PROVE  /\ ShownCall[c].pc = "asking"
         /\ ShownCall[c].subject = call[c].subject
         /\ call[c].pc = "replied" =>
              ShownCall[c] = Promised!Asking(call[c].subject, {call[c].reply})
<1>1. ShownCall[c] = [pc |-> "asking", subject |-> call[c].subject,
                      seen |-> IF call[c].pc = "replied" THEN {call[c].reply} ELSE {}]
  BY DEF InFlight, ShownCall, Shown
<1> QED BY <1>1 DEF Promised!Asking

\* The end of a call, and the repetition of its question, as the promise sees them.
LEMMA ShownAnswered ==
  ASSUME NEW k, NEW answer
  PROVE  Shown(Answered(k, answer)) = Promised!Answered(k.subject, answer)
BY DEF Shown, Answered, Promised!Answered

LEMMA ShownAsking ==
  ASSUME NEW user, NEW s, NEW n
  PROVE  Shown(Asking(user, s, n)) = Promised!Asking(s, {})
BY DEF Shown, Asking, Promised!Asking

\* A failure in flight, whatever it is, is a Fail of the promise.
LEMMA FailureIsFail ==
  ASSUME EL_TypeOK, UNCHANGED lpVars, NEW c \in Callers, InFlight(c), NEW f \in Failures,
         call' = [call EXCEPT ![c] = Answered(call[c], f)]
  PROVE  Promised!Next
<1> DEFINE s == call[c].subject
<1>1. s \in Subjects
  BY InFlightCall
<1>2. ShownCall' = [ShownCall EXCEPT ![c] = Promised!Answered(s, f)]
  BY ShownReplaced, ShownAnswered
<1>3. ShownCall[c].pc = "asking" /\ ShownCall[c].subject = s
  BY ShownInFlight
<1>4. Promised!Fail(c, s, f)
  BY <1>2, <1>3, ShownViewStays DEF Promised!Fail, ShownCall, ShownView
<1> QED BY <1>1, <1>4 DEF Promised!Next

\* The client keeps the promise: whatever is retried, lost or refused, an answer is
\* what line_provider held at one moment of the call.
THEOREM LookupRefinement == EL_Spec => KeepsLookupPromise
<1>1. LP_TypeOK /\ EL_Init => Promised!Init
  <2> SUFFICES ASSUME LP_TypeOK, EL_Init PROVE Promised!Init
    OBVIOUS
  <2>1. [s \in Subjects |-> View(s)] \in [Subjects -> Values]
    BY ViewIsValue
  <2>2. [c \in Callers |-> Shown(call[c])] = [c \in Callers |-> Promised!Resting]
    BY DEF EL_Init, NoCall, Shown, Promised!Resting
  <2> QED BY <2>1, <2>2 DEF Promised!Init
<1>2. EL_Inv /\ LP_TypeOK' /\ [EL_Next]_elVars => [Promised!Next]_<<ShownView, ShownCall>>
  <2> SUFFICES ASSUME EL_Inv, LP_TypeOK', [EL_Next]_elVars
               PROVE  [Promised!Next]_<<ShownView, ShownCall>>
    OBVIOUS
  <2> USE DEF EL_Inv
  <2>1. CASE UNCHANGED call
    <3>1. ShownCall' = ShownCall
      BY <2>1 DEF ShownCall, Shown
    <3>2. \A s \in Subjects : View(s)' \in Values
      BY ViewIsValueNext
    <3>3. Promised!Change
      BY <3>1, <3>2 DEF Promised!Change, ShownCall
    <3> QED BY <3>3 DEF Promised!Next
  <2>2. ASSUME NEW c \in Callers, NEW user \in Users, NEW s \in Subjects,
               Ask(c, user, s), UNCHANGED lpVars
        PROVE  Promised!Next
    <3>1. ShownCall[c] = Promised!Resting
      BY <2>2 DEF Ask, NoCall, ShownCall, Shown, Promised!Resting
    <3> DEFINE k == Asking(user, s, 1)
    <3>2. Shown(k) = Promised!Asking(s, {}) /\ call' = [call EXCEPT ![c] = k]
      BY <2>2, ShownAsking DEF Ask
    <3> HIDE DEF k
    <3>3. ShownCall' = [ShownCall EXCEPT ![c] = Promised!Asking(s, {})]
      BY <3>2, ShownReplaced
    <3>4. Promised!Ask(c, s)
      BY <2>2, <3>1, <3>3, ShownViewStays DEF Promised!Ask, ShownCall, ShownView
    <3> QED BY <3>4 DEF Promised!Next
  <2>3. ASSUME NEW c \in Callers, Serve(c), UNCHANGED lpVars
        PROVE  Promised!Next
    <3> DEFINE s == call[c].subject
    <3>1. InFlight(c) /\ call[c].pc = "asking"
      BY <2>3 DEF Serve, InFlight
    <3>2. s \in Subjects /\ ShownView[s] = View(s)
      BY <3>1, InFlightCall DEF ShownView
    <3>3. ShownCall[c].pc = "asking" /\ ShownCall[c].subject = s
      BY <3>1, ShownInFlight
    <3>4. Shown(Replied(call[c], View(s))) = Promised!Asking(s, {View(s)})
      BY DEF Shown, Replied, Promised!Asking
    <3>5. ShownCall' = [ShownCall EXCEPT ![c] = Promised!Asking(s, {View(s)})]
      BY <2>3, <3>4, ShownReplaced DEF Serve
    <3>6. Promised!Look(c, s)
      BY <2>3, <3>2, <3>3, <3>5, ShownViewStays DEF Promised!Look, ShownCall, ShownView
    <3> QED BY <3>2, <3>6 DEF Promised!Next
  <2>4. ASSUME NEW c \in Callers, Receive(c), UNCHANGED lpVars
        PROVE  Promised!Next
    <3> DEFINE s == call[c].subject
               v == call[c].reply
    <3>1. InFlight(c) /\ call[c].pc = "replied"
      BY <2>4 DEF Receive, InFlight
    <3>2. s \in Subjects /\ v \in Values
      BY <3>1, InFlightCall
    <3>3. ShownCall[c] = Promised!Asking(s, {v})
      BY <3>1, ShownInFlight
    <3>4. ShownCall' = [ShownCall EXCEPT ![c] = Promised!Answered(s, v)]
      BY <2>4, ShownReplaced, ShownAnswered DEF Receive
    <3>5. Promised!Answer(c, s, v)
      BY <2>4, <3>3, <3>4, ShownViewStays DEF Promised!Answer, ShownCall, ShownView
    <3> QED BY <3>2, <3>5 DEF Promised!Next
  <2>5. ASSUME NEW c \in Callers, AttemptFails(c), UNCHANGED lpVars
        PROVE  Promised!Next
    <3> DEFINE s == call[c].subject
    <3>1. CASE call[c].attempt < Attempts(call[c].user)
      <4>1. s \in Subjects /\ ShownCall[c].pc = "asking" /\ ShownCall[c].subject = s
        BY <2>5, InFlightCall, ShownInFlight DEF AttemptFails
      <4> DEFINE k == Asking(call[c].user, s, call[c].attempt + 1)
      <4>2. Shown(k) = Promised!Asking(s, {}) /\ call' = [call EXCEPT ![c] = k]
        BY <2>5, <3>1, ShownAsking DEF AttemptFails, RetryOrGiveUp
      <4> HIDE DEF k
      <4>3. ShownCall' = [ShownCall EXCEPT ![c] = Promised!Asking(s, {})]
        BY <4>2, ShownReplaced
      <4>4. Promised!Forget(c, s)
        BY <2>5, <4>1, <4>3, ShownViewStays DEF Promised!Forget, ShownCall, ShownView
      <4> QED BY <4>1, <4>4 DEF Promised!Next
    <3>2. CASE ~(call[c].attempt < Attempts(call[c].user))
      BY <2>5, <3>2, FailureIsFail DEF AttemptFails, RetryOrGiveUp, Failures
    <3> QED BY <3>1, <3>2
  <2>6. ASSUME NEW c \in Callers, NEW failure \in Failures, Refuse(c, failure), UNCHANGED lpVars
        PROVE  Promised!Next
    BY <2>6, FailureIsFail DEF Refuse
  <2>7. Shown(NoCall) = Promised!Resting
    BY DEF Shown, NoCall, Promised!Resting
  <2>8. ASSUME NEW c \in Callers, Take(c), UNCHANGED lpVars
        PROVE  Promised!Next
    <3>1. ShownCall' = [ShownCall EXCEPT ![c] = Promised!Resting]
      BY <2>7, <2>8, ShownReplaced DEF Take
    <3>2. Promised!Leave({c})
      BY <2>8, <3>1, ShownViewStays DEF Promised!Leave, ShownCall, ShownView
    <3> QED BY <3>2 DEF Promised!Next
  <2>9. CASE DropCalls /\ UNCHANGED lpVars
    <3>1. Promised!Leave(Callers)
      BY <2>7, <2>9, ShownViewStays DEF DropCalls, Promised!Leave, ShownView
    <3> QED BY <3>1 DEF Promised!Next
  <2> QED
    BY <2>1, <2>2, <2>3, <2>4, <2>5, <2>6, <2>8, <2>9 DEF EL_Next, elVars, ClientStep
<1>3. EL_Spec => []EL_Inv
  BY LookupTypeCorrect
<1> QED BY <1>1, <1>2, <1>3, PTL
        DEF EL_Spec, EL_Inv, KeepsLookupPromise, Promised!Spec, ShownView, ShownCall

-------------------------------------------------------------------------------
(* Why a call ends *)

\* What a call has left to do: two steps for each attempt, the request and its
\* answer.
CallRank(k) ==
  IF k.pc \in {"asking", "replied"}
  THEN 2 * (Attempts(k.user) - k.attempt) + (IF k.pc = "asking" THEN 2 ELSE 1)
  ELSE 0

\* A call in flight changes only to one with less left to do, and has at most
\* twice its attempts to go.
CallsAdvance ==
  \A c \in Callers : InFlight(c) =>
    /\ CallRank(call[c]) \in 1..(2 * Attempts(call[c].user))
    /\ CallRank(call'[c]) \in Nat
    /\ call'[c] = call[c] \/ CallRank(call'[c]) < CallRank(call[c])
    /\ ClientStep(c) => call'[c] # call[c]

LEMMA RankOfCall ==
  ASSUME EL_TypeOK, NEW c \in Callers, InFlight(c)
  PROVE  /\ CallRank(call[c]) \in 1..(2 * Attempts(call[c].user))
         /\ call[c].pc = "replied" =>
              CallRank(call[c]) = 2 * (Attempts(call[c].user) - call[c].attempt) + 1
         /\ call[c].pc = "asking" =>
              CallRank(call[c]) = 2 * (Attempts(call[c].user) - call[c].attempt) + 2
<1> DEFINE k == call[c]
           n == Attempts(k.user)
           a == k.attempt
<1>1. n \in Nat /\ a \in 1..n
  BY InFlightCall, SubjectsAreSubjects
<1>2. k.pc = "asking" \/ k.pc = "replied"
  BY DEF InFlight
<1>3. CallRank(k) = 2 * (n - a) + (IF k.pc = "asking" THEN 2 ELSE 1)
  BY <1>2 DEF CallRank
<1> HIDE DEF k, n, a
<1>4. CallRank(k) \in 1..(2 * n)
  BY <1>1, <1>2, <1>3
<1> QED BY <1>2, <1>3, <1>4 DEF k, n, a

\* Each of the four steps of a call leaves less of it: a retry starts an attempt
\* with a higher number, and everything else goes on to its answer.
LEMMA ClientStepAdvances ==
  ASSUME EL_TypeOK, NEW c \in Callers, ClientStep(c)
  PROVE  /\ InFlight(c)
         /\ CallRank(call'[c]) \in Nat
         /\ CallRank(call'[c]) < CallRank(call[c])
         /\ \A d \in Callers \ {c} : call'[d] = call[d]
<1>1. InFlight(c)
  BY DEF ClientStep, Serve, Receive, AttemptFails, Refuse, InFlight
<1> DEFINE k == call[c]
           n == Attempts(k.user)
<1>2. /\ n \in Nat /\ k.attempt \in 1..n
      /\ CallRank(k) \in Nat \ {0}
      /\ k.pc = "replied" => CallRank(k) = 2 * (n - k.attempt) + 1
      /\ k.pc = "asking" => CallRank(k) = 2 * (n - k.attempt) + 2
  <2>1. n \in Nat /\ k.attempt \in 1..n
    BY <1>1, InFlightCall, SubjectsAreSubjects
  <2> QED BY <1>1, <2>1, RankOfCall
<1>3. k.pc = "asking" \/ k.pc = "replied"
  BY <1>1 DEF InFlight
<1>4. \A answer : CallRank(Answered(k, answer)) = 0
  BY DEF CallRank, Answered
<1>5. ASSUME NEW r, call' = [call EXCEPT ![c] = r],
             CallRank(r) \in Nat, CallRank(r) < CallRank(k)
      PROVE  /\ CallRank(call'[c]) \in Nat
             /\ CallRank(call'[c]) < CallRank(call[c])
             /\ \A d \in Callers \ {c} : call'[d] = call[d]
  BY <1>5 DEF EL_TypeOK
<1>6. CASE Serve(c)
  <2> DEFINE r == Replied(k, View(k.subject))
  <2>1. k.pc = "asking" /\ call' = [call EXCEPT ![c] = r]
    BY <1>6 DEF Serve, EL_TypeOK
  <2>2. CallRank(r) = 2 * (n - k.attempt) + 1
    BY DEF CallRank, Replied
  <2> HIDE DEF k, n, r
  <2>3. CallRank(r) \in Nat /\ CallRank(r) < CallRank(k)
    BY <1>2, <2>1, <2>2
  <2> QED BY <1>1, <1>5, <2>1, <2>3
<1>7. ASSUME NEW answer, call' = [call EXCEPT ![c] = Answered(k, answer)]
      PROVE  /\ CallRank(call'[c]) \in Nat
             /\ CallRank(call'[c]) < CallRank(call[c])
             /\ \A d \in Callers \ {c} : call'[d] = call[d]
  <2> HIDE DEF k, n
  <2>1. CallRank(Answered(k, answer)) \in Nat /\ CallRank(Answered(k, answer)) < CallRank(k)
    BY <1>2, <1>4
  <2> QED BY <1>5, <1>7, <2>1
<1>8. CASE Receive(c)
  <2>1. call' = [call EXCEPT ![c] = Answered(k, k.reply)]
    BY <1>8 DEF Receive, EL_TypeOK
  <2> QED BY <1>1, <1>7, <2>1
<1>9. ASSUME NEW failure \in Failures, Refuse(c, failure)
      PROVE  call' = [call EXCEPT ![c] = Answered(k, failure)]
  BY <1>9 DEF Refuse, EL_TypeOK
<1>10. CASE AttemptFails(c)
  <2>1. call' = [call EXCEPT ![c] = RetryOrGiveUp(k)]
    BY <1>10 DEF AttemptFails, EL_TypeOK
  <2>2. CASE k.attempt < n
    <3> DEFINE r == Asking(k.user, k.subject, k.attempt + 1)
    <3>1. call' = [call EXCEPT ![c] = r]
      BY <2>1, <2>2 DEF RetryOrGiveUp
    <3>2. CallRank(r) = 2 * (n - (k.attempt + 1)) + 2
      BY DEF CallRank, Asking
    <3> HIDE DEF k, n, r
    <3>3. CallRank(r) \in Nat /\ CallRank(r) < CallRank(k)
      BY <1>2, <1>3, <2>2, <3>2
    <3> QED BY <1>1, <1>5, <3>1, <3>3
  <2>3. CASE ~(k.attempt < n)
    <3>1. call' = [call EXCEPT ![c] = Answered(k, Unavailable)]
      BY <2>1, <2>3 DEF RetryOrGiveUp
    <3> QED BY <1>1, <1>7, <3>1
  <2> QED BY <2>2, <2>3
<1> QED BY <1>1, <1>6, <1>7, <1>8, <1>9, <1>10 DEF ClientStep

\* Every call ends if the client and the service go on: whatever the network does,
\* a call in flight has at most twice its attempts to go, and each step of it counts
\* down. Only fairness is missing from this to conclude that it is answered.
THEOREM CallsCountDown == EL_Spec => [][CallsAdvance]_elVars
<1>1. EL_Inv /\ [EL_Next]_elVars => [CallsAdvance]_elVars
  <2> SUFFICES ASSUME EL_TypeOK, [EL_Next]_elVars, NEW c \in Callers, InFlight(c)
               PROVE  /\ CallRank(call[c]) \in 1..(2 * Attempts(call[c].user))
                      /\ CallRank(call'[c]) \in Nat
                      /\ call'[c] = call[c] \/ CallRank(call'[c]) < CallRank(call[c])
                      /\ ClientStep(c) => call'[c] # call[c]
    BY DEF EL_Inv, CallsAdvance
  <2>1. /\ CallRank(call[c]) \in 1..(2 * Attempts(call[c].user))
        /\ CallRank(call[c]) \in Nat \ {0}
    <3>1. Attempts(call[c].user) \in Nat
      BY InFlightCall, SubjectsAreSubjects
    <3> QED BY <3>1, RankOfCall
  <2>2. CASE ClientStep(c)
    BY <2>1, <2>2, ClientStepAdvances
  <2>3. CASE ~ClientStep(c)
    <3>1. ASSUME NEW d \in Callers, ClientStep(d)
          PROVE  call'[c] = call[c]
      BY <2>3, <3>1, ClientStepAdvances
    <3>2. ASSUME NEW d \in Callers, (\E user \in Users, s \in Subjects : Ask(d, user, s)) \/ Take(d)
          PROVE  call'[c] = call[c]
      BY <3>2 DEF Ask, Take, InFlight, NoCall, EL_TypeOK
    <3>3. CASE DropCalls
      <4>1. CallRank(NoCall) = 0
        BY DEF CallRank, NoCall
      <4> QED BY <2>1, <2>3, <3>3, <4>1 DEF DropCalls
    <3>4. CASE UNCHANGED call
      BY <2>1, <2>3, <3>4
    <3> QED BY <2>1, <2>3, <3>1, <3>2, <3>3, <3>4 DEF EL_Next, elVars
  <2> QED BY <2>2, <2>3
<1> QED BY <1>1, LookupTypeCorrect, PTL DEF EL_Spec
===============================================================================
