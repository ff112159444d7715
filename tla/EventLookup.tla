----------------------------- MODULE EventLookup ------------------------------
(***************************************************************************)
(* bet_maker's HTTP client of line_provider: HttpEventLookup.get_event and *)
(* list_active_events, with the retries both take from                     *)
(* make_retry_decorator. Requests, answers and failures of the network are *)
(* steps of their own; line_provider may change between any two of them.   *)
(***************************************************************************)
EXTENDS LineProvider

CONSTANTS Callers,              \* the coroutines that ask
          RouteAttempts,        \* line_provider_http_attempts
          ReconcilerAttempts,   \* line_provider_reconciler_attempts
          EventList             \* what GET /events is asked for

ASSUME AttemptsAssumption == RouteAttempts \in Nat \ {0} /\ ReconcilerAttempts \in Nat \ {0}
ASSUME EventListAssumption == EventList \notin Events

VARIABLE call   \* what each caller is waiting for

elVars == <<lpVars, call>>

\* The three users of the client: POST /bet, the reconciler, GET /events.
Users == {"bet", "reconciler", "list"}
Attempts(user) == IF user = "reconciler" THEN ReconcilerAttempts ELSE RouteAttempts

Subjects == Events \cup {EventList}
SubjectsOf(user) == IF user = "list" THEN {EventList} ELSE Events

\* What line_provider answers: an event, a 404, or the list of active events.
View(s)      == IF s = EventList THEN [active |-> ActiveEvents] ELSE store[s]
Values       == Event \cup {NoEvent} \cup [active : SUBSET Events]

\* LineProviderUnavailable, and any exception the two functions do not translate.
Unavailable == [state |-> "LineProviderUnavailable"]
Untranslated == [state |-> "TypeError"]
Failures    == {Unavailable, Untranslated}

Calls ==
  [pc : {"idle"}]
    \cup [pc : {"asking"}, user : Users, subject : Subjects, attempt : Nat]
    \cup [pc : {"replied"}, user : Users, subject : Subjects, attempt : Nat, reply : Values]
    \cup [pc : {"answered"}, user : Users, subject : Subjects, answer : Values \cup Failures]

NoCall == [pc |-> "idle"]
Asking(user, s, n)     == [pc |-> "asking", user |-> user, subject |-> s, attempt |-> n]
Replied(k, reply)      == [pc |-> "replied", user |-> k.user, subject |-> k.subject,
                           attempt |-> k.attempt, reply |-> reply]
Answered(k, answer)    == [pc |-> "answered", user |-> k.user, subject |-> k.subject,
                           answer |-> answer]

\* A call waits for an attempt that is within its limit, of a subject its user asks for.
EL_TypeOK ==
  /\ call \in [Callers -> Calls]
  /\ \A c \in Callers :
       call[c].pc \in {"asking", "replied"} =>
         /\ call[c].attempt \in 1..Attempts(call[c].user)
         /\ call[c].subject \in SubjectsOf(call[c].user)
-------------------------------------------------------------------------------
EL_Init == /\ LP_Init
           /\ call = [c \in Callers |-> NoCall]

InFlight(c) == call[c].pc \in {"asking", "replied"}

\* The first attempt.
Ask(c, user, s) ==
  /\ call[c] = NoCall
  /\ s \in SubjectsOf(user)
  /\ call' = [call EXCEPT ![c] = Asking(user, s, 1)]

\* The request reaches line_provider, which reads its store and answers.
Serve(c) ==
  /\ call[c].pc = "asking"
  /\ call' = [call EXCEPT ![c] = Replied(@, View(@.subject))]

\* A 200 is parsed into a snapshot or a list; a 404 is the answer None.
Receive(c) ==
  /\ call[c].pc = "replied"
  /\ call' = [call EXCEPT ![c] = Answered(@, @.reply)]

\* Mutants: a retry without a limit, one attempt too many, and a client that takes
\* a last 5xx for None.
RetryOrGiveUp_Unlimited(k) == Asking(k.user, k.subject, k.attempt)
RetryOrGiveUp_OneMore(k) ==
  IF k.attempt <= Attempts(k.user)
  THEN Asking(k.user, k.subject, k.attempt + 1)
  ELSE Answered(k, Unavailable)

RetryOrGiveUp_ServerErrorIsNone(k) ==
  IF k.attempt < Attempts(k.user)
  THEN Asking(k.user, k.subject, k.attempt + 1)
  ELSE Answered(k, NoEvent)

\* stop_after_attempt, and the translation of what the last attempt raised.
RetryOrGiveUp(k) ==
  IF k.attempt < Attempts(k.user)
  THEN Asking(k.user, k.subject, k.attempt + 1)
  ELSE Answered(k, Unavailable)

\* A transport error or timeout, before or after line_provider has answered, or a
\* 5xx: what _is_retryable lets through.
AttemptFails(c) ==
  /\ InFlight(c)
  /\ call' = [call EXCEPT ![c] = RetryOrGiveUp(@)]

\* Another status or a body that does not parse: no retry. A payload of a shape
\* none of the except clauses names escapes as it is.
Refuse(c, failure) ==
  /\ InFlight(c)
  /\ call' = [call EXCEPT ![c] = Answered(@, failure)]

\* The caller takes its answer.
Take(c) ==
  /\ call[c].pc = "answered"
  /\ call' = [call EXCEPT ![c] = NoCall]

\* bet_maker's process dies with whatever was waiting in it.
DropCalls == call' = [c \in Callers |-> NoCall]

ClientStep(c) ==
  \/ Serve(c)
  \/ Receive(c)
  \/ AttemptFails(c)
  \/ \E failure \in Failures : Refuse(c, failure)

EL_Next ==
  \/ LP_Next /\ UNCHANGED call
  \/ \E c \in Callers :
       /\ \/ \E user \in Users, s \in Subjects : Ask(c, user, s)
          \/ ClientStep(c)
          \/ Take(c)
       /\ UNCHANGED lpVars
  \/ DropCalls /\ UNCHANGED lpVars

EL_Spec == EL_Init /\ [][EL_Next]_elVars
-------------------------------------------------------------------------------
\* Of a call only its subject is promised, and what its last attempt has seen.
Shown(k) ==
  IF k.pc = "idle" THEN [pc |-> "idle"]
  ELSE IF k.pc = "answered" THEN [pc |-> "answered", subject |-> k.subject, answer |-> k.answer]
  ELSE [pc |-> "asking", subject |-> k.subject,
        seen |-> IF k.pc = "replied" THEN {k.reply} ELSE {}]

Promised == INSTANCE LookupPromise WITH
              view <- [s \in Subjects |-> View(s)],
              call <- [c \in Callers |-> Shown(call[c])]

\* A lookup, however it is retried, answers with what line_provider held at one
\* moment of the call, or raises: a 5xx, a timeout or a malformed body is never
\* taken for a 404 (http_event_lookup.py), so it cancels no bet.
KeepsLookupPromise == Promised!Spec
===============================================================================
