---------------------------- MODULE LookupPromise -----------------------------
(***************************************************************************)
(* What a question to line_provider promises whoever asks it: the answer   *)
(* is what line_provider held at one moment after the question was put,    *)
(* or it is a failure, and no failure is ever taken for an answer. How     *)
(* often the question is repeated on the way, nobody sees.                 *)
(***************************************************************************)
CONSTANTS Callers,    \* who asks
          Subjects,   \* what can be asked for
          Values,     \* what can be answered
          Failures    \* what can be raised instead

VARIABLES view,  \* what line_provider holds of each subject
          call   \* what each caller has asked and learnt

\* A question sees nothing, or one state of its subject.
Resting         == [pc |-> "idle"]
Asking(s, seen) == [pc |-> "asking", subject |-> s, seen |-> seen]
Answered(s, a)  == [pc |-> "answered", subject |-> s, answer |-> a]

Init == /\ view \in [Subjects -> Values]
        /\ call = [c \in Callers |-> Resting]

Change == /\ view' \in [Subjects -> Values]
          /\ UNCHANGED call

Ask(c, s) ==
  /\ call[c] = Resting
  /\ call' = [call EXCEPT ![c] = Asking(s, {})]
  /\ UNCHANGED view

\* The question reaches line_provider. What it has seen may be lost on the way back.
Look(c, s) ==
  /\ call[c].pc = "asking"
  /\ call[c].subject = s
  /\ call' = [call EXCEPT ![c] = Asking(s, {view[s]})]
  /\ UNCHANGED view

Forget(c, s) ==
  /\ call[c].pc = "asking"
  /\ call[c].subject = s
  /\ call' = [call EXCEPT ![c] = Asking(s, {})]
  /\ UNCHANGED view

Answer(c, s, v) ==
  /\ call[c] = Asking(s, {v})
  /\ call' = [call EXCEPT ![c] = Answered(s, v)]
  /\ UNCHANGED view

Fail(c, s, f) ==
  /\ call[c].pc = "asking"
  /\ call[c].subject = s
  /\ call' = [call EXCEPT ![c] = Answered(s, f)]
  /\ UNCHANGED view

\* Callers take their answers, or die waiting for them.
Leave(C) ==
  /\ call' = [c \in Callers |-> IF c \in C THEN Resting ELSE call[c]]
  /\ UNCHANGED view

Next ==
  \/ Change
  \/ \E c \in Callers, s \in Subjects :
       \/ Ask(c, s)
       \/ Look(c, s)
       \/ Forget(c, s)
       \/ \E v \in Values : Answer(c, s, v)
       \/ \E f \in Failures : Fail(c, s, f)
  \/ \E C \in SUBSET Callers : Leave(C)

Spec == Init /\ [][Next]_<<view, call>>
===============================================================================
