------------------------------ MODULE Dispatch ------------------------------
(***************************************************************************)
(* What dispatch promises a request handler: a request is taken in or      *)
(* turned away at once, what is taken in is started in that order by a     *)
(* bounded number of workers, and every request is answered once, those    *)
(* taken in before the end too.                                            *)
(***************************************************************************)
EXTENDS Naturals, Sequences, FiniteSets

CONSTANTS
    Requests,
    Workers,
    Capacity    \* length of the queue, 64 in the source

\* How the work of a handler ends, and what the client reads for it.
Outcomes == {"returns", "Error", "DrogonDbException", "exception"}

AnswerTo(outcome) ==
    CASE outcome = "returns" -> "response"
      [] outcome = "Error" -> "its status"
      [] outcome = "DrogonDbException" -> "DATABASE_UNAVAILABLE"
      [] OTHER -> "INTERNAL_ERROR"

WorkAnswers == {AnswerTo(o) : o \in Outcomes}

Answers == WorkAnswers \cup {"BUSY"}

VARIABLES
    waiting,    \* requests taken in and not started, oldest first
    running,    \* requests some worker is at
    refused,    \* requests turned away and not told yet
    answers,    \* what each request was answered, in order
    phase       \* of the server: "open", "closing", "closed"

vars == <<waiting, running, refused, answers, phase>>

Init ==
    /\ waiting = <<>>
    /\ running = {}
    /\ refused = {}
    /\ answers = [r \in Requests |-> <<>>]
    /\ phase = "open"

Waits(r) == \E i \in 1..Len(waiting) : waiting[i] = r

New(r) == answers[r] = <<>> /\ ~Waits(r) /\ r \notin running \cup refused

Accept(r) ==
    /\ New(r)
    /\ phase = "open"
    /\ Len(waiting) < Capacity
    /\ waiting' = Append(waiting, r)
    /\ UNCHANGED <<running, refused, answers, phase>>

\* Only a full queue or a server about to end turns a request away.
Refuse(r) ==
    /\ New(r)
    /\ phase = "closing" \/ Len(waiting) = Capacity
    /\ refused' = refused \cup {r}
    /\ UNCHANGED <<waiting, running, answers, phase>>

TellBusy(r) ==
    /\ r \in refused
    /\ refused' = refused \ {r}
    /\ answers' = [answers EXCEPT ![r] = Append(@, "BUSY")]
    /\ UNCHANGED <<waiting, running, phase>>

Start ==
    /\ waiting # <<>>
    /\ Cardinality(running) < Cardinality(Workers)
    /\ running' = running \cup {Head(waiting)}
    /\ waiting' = Tail(waiting)
    /\ UNCHANGED <<refused, answers, phase>>

Answer(r) ==
    /\ r \in running
    /\ running' = running \ {r}
    /\ \E o \in Outcomes : answers' = [answers EXCEPT ![r] = Append(@, AnswerTo(o))]
    /\ UNCHANGED <<waiting, refused, phase>>

Close ==
    /\ phase = "open"
    /\ phase' = "closing"
    /\ UNCHANGED <<waiting, running, refused, answers>>

End ==
    /\ phase = "closing"
    /\ waiting = <<>>
    /\ running = {}
    /\ phase' = "closed"
    /\ UNCHANGED <<waiting, running, refused, answers>>

Next ==
    \/ \E r \in Requests : Accept(r) \/ Refuse(r) \/ TellBusy(r) \/ Answer(r)
    \/ Start
    \/ Close
    \/ End

Spec == Init /\ [][Next]_vars
=============================================================================
