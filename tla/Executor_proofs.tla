-------------------------- MODULE Executor_proofs --------------------------
(***************************************************************************)
(* Proofs about Executor, for every number of workers and requests and     *)
(* every capacity.  IInv says where a request is: in the queue, with one   *)
(* worker, or answered; and why no worker sleeps while there is work.      *)
(***************************************************************************)
EXTENDS Executor, Functions, FiniteSetTheorems, TLAPS

Queued(r) == \E i \in 1..Len(queue) : queue[i] = r

\* A request is in the queue once, and with one worker at most.
OnePlace ==
    /\ \A i, j \in 1..Len(queue) : queue[i] = queue[j] => i = j
    /\ \A w, v \in Workers : task[w] # None /\ task[w] = task[v] => w = v
    /\ \A w \in Workers : task[w] # None => ~Queued(task[w])

\* What is queued or worked on was accepted and is not answered.
Pending ==
    /\ \A r \in Requests : Queued(r) => call[r] = "accepted" /\ answers[r] = <<>>
    /\ \A w \in Workers : task[w] # None =>
          call[task[w]] = "accepted" /\ answers[task[w]] = <<>>

\* What was not accepted is not answered before it is done.
Unanswered ==
    \A r \in Requests :
        /\ call[r] \in {"new", "inside", "refused"} => answers[r] = <<>>
        /\ Len(answers[r]) <= 1

\* A worker has a task from Take to Reply.
Busyness ==
    \A w \in Workers :
        /\ pc[w] \in {"work", "reply"} <=> task[w] # None
        /\ pc[w] = "reply" <=> response[w] # None

\* Workers leave only when the pool stops and the queue is drained.
Ending ==
    /\ stopping <=> owner \in {"stopped", "joining", "joined"}
    /\ \A w \in Workers : pc[w] = "gone" => stopping /\ queue = <<>>
    /\ \A w \in Workers : pc[w] = "block" => queue = <<>> /\ ~stopping
    /\ owner \in {"joining", "joined"} => \A w \in Workers : pc[w] # "asleep"
    /\ owner = "joined" => /\ \A w \in Workers : pc[w] = "gone"
                           /\ \A r \in Requests : call[r] # "inside"

SomeoneAwake ==
    queue # <<>> => \E w \in Workers : pc[w] \notin {"asleep", "gone"}

IInv ==
    /\ TypeOK
    /\ OnePlace
    /\ Pending
    /\ Unanswered
    /\ Busyness
    /\ Ending
    /\ SomeoneAwake
----------------------------------------------------------------------------
(* IInv is inductive.                                                      *)

\* The initial states satisfy the inductive invariant.
LEMMA InitIInv == Init => IInv
<1>. SUFFICES ASSUME Init PROVE IInv
  OBVIOUS
<1>. USE ExecutorAssumption DEF Init
<1>1. TypeOK
  <2>1. <<>> \in Seq(Promise!Answers) /\ <<>> \in Seq(Requests) /\ Len(queue) = 0
    OBVIOUS
  <2>2. answers \in [Requests -> Seq(Promise!Answers)]
    BY <2>1
  <2>3. /\ \A w \in Workers : pc[w] \in {"test", "block"} <=> mutex = w
        /\ \A r \in Requests : call[r] = "inside" <=> mutex = r
        /\ owner = "locked" <=> mutex = "main"
    OBVIOUS
  <2>4. /\ queue \in Seq(Requests)
        /\ Len(queue) <= Capacity
    BY <2>1
  <2>. QED
    BY <2>2, <2>3, <2>4 DEF TypeOK
<1>2. OnePlace /\ Pending /\ Unanswered /\ Busyness /\ Ending /\ SomeoneAwake
  BY DEF OnePlace, Pending, Unanswered, Busyness, Ending, SomeoneAwake, Queued
<1>. QED
  BY <1>1, <1>2 DEF IInv

\* The parts of IInv that follow when queue, tasks and calls stay.
LEMMA SamePlaces ==
  ASSUME IInv, UNCHANGED <<queue, task, call, answers>>
  PROVE  OnePlace' /\ Pending' /\ Unanswered'
  BY DEF IInv, OnePlace, Pending, Unanswered, Queued

\* What the steps of a worker that only touch mutex and pc have in common.
LEMMA WorkerLockKeeps ==
  ASSUME IInv, NEW w \in Workers, WorkerLock(w)
  PROVE  IInv'
<1>. USE DEF WorkerLock, Moved
<1>1. TypeOK'
  BY ExecutorAssumption DEF IInv, TypeOK
<1>2. Busyness'
  BY DEF IInv, TypeOK, Busyness
<1>3. Ending'
  BY DEF IInv, TypeOK, Ending
<1>4. SomeoneAwake'
  BY DEF IInv, TypeOK, SomeoneAwake
<1>. QED
  BY <1>1, <1>2, <1>3, <1>4, SamePlaces DEF IInv

\* MustWait keeps the inductive invariant.
LEMMA MustWaitKeeps ==
  ASSUME IInv, NEW w \in Workers, MustWait(w)
  PROVE  IInv'
<1>. USE DEF MustWait, MayProceed, Moved
<1>1. TypeOK'
  BY ExecutorAssumption DEF IInv, TypeOK
<1>2. Busyness'
  BY DEF IInv, TypeOK, Busyness
<1>3. Ending'
  BY DEF IInv, TypeOK, Ending
<1>4. SomeoneAwake'
  BY DEF IInv, TypeOK, SomeoneAwake
<1>. QED
  BY <1>1, <1>2, <1>3, <1>4, SamePlaces DEF IInv

\* FallAsleep keeps the inductive invariant.
LEMMA FallAsleepKeeps ==
  ASSUME IInv, NEW w \in Workers, FallAsleep(w)
  PROVE  IInv'
<1>. USE DEF FallAsleep, Moved
<1>1. TypeOK'
  BY ExecutorAssumption DEF IInv, TypeOK
<1>2. Busyness'
  BY DEF IInv, TypeOK, Busyness
<1>3. Ending'
  BY DEF IInv, TypeOK, Ending
<1>4. SomeoneAwake'
  BY DEF IInv, TypeOK, SomeoneAwake, Ending
<1>. QED
  BY <1>1, <1>2, <1>3, <1>4, SamePlaces DEF IInv

\* WakeUnasked keeps the inductive invariant.
LEMMA WakeUnaskedKeeps ==
  ASSUME IInv, NEW w \in Workers, WakeUnasked(w)
  PROVE  IInv'
<1>. USE DEF WakeUnasked, Moved
<1>1. TypeOK'
  BY ExecutorAssumption DEF IInv, TypeOK
<1>2. Busyness'
  BY DEF IInv, TypeOK, Busyness
<1>3. Ending'
  BY DEF IInv, TypeOK, Ending
<1>4. SomeoneAwake'
  BY DEF IInv, TypeOK, SomeoneAwake
<1>. QED
  BY <1>1, <1>2, <1>3, <1>4, SamePlaces DEF IInv

\* Leave keeps the inductive invariant.
LEMMA LeaveKeeps ==
  ASSUME IInv, NEW w \in Workers, Leave(w)
  PROVE  IInv'
<1>. USE DEF Leave, Moved
<1>1. TypeOK'
  BY ExecutorAssumption DEF IInv, TypeOK
<1>2. Busyness'
  BY DEF IInv, TypeOK, Busyness
<1>3. Ending'
  BY DEF IInv, TypeOK, Ending
<1>4. SomeoneAwake'
  BY DEF IInv, TypeOK, SomeoneAwake
<1>. QED
  BY <1>1, <1>2, <1>3, <1>4, SamePlaces DEF IInv

\* Take keeps the inductive invariant.
LEMMA TakeKeeps ==
  ASSUME IInv, NEW w \in Workers, Take(w)
  PROVE  IInv'
<1>. USE DEF Take, Moved
<1>1. /\ queue # <<>>
      /\ queue \in Seq(Requests)
      /\ task[w] = None
  BY DEF IInv, TypeOK, Busyness, MayProceed
<1>2. /\ queue' \in Seq(Requests)
      /\ Len(queue') = Len(queue) - 1
      /\ \A i \in 1..Len(queue') : queue'[i] = queue[i + 1]
      /\ Head(queue) = queue[1] /\ Head(queue) \in Requests
      /\ Len(queue) \in Nat /\ Len(queue) >= 1
  BY <1>1
<1>3. /\ \A r : Queued(r)' => Queued(r) /\ r # Head(queue)
      /\ Queued(Head(queue))
  <2>1. \A r : Queued(r)' => Queued(r)
    BY <1>2 DEF Queued
  <2>2. \A r : Queued(r)' => r # Head(queue)
    <3>1. SUFFICES ASSUME NEW i \in 1..Len(queue'), queue'[i] = Head(queue)
                   PROVE  FALSE
      BY DEF Queued
    <3>2. queue[i + 1] = queue[1] /\ i + 1 \in 1..Len(queue) /\ 1 \in 1..Len(queue)
      BY <1>2, <3>1
    <3>3. i + 1 = 1
      BY <3>2 DEF IInv, OnePlace
    <3>. QED
      BY <3>3, <1>2
  <2>3. Queued(Head(queue))
    BY <1>2 DEF Queued
  <2>. QED
    BY <2>1, <2>2, <2>3
<1>4. TypeOK'
  <2>1. Len(queue') <= Capacity
    BY <1>2, ExecutorAssumption DEF IInv, TypeOK
  <2>. QED
    BY <2>1, <1>2, ExecutorAssumption DEF IInv, TypeOK
<1>5. OnePlace'
  <2>1. \A i, j \in 1..Len(queue') : queue'[i] = queue'[j] => i = j
    <3>1. SUFFICES ASSUME NEW i \in 1..Len(queue'), NEW j \in 1..Len(queue'),
                          queue'[i] = queue'[j]
                   PROVE  i = j
      OBVIOUS
    <3>2. i + 1 \in 1..Len(queue) /\ j + 1 \in 1..Len(queue)
           /\ queue[i + 1] = queue[j + 1]
      BY <3>1, <1>2
    <3>3. i + 1 = j + 1
      BY <3>2 DEF IInv, OnePlace
    <3>. QED
      BY <3>3, <1>2
  <2>2. \A v \in Workers : v # w => task'[v] = task[v] /\ task[v] # Head(queue)
    BY <1>2, <1>3, ExecutorAssumption DEF IInv, TypeOK, OnePlace
  <2>3. task'[w] = Head(queue)
    BY DEF IInv, TypeOK
  <2>. QED
    BY <2>1, <2>2, <2>3, <1>3 DEF IInv, OnePlace
<1>6. Pending'
  <2>1. \A v \in Workers : task'[v] = IF v = w THEN Head(queue) ELSE task[v]
    BY DEF IInv, TypeOK
  <2>. QED
    BY <2>1, <1>2, <1>3 DEF IInv, Pending
<1>7. Unanswered'
  BY DEF IInv, Unanswered
<1>8. Busyness'
  BY <1>2, ExecutorAssumption DEF IInv, TypeOK, Busyness
<1>9. Ending'
  BY <1>1 DEF IInv, TypeOK, Ending
<1>10. SomeoneAwake'
  BY DEF IInv, TypeOK, SomeoneAwake
<1>. QED
  BY <1>4, <1>5, <1>6, <1>7, <1>8, <1>9, <1>10 DEF IInv

\* Work keeps the inductive invariant.
LEMMA WorkKeeps ==
  ASSUME IInv, NEW w \in Workers, Work(w)
  PROVE  IInv'
<1>. USE DEF Work, Moved
<1>1. PICK a \in Promise!WorkAnswers : response' = [response EXCEPT ![w] = a]
  BY DEF Promise!WorkAnswers
<1>2. None \notin Promise!WorkAnswers
  BY ExecutorAssumption
<1>3. TypeOK'
  BY <1>1, ExecutorAssumption DEF IInv, TypeOK
<1>4. Busyness'
  BY <1>1, <1>2 DEF IInv, TypeOK, Busyness
<1>5. Ending'
  BY DEF IInv, TypeOK, Ending
<1>6. SomeoneAwake'
  BY DEF IInv, TypeOK, SomeoneAwake
<1>. QED
  BY <1>3, <1>4, <1>5, <1>6, SamePlaces DEF IInv

\* A sequence of answers stays one when an answer is appended.
LEMMA OneMoreAnswer ==
  ASSUME TypeOK, NEW r \in Requests, NEW a \in Promise!Answers,
         answers[r] = <<>>, answers' = [answers EXCEPT ![r] = Append(@, a)]
  PROVE  /\ answers' \in [Requests -> Seq(Promise!Answers)]
         /\ answers'[r] = <<a>>
         /\ Len(answers'[r]) = 1
         /\ \A q \in Requests : q # r => answers'[q] = answers[q]
<1>1. Append(answers[r], a) = <<a>> /\ <<a>> \in Seq(Promise!Answers)
  OBVIOUS
<1>. QED
  BY <1>1 DEF TypeOK

\* Reply keeps the inductive invariant.
LEMMA ReplyKeeps ==
  ASSUME IInv, NEW w \in Workers, Reply(w)
  PROVE  IInv'
<1>. USE DEF Reply, Moved
<1>1. PICK r \in Requests : r = task[w]
  BY ExecutorAssumption DEF IInv, TypeOK, Busyness
<1>2. response[w] \in Promise!Answers
  BY DEF IInv, TypeOK, Busyness, Promise!Answers
<1>3. /\ answers[r] = <<>>
      /\ call[r] = "accepted"
      /\ ~Queued(r)
      /\ task[w] # None
  BY <1>1, ExecutorAssumption DEF IInv, Pending, OnePlace
<1>4. /\ answers' \in [Requests -> Seq(Promise!Answers)]
      /\ Len(answers'[r]) = 1
      /\ \A q \in Requests : q # r => answers'[q] = answers[q]
  BY <1>1, <1>2, <1>3, OneMoreAnswer DEF IInv
<1>5. \A v \in Workers : task'[v] = IF v = w THEN None ELSE task[v]
  BY DEF IInv, TypeOK
<1>6. TypeOK'
  BY <1>4, ExecutorAssumption DEF IInv, TypeOK
<1>7. OnePlace'
  BY <1>5 DEF IInv, OnePlace, Queued
<1>8. Pending'
  <2>1. \A q : Queued(q)' <=> Queued(q)
    BY DEF Queued
  <2>2. \A v \in Workers : v # w /\ task[v] # None => task[v] \in Requests /\ task[v] # r
    BY <1>1, <1>3 DEF IInv, TypeOK, OnePlace
  <2>. QED
    BY <2>1, <2>2, <1>3, <1>4, <1>5 DEF IInv, Pending
<1>9. Unanswered'
  BY <1>3, <1>4 DEF IInv, Unanswered
<1>10. Busyness'
  BY DEF IInv, TypeOK, Busyness
<1>11. Ending'
  BY DEF IInv, TypeOK, Ending
<1>12. SomeoneAwake'
  BY DEF IInv, TypeOK, SomeoneAwake
<1>. QED
  BY <1>6, <1>7, <1>8, <1>9, <1>10, <1>11, <1>12 DEF IInv

\* Enter keeps the inductive invariant.
LEMMA EnterKeeps ==
  ASSUME IInv, NEW r \in Requests, Enter(r)
  PROVE  IInv'
<1>. USE DEF Enter, work
<1>1. TypeOK'
  BY ExecutorAssumption DEF IInv, TypeOK
<1>2. OnePlace'
  BY DEF IInv, OnePlace, Queued
<1>3. Pending'
  BY DEF IInv, TypeOK, Pending, Queued
<1>4. Unanswered'
  BY DEF IInv, TypeOK, Unanswered
<1>5. Busyness' /\ Ending' /\ SomeoneAwake'
  BY DEF IInv, Busyness, Ending, SomeoneAwake
<1>. QED
  BY <1>1, <1>2, <1>3, <1>4, <1>5 DEF IInv

\* What notify_one may do to the workers.
LEMMA WokenOne ==
  ASSUME TypeOK, WakeOne
  PROVE  /\ pc' \in [Workers -> {"lock", "test", "block", "asleep", "work", "reply", "gone"}]
         /\ \A w \in Workers : pc'[w] = pc[w] \/ (pc[w] = "asleep" /\ pc'[w] = "lock")
         /\ (\E w \in Workers : pc[w] = "asleep") => \E w \in Workers : pc'[w] = "lock"
  BY DEF TypeOK, WakeOne, Asleep, Moved

\* Push keeps the inductive invariant.
LEMMA PushKeeps ==
  ASSUME IInv, NEW r \in Requests, Push(r)
  PROVE  IInv'
<1>. USE DEF Push, Turned
<1>1. /\ queue \in Seq(Requests)
      /\ queue' = Append(queue, r)
      /\ queue' \in Seq(Requests)
      /\ Len(queue') = Len(queue) + 1
      /\ Len(queue) \in Nat
      /\ \A i \in 1..Len(queue) : queue'[i] = queue[i]
      /\ queue'[Len(queue) + 1] = r
  BY DEF IInv, TypeOK
<1>2. WakeOne /\ TypeOK
  BY DEF IInv
<1>3. ~Queued(r) /\ answers[r] = <<>> /\ call[r] = "inside" /\ ~stopping
  BY DEF IInv, Pending, Unanswered
<1>4. \A w \in Workers : task[w] # r
  BY <1>3, ExecutorAssumption DEF IInv, TypeOK, Pending
<1>5. \A q : Queued(q)' <=> Queued(q) \/ q = r
  BY <1>1 DEF Queued
<1>6. TypeOK'
  <2>1. Len(queue') <= Capacity
    BY <1>1, ExecutorAssumption DEF IInv, TypeOK
  <2>2. \A w \in Workers : pc'[w] \in {"test", "block"} <=> pc[w] \in {"test", "block"}
    BY <1>2, WokenOne
  <2>3. \A w \in Workers : pc'[w] \notin {"test", "block"} /\ mutex' # w
    BY <2>2, <1>3, ExecutorAssumption DEF IInv, TypeOK
  <2>4. \A q \in Requests : call'[q] # "inside" /\ mutex' # q
    BY <1>3, ExecutorAssumption DEF IInv, TypeOK
  <2>5. owner' # "locked" /\ mutex' # "main"
    BY <1>3, ExecutorAssumption DEF IInv, TypeOK
  <2>6. pc' \in [Workers -> {"lock", "test", "block", "asleep", "work", "reply", "gone"}]
    BY <1>2, WokenOne
  <2>. QED
    BY <2>1, <2>3, <2>4, <2>5, <2>6, <1>1 DEF IInv, TypeOK
<1>7. OnePlace'
  <2>1. \A i, j \in 1..Len(queue') : queue'[i] = queue'[j] => i = j
    BY <1>1, <1>3 DEF IInv, OnePlace, Queued
  <2>. QED
    BY <2>1, <1>4, <1>5 DEF IInv, OnePlace
<1>8. Pending'
  BY <1>3, <1>4, <1>5 DEF IInv, TypeOK, Pending
<1>9. Unanswered'
  BY DEF IInv, TypeOK, Unanswered
<1>10. Busyness'
  BY <1>2, WokenOne DEF IInv, Busyness
<1>11. Ending'
  BY <1>2, <1>3, WokenOne, ExecutorAssumption DEF IInv, TypeOK, Ending
<1>12. SomeoneAwake'
  BY <1>2, <1>3, WokenOne, ExecutorAssumption DEF IInv, TypeOK, Ending, SomeoneAwake
<1>. QED
  BY <1>6, <1>7, <1>8, <1>9, <1>10, <1>11, <1>12 DEF IInv

\* TurnAway keeps the inductive invariant.
LEMMA TurnAwayKeeps ==
  ASSUME IInv, NEW r \in Requests, TurnAway(r)
  PROVE  IInv'
<1>. USE DEF TurnAway, work
<1>1. TypeOK'
  BY ExecutorAssumption DEF IInv, TypeOK
<1>2. OnePlace'
  BY DEF IInv, OnePlace, Queued
<1>3. Pending'
  BY DEF IInv, TypeOK, Pending, Queued
<1>4. Unanswered'
  BY DEF IInv, TypeOK, Unanswered
<1>5. Busyness' /\ Ending' /\ SomeoneAwake'
  BY DEF IInv, Busyness, Ending, SomeoneAwake
<1>. QED
  BY <1>1, <1>2, <1>3, <1>4, <1>5 DEF IInv

\* Busy keeps the inductive invariant.
LEMMA BusyKeeps ==
  ASSUME IInv, NEW r \in Requests, Busy(r)
  PROVE  IInv'
<1>. USE DEF Busy, work
<1>1. answers[r] = <<>> /\ "BUSY" \in Promise!Answers
  BY DEF IInv, Unanswered, Promise!Answers
<1>2. /\ answers' \in [Requests -> Seq(Promise!Answers)]
      /\ Len(answers'[r]) = 1
      /\ \A q \in Requests : q # r => answers'[q] = answers[q]
  BY <1>1, OneMoreAnswer DEF IInv
<1>3. TypeOK'
  BY <1>2, ExecutorAssumption DEF IInv, TypeOK
<1>4. OnePlace'
  BY DEF IInv, OnePlace, Queued
<1>5. Pending'
  <2>1. ~Queued(r) /\ \A w \in Workers : task[w] # None => task[w] \in Requests \ {r}
    BY DEF IInv, TypeOK, Pending
  <2>2. \A q : Queued(q)' <=> Queued(q)
    BY DEF Queued
  <2>. QED
    BY <2>1, <2>2, <1>2 DEF IInv, TypeOK, Pending
<1>6. Unanswered'
  BY <1>2 DEF IInv, TypeOK, Unanswered
<1>7. Busyness' /\ Ending' /\ SomeoneAwake'
  BY DEF IInv, Busyness, Ending, SomeoneAwake
<1>. QED
  BY <1>3, <1>4, <1>5, <1>6, <1>7 DEF IInv

\* Owner keeps the inductive invariant.
LEMMA OwnerKeeps ==
  ASSUME IInv, OwnerStep
  PROVE  IInv'
<1>. USE DEF work
<1>1. CASE MainLock
  <2>1. TypeOK'
    BY <1>1, ExecutorAssumption DEF MainLock, IInv, TypeOK
  <2>2. Busyness' /\ Ending' /\ SomeoneAwake'
    BY <1>1 DEF MainLock, IInv, Busyness, Ending, SomeoneAwake
  <2>. QED
    BY <1>1, <2>1, <2>2, SamePlaces DEF MainLock, IInv
<1>2. CASE Stop
  <2>1. TypeOK'
    BY <1>2, ExecutorAssumption DEF Stop, IInv, TypeOK
  <2>2. \A w \in Workers : pc[w] # "block"
    BY <1>2, ExecutorAssumption DEF Stop, IInv, TypeOK
  <2>3. Busyness' /\ Ending' /\ SomeoneAwake'
    BY <1>2, <2>2 DEF Stop, IInv, Busyness, Ending, SomeoneAwake
  <2>. QED
    BY <1>2, <2>1, <2>3, SamePlaces DEF Stop, IInv
<1>3. CASE WakeAll
  <2>1. TypeOK'
    BY <1>3, ExecutorAssumption DEF WakeAll, IInv, TypeOK
  <2>2. Busyness' /\ Ending' /\ SomeoneAwake'
    BY <1>3 DEF WakeAll, IInv, TypeOK, Busyness, Ending, SomeoneAwake
  <2>. QED
    BY <1>3, <2>1, <2>2, SamePlaces DEF WakeAll, IInv
<1>4. CASE Join
  <2>1. TypeOK'
    BY <1>4, ExecutorAssumption DEF Join, IInv, TypeOK
  <2>2. Busyness' /\ Ending' /\ SomeoneAwake'
    BY <1>4 DEF Join, IInv, Busyness, Ending, SomeoneAwake
  <2>. QED
    BY <1>4, <2>1, <2>2, SamePlaces DEF Join, IInv
<1>. QED
  BY <1>1, <1>2, <1>3, <1>4 DEF OwnerStep

\* Every step keeps the inductive invariant.
LEMMA NextIInv == IInv /\ [Next]_vars => IInv'
<1>. SUFFICES ASSUME IInv, [Next]_vars PROVE IInv'
  OBVIOUS
<1>1. ASSUME NEW w \in Workers, WorkerStep(w) \/ WakeUnasked(w) PROVE IInv'
  BY <1>1, WorkerLockKeeps, MustWaitKeeps, FallAsleepKeeps, WakeUnaskedKeeps,
     LeaveKeeps, TakeKeeps, WorkKeeps, ReplyKeeps DEF WorkerStep
<1>2. ASSUME NEW r \in Requests, CallStep(r) PROVE IInv'
  BY <1>2, EnterKeeps, PushKeeps, TurnAwayKeeps, BusyKeeps DEF CallStep
<1>3. CASE OwnerStep
  BY <1>3, OwnerKeeps
<1>4. CASE UNCHANGED vars
  BY <1>4 DEF vars, IInv, TypeOK, OnePlace, Pending, Unanswered, Busyness,
              Ending, SomeoneAwake, Queued
<1>. QED
  BY <1>1, <1>2, <1>3, <1>4 DEF Next

\* The inductive invariant holds in every reachable state.
LEMMA Invariance == Spec => []IInv
  BY InitIInv, NextIInv, PTL DEF Spec
----------------------------------------------------------------------------
(* What follows from IInv.                                                 *)

\* For every pool and every set of requests: the variables have their types
\* and the mutex is held by the one thread between lock and unlock.
THEOREM TypeCorrect == Spec => []TypeOK
<1>1. IInv => TypeOK
  BY DEF IInv
<1>. QED
  BY <1>1, Invariance, PTL

\* For every pool: no request waits while all workers sleep, and no worker
\* sleeps when the destructor waits for it.
THEOREM NoWakeupIsLost == Spec => []NoLostWakeup
<1>1. IInv => NoLostWakeup
  BY DEF IInv, SomeoneAwake, Ending, NoLostWakeup
<1>. QED
  BY <1>1, Invariance, PTL

\* For every pool: at most one answer per request, and none while it is
\* queued or worked on.
THEOREM OneAnswerEach == Spec => []AnsweredOnce
<1>1. ASSUME IInv PROVE AnsweredOnce
  <2>1. ASSUME NEW r \in Requests, answers[r] # <<>>
        PROVE  /\ call[r] \in {"accepted", "done"}
               /\ \A i \in 1..Len(queue) : queue[i] # r
               /\ \A w \in Workers : task[w] # r
    BY <1>1, <2>1, ExecutorAssumption
       DEF IInv, TypeOK, Pending, Unanswered, Queued
  <2>. QED
    BY <1>1, <2>1 DEF IInv, Unanswered, AnsweredOnce
<1>. QED
  BY <1>1, Invariance, PTL
----------------------------------------------------------------------------
(* Executor implements Dispatch.                                           *)

Running == {task[w] : w \in {v \in Workers : task[v] # None}}
Refused == {r \in Requests : call[r] = "refused"}
Phase == IF owner = "joined" THEN "closed"
         ELSE IF stopping THEN "closing" ELSE "open"

\* A worker without a task leaves room for one more request to run.
LEMMA RoomToRun ==
  ASSUME IInv, NEW w \in Workers, task[w] = None
  PROVE  Cardinality(Running) < Cardinality(Workers)
<1>. DEFINE others == Workers \ {w}
            at == [r \in Running |-> CHOOSE v \in others : task[v] = r]
<1>1. \A r \in Running : \E v \in others : task[v] = r
  BY DEF Running
<1>2. at \in [Running -> others] /\ \A r \in Running : task[at[r]] = r
  BY <1>1
<1>3. at \in Injection(Running, others)
  BY <1>2 DEF Injection, IsInjective
<1>4. /\ IsFiniteSet(others)
      /\ Cardinality(others) = Cardinality(Workers) - 1
      /\ Cardinality(Workers) \in Nat
  BY ExecutorAssumption, FS_RemoveElement, FS_CardinalityType
<1>5. /\ IsFiniteSet(Running)
      /\ Cardinality(Running) <= Cardinality(others)
  BY ONLY <1>3, <1>4, FS_Injection
<1>6. Cardinality(Running) \in Nat
  BY <1>5, FS_CardinalityType
<1>. QED
  BY <1>4, <1>5, <1>6

\* Dispatch has an instance of FiniteSets of its own.
LEMMA SameCardinality == \A S : Promise!Cardinality(S) = Cardinality(S)
  BY Zenon DEF Promise!Cardinality, Cardinality

\* The initial state of the pool is that of the promise.
LEMMA InitPromise == Init => Promise!Init
  BY ExecutorAssumption DEF Init, Promise!Init

\* Locking, waiting, waking up and working are invisible in Dispatch.
LEMMA Invisible ==
  ASSUME UNCHANGED <<queue, task, answers, stopping>>,
         Refused' = Refused, (owner = "joined")' <=> owner = "joined"
  PROVE  UNCHANGED Promise!vars
  BY DEF Promise!vars, Refused

\* Take is Start of the promise.
LEMMA TakeStarts ==
  ASSUME IInv, NEW w \in Workers, Take(w)
  PROVE  Promise!Start
<1>1. task[w] = None /\ queue # <<>>
  BY DEF IInv, Busyness, Take, MayProceed
<1>2. Head(queue) # None
  BY <1>1, ExecutorAssumption DEF IInv, TypeOK
<1>3. Running' = Running \cup {Head(queue)}
  BY <1>1, <1>2 DEF Take, IInv, TypeOK, Running
<1>4. Cardinality(Running) < Cardinality(Workers)
  BY <1>1, RoomToRun
<1>5. UNCHANGED <<Refused, answers, Phase>>
  BY DEF Take, Refused, Phase
<1>. HIDE DEF Running, Refused, Phase
<1>6. /\ queue # <<>>
      /\ Promise!Cardinality(Running) < Promise!Cardinality(Workers)
      /\ Running' = Running \cup {Head(queue)}
      /\ queue' = Tail(queue)
      /\ Refused' = Refused /\ answers' = answers /\ Phase' = Phase
  BY <1>1, <1>3, <1>4, <1>5, SameCardinality DEF Take
<1>. QED
  BY <1>6, Zenon DEF Promise!Start, Running, Refused, Phase

\* Reply is Answer of the promise.
LEMMA ReplyAnswers ==
  ASSUME IInv, NEW w \in Workers, Reply(w)
  PROVE  \E r \in Requests : Promise!Answer(r)
<1>1. PICK r \in Requests : r = task[w] /\ r # None
  BY ExecutorAssumption DEF IInv, TypeOK, Busyness, Reply
<1>2. PICK o \in Promise!Outcomes : response[w] = Promise!AnswerTo(o)
  BY DEF IInv, TypeOK, Busyness, Reply, Promise!WorkAnswers
<1>3. r \in Running /\ Running' = Running \ {r}
  <2>1. \A v \in Workers : task'[v] = IF v = w THEN None ELSE task[v]
    BY DEF Reply, IInv, TypeOK
  <2>2. \A v \in Workers : v # w => task[v] # r
    BY <1>1 DEF IInv, OnePlace
  <2>. QED
    BY <1>1, <2>1, <2>2 DEF Running
<1>4. Promise!Answer(r)
  BY <1>1, <1>2, <1>3 DEF Promise!Answer, Reply, Running
<1>. QED
  BY <1>4

\* The request of a call that is inside submit is in none of the places.
LEMMA InsideIsNew ==
  ASSUME IInv, NEW r \in Requests, call[r] = "inside"
  PROVE  Promise!New(r)
<1>1. answers[r] = <<>> /\ r \notin Refused
  BY DEF IInv, Unanswered, Refused
<1>2. \A i \in 1..Len(queue) : queue[i] # r
  BY DEF IInv, Pending, Queued
<1>3. r \notin Running
  BY DEF IInv, Pending, Running
<1>. QED
  BY <1>1, <1>2, <1>3 DEF Promise!New, Promise!Waits, Running, Refused

\* Push is Accept of the promise.
LEMMA PushAccepts ==
  ASSUME IInv, NEW r \in Requests, Push(r)
  PROVE  Promise!Accept(r)
<1>1. Promise!New(r)
  BY InsideIsNew DEF Push
<1>2. Phase = "open" /\ Phase' = "open" /\ Len(queue) < Capacity
  BY ExecutorAssumption DEF IInv, TypeOK, Ending, Push, Turned, Phase
<1>3. Refused' = Refused
  BY DEF IInv, TypeOK, Push, Refused
<1>. QED
  BY <1>1, <1>2, <1>3 DEF Promise!Accept, Push, Phase, Refused

\* TurnAway is Refuse of the promise.
LEMMA TurnAwayRefuses ==
  ASSUME IInv, NEW r \in Requests, TurnAway(r)
  PROVE  Promise!Refuse(r)
<1>1. Promise!New(r)
  BY InsideIsNew DEF TurnAway
<1>2. Phase' = Phase /\ (Phase = "closing" \/ Len(queue) = Capacity)
  <2>1. owner # "joined"
    BY ExecutorAssumption DEF IInv, TypeOK, TurnAway, Ending
  <2>. QED
    BY <2>1, ExecutorAssumption DEF IInv, TypeOK, TurnAway, Turned, Phase
<1>3. Refused' = Refused \cup {r}
  BY DEF IInv, TypeOK, TurnAway, Refused
<1>. QED
  BY <1>1, <1>2, <1>3 DEF Promise!Refuse, TurnAway, Phase, Refused, work

\* Busy is TellBusy of the promise.
LEMMA BusyTells ==
  ASSUME IInv, NEW r \in Requests, Busy(r)
  PROVE  Promise!TellBusy(r)
<1>1. r \in Refused /\ Refused' = Refused \ {r}
  BY DEF IInv, TypeOK, Busy, Refused
<1>. QED
  BY <1>1 DEF Promise!TellBusy, Busy, Refused, work

\* Stop closes the promise.
LEMMA StopCloses ==
  ASSUME IInv, Stop
  PROVE  Promise!Close
<1>1. Phase = "open" /\ Phase' = "closing"
  BY DEF IInv, Ending, Stop, Phase
<1>. QED
  BY <1>1 DEF Promise!Close, Stop, Phase, work

\* Join ends the promise.
LEMMA JoinEnds ==
  ASSUME IInv, Join
  PROVE  Promise!End
<1>1. Phase = "closing" /\ Phase' = "closed"
  BY DEF IInv, Ending, Join, Phase
<1>2. queue = <<>>
  BY ExecutorAssumption DEF IInv, Ending, Join
<1>3. Running = {}
  BY DEF IInv, Busyness, Join, Running
<1>. QED
  BY <1>1, <1>2, <1>3 DEF Promise!End, Join, Phase, Running, work

\* Every step of the threads is a step of the promise, or changes nothing of it.
LEMMA StepPromise == IInv /\ [Next]_vars => [Promise!Next]_(Promise!vars)
<1>. SUFFICES ASSUME IInv, [Next]_vars
              PROVE  Promise!Next \/ UNCHANGED Promise!vars
  OBVIOUS
<1>1. ASSUME NEW w \in Workers, WorkerStep(w) \/ WakeUnasked(w)
      PROVE  Promise!Next \/ UNCHANGED Promise!vars
  <2>1. CASE Take(w)
    BY <2>1, TakeStarts DEF Promise!Next
  <2>2. CASE Reply(w)
    BY <2>2, ReplyAnswers DEF Promise!Next
  <2>3. CASE WorkerLock(w) \/ MustWait(w) \/ FallAsleep(w) \/ WakeUnasked(w)
             \/ Leave(w) \/ Work(w)
    <3>1. UNCHANGED <<queue, task, answers, stopping, call, owner>>
      BY <2>3 DEF WorkerLock, MustWait, FallAsleep, WakeUnasked, Leave, Work
    <3>2. Refused' = Refused
      BY <3>1 DEF Refused
    <3>. QED
      BY <3>1, <3>2, Invisible
  <2>. QED
    BY <1>1, <2>1, <2>2, <2>3 DEF WorkerStep
<1>2. ASSUME NEW r \in Requests, CallStep(r)
      PROVE  Promise!Next \/ UNCHANGED Promise!vars
  <2>1. CASE Enter(r)
    <3>1. Refused' = Refused
      BY <2>1 DEF Enter, IInv, TypeOK, Refused
    <3>. QED
      BY <2>1, <3>1, Invisible DEF Enter, work
  <2>. QED
    BY <1>2, <2>1, PushAccepts, TurnAwayRefuses, BusyTells
       DEF CallStep, Promise!Next
<1>3. ASSUME OwnerStep
      PROVE  Promise!Next \/ UNCHANGED Promise!vars
  <2>1. CASE MainLock \/ WakeAll
    <3>1. UNCHANGED <<queue, task, answers, stopping, call>>
      BY <2>1 DEF MainLock, WakeAll, work
    <3>2. Refused' = Refused /\ ((owner = "joined")' <=> owner = "joined")
      BY <2>1, <3>1 DEF MainLock, WakeAll, Refused
    <3>. QED
      BY <3>1, <3>2, Invisible
  <2>. QED
    BY <1>3, <2>1, StopCloses, JoinEnds DEF OwnerStep, Promise!Next
<1>4. CASE UNCHANGED vars
  BY <1>4 DEF vars, Promise!vars
<1>. QED
  BY <1>1, <1>2, <1>3, <1>4 DEF Next

\* For every pool: the threads, the mutex and the condition variable implement
\* the atomic queue of Dispatch, drained before its end.
THEOREM KeepsThePromise == Spec => DispatchSpec
<1>1. Init => Promise!Init
  BY InitPromise
<1>2. IInv /\ [Next]_vars => [Promise!Next]_(Promise!vars)
  BY StepPromise
<1>. QED
  BY <1>1, <1>2, Invariance, PTL DEF Spec, DispatchSpec, Promise!Spec
=============================================================================
