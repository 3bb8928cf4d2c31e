------------------------------ MODULE Executor ------------------------------
(***************************************************************************)
(* The worker pool of the API (platform/Executor.hpp) under the request    *)
(* handlers that dispatch to it (platform/Endpoint.hpp): one mutex, one    *)
(* condition variable, a bounded queue, and a destructor that drains it.   *)
(* The condition variable is modelled by the set of threads asleep on it;  *)
(* they may also wake up on their own.                                     *)
(***************************************************************************)
EXTENDS Naturals, Sequences, FiniteSets

CONSTANTS
    Requests,
    Workers,    \* 4 threads in the source
    Capacity,   \* 64 in the source
    None

VARIABLES
    mutex,      \* the thread that holds mutex_, or None
    queue,      \* queue_
    stopping,   \* stopping_
    pc,         \* where each worker is
    task,       \* the request a worker took from the queue, or None
    response,   \* what it is about to answer, or None
    call,       \* where the dispatch of each request is
    owner,      \* where the destructor is
    answers     \* what the callback of each request was called with

vars == <<mutex, queue, stopping, pc, task, response, call, owner, answers>>
work == <<pc, task, response>>

Promise == INSTANCE Dispatch WITH
    waiting <- queue,
    running <- {task[w] : w \in {v \in Workers : task[v] # None}},
    refused <- {r \in Requests : call[r] = "refused"},
    phase   <- IF owner = "joined" THEN "closed"
               ELSE IF stopping THEN "closing" ELSE "open"

ASSUME ExecutorAssumption ==
    /\ IsFiniteSet(Workers)
    /\ Workers # {}
    /\ Capacity \in Nat \ {0}
    /\ Workers \cap Requests = {}
    /\ {None, "main"} \cap (Workers \cup Requests) = {}
    /\ None \notin Promise!WorkAnswers \cup {"main"}

Init ==
    /\ mutex = None
    /\ queue = <<>>
    /\ stopping = FALSE
    /\ pc = [w \in Workers |-> "lock"]
    /\ task = [w \in Workers |-> None]
    /\ response = [w \in Workers |-> None]
    /\ call = [r \in Requests |-> "new"]
    /\ owner = "serving"
    /\ answers = [r \in Requests |-> <<>>]

Asleep == {w \in Workers : pc[w] = "asleep"}
Moved(w, label) == pc' = [pc EXCEPT ![w] = label]
----------------------------------------------------------------------------
(* A worker thread.                                                        *)

WorkerLock(w) ==
    /\ pc[w] = "lock"
    /\ mutex = None
    /\ mutex' = w
    /\ Moved(w, "test")
    /\ UNCHANGED <<queue, stopping, task, response, call, owner, answers>>

\* The predicate of available_.wait.
MayProceed == stopping \/ queue # <<>>

\* The predicate is false: the thread is about to wait, the mutex still held.
MustWait(w) ==
    /\ pc[w] = "test"
    /\ ~MayProceed
    /\ Moved(w, "block")
    /\ UNCHANGED <<mutex, queue, stopping, task, response, call, owner, answers>>

\* It is on the list of the condition variable before the mutex is free.
FallAsleep(w) ==
    /\ pc[w] = "block"
    /\ mutex' = None
    /\ Moved(w, "asleep")
    /\ UNCHANGED <<queue, stopping, task, response, call, owner, answers>>

WakeUnasked(w) ==
    /\ pc[w] = "asleep"
    /\ Moved(w, "lock")
    /\ UNCHANGED <<mutex, queue, stopping, task, response, call, owner, answers>>

LeaveAtOnce(w) ==
    /\ pc[w] = "test"
    /\ MayProceed
    /\ stopping
    /\ mutex' = None
    /\ Moved(w, "gone")
    /\ UNCHANGED <<queue, stopping, task, response, call, owner, answers>>

Leave(w) ==
    /\ pc[w] = "test"
    /\ MayProceed
    /\ queue = <<>> /\ stopping
    /\ mutex' = None
    /\ Moved(w, "gone")
    /\ UNCHANGED <<queue, stopping, task, response, call, owner, answers>>

Take(w) ==
    /\ pc[w] = "test"
    /\ MayProceed
    /\ ~(queue = <<>> /\ stopping)
    /\ task' = [task EXCEPT ![w] = Head(queue)]
    /\ queue' = Tail(queue)
    /\ mutex' = None
    /\ Moved(w, "work")
    /\ UNCHANGED <<stopping, response, call, owner, answers>>

WorkOrThrow(w) ==
    /\ pc[w] = "work"
    /\ \E o \in Promise!Outcomes :
         IF o = "exception"
           THEN /\ Moved(w, "lock")
                /\ task' = [task EXCEPT ![w] = None]
                /\ UNCHANGED response
           ELSE /\ response' = [response EXCEPT ![w] = Promise!AnswerTo(o)]
                /\ Moved(w, "reply")
                /\ UNCHANGED task
    /\ UNCHANGED <<mutex, queue, stopping, call, owner, answers>>

\* The handler's work ends, in one of the ways dispatch tells apart.
Work(w) ==
    /\ pc[w] = "work"
    /\ \E o \in Promise!Outcomes :
           response' = [response EXCEPT ![w] = Promise!AnswerTo(o)]
    /\ Moved(w, "reply")
    /\ UNCHANGED <<mutex, queue, stopping, task, call, owner, answers>>

Reply(w) ==
    /\ pc[w] = "reply"
    /\ answers' = [answers EXCEPT ![task[w]] = Append(@, response[w])]
    /\ task' = [task EXCEPT ![w] = None]
    /\ response' = [response EXCEPT ![w] = None]
    /\ Moved(w, "lock")
    /\ UNCHANGED <<mutex, queue, stopping, call, owner>>
----------------------------------------------------------------------------
(* dispatch, on the thread of the request's connection.                    *)

Enter(r) ==
    /\ call[r] = "new"
    /\ owner # "joined"
    /\ mutex = None
    /\ mutex' = r
    /\ call' = [call EXCEPT ![r] = "inside"]
    /\ UNCHANGED <<queue, stopping, work, owner, answers>>

WakeNone == UNCHANGED pc

\* notify_one
WakeOne ==
    IF Asleep = {} THEN UNCHANGED pc
    ELSE \E w \in Asleep : Moved(w, "lock")

AlmostFull == stopping \/ Len(queue) > Capacity

Turned == stopping \/ Len(queue) >= Capacity

Push(r) ==
    /\ call[r] = "inside"
    /\ ~Turned
    /\ queue' = Append(queue, r)
    /\ WakeOne
    /\ mutex' = None
    /\ call' = [call EXCEPT ![r] = "accepted"]
    /\ UNCHANGED <<stopping, task, response, owner, answers>>

TurnAway(r) ==
    /\ call[r] = "inside"
    /\ Turned
    /\ mutex' = None
    /\ call' = [call EXCEPT ![r] = "refused"]
    /\ UNCHANGED <<queue, stopping, work, owner, answers>>

BusyAndRetry(r) ==
    /\ call[r] = "refused"
    /\ call' = [call EXCEPT ![r] = "new"]
    /\ answers' = [answers EXCEPT ![r] = Append(@, "BUSY")]
    /\ UNCHANGED <<mutex, queue, stopping, work, owner>>

Busy(r) ==
    /\ call[r] = "refused"
    /\ call' = [call EXCEPT ![r] = "done"]
    /\ answers' = [answers EXCEPT ![r] = Append(@, "BUSY")]
    /\ UNCHANGED <<mutex, queue, stopping, work, owner>>
----------------------------------------------------------------------------
(* The destructor, on the main thread once the server has stopped.         *)

MainLock ==
    /\ owner = "serving"
    /\ mutex = None
    /\ mutex' = "main"
    /\ owner' = "locked"
    /\ UNCHANGED <<queue, stopping, work, call, answers>>

Stop ==
    /\ owner = "locked"
    /\ stopping' = TRUE
    /\ mutex' = None
    /\ owner' = "stopped"
    /\ UNCHANGED <<queue, work, call, answers>>

WakeSome ==
    /\ owner = "stopped"
    /\ WakeOne
    /\ owner' = "joining"
    /\ UNCHANGED <<mutex, queue, stopping, task, response, call, answers>>

\* notify_all
WakeAll ==
    /\ owner = "stopped"
    /\ pc' = [w \in Workers |-> IF pc[w] = "asleep" THEN "lock" ELSE pc[w]]
    /\ owner' = "joining"
    /\ UNCHANGED <<mutex, queue, stopping, task, response, call, answers>>

\* The pool outlives the calls that are inside it.
Join ==
    /\ owner = "joining"
    /\ \A w \in Workers : pc[w] = "gone"
    /\ \A r \in Requests : call[r] # "inside"
    /\ owner' = "joined"
    /\ UNCHANGED <<mutex, queue, stopping, work, call, answers>>
----------------------------------------------------------------------------
WorkerStep(w) ==
    \/ WorkerLock(w)
    \/ MustWait(w)
    \/ FallAsleep(w)
    \/ Leave(w)
    \/ Take(w)
    \/ Work(w)
    \/ Reply(w)

CallStep(r) == Enter(r) \/ Push(r) \/ TurnAway(r) \/ Busy(r)

OwnerStep == MainLock \/ Stop \/ WakeAll \/ Join

Next ==
    \/ \E w \in Workers : WorkerStep(w) \/ WakeUnasked(w)
    \/ \E r \in Requests : CallStep(r)
    \/ OwnerStep

Spec == Init /\ [][Next]_vars

\* Every thread runs on, and one that waits for a mutex released again and
\* again gets it.  The work of a handler ends: its database, Redis and S3
\* calls have timeouts.  Nothing makes a sleeping thread wake up, a request
\* arrive or the server stop.
Fairness ==
    /\ \A w \in Workers : /\ WF_vars(WorkerStep(w))
                          /\ SF_vars(WorkerLock(w))
    /\ \A r \in Requests : WF_vars(Push(r) \/ TurnAway(r) \/ Busy(r))
    /\ WF_vars(Stop \/ WakeAll \/ Join)

FairSpec == Spec /\ Fairness
----------------------------------------------------------------------------
(* Properties.                                                             *)

\* Each variable has its type, and the thread that is between lock and
\* unlock is the one that holds the mutex, so no two are.
TypeOK ==
    /\ mutex \in Workers \cup Requests \cup {"main", None}
    /\ queue \in Seq(Requests)
    /\ Len(queue) <= Capacity
    /\ stopping \in BOOLEAN
    /\ pc \in [Workers -> {"lock", "test", "block", "asleep", "work", "reply", "gone"}]
    /\ task \in [Workers -> Requests \cup {None}]
    /\ response \in [Workers -> Promise!WorkAnswers \cup {None}]
    /\ call \in [Requests -> {"new", "inside", "accepted", "refused", "done"}]
    /\ owner \in {"serving", "locked", "stopped", "joining", "joined"}
    /\ answers \in [Requests -> Seq(Promise!Answers)]
    /\ \A w \in Workers : pc[w] \in {"test", "block"} <=> mutex = w
    /\ \A r \in Requests : call[r] = "inside" <=> mutex = r
    /\ owner = "locked" <=> mutex = "main"

\* No wakeup is lost: while a request waits, some worker is awake to take it,
\* and once the destructor has notified, no worker is left asleep for join to
\* wait on.  notify_one wakes a single thread and is called once per request;
\* notify_all is called after the mutex is released.
NoLostWakeup ==
    /\ queue # <<>> => \E w \in Workers : pc[w] \notin {"asleep", "gone"}
    /\ owner = "joining" => \A w \in Workers : pc[w] \notin {"block", "asleep"}

\* The callback of a request is called at most once, whichever way its work
\* ended, and not while the request is still queued or worked on: a second
\* answer on one connection would be read as that of the next request.
AnsweredOnce ==
    \A r \in Requests :
        /\ Len(answers[r]) <= 1
        /\ answers[r] # <<>> =>
              /\ call[r] \in {"accepted", "done"}
              /\ \A i \in 1..Len(queue) : queue[i] # r
              /\ \A w \in Workers : task[w] # r

\* The pool keeps the promise of Dispatch: requests start in the order they
\* were taken in, one is turned away only when the queue is full or the pool
\* stops, and the pool ends with no request unanswered.
DispatchSpec == Promise!Spec

\* A request that is submitted is answered, also when the pool is stopped
\* while it waits in the queue.
EveryRequestAnswered ==
    \A r \in Requests : call[r] = "inside" ~> answers[r] # <<>>

\* The destructor returns: every worker sees stopping_ and leaves.
StopEnds == owner = "locked" ~> owner = "joined"
=============================================================================
