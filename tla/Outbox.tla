------------------------------- MODULE Outbox -------------------------------
(***************************************************************************)
(* The outbox table and the worker processes that poll it                  *)
(* (services/worker).  A poll is one SQL statement; the server runs it on  *)
(* a connection of the worker in three steps: it takes a snapshot and      *)
(* now(), it locks a batch of due rows, it updates them and commits.  The  *)
(* worker waits for the answer for Timeout at most, and goes on while the  *)
(* server may still run the statement.                                     *)
(*                                                                         *)
(* Time is relative: a row's due is available_at minus the current time,   *)
(* a statement's age is the current time minus its now().  Nothing the     *)
(* code does depends on how long ago a time before -MaxAge was.            *)
(***************************************************************************)
EXTENDS Integers, FiniteSets

CONSTANTS
    Events, Workers,
    Connections,    \* of all workers, as the server knows them
    Owner,          \* the worker each connection belongs to
    Batch,          \* 20 rows
    MaxAttempts,    \* 5
    Delay,          \* 60 seconds
    BeatLimit,      \* age at which the health check gives a worker up, 60 s
    Timeout,        \* of a query, 3 seconds
    MaxAge,         \* bound on the duration of a statement
    MaxFaults,      \* bound on the signals, kills and lost connections
    Absent

Rows == [attempts : 0..MaxAttempts, due : -MaxAge..Delay, parked : BOOLEAN]

ASSUME OutboxAssumption ==
    /\ Owner \in [Connections -> Workers]
    /\ Batch \in Nat \ {0}
    /\ MaxAttempts \in Nat \ {0}
    /\ Delay \in Nat \ {0}
    /\ BeatLimit \in Nat \ {0}
    /\ Timeout \in Nat \ {0}
    /\ MaxAge \in Nat /\ MaxAge >= Timeout
    /\ MaxFaults \in Nat
    /\ Absent \notin Connections
    /\ Absent \notin Rows

VARIABLES
    row,        \* outbox_events, parked when dead_lettered_at is set
    state,      \* of each connection: "idle", "begun", "claimed", "committed"
    age,        \* of its statement
    seen,       \* the due rows of its snapshot
    batch,      \* the rows it has locked
    pc,         \* where each worker's loop is
    asked,      \* the connection whose answer it waits for, or Absent
    stopping,   \* its signal flag
    beat,       \* age of its heartbeat file
    polled,     \* age of the last statement committed for it
    faults

connection == <<state, age, seen, batch>>
worker == <<pc, asked, stopping, beat>>
vars == <<row, connection, worker, polled, faults>>

Forgotten == BeatLimit + Timeout + 1

Init ==
    /\ row = [e \in Events |-> Absent]
    /\ state = [c \in Connections |-> "idle"]
    /\ age = [c \in Connections |-> 0]
    /\ seen = [c \in Connections |-> {}]
    /\ batch = [c \in Connections |-> {}]
    /\ pc = [w \in Workers |-> "pause"]
    /\ asked = [w \in Workers |-> Absent]
    /\ stopping = [w \in Workers |-> FALSE]
    /\ beat = [w \in Workers |-> BeatLimit]
    /\ polled = [w \in Workers |-> Forgotten]
    /\ faults = 0

\* The business transactions that write events.
Insert(e) ==
    /\ row[e] = Absent
    /\ row' = [row EXCEPT ![e] = [attempts |-> 0, due |-> 0, parked |-> FALSE]]
    /\ UNCHANGED <<connection, worker, polled, faults>>
----------------------------------------------------------------------------
(* The statement.                                                          *)

\* The WHERE of the batch, for a statement that began a ticks ago.
Pending(e, a) ==
    /\ row[e] # Absent
    /\ ~row[e].parked
    /\ row[e].due <= -a

NotLocked(e) == FALSE

Locked(e) == \E c \in Connections : e \in batch[c]

\* What is left of the snapshot: SKIP LOCKED passes over the rows of others,
\* and a row that changed since is tested again.
Claimable(c) == {e \in seen[c] : ~Locked(e) /\ Pending(e, age[c])}

\* ORDER BY available_at ... LIMIT Batch FOR UPDATE SKIP LOCKED
Claim(c) ==
    /\ state[c] = "begun"
    /\ \E taken \in SUBSET Claimable(c) :
         /\ Cardinality(taken) <= Batch
         /\ taken = Claimable(c) \/ Cardinality(taken) = Batch
         /\ \A e \in taken, f \in Claimable(c) \ taken : row[e].due <= row[f].due
         /\ batch' = [batch EXCEPT ![c] = taken]
    /\ seen' = [seen EXCEPT ![c] = {}]
    /\ state' = [state EXCEPT ![c] = "claimed"]
    /\ UNCHANGED <<row, age, worker, polled, faults>>

PastLastAttempt(n) == n > MaxAttempts

BeforeLastAttempt(n) == n + 1 >= MaxAttempts

LastAttempt(n) == n >= MaxAttempts

TriedAfresh(r, a) ==
    [attempts |-> 1,
     due |-> Delay - a,
     parked |-> LastAttempt(1)]

\* The SET of the UPDATE.
Tried(r, a) ==
    [attempts |-> r.attempts + 1,
     due |-> Delay - a,
     parked |-> LastAttempt(r.attempts + 1)]

Commit(c) ==
    /\ state[c] = "claimed"
    /\ row' = [e \in Events |-> IF e \in batch[c] THEN Tried(row[e], age[c])
                                                  ELSE row[e]]
    /\ batch' = [batch EXCEPT ![c] = {}]
    /\ state' = [state EXCEPT ![c] = IF asked[Owner[c]] = c THEN "committed" ELSE "idle"]
    /\ age' = [age EXCEPT ![c] = IF asked[Owner[c]] = c THEN @ ELSE 0]
    /\ polled' = [polled EXCEPT ![Owner[c]] = 0]
    /\ UNCHANGED <<seen, worker, faults>>

\* The row locks go without the update.
Closed(c) ==
    /\ state' = [state EXCEPT ![c] = "idle"]
    /\ age' = [age EXCEPT ![c] = 0]
    /\ seen' = [seen EXCEPT ![c] = {}]
    /\ batch' = [batch EXCEPT ![c] = {}]
----------------------------------------------------------------------------
(* A worker process.                                                       *)

Goto(w, label) == pc' = [pc EXCEPT ![w] = label]

\* parkUnhandledBatch is sent on a free connection.
Poll(w) ==
    /\ pc[w] = "poll"
    /\ \E c \in Connections :
         /\ Owner[c] = w
         /\ state[c] = "idle"
         /\ state' = [state EXCEPT ![c] = "begun"]
         /\ seen' = [seen EXCEPT ![c] = {e \in Events : Pending(e, 0)}]
         /\ asked' = [asked EXCEPT ![w] = c]
    /\ Goto(w, "wait")
    /\ UNCHANGED <<row, age, batch, stopping, beat, polled, faults>>

\* The answer arrives; only now is the heartbeat written.
Succeed(w) ==
    /\ pc[w] = "wait"
    /\ state[asked[w]] = "committed"
    /\ Closed(asked[w])
    /\ asked' = [asked EXCEPT ![w] = Absent]
    /\ beat' = [beat EXCEPT ![w] = 0]
    /\ Goto(w, "pause")
    /\ UNCHANGED <<row, stopping, polled, faults>>

\* The wait is over, or the loop wants to poll and has no connection left.
OutOfTime(w) ==
    \/ pc[w] = "wait" /\ age[asked[w]] = Timeout
    \/ pc[w] = "poll" /\ \A c \in Connections : Owner[c] = w => state[c] # "idle"

\* An answer that comes now is dropped.
Forget(w) ==
    /\ IF pc[w] = "wait" /\ state[asked[w]] = "committed"
         THEN Closed(asked[w]) ELSE UNCHANGED connection
    /\ asked' = [asked EXCEPT ![w] = Absent]

TimeOutAndBeat(w) ==
    /\ OutOfTime(w)
    /\ Forget(w)
    /\ Goto(w, "pause")
    /\ beat' = [beat EXCEPT ![w] = 0]
    /\ UNCHANGED <<row, stopping, polled, faults>>

\* poll_failed: the statement that was sent goes on, and a commit it has made
\* stands.
TimeOut(w) ==
    /\ OutOfTime(w)
    /\ Forget(w)
    /\ Goto(w, "pause")
    /\ UNCHANGED <<row, stopping, beat, polled, faults>>

\* Two seconds of sleep, cut short by a signal, then the test of the loop.
Wake(w) ==
    /\ pc[w] = "pause"
    /\ Goto(w, IF stopping[w] THEN "exited" ELSE "poll")
    /\ UNCHANGED <<row, connection, asked, stopping, beat, polled, faults>>

Signal(w) ==
    /\ pc[w] # "exited"
    /\ ~stopping[w]
    /\ faults < MaxFaults
    /\ faults' = faults + 1
    /\ stopping' = [stopping EXCEPT ![w] = TRUE]
    /\ UNCHANGED <<row, connection, pc, asked, beat, polled>>

\* The process is killed; its statements may still be running.
Kill(w) ==
    /\ pc[w] # "exited"
    /\ faults < MaxFaults
    /\ faults' = faults + 1
    /\ Forget(w)
    /\ Goto(w, "exited")
    /\ UNCHANGED <<row, stopping, beat, polled>>

\* The container is started again, its heartbeat file gone.
Restart(w) ==
    /\ pc[w] = "exited"
    /\ Goto(w, "pause")
    /\ stopping' = [stopping EXCEPT ![w] = FALSE]
    /\ beat' = [beat EXCEPT ![w] = BeatLimit]
    /\ UNCHANGED <<row, connection, asked, polled, faults>>

\* The connection is lost, and with it a statement that has not committed or
\* the answer of one that has.
Break(c) ==
    /\ state[c] # "idle"
    /\ faults < MaxFaults
    /\ faults' = faults + 1
    /\ Closed(c)
    /\ IF asked[Owner[c]] = c
         THEN /\ asked' = [asked EXCEPT ![Owner[c]] = Absent]
              /\ Goto(Owner[c], "pause")
         ELSE UNCHANGED <<asked, pc>>
    /\ UNCHANGED <<row, stopping, beat, polled>>
----------------------------------------------------------------------------
Later(n, limit) == IF n < limit THEN n + 1 ELSE n

\* Time passes: no statement lasts longer than MaxAge, and no worker waits
\* for one longer than Timeout.
Tick ==
    /\ \A c \in Connections : state[c] # "idle" => age[c] < MaxAge
    /\ \A w \in Workers : pc[w] = "wait" => age[asked[w]] < Timeout
    /\ row' = [e \in Events |->
                 IF row[e] = Absent \/ row[e].due = -MaxAge THEN row[e]
                 ELSE [row[e] EXCEPT !.due = @ - 1]]
    /\ age' = [c \in Connections |-> IF state[c] = "idle" THEN 0 ELSE age[c] + 1]
    /\ beat' = [w \in Workers |-> Later(beat[w], BeatLimit)]
    /\ polled' = [w \in Workers |-> Later(polled[w], Forgotten)]
    /\ UNCHANGED <<state, seen, batch, pc, asked, stopping, faults>>

ServerStep(c) == Claim(c) \/ Commit(c)
WorkerStep(w) == Poll(w) \/ Succeed(w) \/ TimeOut(w) \/ Wake(w) \/ Restart(w)

Next ==
    \/ \E e \in Events : Insert(e)
    \/ \E c \in Connections : ServerStep(c) \/ Break(c)
    \/ \E w \in Workers : WorkerStep(w) \/ Signal(w) \/ Kill(w)
    \/ Tick

Spec == Init /\ [][Next]_vars

\* The server finishes the statements it runs, the loop of a worker goes on,
\* the container is restarted, time passes.
Fairness ==
    /\ \A c \in Connections : WF_vars(ServerStep(c))
    /\ \A w \in Workers : WF_vars(WorkerStep(w))
    /\ WF_vars(Tick)

FairSpec == Spec /\ Fairness
----------------------------------------------------------------------------
(* Properties.                                                             *)

\* Each variable has its type; no row is tried more often than MaxAttempts,
\* and a worker waits for a connection of its own.
TypeOK ==
    /\ row \in [Events -> Rows \cup {Absent}]
    /\ state \in [Connections -> {"idle", "begun", "claimed", "committed"}]
    /\ age \in [Connections -> 0..MaxAge]
    /\ seen \in [Connections -> SUBSET Events]
    /\ batch \in [Connections -> SUBSET Events]
    /\ pc \in [Workers -> {"poll", "wait", "pause", "exited"}]
    /\ asked \in [Workers -> Connections \cup {Absent}]
    /\ \A w \in Workers : pc[w] = "wait" => asked[w] # Absent /\ Owner[asked[w]] = w
    /\ stopping \in [Workers -> BOOLEAN]
    /\ beat \in [Workers -> 0..BeatLimit]
    /\ polled \in [Workers -> 0..Forgotten]
    /\ faults \in 0..MaxFaults

\* Two polls never count one attempt twice: each commit adds one attempt to a
\* row and moves it at least Delay past the time it was due, also when the
\* statement of a worker that gave up waiting commits after its next one.
AttemptsSpaced ==
    [][\A e \in Events :
         (row[e] # Absent /\ row'[e].attempts # row[e].attempts) =>
             /\ row'[e].attempts = row[e].attempts + 1
             /\ row'[e].due >= row[e].due + Delay]_vars

\* An event is parked by its last attempt, neither earlier nor later, and a
\* parked event waits for an operator: nothing the workers do touches it.
ParkedByLastAttempt ==
    [][\A e \in Events : (row[e] # Absent /\ row[e].parked) =>
          row'[e].parked /\ row'[e].attempts = MaxAttempts]_vars

\* A worker the health check calls healthy had a poll committed since its
\* heartbeat became due, give or take the time it waits for the answer.
HealthyHasPolled ==
    \A w \in Workers : beat[w] < BeatLimit => polled[w] <= beat[w] + Timeout

\* Every event is parked in the end: none is left behind by the limit of the
\* batch, by rows skipped as locked, or by polls that failed or were killed.
EveryEventParked ==
    \A e \in Events : row[e] # Absent ~> row[e] # Absent /\ row[e].parked
=============================================================================
