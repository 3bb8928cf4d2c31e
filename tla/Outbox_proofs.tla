---------------------------- MODULE Outbox_proofs ----------------------------
(***************************************************************************)
(* Proofs about Outbox, for every number of events, workers, connections   *)
(* and every delay and limit.  IInv says what a statement may rely on      *)
(* between the lock it takes on a row and its commit.                      *)
(***************************************************************************)
EXTENDS Outbox, TLAPS

RowsOK ==
    \A e \in Events : row[e] # Absent => (row[e].parked <=> row[e].attempts = MaxAttempts)

\* A locked row is still the due row it was when it was locked ...
BatchDue ==
    \A c \in Connections : \A e \in batch[c] :
        /\ state[c] = "claimed"
        /\ Pending(e, age[c])

\* ... and no other statement has it.
BatchesDisjoint ==
    \A c, d \in Connections : \A e \in Events :
        e \in batch[c] /\ e \in batch[d] => c = d

IdleYoung == \A c \in Connections : state[c] = "idle" => age[c] = 0

\* A worker waits for a statement for Timeout at most.
Waits ==
    \A w \in Workers : pc[w] = "wait" => age[asked[w]] <= Timeout

\* A commit whose answer is on its way is as young as its statement.
Answered ==
    \A c \in Connections : state[c] = "committed" => polled[Owner[c]] <= age[c]

IInv ==
    /\ TypeOK
    /\ RowsOK
    /\ BatchDue
    /\ BatchesDisjoint
    /\ IdleYoung
    /\ Waits
    /\ Answered
    /\ HealthyHasPolled
----------------------------------------------------------------------------
(* IInv is inductive.                                                      *)

\* The initial states satisfy the inductive invariant.
LEMMA InitIInv == Init => IInv
  BY OutboxAssumption DEF Init, IInv, TypeOK, RowsOK, BatchDue, BatchesDisjoint,
     IdleYoung, Waits, Answered, HealthyHasPolled, Forgotten

\* What the WHERE says of a row.
LEMMA PendingRow ==
  ASSUME TypeOK, RowsOK, NEW e \in Events, NEW a \in 0..MaxAge, Pending(e, a)
  PROVE  /\ row[e] \in Rows
         /\ row[e].attempts \in 0..(MaxAttempts - 1)
         /\ row[e].due \in -MaxAge..(-a)
         /\ ~row[e].parked
<1>1. row[e] \in Rows /\ ~row[e].parked /\ row[e].due <= -a
  BY DEF TypeOK, Pending
<1>2. /\ row[e].attempts \in 0..MaxAttempts
      /\ row[e].due \in -MaxAge..Delay
  BY <1>1 DEF Rows
<1>3. row[e].attempts # MaxAttempts
  BY <1>1 DEF RowsOK, Pending
<1>. QED
  BY <1>1, <1>2, <1>3, OutboxAssumption

\* What the SET makes of it.
LEMMA TriedRow ==
  ASSUME TypeOK, RowsOK, NEW e \in Events, NEW a \in 0..MaxAge, Pending(e, a)
  PROVE  /\ Tried(row[e], a) \in Rows
         /\ Tried(row[e], a) # Absent
         /\ Tried(row[e], a).attempts = row[e].attempts + 1
         /\ Tried(row[e], a).due >= row[e].due + Delay
         /\ Tried(row[e], a).parked <=> Tried(row[e], a).attempts = MaxAttempts
<1>1. /\ row[e].attempts \in 0..(MaxAttempts - 1)
      /\ row[e].due \in -MaxAge..(-a)
  BY PendingRow
<1>2. /\ row[e].attempts + 1 \in 0..MaxAttempts
      /\ Delay - a \in -MaxAge..Delay
      /\ Delay - a >= row[e].due + Delay
      /\ LastAttempt(row[e].attempts + 1) \in BOOLEAN
      /\ LastAttempt(row[e].attempts + 1) <=> row[e].attempts + 1 = MaxAttempts
  BY <1>1, OutboxAssumption DEF LastAttempt
<1>3. Tried(row[e], a) \in Rows
  BY <1>2 DEF Tried, Rows
<1>. QED
  BY <1>2, <1>3, OutboxAssumption DEF Tried

\* Insert keeps the inductive invariant.
LEMMA InsertKeeps ==
  ASSUME IInv, NEW e \in Events, Insert(e)
  PROVE  IInv'
<1>. DEFINE fresh == [attempts |-> 0, due |-> 0, parked |-> FALSE]
<1>1. fresh \in Rows /\ fresh # Absent
  <2>1. 0 \in 0..MaxAttempts /\ 0 \in -MaxAge..Delay /\ FALSE \in BOOLEAN
    BY OutboxAssumption
  <2>2. fresh \in Rows
    BY <2>1 DEF Rows
  <2>. QED
    BY <2>2, OutboxAssumption
<1>2. /\ row' = [row EXCEPT ![e] = fresh]
      /\ row[e] = Absent
      /\ UNCHANGED <<state, age, seen, batch, pc, asked, stopping, beat, polled, faults>>
  BY DEF Insert, connection, worker
<1>. HIDE DEF fresh
<1>3. TypeOK'
  BY <1>1, <1>2 DEF IInv, TypeOK
<1>4. fresh.attempts = 0 /\ fresh.parked = FALSE
  BY DEF fresh
<1>5. RowsOK'
  BY <1>1, <1>2, <1>4, OutboxAssumption DEF IInv, TypeOK, RowsOK
<1>6. BatchDue'
  <2>1. ASSUME NEW c \in Connections, NEW f \in batch[c]
        PROVE  row'[f] = row[f]
    BY <1>2, <2>1 DEF IInv, TypeOK, BatchDue, Pending
  <2>. QED
    BY <2>1, <1>2 DEF IInv, BatchDue, Pending
<1>7. BatchesDisjoint' /\ IdleYoung' /\ Waits' /\ Answered' /\ HealthyHasPolled'
  BY <1>2 DEF IInv, BatchesDisjoint, IdleYoung, Waits, Answered, HealthyHasPolled
<1>. QED
  BY <1>3, <1>5, <1>6, <1>7 DEF IInv

\* Claim keeps the inductive invariant.
LEMMA ClaimKeeps ==
  ASSUME IInv, NEW c \in Connections, Claim(c)
  PROVE  IInv'
<1>1. PICK taken \in SUBSET Claimable(c) : batch' = [batch EXCEPT ![c] = taken]
  BY DEF Claim
<1>2. /\ state[c] = "begun"
      /\ state' = [state EXCEPT ![c] = "claimed"]
      /\ seen' = [seen EXCEPT ![c] = {}]
      /\ UNCHANGED <<row, age, pc, asked, stopping, beat, polled, faults>>
  BY DEF Claim, worker
<1>3. \A e \in taken : e \in Events /\ ~Locked(e) /\ Pending(e, age[c])
  BY <1>1 DEF Claimable, IInv, TypeOK
<1>4. TypeOK'
  BY <1>1, <1>2, <1>3 DEF IInv, TypeOK
<1>5. RowsOK'
  BY <1>2 DEF IInv, RowsOK
<1>6. BatchDue'
  BY <1>1, <1>2, <1>3 DEF IInv, TypeOK, BatchDue, Pending
<1>7. BatchesDisjoint'
  BY <1>1, <1>3 DEF IInv, TypeOK, BatchesDisjoint, Locked
<1>8. IdleYoung' /\ Waits' /\ Answered' /\ HealthyHasPolled'
  BY <1>2 DEF IInv, TypeOK, IdleYoung, Waits, Answered, HealthyHasPolled
<1>. QED
  BY <1>4, <1>5, <1>6, <1>7, <1>8 DEF IInv

\* Commit touches the rows of its batch, which are still due.
LEMMA CommitRows ==
  ASSUME IInv, NEW c \in Connections, Commit(c), NEW e \in Events
  PROVE  IF e \in batch[c]
         THEN /\ row[e] # Absent
              /\ ~row[e].parked
              /\ row'[e] \in Rows
              /\ row'[e] # Absent
              /\ row'[e].attempts = row[e].attempts + 1
              /\ row'[e].due >= row[e].due + Delay
              /\ row'[e].parked <=> row'[e].attempts = MaxAttempts
         ELSE row'[e] = row[e]
<1>1. CASE e \in batch[c]
  <2>1. Pending(e, age[c]) /\ age[c] \in 0..MaxAge
    BY <1>1 DEF IInv, TypeOK, BatchDue
  <2>2. row'[e] = Tried(row[e], age[c])
    BY <1>1 DEF Commit
  <2>. QED
    BY <1>1, <2>1, <2>2, TriedRow DEF IInv, Pending
<1>2. CASE e \notin batch[c]
  BY <1>2 DEF Commit
<1>. QED
  BY <1>1, <1>2

\* Commit keeps the inductive invariant.
LEMMA CommitKeeps ==
  ASSUME IInv, NEW c \in Connections, Commit(c)
  PROVE  IInv'
<1>. DEFINE awaited == asked[Owner[c]] = c
<1>1. /\ state[c] = "claimed"
      /\ batch' = [batch EXCEPT ![c] = {}]
      /\ state' = [state EXCEPT ![c] = IF awaited THEN "committed" ELSE "idle"]
      /\ age' = [age EXCEPT ![c] = IF awaited THEN @ ELSE 0]
      /\ polled' = [polled EXCEPT ![Owner[c]] = 0]
      /\ UNCHANGED <<seen, pc, asked, stopping, beat, faults>>
      /\ row' = [e \in Events |-> row'[e]]
  BY DEF Commit, worker
<1>2. Owner[c] \in Workers /\ 0 \in 0..MaxAge /\ 0 \in 0..Forgotten
  BY OutboxAssumption DEF Forgotten
<1>3. \A e \in Events : row'[e] \in Rows \cup {Absent}
  BY CommitRows DEF IInv, TypeOK
<1>4. TypeOK'
  <2>1. row' \in [Events -> Rows \cup {Absent}]
    BY <1>1, <1>3
  <2>. QED
    BY <2>1, <1>1, <1>2 DEF IInv, TypeOK
<1>5. RowsOK'
  BY CommitRows DEF IInv, RowsOK
<1>6. BatchDue'
  <2>1. ASSUME NEW d \in Connections, NEW e \in batch'[d]
        PROVE  state'[d] = "claimed" /\ Pending(e, age[d])' /\ age'[d] = age[d]
    <3>1. d # c /\ e \in batch[d] /\ e \in Events
      BY <1>1, <2>1 DEF IInv, TypeOK
    <3>2. e \notin batch[c]
      BY <3>1 DEF IInv, BatchesDisjoint
    <3>3. row'[e] = row[e]
      BY <3>1, <3>2, CommitRows
    <3>4. state'[d] = state[d] /\ age'[d] = age[d]
      BY <3>1, <1>1 DEF IInv, TypeOK
    <3>. QED
      BY <3>1, <3>3, <3>4 DEF IInv, BatchDue, Pending
  <2>. QED
    BY <2>1 DEF BatchDue
<1>7. BatchesDisjoint'
  BY <1>1 DEF IInv, TypeOK, BatchesDisjoint
<1>8. IdleYoung'
  BY <1>1 DEF IInv, TypeOK, IdleYoung
<1>9. Waits'
  BY <1>1, <1>2, OutboxAssumption DEF IInv, TypeOK, Waits
<1>10. Answered'
  <2>1. ASSUME NEW d \in Connections, state'[d] = "committed"
        PROVE  polled'[Owner[d]] <= age'[d]
    <3>1. age'[d] = age[d] /\ age[d] \in 0..MaxAge
      BY <1>1, <2>1 DEF IInv, TypeOK
    <3>2. d = c \/ state[d] = "committed"
      BY <1>1, <2>1 DEF IInv, TypeOK
    <3>3. polled'[Owner[d]] = 0 \/ (d # c /\ polled'[Owner[d]] = polled[Owner[d]])
      BY <1>1, <1>2, OutboxAssumption DEF IInv, TypeOK
    <3>. QED
      BY <3>1, <3>2, <3>3, OutboxAssumption DEF IInv, Answered
  <2>. QED
    BY <2>1 DEF Answered
<1>11. HealthyHasPolled'
  BY <1>1, <1>2, OutboxAssumption DEF IInv, TypeOK, HealthyHasPolled
<1>. QED
  BY <1>4, <1>5, <1>6, <1>7, <1>8, <1>9, <1>10, <1>11 DEF IInv

\* A connection that is closed frees its rows and stops counting.
LEMMA ClosedKeeps ==
  ASSUME IInv, NEW c \in Connections, Closed(c) \/ UNCHANGED connection, UNCHANGED row
  PROVE  /\ state' \in [Connections -> {"idle", "begun", "claimed", "committed"}]
         /\ age' \in [Connections -> 0..MaxAge]
         /\ seen' \in [Connections -> SUBSET Events]
         /\ batch' \in [Connections -> SUBSET Events]
         /\ RowsOK' /\ BatchDue' /\ BatchesDisjoint' /\ IdleYoung'
         /\ \A d \in Connections : age'[d] <= age[d]
         /\ \A d \in Connections : state'[d] = "committed" =>
               state[d] = "committed" /\ age'[d] = age[d]
<1>0. 0 \in 0..MaxAge
  BY OutboxAssumption
<1>1. CASE UNCHANGED connection
  <2>1. UNCHANGED <<state, age, seen, batch>>
    BY <1>1 DEF connection
  <2>. QED
    BY <2>1 DEF IInv, TypeOK, RowsOK, BatchDue, Pending, BatchesDisjoint, IdleYoung
<1>2. CASE Closed(c)
  <2>1. /\ state' = [state EXCEPT ![c] = "idle"]
        /\ age' = [age EXCEPT ![c] = 0]
        /\ seen' = [seen EXCEPT ![c] = {}]
        /\ batch' = [batch EXCEPT ![c] = {}]
    BY <1>2 DEF Closed
  <2>2. BatchDue'
    BY <2>1 DEF IInv, TypeOK, BatchDue, Pending
  <2>3. RowsOK' /\ BatchesDisjoint' /\ IdleYoung'
    BY <2>1 DEF IInv, TypeOK, RowsOK, BatchesDisjoint, IdleYoung
  <2>. QED
    BY <1>0, <2>1, <2>2, <2>3 DEF IInv, TypeOK
<1>. QED
  BY <1>1, <1>2

\* Poll keeps the inductive invariant.
LEMMA PollKeeps ==
  ASSUME IInv, NEW w \in Workers, Poll(w)
  PROVE  IInv'
<1>1. PICK c \in Connections :
         /\ Owner[c] = w
         /\ state[c] = "idle"
         /\ state' = [state EXCEPT ![c] = "begun"]
         /\ seen' = [seen EXCEPT ![c] = {e \in Events : Pending(e, 0)}]
         /\ asked' = [asked EXCEPT ![w] = c]
  BY DEF Poll
<1>2. /\ pc' = [pc EXCEPT ![w] = "wait"]
      /\ UNCHANGED <<row, age, batch, stopping, beat, polled, faults>>
  BY DEF Poll, Goto
<1>3. TypeOK'
  BY <1>1, <1>2, OutboxAssumption DEF IInv, TypeOK
<1>4. RowsOK' /\ BatchesDisjoint' /\ HealthyHasPolled'
  BY <1>2 DEF IInv, RowsOK, BatchesDisjoint, HealthyHasPolled
<1>5. BatchDue'
  BY <1>1, <1>2 DEF IInv, TypeOK, BatchDue, Pending
<1>6. IdleYoung' /\ Answered'
  BY <1>1, <1>2 DEF IInv, TypeOK, IdleYoung, Answered
<1>7. Waits'
  BY <1>1, <1>2, OutboxAssumption DEF IInv, TypeOK, IdleYoung, Waits
<1>. QED
  BY <1>3, <1>4, <1>5, <1>6, <1>7 DEF IInv

\* Succeed keeps the inductive invariant.
LEMMA SucceedKeeps ==
  ASSUME IInv, NEW w \in Workers, Succeed(w)
  PROVE  IInv'
<1>1. /\ asked[w] \in Connections
      /\ Owner[asked[w]] = w
      /\ state[asked[w]] = "committed"
      /\ Closed(asked[w])
      /\ asked' = [asked EXCEPT ![w] = Absent]
      /\ beat' = [beat EXCEPT ![w] = 0]
      /\ pc' = [pc EXCEPT ![w] = "pause"]
      /\ UNCHANGED <<row, stopping, polled, faults>>
  BY DEF Succeed, IInv, TypeOK, Goto
<1>2. polled[w] <= Timeout
  BY <1>1, OutboxAssumption DEF IInv, TypeOK, Answered, Waits, Succeed, Forgotten
<1>3. /\ RowsOK' /\ BatchDue' /\ BatchesDisjoint' /\ IdleYoung'
      /\ \A d \in Connections : age'[d] <= age[d]
      /\ \A d \in Connections : state'[d] = "committed" =>
            state[d] = "committed" /\ age'[d] = age[d]
  BY <1>1, ClosedKeeps
<1>4. TypeOK'
  <2>1. /\ state' \in [Connections -> {"idle", "begun", "claimed", "committed"}]
        /\ age' \in [Connections -> 0..MaxAge]
        /\ seen' \in [Connections -> SUBSET Events]
        /\ batch' \in [Connections -> SUBSET Events]
    BY <1>1, ClosedKeeps
  <2>. QED
    BY <1>1, <2>1, OutboxAssumption DEF IInv, TypeOK
<1>5. Waits'
  BY <1>1, <1>3, <1>4, OutboxAssumption DEF IInv, TypeOK, Waits
<1>6. Answered'
  BY <1>1, <1>3 DEF IInv, Answered
<1>7. HealthyHasPolled'
  BY <1>1, <1>2, OutboxAssumption DEF IInv, TypeOK, HealthyHasPolled
<1>. QED
  BY <1>3, <1>4, <1>5, <1>6, <1>7 DEF IInv

\* A worker that stops waiting, whatever it does next.
LEMMA ForgetKeeps ==
  ASSUME IInv, NEW w \in Workers, Forget(w), UNCHANGED <<row, stopping, beat, polled>>,
         NEW label \in {"pause", "exited"}, pc' = [pc EXCEPT ![w] = label],
         faults' \in 0..MaxFaults
  PROVE  IInv'
<1>1. PICK c \in Connections \cup {Absent} : c = asked[w]
  BY DEF IInv, TypeOK
<1>2. /\ UNCHANGED connection \/ (c \in Connections /\ Closed(c))
      /\ asked' = [asked EXCEPT ![w] = Absent]
  BY <1>1 DEF Forget, IInv, TypeOK
<1>3. /\ state' \in [Connections -> {"idle", "begun", "claimed", "committed"}]
      /\ age' \in [Connections -> 0..MaxAge]
      /\ seen' \in [Connections -> SUBSET Events]
      /\ batch' \in [Connections -> SUBSET Events]
      /\ RowsOK' /\ BatchDue' /\ BatchesDisjoint' /\ IdleYoung'
      /\ \A d \in Connections : age'[d] <= age[d]
      /\ \A d \in Connections : state'[d] = "committed" =>
            state[d] = "committed" /\ age'[d] = age[d]
  <2>1. CASE UNCHANGED connection
    <3>1. UNCHANGED <<state, age, seen, batch>>
      BY <2>1 DEF connection
    <3>. QED
      BY <3>1, OutboxAssumption
         DEF IInv, TypeOK, RowsOK, BatchDue, Pending, BatchesDisjoint, IdleYoung
  <2>2. CASE c \in Connections /\ Closed(c)
    BY <2>2, ClosedKeeps
  <2>. QED
    BY <1>2, <2>1, <2>2
<1>4. TypeOK'
  BY <1>2, <1>3, OutboxAssumption DEF IInv, TypeOK
<1>5. Waits'
  BY <1>2, <1>3, OutboxAssumption DEF IInv, TypeOK, Waits
<1>6. Answered' /\ HealthyHasPolled'
  BY <1>3 DEF IInv, Answered, HealthyHasPolled
<1>. QED
  BY <1>3, <1>4, <1>5, <1>6 DEF IInv

\* TimeOut keeps the inductive invariant.
LEMMA TimeOutKeeps ==
  ASSUME IInv, NEW w \in Workers, TimeOut(w)
  PROVE  IInv'
<1>1. faults' \in 0..MaxFaults
  BY DEF TimeOut, IInv, TypeOK
<1>. QED
  BY <1>1, ForgetKeeps DEF TimeOut, Goto

\* Kill keeps the inductive invariant.
LEMMA KillKeeps ==
  ASSUME IInv, NEW w \in Workers, Kill(w)
  PROVE  IInv'
<1>1. faults' \in 0..MaxFaults
  BY OutboxAssumption DEF Kill, IInv, TypeOK
<1>. QED
  BY <1>1, ForgetKeeps DEF Kill, Goto

\* The steps of the loop that touch neither the database nor the clock.
LEMMA LoopKeeps ==
  ASSUME IInv, NEW w \in Workers, Wake(w) \/ Signal(w) \/ Restart(w)
  PROVE  IInv'
<1>1. /\ UNCHANGED <<row, state, age, seen, batch, asked, polled>>
      /\ pc' \in [Workers -> {"poll", "wait", "pause", "exited"}]
      /\ \A v \in Workers : pc'[v] = "wait" => pc[v] = "wait"
      /\ stopping' \in [Workers -> BOOLEAN]
      /\ beat' \in [Workers -> 0..BeatLimit]
      /\ \A v \in Workers : beat'[v] < BeatLimit => beat'[v] = beat[v]
      /\ faults' \in 0..MaxFaults
  <2>1. CASE Wake(w)
    BY <2>1 DEF Wake, Goto, connection, IInv, TypeOK
  <2>2. CASE Signal(w)
    BY <2>2, OutboxAssumption DEF Signal, connection, IInv, TypeOK
  <2>3. CASE Restart(w)
    BY <2>3, OutboxAssumption DEF Restart, Goto, connection, IInv, TypeOK
  <2>. QED
    BY <2>1, <2>2, <2>3
<1>2. TypeOK'
  BY <1>1 DEF IInv, TypeOK
<1>3. RowsOK' /\ BatchDue' /\ BatchesDisjoint' /\ IdleYoung' /\ Waits' /\ Answered'
  BY <1>1 DEF IInv, RowsOK, BatchDue, Pending, BatchesDisjoint, IdleYoung, Waits, Answered
<1>4. HealthyHasPolled'
  BY <1>1 DEF IInv, HealthyHasPolled
<1>. QED
  BY <1>2, <1>3, <1>4 DEF IInv

\* Break keeps the inductive invariant.
LEMMA BreakKeeps ==
  ASSUME IInv, NEW c \in Connections, Break(c)
  PROVE  IInv'
<1>1. /\ Closed(c)
      /\ UNCHANGED <<row, stopping, beat, polled>>
      /\ faults' \in 0..MaxFaults
      /\ Owner[c] \in Workers
  BY OutboxAssumption DEF Break, IInv, TypeOK
<1>2. /\ asked' \in [Workers -> Connections \cup {Absent}]
      /\ pc' \in [Workers -> {"poll", "wait", "pause", "exited"}]
      /\ \A v \in Workers : pc'[v] = "wait" => pc[v] = "wait" /\ asked'[v] = asked[v]
  BY <1>1 DEF Break, Goto, IInv, TypeOK
<1>3. /\ state' \in [Connections -> {"idle", "begun", "claimed", "committed"}]
      /\ age' \in [Connections -> 0..MaxAge]
      /\ seen' \in [Connections -> SUBSET Events]
      /\ batch' \in [Connections -> SUBSET Events]
      /\ RowsOK' /\ BatchDue' /\ BatchesDisjoint' /\ IdleYoung'
      /\ \A d \in Connections : age'[d] <= age[d]
      /\ \A d \in Connections : state'[d] = "committed" =>
            state[d] = "committed" /\ age'[d] = age[d]
  BY <1>1, ClosedKeeps
<1>4. TypeOK'
  BY <1>1, <1>2, <1>3 DEF IInv, TypeOK
<1>5. Waits'
  BY <1>2, <1>3, OutboxAssumption DEF IInv, TypeOK, Waits
<1>6. Answered' /\ HealthyHasPolled'
  BY <1>1, <1>3 DEF IInv, Answered, HealthyHasPolled
<1>. QED
  BY <1>3, <1>4, <1>5, <1>6 DEF IInv

\* Time makes no due row less due.
LEMMA TickRow ==
  ASSUME IInv, Tick, NEW e \in Events
  PROVE  /\ row'[e] \in Rows \cup {Absent}
         /\ row'[e] = Absent <=> row[e] = Absent
         /\ row[e] # Absent => /\ row'[e].attempts = row[e].attempts
                               /\ row'[e].parked = row[e].parked
         /\ \A a \in 0..MaxAge : a + 1 <= MaxAge /\ Pending(e, a) => Pending(e, a + 1)'
<1>1. CASE row[e] = Absent \/ row[e].due = -MaxAge
  <2>1. row'[e] = row[e]
    BY <1>1 DEF Tick
  <2>. QED
    BY <1>1, <2>1, OutboxAssumption DEF IInv, TypeOK, Pending
<1>2. CASE row[e] # Absent /\ row[e].due # -MaxAge
  <2>1. row'[e] = [row[e] EXCEPT !.due = @ - 1]
    BY <1>2 DEF Tick
  <2>2. row[e] \in Rows
    BY <1>2 DEF IInv, TypeOK
  <2>3. /\ row'[e] \in Rows
        /\ row'[e].attempts = row[e].attempts
        /\ row'[e].parked = row[e].parked
        /\ row'[e].due = row[e].due - 1
        /\ row[e].due \in Int
    BY <1>2, <2>1, <2>2, OutboxAssumption DEF Rows
  <2>. QED
    BY <1>2, <2>3, OutboxAssumption DEF Pending
<1>. QED
  BY <1>1, <1>2

\* Tick keeps the inductive invariant.
LEMMA TickKeeps ==
  ASSUME IInv, Tick
  PROVE  IInv'
<1>1. /\ \A c \in Connections : age'[c] = IF state[c] = "idle" THEN 0 ELSE age[c] + 1
      /\ age' \in [Connections -> 0..MaxAge]
      /\ \A c \in Connections : age[c] \in 0..MaxAge
      /\ \A c \in Connections : state[c] # "idle" => age[c] + 1 <= MaxAge
      /\ UNCHANGED <<state, seen, batch, pc, asked, stopping, faults>>
  BY OutboxAssumption DEF Tick, IInv, TypeOK
<1>2. /\ beat' \in [Workers -> 0..BeatLimit]
      /\ \A w \in Workers : beat'[w] < BeatLimit => beat'[w] = beat[w] + 1
      /\ polled' \in [Workers -> 0..Forgotten]
      /\ \A w \in Workers : polled'[w] <= polled[w] + 1
      /\ \A w \in Workers : beat[w] \in 0..BeatLimit /\ polled[w] \in 0..Forgotten
  BY OutboxAssumption DEF Tick, IInv, TypeOK, Later, Forgotten
<1>3. TypeOK'
  <2>1. row' \in [Events -> Rows \cup {Absent}]
    BY TickRow DEF Tick
  <2>. QED
    BY <2>1, <1>1, <1>2 DEF IInv, TypeOK
<1>4. RowsOK'
  BY TickRow DEF IInv, RowsOK
<1>5. BatchDue'
  <2>1. ASSUME NEW c \in Connections, NEW e \in batch[c]
        PROVE  Pending(e, age[c])' /\ state'[c] = "claimed"
    <3>1. e \in Events /\ state[c] = "claimed" /\ Pending(e, age[c])
      BY <2>1 DEF IInv, TypeOK, BatchDue
    <3>2. age[c] \in 0..MaxAge /\ age[c] + 1 <= MaxAge /\ age'[c] = age[c] + 1
      BY <3>1, <1>1
    <3>3. Pending(e, age[c] + 1)'
            <=> /\ row'[e] # Absent
                /\ ~row'[e].parked
                /\ row'[e].due <= -(age'[c] + 1)
      BY DEF Pending
    <3>4. \A a \in 0..MaxAge : (a + 1 <= MaxAge /\ Pending(e, a)) =>
                /\ row'[e] # Absent
                /\ ~row'[e].parked
                /\ row'[e].due <= -(a + 1)
      BY <3>1, TickRow DEF Pending
    <3>. QED
      BY <3>1, <3>2, <3>4, <1>1 DEF Pending
  <2>. QED
    BY <2>1, <1>1 DEF BatchDue
<1>6. BatchesDisjoint' /\ IdleYoung'
  BY <1>1 DEF IInv, BatchesDisjoint, IdleYoung
<1>7. Waits'
  BY <1>1, OutboxAssumption DEF Tick, IInv, TypeOK, Waits
<1>8. Answered'
  BY <1>1, <1>2, OutboxAssumption DEF IInv, TypeOK, Answered, Forgotten
<1>9. HealthyHasPolled'
  BY <1>2, OutboxAssumption DEF IInv, HealthyHasPolled, Forgotten
<1>. QED
  BY <1>3, <1>4, <1>5, <1>6, <1>7, <1>8, <1>9 DEF IInv

\* Every step keeps the inductive invariant.
LEMMA NextIInv == IInv /\ [Next]_vars => IInv'
<1>. SUFFICES ASSUME IInv, [Next]_vars PROVE IInv'
  OBVIOUS
<1>1. ASSUME NEW e \in Events, Insert(e) PROVE IInv'
  BY <1>1, InsertKeeps
<1>2. ASSUME NEW c \in Connections, ServerStep(c) \/ Break(c) PROVE IInv'
  BY <1>2, ClaimKeeps, CommitKeeps, BreakKeeps DEF ServerStep
<1>3. ASSUME NEW w \in Workers, WorkerStep(w) \/ Signal(w) \/ Kill(w) PROVE IInv'
  BY <1>3, PollKeeps, SucceedKeeps, TimeOutKeeps, LoopKeeps, KillKeeps DEF WorkerStep
<1>4. CASE Tick
  BY <1>4, TickKeeps
<1>5. CASE UNCHANGED vars
  BY <1>5 DEF vars, connection, worker, IInv, TypeOK, RowsOK, BatchDue, Pending,
     BatchesDisjoint, IdleYoung, Waits, Answered, HealthyHasPolled
<1>. QED
  BY <1>1, <1>2, <1>3, <1>4, <1>5 DEF Next

\* The inductive invariant holds in every reachable state.
LEMMA Invariance == Spec => []IInv
  BY InitIInv, NextIInv, PTL DEF Spec
----------------------------------------------------------------------------
(* What follows from IInv.                                                 *)

\* For all limits and delays: the variables have their types, and no event is
\* tried more often than MaxAttempts.
THEOREM TypeCorrect == Spec => []TypeOK
<1>1. IInv => TypeOK
  BY DEF IInv
<1>. QED
  BY <1>1, Invariance, PTL

\* For any number of workers and connections: a healthy heartbeat stands for a
\* poll that committed.
THEOREM HealthIsHonest == Spec => []HealthyHasPolled
<1>1. IInv => HealthyHasPolled
  BY DEF IInv
<1>. QED
  BY <1>1, Invariance, PTL

\* No other step of Next changes the attempts of a row, or unparks one.
LEMMA OthersLeaveRows ==
  ASSUME IInv, [Next]_vars, \A c \in Connections : ~Commit(c),
         NEW e \in Events, row[e] # Absent
  PROVE  /\ row'[e].attempts = row[e].attempts
         /\ row'[e].parked = row[e].parked
<1>1. CASE Tick
  BY <1>1, TickRow
<1>2. ASSUME NEW f \in Events, Insert(f) PROVE row'[e] = row[e]
  BY <1>2 DEF Insert, IInv, TypeOK
<1>3. CASE UNCHANGED row
  BY <1>3
<1>4. UNCHANGED row \/ Tick \/ \E f \in Events : Insert(f)
  BY DEF Next, vars, ServerStep, WorkerStep, Claim, Poll, Succeed, TimeOut, Wake,
     Signal, Kill, Restart, Break
<1>. QED
  BY <1>1, <1>2, <1>3, <1>4

\* For any number of overlapping polls: an attempt is counted once, and Delay
\* after the last one at the earliest.
THEOREM AttemptsAreSpaced == Spec => AttemptsSpaced
<1>1. ASSUME IInv, [Next]_vars, NEW e \in Events, row[e] # Absent,
             row'[e].attempts # row[e].attempts
      PROVE  /\ row'[e].attempts = row[e].attempts + 1
             /\ row'[e].due >= row[e].due + Delay
  <2>1. PICK c \in Connections : Commit(c)
    BY <1>1, OthersLeaveRows
  <2>. QED
    BY <1>1, <2>1, CommitRows
<1>2. IInv /\ [Next]_vars =>
        [\A e \in Events :
           (row[e] # Absent /\ row'[e].attempts # row[e].attempts) =>
               /\ row'[e].attempts = row[e].attempts + 1
               /\ row'[e].due >= row[e].due + Delay]_vars
  BY <1>1
<1>. QED
  BY <1>2, Invariance, PTL DEF Spec, AttemptsSpaced

\* For every limit: parked means tried MaxAttempts times, and stays so.
THEOREM ParkedStays == Spec => ParkedByLastAttempt
<1>1. ASSUME IInv, [Next]_vars, NEW e \in Events, row[e] # Absent, row[e].parked
      PROVE  row'[e].parked /\ row'[e].attempts = MaxAttempts
  <2>1. row[e].attempts = MaxAttempts
    BY <1>1 DEF IInv, RowsOK
  <2>2. CASE \E c \in Connections : Commit(c)
    BY <1>1, <2>1, <2>2, CommitRows
  <2>3. CASE \A c \in Connections : ~Commit(c)
    BY <1>1, <2>1, <2>3, OthersLeaveRows
  <2>. QED
    BY <2>2, <2>3
<1>2. IInv /\ [Next]_vars =>
        [\A e \in Events : (row[e] # Absent /\ row[e].parked) =>
            row'[e].parked /\ row'[e].attempts = MaxAttempts]_vars
  BY <1>1
<1>. QED
  BY <1>2, Invariance, PTL DEF Spec, ParkedByLastAttempt
=============================================================================
