-------------------------- MODULE Readiness_proofs --------------------------
(***************************************************************************)
(* Proof that readiness is true, for every number of runners, every set of *)
(* files, whichever of them the API looks for, and any two orders.         *)
(***************************************************************************)
EXTENDS Readiness, Migrations_proofs

\* The row the API looks for was recorded in the plan of a runner that was
\* started, and what came before it in that plan is still there.
RowMeansMigrated ==
    history[Wanted] # Absent =>
        \E r \in Runners : Started(r) /\ AppliedUpToWanted(release[r])

\* A question that found the row: rows are never removed.
RowSeen == probe \in {"redis", "ready"} => history[Wanted] # Absent

RInv == IInv /\ RowMeansMigrated /\ RowSeen

\* The initial states satisfy the inductive invariant.
LEMMA InitRInv == WatchedInit => RInv
<1>1. WatchedInit => IInv
  BY InitIInv DEF WatchedInit
<1>2. WatchedInit => RowMeansMigrated /\ RowSeen
  BY ReadinessAssumption DEF WatchedInit, Init, Nothing, RowMeansMigrated, RowSeen
<1>. QED
  BY <1>1, <1>2 DEF RInv

\* Record writes the row after all that comes before it in the release.
LEMMA RecordOfWanted ==
  ASSUME IInv, IInv', NEW r \in Runners, Record(r), file[r] = Wanted
  PROVE  Started(r)' /\ AppliedUpToWanted(release[r])'
<1>1. /\ pc[r] = "record" /\ pc'[r] = "apply" /\ release' = release
  BY DEF Record, Goto, IInv, TypeOK
<1>2. /\ Wanted \in todo[r]
      /\ todo[r] = Files(release[r]) \ Known
      /\ ~Changed(release[r])
      /\ \A m \in todo[r] \ {Wanted} : <<Wanted, m>> \in LocaleBefore
  BY <1>1 DEF IInv, PlanHolds
<1>3. ASSUME NEW n \in Files(release[r]), n = Wanted \/ <<n, Wanted>> \in LocaleBefore
      PROVE  history'[n] = release[r][n]
  <2>1. CASE n = Wanted
    BY <2>1, Recorded
  <2>2. CASE n # Wanted
    <3>1. n \in Names /\ Wanted \in Names
      BY <1>3, ReadinessAssumption DEF Files
    <3>2. <<n, Wanted>> \in LocaleBefore /\ <<Wanted, n>> \notin LocaleBefore
      BY <1>3, <2>2, <3>1, MigrationsAssumption DEF IsOrder
    <3>3. n \in Known
      BY <1>2, <1>3, <2>2, <3>2
    <3>4. history[n] = release[r][n]
      BY <1>2, <1>3, <3>3 DEF Changed
    <3>. QED
      BY <3>1, <3>4, <2>2, Recorded
  <2>. QED
    BY <2>1, <2>2
<1>4. ASSUME NEW n \in Files(release[r]), history'[n] = release[r][n]
      PROVE  schema'[n] = 1
  <2>1. n \in Names /\ history'[n] # Absent
    BY <1>4 DEF Files
  <2>2. n \in Known'
    BY <2>1 DEF Known, Files
  <2>. QED
    BY <2>1, <2>2 DEF IInv, SchemaMatchesHistory
<1>5. AppliedUpToWanted(release[r])'
  BY <1>1, <1>2, <1>3, <1>4 DEF AppliedUpToWanted, Files
<1>6. Started(r)'
  BY <1>1 DEF Started
<1>. QED
  BY <1>5, <1>6

\* What a runner's release has applied stays applied.
LEMMA AppliedStays ==
  ASSUME IInv, IInv', NEW r \in Runners, Started(r), AppliedUpToWanted(release[r]),
         UNCHANGED release[r], Started(r)',
         \A n \in Names : history[n] # Absent => history'[n] = history[n]
  PROVE  Started(r)' /\ AppliedUpToWanted(release[r])'
<1>1. ASSUME NEW n \in Files(release[r]), n = Wanted \/ <<n, Wanted>> \in LocaleBefore
      PROVE  history'[n] = release[r][n] /\ schema'[n] = 1
  <2>1. n \in Names /\ history[n] = release[r][n] /\ release[r][n] # Absent
    BY <1>1 DEF AppliedUpToWanted, Files
  <2>2. history'[n] = release[r][n]
    BY <2>1
  <2>3. n \in Known'
    BY <2>1, <2>2 DEF Known, Files
  <2>. QED
    BY <2>1, <2>2, <2>3 DEF IInv, SchemaMatchesHistory
<1>. QED
  BY <1>1 DEF AppliedUpToWanted, Files

\* No step removes a row, changes a started release, or undoes a start.
LEMMA Monotone ==
  ASSUME IInv, [Next]_vars
  PROVE  /\ \A n \in Names : history[n] # Absent => history'[n] = history[n]
         /\ \A r \in Runners : Started(r) => Started(r)' /\ release'[r] = release[r]
<1>1. ASSUME NEW q \in Runners, Record(q)
      PROVE  \A n \in Names : history[n] # Absent => history'[n] = history[n]
  BY <1>1, Recorded
<1>2. ASSUME NEW q \in Runners, Start(q)
      PROVE  \A r \in Runners : Started(r) => Started(r)' /\ release'[r] = release[r]
  BY <1>2 DEF Start, Goto, Started, IInv, TypeOK
<1>3. ASSUME NEW q \in Runners, Step(q) \/ Die(q)
      PROVE  \A r \in Runners : Started(r) => Started(r)' /\ release'[r] = release[r]
  BY <1>3 DEF Step, Lock, LockTimesOut, Plan, Refuse, Apply, Record, Fail, Finish,
     Unlock, Die, Ended, Goto, Started, IInv, TypeOK
<1>4. ASSUME NEW q \in Runners, Start(q) \/ Step(q) \/ Die(q), ~Record(q)
      PROVE  history' = history
  BY <1>4 DEF Start, Step, Lock, LockTimesOut, Plan, Refuse, Apply, Fail, Finish,
     Unlock, Die
<1>5. CASE UNCHANGED vars
  BY <1>5 DEF vars, Started
<1>. QED
  BY <1>1, <1>2, <1>3, <1>4, <1>5 DEF Next

\* Steps of the runners keep what the row means.
LEMMA NextKeepsRow ==
  ASSUME IInv, IInv', RowMeansMigrated, [Next]_vars
  PROVE  RowMeansMigrated'
<1>1. CASE history[Wanted] # Absent
  <2>1. PICK r \in Runners : Started(r) /\ AppliedUpToWanted(release[r])
    BY <1>1 DEF RowMeansMigrated
  <2>2. Started(r)' /\ AppliedUpToWanted(release[r])'
    BY <2>1, Monotone, AppliedStays
  <2>. QED
    BY <2>2 DEF RowMeansMigrated
<1>2. CASE history[Wanted] = Absent /\ history'[Wanted] # Absent
  <2>1. PICK r \in Runners : Record(r)
    BY <1>2 DEF Next, Step, Start, Lock, LockTimesOut, Plan, Refuse, Apply, Fail,
       Finish, Unlock, Die, vars
  <2>2. file[r] = Wanted
    BY <1>2, <2>1, Recorded, ReadinessAssumption
  <2>. QED
    BY <2>1, <2>2, RecordOfWanted DEF RowMeansMigrated
<1>. QED
  BY <1>1, <1>2 DEF RowMeansMigrated

\* The invariant is inductive.
LEMMA NextRInv == RInv /\ [WatchedNext]_allVars => RInv'
<1>. SUFFICES ASSUME RInv, [WatchedNext]_allVars PROVE RInv'
  OBVIOUS
<1>1. [Next]_vars
  BY DEF WatchedNext, Probe, AskReady, CheckPostgres, CheckRedis, AskAgain, allVars
<1>2. IInv'
  BY <1>1, NextIInv DEF RInv
<1>3. RowMeansMigrated'
  BY <1>1, <1>2, NextKeepsRow DEF RInv
<1>4. RowSeen'
  <2>1. history[Wanted] # Absent => history'[Wanted] # Absent
    BY <1>1, Monotone, ReadinessAssumption DEF RInv
  <2>2. probe' \in {"redis", "ready"} =>
            probe \in {"redis", "ready"} \/ history[Wanted] # Absent
    BY DEF WatchedNext, Probe, AskReady, CheckPostgres, CheckRedis, AskAgain, allVars
  <2>. QED
    BY <2>1, <2>2 DEF RInv, RowSeen
<1>. QED
  BY <1>2, <1>3, <1>4 DEF RInv

\* For any number of runners and any two orders of names, the API is never ready
\* before the files up to the one it looks for are applied.
THEOREM ReadinessIsTrue == WatchedSpec => []ReadyMeansMigrated
<1>1. RInv => ReadyMeansMigrated
  BY DEF RInv, RowSeen, RowMeansMigrated, ReadyMeansMigrated
<1>. QED
  BY InitRInv, NextRInv, <1>1, PTL DEF WatchedSpec
=============================================================================
