-------------------------- MODULE Migrations_proofs --------------------------
(***************************************************************************)
(* Proofs about Migrations, for every number of runners, every set of      *)
(* files and every sequence of releases.  Where the order of application   *)
(* matters, the two orders of the code are assumed to be one.              *)
(***************************************************************************)
EXTENDS Migrations, TLAPS

\* The plan of the runner with the lock stays right while it applies it.
PlanHolds ==
    \A r \in Runners :
        /\ pc[r] \in {"apply", "record"} =>
              /\ todo[r] = Files(release[r]) \ Known
              /\ ~Missing(release[r])
              /\ ~Changed(release[r])
        /\ pc[r] = "record" =>
              /\ file[r] \in todo[r]
              /\ \A m \in todo[r] \ {file[r]} : <<file[r], m>> \in LocaleBefore

\* A runner has no outcome before it unlocks.
Exited ==
    \A r \in Runners : outcome[r] # "none" => pc[r] \in {"unlock", "ended"}

IInv ==
    /\ TypeOK
    /\ PlanHolds
    /\ Exited
    /\ SchemaMatchesHistory
    /\ SuccessMeansApplied

Started(r) == pc[r] # "start"

\* What is applied came with a release that was started.
HistoryFromReleases ==
    \A n \in Known : \E q \in Runners : Started(q) /\ release[q][n] = history[n]

\* The plan in order: what is left comes after all that is applied.
PlanInOrder ==
    \A r \in Runners : pc[r] \in {"apply", "record"} => ~OutOfOrder(release[r])

\* While all runs have one release, its files are applied from the first on.
PrefixApplied ==
    \A r \in Runners :
        (Started(r) /\ \A q \in Runners : Started(q) => release[q] = release[r])
            => ~OutOfOrder(release[r])

OInv ==
    /\ IInv
    /\ HistoryFromReleases
    /\ PlanInOrder
    /\ PrefixApplied
    /\ RefusedOnlyAfterChange
----------------------------------------------------------------------------
(* IInv is inductive.                                                      *)

\* The initial states satisfy the inductive invariant.
LEMMA InitIInv == Init => IInv
  BY MigrationsAssumption DEF Init, IInv, TypeOK, PlanHolds, Exited,
     SchemaMatchesHistory, SuccessMeansApplied, Known, Files, Nothing

\* The parts that speak of the history alone.
LEMMA SameHistory ==
  ASSUME IInv, UNCHANGED <<history, schema>>
  PROVE  SchemaMatchesHistory' /\ Known' = Known
  BY DEF IInv, SchemaMatchesHistory, Known, Files

\* A runner that has not the lock finds its plan untouched by a step that
\* changes pc, todo and file for r only.
LEMMA PlanKept ==
  ASSUME IInv, NEW r \in Runners, UNCHANGED <<history, release>>,
         \A q \in Runners \ {r} :
             pc'[q] = pc[q] /\ todo'[q] = todo[q] /\ file'[q] = file[q],
         pc'[r] \notin {"apply", "record"}
  PROVE  PlanHolds'
<1>1. SUFFICES ASSUME NEW q \in Runners, pc'[q] \in {"apply", "record"}
               PROVE  /\ todo'[q] = Files(release'[q]) \ Known'
                      /\ ~Missing(release[q])'
                      /\ ~Changed(release[q])'
                      /\ pc'[q] = "record" =>
                            /\ file'[q] \in todo'[q]
                            /\ \A m \in todo'[q] \ {file'[q]} :
                                  <<file'[q], m>> \in LocaleBefore
  BY DEF PlanHolds, Files, Known
<1>2. /\ q # r
      /\ pc'[q] = pc[q] /\ todo'[q] = todo[q] /\ file'[q] = file[q]
      /\ release'[q] = release[q]
      /\ Known' = Known
      /\ history' = history
  BY <1>1 DEF Known, Files
<1>3. /\ Missing(release[q])' <=> Missing(release[q])
      /\ Changed(release[q])' <=> Changed(release[q])
  BY <1>2 DEF Missing, Changed, Files, Known
<1>. QED
  BY <1>1, <1>2, <1>3 DEF IInv, PlanHolds

\* Steps outside a plan: the lock, the exits and the end of the session.
LEMMA OutsideKeeps ==
  ASSUME IInv, NEW r \in Runners,
         \/ Lock(r) \/ LockTimesOut(r) \/ Refuse(r) \/ Fail(r)
         \/ Unlock(r) \/ Die(r)
  PROVE  IInv'
<1>1. /\ UNCHANGED <<history, schema, release, todo>>
      /\ pc'[r] \notin {"apply", "record"}
      /\ \A q \in Runners \ {r} : pc'[q] = pc[q] /\ file'[q] = file[q]
  BY DEF Lock, LockTimesOut, Refuse, Fail, Unlock, Die, Ended, Goto, IInv, TypeOK
<1>2. TypeOK'
  <2>1. CASE Lock(r)
    BY <2>1, MigrationsAssumption DEF Lock, Goto, IInv, TypeOK
  <2>2. CASE LockTimesOut(r)
    BY <2>2, MigrationsAssumption DEF LockTimesOut, Exits, Goto, IInv, TypeOK
  <2>3. CASE Refuse(r)
    BY <2>3, MigrationsAssumption DEF Refuse, Exits, Goto, IInv, TypeOK
  <2>4. CASE Fail(r)
    BY <2>4, MigrationsAssumption DEF Fail, Exits, Goto, IInv, TypeOK
  <2>5. CASE Unlock(r)
    BY <2>5, MigrationsAssumption DEF Unlock, Ended, IInv, TypeOK, Goto
  <2>6. CASE Die(r)
    BY <2>6, MigrationsAssumption DEF Die, Ended, Exits, Goto, IInv, TypeOK
  <2>. QED
    BY <2>1, <2>2, <2>3, <2>4, <2>5, <2>6
<1>3. PlanHolds'
  BY <1>1, PlanKept
<1>4. Exited'
  BY DEF Lock, LockTimesOut, Refuse, Fail, Unlock, Die, Ended, Exits, Goto,
         IInv, TypeOK, Exited
<1>5. SchemaMatchesHistory'
  BY <1>1, SameHistory
<1>6. SuccessMeansApplied'
  <2>1. \A q \in Runners : outcome'[q] = "ok" => outcome[q] = "ok"
    BY DEF Lock, LockTimesOut, Refuse, Fail, Unlock, Die, Exits, IInv, TypeOK
  <2>. QED
    BY <1>1, <2>1 DEF IInv, SuccessMeansApplied, Files
<1>. QED
  BY <1>2, <1>3, <1>4, <1>5, <1>6 DEF IInv

\* Start keeps the inductive invariant.
LEMMA StartKeeps ==
  ASSUME IInv, NEW r \in Runners, Start(r)
  PROVE  IInv'
<1>1. PICK rel \in Releases : release' = [release EXCEPT ![r] = rel]
  BY DEF Start
<1>2. /\ UNCHANGED <<history, schema, lock, todo, file, outcome>>
      /\ pc[r] = "start"
      /\ pc' = [pc EXCEPT ![r] = "lock"]
  BY DEF Start, Goto
<1>3. TypeOK'
  BY <1>1, <1>2, MigrationsAssumption DEF IInv, TypeOK
<1>4. PlanHolds'
  <2>1. SUFFICES ASSUME NEW q \in Runners, pc'[q] \in {"apply", "record"}
                 PROVE  /\ todo'[q] = Files(release'[q]) \ Known'
                        /\ ~Missing(release[q])'
                        /\ ~Changed(release[q])'
                        /\ pc'[q] = "record" =>
                              /\ file'[q] \in todo'[q]
                              /\ \A m \in todo'[q] \ {file'[q]} :
                                    <<file'[q], m>> \in LocaleBefore
    BY DEF PlanHolds, Files, Known
  <2>2. pc'[q] = pc[q] /\ release'[q] = release[q] /\ Known' = Known
    BY <1>1, <1>2, <2>1 DEF IInv, TypeOK, Known, Files
  <2>3. /\ Missing(release[q])' <=> Missing(release[q])
        /\ Changed(release[q])' <=> Changed(release[q])
    BY <1>2, <2>2 DEF Missing, Changed, Files, Known
  <2>. QED
    BY <1>2, <2>1, <2>2, <2>3 DEF IInv, PlanHolds
<1>5. Exited'
  BY <1>2 DEF IInv, TypeOK, Exited
<1>6. SchemaMatchesHistory'
  BY <1>2, SameHistory
<1>7. SuccessMeansApplied'
  <2>1. \A q \in Runners : outcome[q] = "ok" => release'[q] = release[q]
    BY <1>1, <1>2 DEF IInv, TypeOK, Exited
  <2>. QED
    BY <1>2, <2>1 DEF IInv, SuccessMeansApplied, Files
<1>. QED
  BY <1>3, <1>4, <1>5, <1>6, <1>7 DEF IInv

\* Plan keeps the inductive invariant.
LEMMA PlanKeeps ==
  ASSUME IInv, NEW r \in Runners, Plan(r)
  PROVE  IInv'
<1>1. /\ UNCHANGED <<history, schema, lock, release, file, outcome>>
      /\ pc[r] = "plan"
      /\ pc' = [pc EXCEPT ![r] = "apply"]
      /\ todo' = [todo EXCEPT ![r] = Files(release[r]) \ Known]
      /\ ~Missing(release[r]) /\ ~Changed(release[r])
  BY DEF Plan, Goto, Refused
<1>2. TypeOK'
  BY <1>1 DEF IInv, TypeOK, Files
<1>3. Known' = Known
  BY <1>1 DEF Known, Files
<1>4. \A q \in Runners : /\ Missing(release[q])' <=> Missing(release[q])
                         /\ Changed(release[q])' <=> Changed(release[q])
  BY <1>1, <1>3 DEF Missing, Changed, Files, Known
<1>5. PlanHolds'
  <2>1. ASSUME NEW q \in Runners, q # r
        PROVE  pc'[q] = pc[q] /\ todo'[q] = todo[q] /\ file'[q] = file[q]
    BY <1>1, <2>1 DEF IInv, TypeOK
  <2>2. pc'[r] = "apply" /\ todo'[r] = Files(release[r]) \ Known
    BY <1>1 DEF IInv, TypeOK
  <2>3. \A q \in Runners : Files(release[q])' = Files(release[q])
    BY <1>1 DEF Files
  <2>. QED
    BY <1>1, <1>3, <1>4, <2>1, <2>2, <2>3 DEF IInv, PlanHolds
<1>6. Exited'
  BY <1>1 DEF IInv, TypeOK, Exited
<1>7. SchemaMatchesHistory'
  BY <1>1, SameHistory
<1>8. SuccessMeansApplied'
  BY <1>1 DEF IInv, SuccessMeansApplied, Files
<1>. QED
  BY <1>2, <1>5, <1>6, <1>7, <1>8 DEF IInv

\* Apply keeps the inductive invariant.
LEMMA ApplyKeeps ==
  ASSUME IInv, NEW r \in Runners, Apply(r)
  PROVE  IInv'
<1>1. PICK n \in todo[r] :
         /\ \A m \in todo[r] \ {n} : <<n, m>> \in LocaleBefore
         /\ file' = [file EXCEPT ![r] = n]
  BY DEF Apply
<1>2. /\ UNCHANGED <<history, schema, lock, release, todo, outcome>>
      /\ pc[r] = "apply"
      /\ pc' = [pc EXCEPT ![r] = "record"]
  BY DEF Apply, Goto
<1>3. TypeOK'
  BY <1>1, <1>2 DEF IInv, TypeOK
<1>4. Known' = Known
  BY <1>2 DEF Known, Files
<1>5. \A q \in Runners : /\ Missing(release[q])' <=> Missing(release[q])
                         /\ Changed(release[q])' <=> Changed(release[q])
                         /\ Files(release[q])' = Files(release[q])
  BY <1>2, <1>4 DEF Missing, Changed, Files, Known
<1>6. PlanHolds'
  <2>1. ASSUME NEW q \in Runners, q # r
        PROVE  pc'[q] = pc[q] /\ file'[q] = file[q]
    BY <1>1, <1>2, <2>1 DEF IInv, TypeOK
  <2>2. file'[r] = n
    BY <1>1 DEF IInv, TypeOK
  <2>. QED
    BY <1>1, <1>2, <1>4, <1>5, <2>1, <2>2 DEF IInv, PlanHolds
<1>7. Exited'
  BY <1>2 DEF IInv, TypeOK, Exited
<1>8. SchemaMatchesHistory'
  BY <1>2, SameHistory
<1>9. SuccessMeansApplied'
  BY <1>2 DEF IInv, SuccessMeansApplied, Files
<1>. QED
  BY <1>3, <1>6, <1>7, <1>8, <1>9 DEF IInv

\* What Record does to the history.
LEMMA Recorded ==
  ASSUME IInv, NEW r \in Runners, Record(r)
  PROVE  /\ file[r] \in Names /\ file[r] \in todo[r]
         /\ release[r][file[r]] \in Checksums
         /\ history[file[r]] = Absent
         /\ history'[file[r]] = release[r][file[r]]
         /\ \A n \in Names \ {file[r]} : history'[n] = history[n]
         /\ Known' = Known \cup {file[r]}
         /\ file[r] \notin Known
         /\ lock = r
         /\ \A m \in todo[r] \ {file[r]} : <<file[r], m>> \in LocaleBefore
<1>1. pc[r] = "record" /\ lock = r
  BY DEF Record, IInv, TypeOK
<1>2. /\ file[r] \in todo[r] /\ todo[r] = Files(release[r]) \ Known
      /\ \A m \in todo[r] \ {file[r]} : <<file[r], m>> \in LocaleBefore
  BY <1>1 DEF IInv, PlanHolds
<1>3. /\ file[r] \in Names
      /\ release[r][file[r]] \in Checksums
      /\ file[r] \notin Known
  BY <1>2 DEF Files, IInv, TypeOK
<1>4. /\ history[file[r]] = Absent
      /\ history'[file[r]] = release[r][file[r]]
      /\ \A n \in Names \ {file[r]} : history'[n] = history[n]
  BY <1>3 DEF Record, IInv, TypeOK
<1>5. Known' = Known \cup {file[r]}
  BY <1>3, <1>4, MigrationsAssumption DEF Known, Files
<1>. QED
  BY <1>1, <1>2, <1>3, <1>4, <1>5

\* Record keeps the inductive invariant.
LEMMA RecordKeeps ==
  ASSUME IInv, NEW r \in Runners, Record(r)
  PROVE  IInv'
<1>1. /\ pc[r] = "record"
      /\ history' = [history EXCEPT ![file[r]] = release[r][file[r]]]
      /\ schema' = [schema EXCEPT ![file[r]] = @ + 1]
      /\ todo' = [todo EXCEPT ![r] = @ \ {file[r]}]
      /\ file' = [file EXCEPT ![r] = Absent]
      /\ pc' = [pc EXCEPT ![r] = "apply"]
      /\ UNCHANGED <<lock, release, outcome>>
  BY DEF Record, Goto
<1>2. TypeOK'
  BY <1>1, Recorded DEF IInv, TypeOK
<1>3. PlanHolds'
  <2>1. ASSUME NEW q \in Runners, q # r
        PROVE  pc'[q] = pc[q] /\ pc[q] \notin {"apply", "record"}
    BY <1>1, <2>1, Recorded DEF IInv, TypeOK
  <2>2. pc'[r] = "apply" /\ todo'[r] = todo[r] \ {file[r]}
    BY <1>1 DEF IInv, TypeOK
  <2>3. /\ todo[r] = Files(release[r]) \ Known
        /\ ~Missing(release[r]) /\ ~Changed(release[r])
    BY <1>1 DEF IInv, PlanHolds
  <2>4. Files(release[r])' = Files(release[r])
    BY <1>1 DEF Files
  <2>5. todo'[r] = (Files(release[r]) \ Known)'
    BY <2>2, <2>3, <2>4, Recorded
  <2>6. ~Missing(release[r])'
    BY <1>1, <2>3, Recorded, MigrationsAssumption DEF Missing
  <2>7. ~Changed(release[r])'
    <3>1. SUFFICES ASSUME NEW n \in Known' \cap Files(release[r])
                   PROVE  release[r][n] = history'[n]
      BY <1>1, <2>4 DEF Changed
    <3>2. CASE n = file[r]
      BY <3>2, Recorded
    <3>3. CASE n # file[r]
      <4>1. n \in Known /\ n \in Names
        BY <3>3, Recorded DEF Known, Files
      <4>. QED
        BY <3>1, <3>3, <4>1, <2>3, Recorded DEF Changed
    <3>. QED
      BY <3>2, <3>3
  <2>. QED
    BY <2>1, <2>2, <2>5, <2>6, <2>7 DEF PlanHolds
<1>4. Exited'
  BY <1>1 DEF IInv, TypeOK, Exited
<1>5. SchemaMatchesHistory'
  BY <1>1, Recorded DEF IInv, TypeOK, SchemaMatchesHistory
<1>6. SuccessMeansApplied'
  <2>1. ASSUME NEW q \in Runners, outcome[q] = "ok", NEW n \in Files(release[q])
        PROVE  history'[n] = history[n]
    <3>1. history[n] = release[q][n] /\ release[q][n] # Absent /\ n \in Names
      BY <2>1 DEF IInv, SuccessMeansApplied, Files
    <3>. QED
      BY <3>1, Recorded
  <2>. QED
    BY <1>1, <2>1 DEF IInv, SuccessMeansApplied, Files
<1>. QED
  BY <1>2, <1>3, <1>4, <1>5, <1>6 DEF IInv

\* Finish keeps the inductive invariant.
LEMMA FinishKeeps ==
  ASSUME IInv, NEW r \in Runners, Finish(r)
  PROVE  IInv'
<1>1. /\ UNCHANGED <<history, schema, lock, release, todo, file>>
      /\ pc[r] = "apply" /\ todo[r] = {}
      /\ pc' = [pc EXCEPT ![r] = "unlock"]
      /\ outcome' = [outcome EXCEPT ![r] = "ok"]
  BY DEF Finish, Goto, Exits
<1>2. TypeOK'
  BY <1>1 DEF IInv, TypeOK
<1>3. PlanHolds'
  <2>1. /\ \A q \in Runners \ {r} :
             pc'[q] = pc[q] /\ todo'[q] = todo[q] /\ file'[q] = file[q]
        /\ pc'[r] \notin {"apply", "record"}
    BY <1>1 DEF IInv, TypeOK
  <2>. QED
    BY <1>1, <2>1, PlanKept
<1>4. Exited'
  BY <1>1 DEF IInv, TypeOK, Exited
<1>5. SchemaMatchesHistory'
  BY <1>1, SameHistory
<1>6. SuccessMeansApplied'
  <2>1. \A n \in Files(release[r]) : history[n] = release[r][n]
    BY <1>1 DEF IInv, PlanHolds, Changed
  <2>2. \A q \in Runners \ {r} : outcome'[q] = outcome[q]
    BY <1>1 DEF IInv, TypeOK
  <2>. QED
    BY <1>1, <2>1, <2>2 DEF IInv, SuccessMeansApplied, Files
<1>. QED
  BY <1>2, <1>3, <1>4, <1>5, <1>6 DEF IInv

\* Every step keeps the inductive invariant.
LEMMA NextIInv == IInv /\ [Next]_vars => IInv'
<1>1. ASSUME IInv, NEW r \in Runners, Start(r) \/ Step(r) \/ Die(r) PROVE IInv'
  BY <1>1, StartKeeps, OutsideKeeps, PlanKeeps, ApplyKeeps, RecordKeeps, FinishKeeps
     DEF Step
<1>2. ASSUME IInv, UNCHANGED vars PROVE IInv'
  BY <1>2 DEF vars, IInv, TypeOK, PlanHolds, Exited, SchemaMatchesHistory,
     SuccessMeansApplied, Missing, Changed, Known, Files
<1>. QED
  BY <1>1, <1>2 DEF Next

\* The inductive invariant holds in every reachable state.
LEMMA Invariance == Spec => []IInv
  BY InitIInv, NextIInv, PTL DEF Spec
----------------------------------------------------------------------------
(* What follows from IInv.                                                 *)

\* For any number of runners: the variables have their types, and only the
\* runner with the lock is between lock and unlock.
THEOREM TypeCorrect == Spec => []TypeOK
<1>1. IInv => TypeOK
  BY DEF IInv
<1>. QED
  BY <1>1, Invariance, PTL

\* For any number of runners and files: a file takes effect once, and exactly
\* when it is recorded.
THEOREM EffectsAreRecorded == Spec => []SchemaMatchesHistory
<1>1. IInv => SchemaMatchesHistory
  BY DEF IInv
<1>. QED
  BY <1>1, Invariance, PTL

\* For any releases: success means that the release is applied, for good.
THEOREM SuccessIsLasting == Spec => []SuccessMeansApplied
<1>1. IInv => SuccessMeansApplied
  BY DEF IInv
<1>. QED
  BY <1>1, Invariance, PTL
----------------------------------------------------------------------------
(* OInv is inductive when the two orders are one.                          *)

\* The initial states satisfy the invariant about the order.
LEMMA InitOInv == Init => OInv
<1>1. Init => IInv
  BY InitIInv
<1>2. Init => HistoryFromReleases /\ PlanInOrder /\ PrefixApplied
               /\ RefusedOnlyAfterChange
  BY MigrationsAssumption DEF Init, HistoryFromReleases, PlanInOrder, PrefixApplied,
     RefusedOnlyAfterChange, OutOfOrder, Known, Files, Nothing, Started
<1>. QED
  BY <1>1, <1>2 DEF OInv

\* A plan in order stays so when its first file has been applied.
LEMMA RecordInOrder ==
  ASSUME CodeBefore = LocaleBefore, OInv, NEW r \in Runners, Record(r)
  PROVE  ~OutOfOrder(release[r])'
<1>1. /\ pc[r] = "record" /\ release' = release
      /\ todo[r] = Files(release[r]) \ Known
      /\ ~OutOfOrder(release[r])
  BY DEF Record, OInv, IInv, PlanHolds, PlanInOrder
<1>2. SUFFICES ASSUME NEW n \in Files(release[r]) \ Known',
                      NEW k \in Known', <<n, k>> \in CodeBefore
               PROVE  FALSE
  BY <1>1 DEF OutOfOrder, Files
<1>3. n \in todo[r] \ {file[r]} /\ n \in Names
  BY <1>1, <1>2, Recorded DEF OInv, Files
<1>4. CASE k = file[r]
  BY <1>2, <1>3, <1>4, Recorded, MigrationsAssumption DEF OInv, IsOrder
<1>5. CASE k \in Known
  BY <1>1, <1>2, <1>3, <1>5 DEF OutOfOrder
<1>. QED
  BY <1>2, <1>4, <1>5, Recorded DEF OInv

\* Record keeps the invariant about the order.
LEMMA RecordKeepsOrder ==
  ASSUME CodeBefore = LocaleBefore, OInv, NEW r \in Runners, Record(r)
  PROVE  HistoryFromReleases' /\ PlanInOrder' /\ PrefixApplied'
<1>1. /\ pc[r] = "record" /\ pc' = [pc EXCEPT ![r] = "apply"]
      /\ release' = release
  BY DEF Record, Goto
<1>2. /\ \A q \in Runners : Started(q)' <=> Started(q)
      /\ Started(r)
  BY <1>1 DEF Started, OInv, IInv, TypeOK
<1>3. HistoryFromReleases'
  <2>1. ASSUME NEW n \in Known'
        PROVE  \E q \in Runners : Started(q) /\ release[q][n] = history'[n]
    <3>1. CASE n = file[r]
      BY <3>1, <1>2, Recorded DEF OInv
    <3>2. CASE n # file[r]
      BY <2>1, <3>2, Recorded DEF OInv, HistoryFromReleases, Known, Files
    <3>. QED
      BY <3>1, <3>2
  <2>. QED
    BY <1>1, <1>2, <2>1 DEF HistoryFromReleases
<1>4. PlanInOrder'
  <2>1. ASSUME NEW q \in Runners, pc'[q] \in {"apply", "record"}
        PROVE  q = r
    BY <1>1, <2>1, Recorded DEF OInv, IInv, TypeOK
  <2>. QED
    BY <2>1, <1>1, RecordInOrder DEF PlanInOrder, OutOfOrder, Files, Known
<1>5. PrefixApplied'
  <2>1. ASSUME NEW q \in Runners, Started(q),
               \A p \in Runners : Started(p) => release[p] = release[q]
        PROVE  ~OutOfOrder(release[q])'
    <3>1. release[q] = release[r]
      BY <1>2, <2>1
    <3>. QED
      BY <3>1, <1>1, RecordInOrder DEF OutOfOrder, Files, Known
  <2>. QED
    BY <1>1, <1>2, <2>1 DEF PrefixApplied, OutOfOrder, Files, Known
<1>. QED
  BY <1>3, <1>4, <1>5

\* Start keeps the invariant about the order.
LEMMA StartKeepsOrder ==
  ASSUME OInv, NEW r \in Runners, Start(r)
  PROVE  HistoryFromReleases' /\ PlanInOrder' /\ PrefixApplied'
<1>1. PICK rel \in Releases : release' = [release EXCEPT ![r] = rel]
  BY DEF Start
<1>2. /\ history' = history
      /\ pc[r] = "start"
      /\ pc' = [pc EXCEPT ![r] = "lock"]
      /\ Known' = Known
  BY DEF Start, Goto, Known, Files
<1>3. \A q \in Runners : q # r => release'[q] = release[q] /\ pc'[q] = pc[q]
  BY <1>1, <1>2 DEF OInv, IInv, TypeOK
<1>4. pc'[r] = "lock" /\ release'[r] = rel
  BY <1>1, <1>2 DEF OInv, IInv, TypeOK
<1>5. HistoryFromReleases'
  BY <1>2, <1>3 DEF OInv, HistoryFromReleases, Started
<1>6. PlanInOrder'
  BY <1>2, <1>3, <1>4 DEF OInv, PlanInOrder, OutOfOrder, Files
<1>7. PrefixApplied'
  <2>1. SUFFICES ASSUME NEW q \in Runners, Started(q)',
                        \A p \in Runners : Started(p)' => release'[p] = release'[q],
                        NEW n \in Files(release'[q]) \ Known, NEW k \in Known,
                        <<n, k>> \in CodeBefore
                 PROVE  FALSE
    BY <1>2 DEF PrefixApplied, OutOfOrder, Files
  <2>2. PICK p \in Runners : Started(p) /\ release[p][k] = history[k]
    BY DEF OInv, HistoryFromReleases
  <2>3. p # r /\ Started(p)' /\ release'[p] = release[p] /\ release[p] = release'[q]
    BY <1>2, <1>3, <2>1, <2>2 DEF Started
  <2>4. \A o \in Runners : Started(o) => release[o] = release[p]
    BY <1>2, <1>3, <2>1, <2>3 DEF Started
  <2>5. ~OutOfOrder(release[p])
    BY <2>2, <2>4 DEF OInv, PrefixApplied
  <2>. QED
    BY <2>1, <2>3, <2>5 DEF OutOfOrder, Files
<1>. QED
  BY <1>5, <1>6, <1>7

\* The steps that change neither the history nor a release.
LEMMA QuietKeepsOrder ==
  ASSUME OInv, UNCHANGED <<history, release>>,
         \A q \in Runners : Started(q)' <=> Started(q),
         \A q \in Runners : pc'[q] \in {"apply", "record"} =>
             pc[q] \in {"apply", "record"} \/ ~OutOfOrder(release[q])
  PROVE  HistoryFromReleases' /\ PlanInOrder' /\ PrefixApplied'
<1>1. /\ Known' = Known
      /\ \A q \in Runners : OutOfOrder(release[q])' <=> OutOfOrder(release[q])
  BY DEF Known, Files, OutOfOrder
<1>. QED
  BY <1>1 DEF OInv, HistoryFromReleases, PlanInOrder, PrefixApplied

\* A refusal has a cause in the releases.
LEMMA RefuseHasCause ==
  ASSUME OInv, NEW r \in Runners, Refuse(r)
  PROVE  \/ Misnamed(release[r])
         \/ \E q \in Runners : Started(q) /\ release[q] # release[r]
<1>1. Refused(release[r]) /\ Started(r)
  BY DEF Refuse, Started
<1>2. CASE \A q \in Runners : Started(q) => release[q] = release[r]
  <2>1. \A n \in Known : release[r][n] = history[n]
    BY <1>2 DEF OInv, HistoryFromReleases
  <2>2. ~Missing(release[r]) /\ ~Changed(release[r])
    BY <2>1 DEF Missing, Changed, Known, Files
  <2>3. ~OutOfOrder(release[r])
    BY <1>1, <1>2 DEF OInv, PrefixApplied
  <2>. QED
    BY <1>1, <2>2, <2>3 DEF Refused
<1>. QED
  BY <1>2

\* Every step keeps the refusals deserved.
LEMMA RefusalsKeep ==
  ASSUME OInv, [Next]_vars
  PROVE  RefusedOnlyAfterChange'
<1>1. SUFFICES ASSUME NEW r \in Runners, outcome'[r] = "refused"
               PROVE  \/ Misnamed(release'[r])
                      \/ \E q \in Runners : pc'[q] # "start" /\ release'[q] # release'[r]
  BY DEF RefusedOnlyAfterChange, Misnamed, Files
<1>2. outcome[r] = "refused" \/ Refuse(r)
  BY <1>1 DEF Next, Step, Start, Lock, LockTimesOut, Plan, Refuse, Apply, Record,
     Fail, Finish, Unlock, Die, Exits, vars, OInv, IInv, TypeOK
<1>3. \/ Misnamed(release[r])
      \/ \E q \in Runners : Started(q) /\ release[q] # release[r]
  BY <1>2, RefuseHasCause DEF OInv, RefusedOnlyAfterChange, Started
<1>4. Started(r)
  BY <1>2 DEF OInv, IInv, Exited, Started, Refuse
<1>5. \A q \in Runners : Started(q) => pc'[q] # "start" /\ release'[q] = release[q]
  BY DEF Next, Step, Start, Lock, LockTimesOut, Plan, Refuse, Apply, Record, Fail,
     Finish, Unlock, Die, Ended, Goto, vars, Started, OInv, IInv, TypeOK
<1>. QED
  BY <1>3, <1>4, <1>5 DEF Misnamed, Files

\* Every step keeps the invariant about the order, if there is one order.
LEMMA NextOInv ==
  ASSUME CodeBefore = LocaleBefore
  PROVE  OInv /\ [Next]_vars => OInv'
<1>. SUFFICES ASSUME OInv, [Next]_vars PROVE OInv'
  OBVIOUS
<1>1. IInv'
  BY NextIInv DEF OInv
<1>2. RefusedOnlyAfterChange'
  BY RefusalsKeep
<1>3. HistoryFromReleases' /\ PlanInOrder' /\ PrefixApplied'
  <2>1. ASSUME NEW r \in Runners, Record(r)
        PROVE  HistoryFromReleases' /\ PlanInOrder' /\ PrefixApplied'
    BY <2>1, RecordKeepsOrder
  <2>2. ASSUME NEW r \in Runners, Start(r)
        PROVE  HistoryFromReleases' /\ PlanInOrder' /\ PrefixApplied'
    BY <2>2, StartKeepsOrder
  <2>3. ASSUME NEW r \in Runners,
               Lock(r) \/ LockTimesOut(r) \/ Plan(r) \/ Refuse(r) \/ Apply(r)
                 \/ Fail(r) \/ Finish(r) \/ Unlock(r) \/ Die(r)
        PROVE  HistoryFromReleases' /\ PlanInOrder' /\ PrefixApplied'
    <3>1. UNCHANGED <<history, release>>
      BY <2>3 DEF Lock, LockTimesOut, Plan, Refuse, Apply, Fail, Finish, Unlock, Die
    <3>2. \A q \in Runners : Started(q)' <=> Started(q)
      BY <2>3 DEF Lock, LockTimesOut, Plan, Refuse, Apply, Fail, Finish, Unlock, Die,
         Ended, Goto, Started, OInv, IInv, TypeOK
    <3>3. \A q \in Runners : pc'[q] \in {"apply", "record"} =>
             pc[q] \in {"apply", "record"} \/ ~OutOfOrder(release[q])
      BY <2>3 DEF Lock, LockTimesOut, Plan, Refuse, Apply, Fail, Finish, Unlock, Die,
         Ended, Goto, Refused, OInv, IInv, TypeOK
    <3>. QED
      BY <3>1, <3>2, <3>3, QuietKeepsOrder
  <2>4. CASE UNCHANGED vars
    BY <2>4, QuietKeepsOrder DEF vars, Started
  <2>. QED
    BY <2>1, <2>2, <2>3, <2>4 DEF Next, Step
<1>. QED
  BY <1>1, <1>2, <1>3 DEF OInv

\* When the two orders of the code are one: files are applied in the order of
\* their names, whatever releases were run and wherever they stopped.
THEOREM OrderIsKept ==
  ASSUME CodeBefore = LocaleBefore
  PROVE  Spec => AppliedInOrder
<1>1. ASSUME OInv, [Next]_vars, NEW n \in Names,
             history[n] = Absent, history'[n] # Absent, NEW k \in Known
      PROVE  <<k, n>> \in CodeBefore
  <2>1. PICK r \in Runners : Record(r)
    BY <1>1 DEF Next, Step, Start, Lock, LockTimesOut, Plan, Refuse, Apply, Fail,
       Finish, Unlock, Die, vars
  <2>2. n = file[r] /\ n \in Files(release[r]) \ Known
    BY <1>1, <2>1, Recorded DEF OInv, IInv, PlanHolds, Record
  <2>3. <<n, k>> \notin CodeBefore
    BY <1>1, <2>1, <2>2 DEF Record, OInv, PlanInOrder, OutOfOrder
  <2>. QED
    BY <1>1, <2>2, <2>3, MigrationsAssumption DEF IsOrder, Known, Files
<1>2. OInv /\ [Next]_vars =>
        [\A n \in Names : (history[n] = Absent /\ history'[n] # Absent) =>
            \A k \in Known : <<k, n>> \in CodeBefore]_vars
  BY <1>1
<1>3. Init => OInv
  BY InitOInv
<1>4. OInv /\ [Next]_vars => OInv'
  BY NextOInv
<1>. QED
  BY <1>2, <1>3, <1>4, PTL DEF Spec, AppliedInOrder

\* When the two orders of the code are one: an interrupted run never makes the
\* runner reject the rest of its own files.
THEOREM RefusalsAreDeserved ==
  ASSUME CodeBefore = LocaleBefore
  PROVE  Spec => []RefusedOnlyAfterChange
<1>1. Init => OInv
  BY InitOInv
<1>2. OInv /\ [Next]_vars => OInv'
  BY NextOInv
<1>3. OInv => RefusedOnlyAfterChange
  BY DEF OInv
<1>. QED
  BY <1>1, <1>2, <1>3, PTL DEF Spec
=============================================================================
