----------------------------- MODULE Migrations -----------------------------
(***************************************************************************)
(* Runners of infra/scripts/migrate.mjs on one database.  Each comes with  *)
(* the files of its release, waits for the advisory lock, compares the     *)
(* files with schema_migrations (planMigrations) and applies what is new,  *)
(* one transaction per file.  A runner can be killed, and a file can fail, *)
(* between any two statements.                                             *)
(*                                                                         *)
(* File names are elements of Names.  Two orders are in the code: `<` and  *)
(* sort() compare code units, localeCompare compares as a dictionary does. *)
(***************************************************************************)
EXTENDS Naturals

CONSTANTS
    Runners,
    Names,          \* of migration files
    ValidNames,     \* those that match NNNN_name.sql
    CodeBefore,     \* pairs of names, in the order of their code units
    LocaleBefore,   \* pairs of names, in the order of localeCompare
    Checksums,
    Releases,       \* for each release the checksum of each file, or Absent
    Absent

IsOrder(R) ==
    /\ R \subseteq Names \X Names
    /\ \A m, n \in Names :
         /\ m # n => <<m, n>> \in R \/ <<n, m>> \in R
         /\ ~(<<m, n>> \in R /\ <<n, m>> \in R)
    /\ \A l, m, n \in Names : <<l, m>> \in R /\ <<m, n>> \in R => <<l, n>> \in R

ASSUME MigrationsAssumption ==
    /\ Absent \notin Checksums \cup Runners \cup Names
    /\ Releases \subseteq [Names -> Checksums \cup {Absent}]
    /\ IsOrder(CodeBefore)
    /\ IsOrder(LocaleBefore)

VARIABLES
    history,    \* schema_migrations: the checksum of each applied file
    schema,     \* how often the statements of each file took effect
    lock,       \* the runner that has the advisory lock, or Absent
    pc,
    release,    \* the files in the image of each runner
    todo,       \* what is left of its plan
    file,       \* the file whose transaction is open, or Absent
    outcome     \* how the runner exits

vars == <<history, schema, lock, pc, release, todo, file, outcome>>

Nothing == [n \in Names |-> Absent]

Init ==
    /\ history = Nothing
    /\ schema = [n \in Names |-> 0]
    /\ lock = Absent
    /\ pc = [r \in Runners |-> "start"]
    /\ release = [r \in Runners |-> Nothing]
    /\ todo = [r \in Runners |-> {}]
    /\ file = [r \in Runners |-> Absent]
    /\ outcome = [r \in Runners |-> "none"]

Goto(r, label) == pc' = [pc EXCEPT ![r] = label]
Exits(r, how) == outcome' = [outcome EXCEPT ![r] = how]
----------------------------------------------------------------------------
(* planMigrations(files, history)                                          *)

Files(rel) == {n \in Names : rel[n] # Absent}
Known == Files(history)

Missing(rel) == \E n \in Known : rel[n] = Absent

AnyContent(rel) == FALSE

Changed(rel) == \E n \in Known \cap Files(rel) : rel[n] # history[n]

AnyOrder(rel) == FALSE

\* The last applied name, in the order of sort(), comes after a new one.
OutOfOrder(rel) ==
    \E n \in Files(rel) \ Known : \E k \in Known : <<n, k>> \in CodeBefore

Misnamed(rel) == ~(Files(rel) \subseteq ValidNames)

Refused(rel) ==
    Missing(rel) \/ Changed(rel) \/ OutOfOrder(rel) \/ Misnamed(rel)
----------------------------------------------------------------------------
(* A runner.                                                               *)

Start(r) ==
    /\ pc[r] = "start"
    /\ \E rel \in Releases : release' = [release EXCEPT ![r] = rel]
    /\ Goto(r, "lock")
    /\ UNCHANGED <<history, schema, lock, todo, file, outcome>>

LockAnyway(r) ==
    /\ pc[r] = "lock"
    /\ lock' = r
    /\ Goto(r, "plan")
    /\ UNCHANGED <<history, schema, release, todo, file, outcome>>

Lock(r) ==
    /\ pc[r] = "lock"
    /\ lock = Absent
    /\ lock' = r
    /\ Goto(r, "plan")
    /\ UNCHANGED <<history, schema, release, todo, file, outcome>>

\* statement_timeout holds for the wait for the lock too.
LockTimesOut(r) ==
    /\ pc[r] = "lock"
    /\ lock # Absent
    /\ Exits(r, "failed")
    /\ Goto(r, "ended")
    /\ UNCHANGED <<history, schema, lock, release, todo, file>>

Plan(r) ==
    /\ pc[r] = "plan"
    /\ ~Refused(release[r])
    /\ todo' = [todo EXCEPT ![r] = Files(release[r]) \ Known]
    /\ Goto(r, "apply")
    /\ UNCHANGED <<history, schema, lock, release, file, outcome>>

Refuse(r) ==
    /\ pc[r] = "plan"
    /\ Refused(release[r])
    /\ Exits(r, "refused")
    /\ Goto(r, "unlock")
    /\ UNCHANGED <<history, schema, lock, release, todo, file>>

ApplyWithoutBegin(r) ==
    /\ pc[r] = "apply"
    /\ \E n \in todo[r] :
         /\ \A m \in todo[r] \ {n} : <<n, m>> \in LocaleBefore
         /\ file' = [file EXCEPT ![r] = n]
         /\ schema' = [schema EXCEPT ![n] = @ + 1]
    /\ Goto(r, "record")
    /\ UNCHANGED <<history, lock, release, todo, outcome>>

\* BEGIN and the statements of the next file.
Apply(r) ==
    /\ pc[r] = "apply"
    /\ \E n \in todo[r] :
         /\ \A m \in todo[r] \ {n} : <<n, m>> \in LocaleBefore
         /\ file' = [file EXCEPT ![r] = n]
    /\ Goto(r, "record")
    /\ UNCHANGED <<history, schema, lock, release, todo, outcome>>

\* INSERT INTO schema_migrations and COMMIT; version is the primary key.
Record(r) ==
    /\ pc[r] = "record"
    /\ history[file[r]] = Absent
    /\ history' = [history EXCEPT ![file[r]] = release[r][file[r]]]
    /\ schema' = [schema EXCEPT ![file[r]] = @ + 1]
    /\ todo' = [todo EXCEPT ![r] = @ \ {file[r]}]
    /\ file' = [file EXCEPT ![r] = Absent]
    /\ Goto(r, "apply")
    /\ UNCHANGED <<lock, release, outcome>>

FailAndRetry(r) ==
    /\ pc[r] = "record"
    /\ file' = [file EXCEPT ![r] = Absent]
    /\ Goto(r, "apply")
    /\ UNCHANGED <<history, schema, lock, release, todo, outcome>>

FailAndGoOn(r) ==
    /\ pc[r] = "record"
    /\ todo' = [todo EXCEPT ![r] = @ \ {file[r]}]
    /\ file' = [file EXCEPT ![r] = Absent]
    /\ Goto(r, "apply")
    /\ UNCHANGED <<history, schema, lock, release, outcome>>

\* A statement of the file or the INSERT fails: ROLLBACK, and the rest of the
\* plan is given up.
Fail(r) ==
    /\ pc[r] = "record"
    /\ file' = [file EXCEPT ![r] = Absent]
    /\ Exits(r, "failed")
    /\ Goto(r, "unlock")
    /\ UNCHANGED <<history, schema, lock, release, todo>>

Finish(r) ==
    /\ pc[r] = "apply"
    /\ todo[r] = {}
    /\ Exits(r, "ok")
    /\ Goto(r, "unlock")
    /\ UNCHANGED <<history, schema, lock, release, todo, file>>

\* The session and what it held are gone.
Ended(r) ==
    /\ lock' = IF lock = r THEN Absent ELSE lock
    /\ file' = [file EXCEPT ![r] = Absent]
    /\ Goto(r, "ended")

Unlock(r) ==
    /\ pc[r] = "unlock"
    /\ Ended(r)
    /\ UNCHANGED <<history, schema, release, todo, outcome>>

\* The process or its connection is killed.
Die(r) ==
    /\ pc[r] \in {"lock", "plan", "apply", "record"}
    /\ Ended(r)
    /\ Exits(r, "failed")
    /\ UNCHANGED <<history, schema, release, todo>>
----------------------------------------------------------------------------
Step(r) ==
    \/ Lock(r) \/ LockTimesOut(r)
    \/ Plan(r) \/ Refuse(r)
    \/ Apply(r) \/ Record(r) \/ Fail(r)
    \/ Finish(r) \/ Unlock(r)

Next == \E r \in Runners : Start(r) \/ Step(r) \/ Die(r)

Spec == Init /\ [][Next]_vars

\* A runner that was started goes on; statement_timeout ends each statement.
Fairness == \A r \in Runners : WF_vars(Step(r))

FairSpec == Spec /\ Fairness
----------------------------------------------------------------------------
(* Properties.                                                             *)

\* Each variable has its type, and only the runner with the lock is between
\* lock and unlock.
TypeOK ==
    /\ history \in [Names -> Checksums \cup {Absent}]
    /\ schema \in [Names -> Nat]
    /\ lock \in Runners \cup {Absent}
    /\ pc \in [Runners -> {"start", "lock", "plan", "apply", "record", "unlock", "ended"}]
    /\ release \in [Runners -> [Names -> Checksums \cup {Absent}]]
    /\ todo \in [Runners -> SUBSET Names]
    /\ file \in [Runners -> Names \cup {Absent}]
    /\ outcome \in [Runners -> {"none", "ok", "failed", "refused"}]
    /\ \A r \in Runners : pc[r] \in {"plan", "apply", "record", "unlock"} <=> lock = r

\* A file takes effect at most once, and exactly when the history says so:
\* a runner that dies between the statements of a file and its record leaves
\* neither, and the next one repeats nothing.
SchemaMatchesHistory ==
    \A n \in Names : schema[n] = IF n \in Known THEN 1 ELSE 0

\* migrations.md: files are applied lexicographically, over the whole life of
\* the database, whatever releases were run on it and wherever they stopped.
AppliedInOrder ==
    [][\A n \in Names : (history[n] = Absent /\ history'[n] # Absent) =>
          \A k \in Known : <<k, n>> \in CodeBefore]_vars

\* A runner that exits with success leaves all files of its release applied,
\* as they are in the release, and no later runner undoes that.
SuccessMeansApplied ==
    \A r \in Runners : outcome[r] = "ok" =>
        \A n \in Files(release[r]) : history[n] = release[r][n]

\* migrations.md: the runner rejects changed files, missing history and
\* out-of-order additions.  So it rejects nothing as long as all runs have
\* the same, well named files, wherever an earlier run stopped.
RefusedOnlyAfterChange ==
    \A r \in Runners : outcome[r] = "refused" =>
        \/ Misnamed(release[r])
        \/ \E q \in Runners : pc[q] # "start" /\ release[q] # release[r]

\* Every runner that started exits, also while another one has the lock.
EveryRunEnds == \A r \in Runners : pc[r] = "lock" ~> pc[r] = "ended"
=============================================================================
