----------------------------- MODULE Readiness -----------------------------
(***************************************************************************)
(* modules/health: the readiness of the API, asked while runners migrate   *)
(* the database.  The API looks for the row of one file, and then asks     *)
(* Redis; each question is answered or times out after two seconds.        *)
(***************************************************************************)
EXTENDS Migrations

CONSTANT Wanted     \* 0003_catalog_write.sql

ASSUME ReadinessAssumption == Wanted \in Names

VARIABLE probe      \* the question GET /api/v1/health/ready is at

allVars == <<vars, probe>>

AskReady ==
    /\ probe = "idle"
    /\ probe' = "postgres"
    /\ UNCHANGED vars

CheckPostgresAnyRows ==
    /\ probe = "postgres"
    /\ probe' \in {"redis", "unready"}
    /\ UNCHANGED vars

\* checkPostgres: a result without the row, or no result, is the answer.
CheckPostgres ==
    /\ probe = "postgres"
    /\ \/ probe' = "redis" /\ history[Wanted] # Absent
       \/ probe' = "unready"
    /\ UNCHANGED vars

\* checkRedis: PONG or not.
CheckRedis ==
    /\ probe = "redis"
    /\ probe' \in {"ready", "unready"}
    /\ UNCHANGED vars

AskAgain ==
    /\ probe \in {"ready", "unready"}
    /\ probe' = "idle"
    /\ UNCHANGED vars

Probe == AskReady \/ CheckPostgres \/ CheckRedis \/ AskAgain

WatchedInit == Init /\ probe = "idle"
WatchedNext == Probe \/ (Next /\ UNCHANGED probe)
WatchedSpec == WatchedInit /\ [][WatchedNext]_allVars /\ Fairness
----------------------------------------------------------------------------
(* Properties.                                                             *)

\* What a release has up to the file the API looks for is applied.
AppliedUpToWanted(rel) ==
    /\ Wanted \in Files(rel)
    /\ \A n \in Files(rel) : n = Wanted \/ <<n, Wanted>> \in LocaleBefore =>
          schema[n] = 1 /\ history[n] = rel[n]

\* The API says it is ready only when some release that has the file it looks
\* for was applied up to that file, each file once and as the release has it: one
\* row stands for all before it, whatever runners do and wherever they stopped.
ReadyMeansMigrated ==
    probe = "ready" => \E r \in Runners : AppliedUpToWanted(release[r])
=============================================================================
