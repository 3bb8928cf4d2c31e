----------------------------- MODULE MCExecutor -----------------------------
(* The pool with a few workers and a queue short enough to be full.        *)
EXTENDS Executor
=============================================================================
