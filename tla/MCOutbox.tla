------------------------------ MODULE MCOutbox ------------------------------
(* A worker with its two connections; statements that outlive both the     *)
(* time it waits and the delay between two attempts.                       *)
EXTENDS Outbox

CONSTANTS w1, c1, c2

McOwner == [c \in Connections |-> w1]
=============================================================================
