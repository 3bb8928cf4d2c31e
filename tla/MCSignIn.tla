------------------------------ MODULE MCSignIn ------------------------------
(* One administrator, not created yet, whose email is spelled in two ways    *)
(* from two addresses, once with the right password.                         *)
EXTENDS SignIn, TLC

CONSTANTS e1, a1, a2

McLower == [t \in Typed |-> e1]
McRoster == [e \in Emails |-> "none"]

Try(typed, address, right) ==
    [kind |-> "login", typed |-> typed, address |-> address, right |-> right]

McSignIns == {Try("e1", a1, TRUE), Try("E1", a2, FALSE)}

Alike == Permutations(Calls)
=============================================================================
