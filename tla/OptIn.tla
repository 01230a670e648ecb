-------------------------------- MODULE OptIn --------------------------------
(***************************************************************************)
(* What the subscriber records promise, per address: a subscription is     *)
(* active only after it was asked for and confirmed, and after leaving only *)
(* when both happen again.                                                 *)
(***************************************************************************)

CONSTANT Addresses

VARIABLE state  \* of each address

vars == <<state>>

Init == state = [a \in Addresses |-> "absent"]

\* A change of one address from a state in S to another.
Move(a, S, new) == state[a] \in S /\ state' = [state EXCEPT ![a] = new]

Ask(a) == Move(a, {"absent", "left"}, "pending")
Confirm(a) == Move(a, {"pending"}, "active")
Leave(a) == Move(a, {"pending", "active"}, "left")
Forget(a) == Move(a, {"pending", "active", "left"}, "absent")

Next == \E a \in Addresses : Ask(a) \/ Confirm(a) \/ Leave(a) \/ Forget(a)

Spec == Init /\ [][Next]_vars

=============================================================================
