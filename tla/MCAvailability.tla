--------------------------- MODULE MCAvailability ---------------------------
(* Constants for checking Availability with TLC. *)
EXTENDS Availability, TLC

CONSTANTS i1, i2, i3, c1

ThreeIncidents == {i1, i2, i3}
OneComponent == {c1}

\* What follows the answer adds nothing to it.
Unanswered == request.pc # "answered"

Alike == Permutations(Incidents) \cup Permutations(Components)
=============================================================================
