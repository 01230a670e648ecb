--------------------------- MODULE MCMaintenance ---------------------------
(* Constants for checking Maintenance with TLC. *)
EXTENDS Maintenance

CONSTANTS d1, d2, r1

OneWindow == {d1}
TwoWindows == {d1, d2}
OneRequest == {r1}
=============================================================================
