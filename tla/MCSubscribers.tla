--------------------------- MODULE MCSubscribers ---------------------------
(* Constants for checking Subscribers with TLC. *)
EXTENDS Subscribers

CONSTANTS s1, s2, a1, r1

OneSub == {s1}
TwoSubs == {s1, s2}
OneAddress == {a1}
OneRequest == {r1}
=============================================================================
