------------------------ MODULE MCServerLifecycle ------------------------
(* Constants for checking ServerLifecycle with TLC. *)
EXTENDS ServerLifecycle

CONSTANTS m1, m2, k1, k2, c1, c2, c3

OneMonitor == {m1}
TwoMonitors == {m1, m2}
TwoCycles == {k1, k2}
TwoChecks == {c1, c2}
ThreeChecks == {c1, c2, c3}

Intervals == [m \in Monitors |-> IF m = m1 THEN 2 ELSE 5]
=============================================================================
