------------------------- MODULE MCOutageDetection -------------------------
(* Constants for checking OutageDetection with TLC. *)
EXTENDS OutageDetection, TLC

CONSTANTS m1, m2, a, b, sub, c1, c2, c3, c4, p1, p2, p3, p4, i1

OneMonitor == {m1}
SecondMonitor == {m2}
TwoMonitors == {m1, m2}
NoSet == {}
OneComponent == {a}
TwoComponents == {a, b}
OneSub == {sub}
SubOfA == (sub :> a)
NoParent == [s \in {} |-> a]

OwnTarget == m1 :> a
OwnTargets == m1 :> a @@ m2 :> b
SharedTarget == m1 :> a @@ m2 :> a
SubTarget == m1 :> a @@ m2 :> sub

TwoChecks == {c1, c2}
ThreeChecks == {c1, c2, c3}
FourChecks == {c1, c2, c3, c4}
OneManual == {i1}

\* Results an earlier process stored.
TwoFailures == p1 :> m1 @@ p2 :> m1
TwoFailuresEach == p1 :> m1 @@ p2 :> m1 @@ p3 :> m2 @@ p4 :> m2

BothFaults == {"read", "write"}
EveryOp == {"create", "resolve", "reopen", "affect", "delete", "status",
            "monitor"}
IncidentOps == {"create", "resolve", "reopen", "delete", "monitor"}
=============================================================================
