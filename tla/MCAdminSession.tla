--------------------------- MODULE MCAdminSession ---------------------------
(* Constants for checking AdminSession with TLC. *)
EXTENDS AdminSession

CONSTANTS t1, t2, k1

TwoTabs == {t1, t2}
OneCode == {k1}
BothRoles == {"admin", "operator"}
=============================================================================
