------------------------------- MODULE MCHub -------------------------------
(* Constants for checking Hub with TLC. *)
EXTENDS Hub

CONSTANTS c1, c2

TwoClients == {c1, c2}
=============================================================================
