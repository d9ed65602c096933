---------------------------- MODULE MCConnection ----------------------------
(* Instances of Connection for TLC. *)
EXTENDS Connection

CONSTANTS a, b

TwoClients == {a, b}
=============================================================================
