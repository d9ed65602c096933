-------------------------- MODULE MCClientRegistry --------------------------
(* The instance of ClientRegistry for TLC. *)
EXTENDS ClientRegistry

CONSTANTS x, y, s1

TwoIds == {x, y}
OneSecret == {s1}
OneLogin == {<<x, s1>>}
SeedNone == [id \in Ids |-> None]
=============================================================================
