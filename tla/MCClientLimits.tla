--------------------------- MODULE MCClientLimits ---------------------------
(* Instances of ClientLimits for TLC. *)
EXTENDS ClientLimits

CONSTANT a

OneClient == {a}
=============================================================================
