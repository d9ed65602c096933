-------------------------- MODULE MCEventDelivery --------------------------
(* Instances of EventDelivery for TLC. *)
EXTENDS EventDelivery, TLC

CONSTANTS a, g0, c1, c2

OneClient == {a}
OneGuild == {g0}
OneGuildShard == [g \in {g0} |-> 0]
OneConn == {c1}
TwoConns == {c1, c2}
OneSeq == {3}

Message0 == [guild |-> g0, buffer |-> TRUE, audience |-> None]
Token0 == [guild |-> g0, buffer |-> FALSE, audience |-> Bot]
Messages == {Message0}
TwoInputs == {Message0, Token0}

ConnSymmetry == Permutations(TwoConns)
=============================================================================
