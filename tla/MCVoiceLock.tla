---------------------------- MODULE MCVoiceLock ----------------------------
(* Instances of VoiceLock for TLC. *)
EXTENDS VoiceLock, TLC

CONSTANTS a, b, g1, c1, c2

OneShard == {0}
TwoShards == {0, 1}
OneGuild == {g1}
OneGuildShard == [g \in {g1} |-> 0]
TwoClients == {a, b}
TwoConns == {c1, c2}
OneConn == {c1}

\* Clients and connections are interchangeable; only for runs without liveness.
Symmetry == Permutations(TwoClients) \cup Permutations(TwoConns)
=============================================================================
