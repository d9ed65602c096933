--------------------------- MODULE VoiceOwnership ---------------------------
(***************************************************************************)
(* What the voice owner lock promises, without connections, tasks or        *)
(* Discord: every guild has at most one holder, who wants its voice or has  *)
(* given it up.  A guild is taken one at a time, and only from nobody or    *)
(* from a holder that has given it up.  VoiceLock implements this.          *)
(***************************************************************************)
CONSTANTS Clients, Guilds, None

VARIABLES
    holder,  \* the client of the guild's VoiceOwner, or None
    wants    \* its wants_voice

vars == <<holder, wants>>

Init ==
    /\ holder = [g \in Guilds |-> None]
    /\ wants = [g \in Guilds |-> FALSE]

\* A guild is left as it is, its holder gives it up, or a guild that was given
\* up is free again.
Keep(g) == holder'[g] = holder[g] /\ wants'[g] = wants[g]
GiveUp(g) == holder'[g] = holder[g] /\ ~wants'[g]
Free(g) == ~wants[g] /\ holder'[g] = None /\ ~wants'[g]

\* A client takes a guild that is free, its own, or given up by its holder.
Take(g, cl) ==
    /\ holder[g] \in {None, cl} \/ ~wants[g]
    /\ holder'[g] = cl
    /\ wants'[g]
    /\ \A h \in Guilds \ {g} : Keep(h)

Next ==
    \/ \A g \in Guilds : Keep(g) \/ GiveUp(g) \/ Free(g)
    \/ \E g \in Guilds, cl \in Clients : Take(g, cl)

Spec == Init /\ [][Next]_vars
=============================================================================
