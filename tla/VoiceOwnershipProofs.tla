------------------------ MODULE VoiceOwnershipProofs ------------------------
(***************************************************************************)
(* VoiceLock implements the abstract lock VoiceOwnership, for every set of   *)
(* clients, guilds, connections and shards and any number of workers: each   *)
(* step of a handler, the sweeper or a dispatcher gives up, frees or takes   *)
(* guilds as the abstract lock does, or does not touch them.                 *)
(***************************************************************************)
EXTENDS VoiceLockProofs

-----------------------------------------------------------------------------
(* The steps of the abstract lock, in terms of voice_owners *)

Kept(g) == owners'[g].client = owners[g].client /\ owners'[g].wants = owners[g].wants
GivenUp(g) == owners'[g].client = owners[g].client /\ ~owners'[g].wants
Freed(g) == ~owners[g].wants /\ owners'[g].client = None /\ ~owners'[g].wants

Released == \A g \in Guilds : Kept(g) \/ GivenUp(g) \/ Freed(g)

Taken(g, cl) ==
    /\ owners[g].client \in {None, cl} \/ ~owners[g].wants
    /\ owners'[g].client = cl
    /\ owners'[g].wants
    /\ \A h \in Guilds \ {g} : Kept(h)

TookOne == \E g \in Guilds, cl \in Clients : Taken(g, cl)

\* A step that leaves voice_owners alone releases nothing.
LEMMA UntouchedReleases == owners' = owners => Released
BY DEF Released, Kept

-----------------------------------------------------------------------------
(* One lemma for each task that writes voice_owners *)

\* claim_voice takes the guild of the command, or its holder gives it up.
LEMMA ClaimVoiceMaps ==
  ASSUME TypeOK, NEW c \in Conns, ClaimVoice(c)
  PROVE  Released \/ TookOne
<1> DEFINE g == command[c].guild
           mine == [client |-> client[c], disconnected |-> "live", wants |-> TRUE]
           gaveUp == [owners[g] EXCEPT !.wants = FALSE]
<1>1. client[c] \in Clients /\ g \in Guilds
  BY DEF ClaimVoice, TypeOK, ConnsOK, Command
<1>2. owners \in [Guilds -> VoiceOwner] /\ owners[g] \in VoiceOwner
  BY <1>1 DEF TypeOK, OwnersOK
<1>3. gaveUp.client = owners[g].client /\ ~gaveUp.wants
  BY <1>2, GaveUp
<1>4. mine.client = client[c] /\ mine.wants
  OBVIOUS
<1>5. \/ owners' = owners
      \/ /\ owners' = [owners EXCEPT ![g] = mine]
         /\ Allowed(owners[g], client[c], inVoice[c])
      \/ owners' = [owners EXCEPT ![g] = gaveUp]
  BY DEF ClaimVoice
<1> HIDE DEF g, mine, gaveUp
<1>6. CASE owners' = owners
  BY <1>6, UntouchedReleases
<1>7. CASE owners' = [owners EXCEPT ![g] = mine] /\ Allowed(owners[g], client[c], inVoice[c])
  <2>1. owners[g].client \in {None, client[c]} \/ ~owners[g].wants
    BY <1>7 DEF Allowed
  <2>2. owners'[g] = mine /\ \A h \in Guilds \ {g} : owners'[h] = owners[h]
    BY <1>1, <1>2, <1>7
  <2>3. Taken(g, client[c])
    BY <1>4, <2>1, <2>2 DEF Taken, Kept
  <2> QED
    BY <1>1, <2>3 DEF TookOne
<1>8. CASE owners' = [owners EXCEPT ![g] = gaveUp]
  <2>1. ASSUME NEW h \in Guilds PROVE Kept(h) \/ GivenUp(h)
    <3>1. owners'[h] = IF h = g THEN gaveUp ELSE owners[h]
      BY <1>2, <1>8
    <3> QED
      BY <1>3, <3>1 DEF Kept, GivenUp
  <2> QED
    BY <2>1 DEF Released
<1> QED
  BY <1>5, <1>6, <1>7, <1>8

\* The other steps of a handler: a reconnect or a teardown keeps every holder
\* and its wish, a fresh IDENTIFY gives the client's guilds up.
LEMMA HandlerMaps ==
  ASSUME TypeOK, NEW c \in Conns, Continue(c)
  PROVE  Released \/ TookOne
<1>1. pc[c] # "closed" => client[c] \in Clients
  BY DEF TypeOK, ConnsOK
<1>2. CASE MarkConnected(c) \/ MarkDisconnected(c)
  <2>1. \A g \in Guilds : Kept(g)
    BY <1>1, <1>2, SetDisconnectedEffect DEF MarkConnected, MarkDisconnected, TypeOK, Kept
  <2> QED
    BY <2>1 DEF Released
<1>3. CASE LeaveVoiceForClient(c)
  <2>1. ASSUME NEW g \in Guilds PROVE Kept(g) \/ GivenUp(g)
    <3>1. owners'[g] = owners[g] \/ owners'[g] = [owners[g] EXCEPT !.wants = FALSE]
      BY <1>3 DEF LeaveVoiceForClient
    <3> QED
      BY <3>1, GaveUp DEF TypeOK, OwnersOK, Kept, GivenUp
  <2> QED
    BY <2>1 DEF Released
<1>4. CASE ClaimVoice(c)
  BY <1>4, ClaimVoiceMaps
<1>5. CASE (\E h \in Guilds : SendLeave(c, h)) \/ CreateSession(c) \/ SendCommand(c)
  BY <1>5, UntouchedReleases DEF SendLeave, CreateSession, SendCommand
<1> QED
  BY <1>2, <1>3, <1>4, <1>5 DEF Continue

\* The sweeper gives guilds up and frees the ones given up before.
LEMMA SweepMaps ==
  ASSUME TypeOK, Sweep
  PROVE  Released
<1>1. CASE TakeStaleVoiceOwners
  <2>1. ASSUME NEW g \in Guilds PROVE Kept(g) \/ GivenUp(g) \/ Freed(g)
    <3>1. \/ owners'[g] = owners[g]
          \/ owners'[g] = [owners[g] EXCEPT !.wants = FALSE]
          \/ owners'[g] = NoOwner /\ ~owners[g].wants
      BY <1>1 DEF TakeStaleVoiceOwners
    <3>2. NoOwner.client = None /\ ~NoOwner.wants
      BY DEF NoOwner
    <3> QED
      BY <3>1, <3>2, GaveUp DEF TypeOK, OwnersOK, Kept, GivenUp, Freed
  <2> QED
    BY <2>1 DEF Released
<1> QED
  BY <1>1, UntouchedReleases DEF Sweep, SweepStart, SweepReadVoice, SweepSendLeave, SweepEnd

\* A dispatcher frees a guild that was given up when the bot leaves it.
LEMMA DispatcherMaps ==
  ASSUME TypeOK, NEW s \in LocalShards, Dispatcher(s)
  PROVE  Released
<1>1. CASE DispatchEvent(s)
  <2>1. NoOwner.client = None /\ ~NoOwner.wants
    BY DEF NoOwner
  <2>2. \A g \in Guilds : Kept(g) \/ Freed(g)
    BY <1>1, <2>1, OnBotVoiceLeaveEffect DEF Kept, Freed
  <2> QED
    BY <2>2 DEF Released
<1> QED
  BY <1>1, UntouchedReleases DEF Dispatcher, UpdateCache

\* The grace period is no part of the abstract lock.
LEMMA GraceMaps ==
  ASSUME TypeOK, NEW h \in Guilds, GraceElapses(h)
  PROVE  Released
<1>1. ASSUME NEW g \in Guilds PROVE Kept(g)
  <2>1. \/ owners'[g] = owners[g]
        \/ owners'[g] = [owners[g] EXCEPT !.disconnected = "expired"]
    BY DEF GraceElapses, TypeOK, OwnersOK
  <2> QED
    BY <2>1, Disconnected DEF TypeOK, OwnersOK, Kept
<1> QED
  BY <1>1 DEF Released

\* Every step of the proxy and its environment, on voice_owners.
LEMMA OwnersStep ==
  ASSUME TypeOK, [Next]_vars
  PROVE  Released \/ TookOne
<1>1. ASSUME NEW c \in Conns,
             \/ \E cl \in Clients : (\E s \in LocalShards : Identify(c, cl, s)) \/ Resume(c, cl)
             \/ \E h \in Guilds, join \in BOOLEAN : VoiceCommand(c, h, join)
             \/ Disconnect(c)
      PROVE  owners' = owners
  BY <1>1 DEF Identify, Resume, VoiceCommand, Disconnect
<1>2. ASSUME \/ \E h \in Guilds : DiscordKicks(h) \/ DiscordMovesServer(h)
             \/ \E s \in LocalShards :
                  SessionInvalidated(s) \/ SessionResumed(s) \/ Discord(s)
             \/ \E cl \in Revocable, h \in Guilds : SetGranted(cl, h)
      PROVE  owners' = owners
  BY <1>2 DEF DiscordKicks, DiscordMovesServer, SessionInvalidated, SessionResumed,
     Discord, DiscordJoins, DiscordIgnoresJoin, DiscordLeaves, TakeCommand, SetGranted
<1>3. CASE UNCHANGED vars
  BY <1>3, UntouchedReleases DEF vars
<1> QED
  BY <1>1, <1>2, <1>3, UntouchedReleases, HandlerMaps, SweepMaps, DispatcherMaps, GraceMaps
     DEF Next

-----------------------------------------------------------------------------
(* The refinement *)

\* A step on voice_owners, seen through the refinement mapping.
LEMMA MappedStep ==
  ASSUME Released \/ TookOne
  PROVE  Ownership!Next
<1>1. ASSUME NEW g \in Guilds
      PROVE  /\ Kept(g) => Ownership!Keep(g)
             /\ GivenUp(g) => Ownership!GiveUp(g)
             /\ Freed(g) => Ownership!Free(g)
  BY DEF Kept, GivenUp, Freed, Ownership!Keep, Ownership!GiveUp, Ownership!Free
<1>2. CASE Released
  <2>1. \A g \in Guilds : Ownership!Keep(g) \/ Ownership!GiveUp(g) \/ Ownership!Free(g)
    BY <1>1, <1>2 DEF Released
  <2> QED
    BY <2>1 DEF Ownership!Next
<1>3. CASE TookOne
  <2>1. PICK g \in Guilds, cl \in Clients : Taken(g, cl)
    BY <1>3 DEF TookOne
  <2>2. \A h \in Guilds \ {g} : Ownership!Keep(h)
    BY <1>1, <2>1 DEF Taken
  <2>3. Ownership!Take(g, cl)
    BY <2>1, <2>2 DEF Taken, Ownership!Take
  <2> QED
    BY <2>3 DEF Ownership!Next
<1> QED
  BY <1>2, <1>3

\* The voice owner lock implements VoiceOwnership: however the handlers, the
\* sweeper and the dispatchers interleave, a guild is taken one at a time and only from
\* nobody or from a holder that gave it up.
THEOREM LockImplementsOwnership == Spec => ImplementsOwnership
<1>1. Init => Ownership!Init
  BY DEF Init, Ownership!Init, NoOwner
<1>2. TypeOK /\ [Next]_vars => [Ownership!Next]_(Ownership!vars)
  BY OwnersStep, MappedStep
<1> QED
  BY <1>1, <1>2, TypeCorrect, PTL DEF Spec, ImplementsOwnership, Ownership!Spec
=============================================================================
