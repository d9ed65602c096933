-------------------------- MODULE VoiceLockProofs --------------------------
(***************************************************************************)
(* Theorems about VoiceLock for every set of clients, guilds, connections   *)
(* and shards and any number of workers: type correctness, that no step     *)
(* takes a guild from an owner that wants it, and that an owner without a   *)
(* connection never escapes the grace period.                               *)
(***************************************************************************)
EXTENDS VoiceLock, FiniteSetTheorems, TLAPS

-----------------------------------------------------------------------------
(* Helpers *)

\* What giving up (wants_voice = false) leaves of an owner record.
LEMMA GaveUp ==
  ASSUME NEW o \in VoiceOwner
  PROVE  LET p == [o EXCEPT !.wants = FALSE]
         IN  /\ p \in VoiceOwner
             /\ p.client = o.client
             /\ p.disconnected = o.disconnected
             /\ ~p.wants
BY DEF VoiceOwner

\* What a new disconnected_at leaves of an owner record.
LEMMA Disconnected ==
  ASSUME NEW o \in VoiceOwner, NEW at \in {"live", "grace", "expired"}
  PROVE  LET p == [o EXCEPT !.disconnected = at]
         IN  /\ p \in VoiceOwner
             /\ p.client = o.client
             /\ p.disconnected = at
             /\ p.wants = o.wants
BY DEF VoiceOwner

\* set_voice_owner_disconnected changes disconnected_at of the client's owner
\* records and nothing else.
LEMMA SetDisconnectedEffect ==
  ASSUME OwnersOK, NEW cl \in Clients, NEW at \in {"live", "grace", "expired"},
         SetDisconnected(cl, at)
  PROVE  /\ OwnersOK'
         /\ \A g \in Guilds :
              /\ owners'[g].client = owners[g].client
              /\ owners'[g].wants = owners[g].wants
              /\ owners'[g].disconnected = IF owners[g].client = cl THEN at
                                           ELSE owners[g].disconnected
<1>1. \A g \in Guilds :
        /\ owners'[g] \in VoiceOwner
        /\ owners'[g].client = owners[g].client
        /\ owners'[g].wants = owners[g].wants
  BY Disconnected DEF OwnersOK, SetDisconnected
<1>2. ASSUME NEW g \in Guilds
      PROVE  owners'[g].disconnected = IF owners[g].client = cl THEN at
                                       ELSE owners[g].disconnected
  <2>1. CASE owners[g].client = cl
    BY <2>1, Disconnected DEF OwnersOK, SetDisconnected
  <2>2. CASE owners[g].client # cl
    BY <2>2 DEF SetDisconnected
  <2> QED
    BY <2>1, <2>2
<1>3. owners' \in [Guilds -> VoiceOwner]
  BY <1>1 DEF SetDisconnected
<1> QED
  BY <1>1, <1>2, <1>3 DEF OwnersOK, Owned

\* A command is queued on the shard of its guild.
LEMMA EnqueueType ==
  ASSUME upstream \in [Shards -> Seq(Command)], NEW cmd \in Command, Enqueue(cmd)
  PROVE  upstream' \in [Shards -> Seq(Command)]
<1>1. ShardOf[cmd.guild] \in Shards
  BY ShardAssumption DEF Command
<1> QED
  BY <1>1 DEF Enqueue

\* send_voice_leave queues a well-formed command.
LEMMA LeaveType == ASSUME NEW g \in Guilds PROVE Leave(g) \in Command
BY DEF Leave, Command, MaybeClient

\* The bot's leave (VOICE_STATE_UPDATE with a null channel) is an event.
LEMMA LeaveEventType ==
  ASSUME NEW g \in Guilds
  PROVE  LeaveEvent(g) \in Event /\ <<LeaveEvent(g)>> \in Seq(Event)
BY DEF LeaveEvent, Event, MaybeClient

\* Emitted events extend the shard's event stream.
LEMMA EmitType ==
  ASSUME events \in [Shards -> Seq(Event)], NEW s \in Shards, NEW es \in Seq(Event),
         Emit(s, es)
  PROVE  events' \in [Shards -> Seq(Event)]
<1>1. events[s] \o es \in Seq(Event)
  OBVIOUS
<1> QED
  BY <1>1 DEF Emit

\* Taking a command shortens the shard's queue and yields a command.
LEMMA TakeCommandType ==
  ASSUME TypeOK, NEW s \in LocalShards, NEW join \in BOOLEAN, TakeCommand(s, join)
  PROVE  /\ Head(upstream[s]) \in Command
         /\ upstream' \in [Shards -> Seq(Command)]
         /\ OwnersOK' /\ ConnsOK' /\ SweepOK' /\ DispatchOK'
         /\ granted' \in [Clients -> SUBSET Guilds]
<1>1. s \in Shards /\ upstream[s] \in Seq(Command) /\ upstream[s] # <<>>
  BY ShardAssumption DEF TypeOK, StreamsOK, TakeCommand
<1>2. Head(upstream[s]) \in Command /\ Tail(upstream[s]) \in Seq(Command)
  BY <1>1
<1>3. upstream' \in [Shards -> Seq(Command)]
  BY <1>1, <1>2 DEF TypeOK, StreamsOK, TakeCommand
<1>4. OwnersOK'
  BY DEF TypeOK, OwnersOK, Owned, TakeCommand
<1>5. ConnsOK'
  BY DEF TypeOK, ConnsOK, TakeCommand, connVars
<1>6. SweepOK' /\ DispatchOK' /\ granted' \in [Clients -> SUBSET Guilds]
  BY DEF TypeOK, SweepOK, DispatchOK, TakeCommand, sweepVars, dispatchVars
<1> QED
  BY <1>2, <1>3, <1>4, <1>5, <1>6

\* claim_voice under the lock: it takes an allowed guild for the connection's
\* client, or it changes no more than wants_voice.
LEMMA ClaimVoiceEffect ==
  ASSUME TypeOK, NEW c \in Conns, ClaimVoice(c)
  PROVE  /\ OwnersOK'
         /\ \A g \in Guilds :
              \/ /\ owners'[g].client = owners[g].client
                 /\ owners'[g].disconnected = owners[g].disconnected
              \/ /\ owners'[g].client = client[c]
                 /\ owners[g].wants => owners[g].client = client[c]
<1> DEFINE g == command[c].guild
           mine == [client |-> client[c], disconnected |-> "live", wants |-> TRUE]
           gaveUp == [owners[g] EXCEPT !.wants = FALSE]
<1>1. client[c] \in Clients /\ g \in Guilds
  BY DEF ClaimVoice, TypeOK, ConnsOK, Command
<1>2. mine \in VoiceOwner /\ mine.client = client[c] /\ mine.client # None
  BY <1>1, NoneAssumption DEF VoiceOwner, MaybeClient
<1>3. owners \in [Guilds -> VoiceOwner] /\ owners[g] \in VoiceOwner
  BY <1>1 DEF TypeOK, OwnersOK
<1>4. /\ gaveUp \in VoiceOwner
      /\ gaveUp.client = owners[g].client
      /\ gaveUp.disconnected = owners[g].disconnected
      /\ ~gaveUp.wants
  BY <1>3, GaveUp
<1>5. \/ owners' = owners
      \/ /\ owners' = [owners EXCEPT ![g] = mine]
         /\ Allowed(owners[g], client[c], inVoice[c])
      \/ owners' = [owners EXCEPT ![g] = gaveUp]
  BY DEF ClaimVoice
<1> HIDE DEF g, mine, gaveUp
<1>6. CASE owners' = owners
  BY <1>6 DEF TypeOK, OwnersOK, Owned
<1>7. CASE owners' = [owners EXCEPT ![g] = mine] /\ Allowed(owners[g], client[c], inVoice[c])
  BY <1>1, <1>2, <1>3, <1>7 DEF TypeOK, OwnersOK, Owned, Allowed
<1>8. CASE owners' = [owners EXCEPT ![g] = gaveUp]
  BY <1>1, <1>3, <1>4, <1>8 DEF TypeOK, OwnersOK, Owned
<1> QED
  BY <1>5, <1>6, <1>7, <1>8

\* take_stale_voice_owners: an owner that wants voice keeps its record.
LEMMA TakeStaleEffect ==
  ASSUME TypeOK, TakeStaleVoiceOwners
  PROVE  /\ OwnersOK'
         /\ \A g \in Guilds :
              \/ /\ owners'[g].client = owners[g].client
                 /\ owners'[g].disconnected = owners[g].disconnected
              \/ owners'[g] = NoOwner /\ ~owners[g].wants
<1>1. NoOwner \in VoiceOwner /\ ~NoOwner.wants
  BY DEF NoOwner, VoiceOwner, MaybeClient
<1>2. ASSUME NEW g \in Guilds
      PROVE  /\ owners'[g] \in VoiceOwner
             /\ owners'[g].wants => owners'[g].client # None
             /\ \/ /\ owners'[g].client = owners[g].client
                   /\ owners'[g].disconnected = owners[g].disconnected
                \/ owners'[g] = NoOwner /\ ~owners[g].wants
  <2>1. \/ owners'[g] = owners[g]
        \/ owners'[g] = [owners[g] EXCEPT !.wants = FALSE]
        \/ owners'[g] = NoOwner /\ ~owners[g].wants
    BY DEF TakeStaleVoiceOwners
  <2>2. owners[g] \in VoiceOwner /\ (owners[g].wants => owners[g].client # None)
    BY DEF TypeOK, OwnersOK, Owned
  <2> QED
    BY <1>1, <2>1, <2>2, GaveUp
<1>3. owners' \in [Guilds -> VoiceOwner]
  BY <1>2 DEF TakeStaleVoiceOwners
<1> QED
  BY <1>2, <1>3 DEF OwnersOK, Owned

\* on_bot_voice_leave: an owner that wants voice keeps its record.
LEMMA OnBotVoiceLeaveEffect ==
  ASSUME TypeOK, NEW s \in LocalShards, DispatchEvent(s)
  PROVE  /\ OwnersOK'
         /\ \A g \in Guilds :
              owners'[g] = owners[g] \/ (owners'[g] = NoOwner /\ ~owners[g].wants)
<1> DEFINE g == Head(events[s]).guild
<1>1. NoOwner \in VoiceOwner /\ ~NoOwner.wants
  BY DEF NoOwner, VoiceOwner, MaybeClient
<1>2. owners' = owners \/ (owners' = [owners EXCEPT ![g] = NoOwner] /\ ~owners[g].wants)
  BY DEF DispatchEvent, OnBotVoiceLeave
<1> QED
  BY <1>1, <1>2 DEF TypeOK, OwnersOK, Owned

-----------------------------------------------------------------------------
(* Type correctness *)

\* The empty state the proxy starts in is well typed.
LEMMA TypeInit == Init => TypeOK
BY NoneAssumption, ShardAssumption
   DEF Init, TypeOK, OwnersOK, ConnsOK, SweepOK, DispatchOK, StreamsOK, VoiceOwner,
       NoOwner, Owned, Labels, MaybeClient

\* The steps of a connection handler.
LEMMA TypeConn ==
  ASSUME TypeOK, NEW c \in Conns,
         \/ \E cl \in Clients : (\E s \in LocalShards : Identify(c, cl, s)) \/ Resume(c, cl)
         \/ \E g \in Guilds, join \in BOOLEAN : VoiceCommand(c, g, join)
         \/ Disconnect(c)
         \/ Continue(c)
  PROVE  TypeOK'
<1> USE DEF TypeOK
<1>1. ASSUME NEW cl \in Clients, NEW s \in LocalShards, Identify(c, cl, s)
      PROVE  TypeOK'
  BY <1>1 DEF Identify, CountConnection, Goto, OwnersOK, Owned, ConnsOK, SweepOK,
     DispatchOK, StreamsOK, Labels, MaybeClient, sweepVars, dispatchVars, discordVars
<1>2. ASSUME NEW cl \in Clients, Resume(c, cl)
      PROVE  TypeOK'
  BY <1>2 DEF Resume, CountConnection, Goto, OwnersOK, Owned, ConnsOK, SweepOK,
     DispatchOK, StreamsOK, Labels, MaybeClient, sweepVars, dispatchVars, discordVars
<1>3. ASSUME NEW g \in Guilds, NEW join \in BOOLEAN, VoiceCommand(c, g, join)
      PROVE  TypeOK'
  BY <1>3, ConfigAssumption DEF VoiceCommand, BotInVoice, Local, Command, Goto, OwnersOK,
     Owned, ConnsOK, SweepOK, DispatchOK, StreamsOK, Labels, MaybeClient, sweepVars,
     dispatchVars, discordVars
<1>4. ASSUME Disconnect(c)
      PROVE  TypeOK'
  <2>1. ConnsOK'
    BY <1>4 DEF Disconnect, Remaining, Close, Goto, ConnsOK, Labels, MaybeClient
  <2> QED
    BY <1>4, <2>1 DEF Disconnect, Remaining, OwnersOK, Owned, SweepOK, DispatchOK, StreamsOK,
       sweepVars, dispatchVars, discordVars
<1>5. ASSUME MarkConnected(c)
      PROVE  TypeOK'
  <2>1. client[c] \in Clients
    BY <1>5 DEF MarkConnected, ConnsOK
  <2>2. OwnersOK'
    BY <1>5, <2>1, SetDisconnectedEffect DEF MarkConnected
  <2>3. ConnsOK'
    BY <1>5 DEF MarkConnected, Goto, ConnsOK, Labels
  <2> QED
    BY <1>5, <2>2, <2>3 DEF MarkConnected, SweepOK, DispatchOK, StreamsOK, sweepVars,
       dispatchVars, discordVars
<1>6. ASSUME LeaveVoiceForClient(c)
      PROVE  TypeOK'
  <2>1. ASSUME NEW g \in Guilds
        PROVE  owners'[g] \in VoiceOwner /\ (owners'[g].wants => Owned(g)')
    BY <1>6, GaveUp DEF LeaveVoiceForClient, OwnersOK, Owned
  <2>2. OwnersOK'
    BY <1>6, <2>1 DEF LeaveVoiceForClient, OwnersOK
  <2>3. ConnsOK'
    BY <1>6 DEF LeaveVoiceForClient, Goto, ConnsOK, Labels
  <2> QED
    BY <1>6, <2>2, <2>3 DEF LeaveVoiceForClient, SweepOK, DispatchOK, StreamsOK,
       sweepVars, dispatchVars, discordVars
<1>7. ASSUME NEW g \in Guilds, SendLeave(c, g)
      PROVE  TypeOK'
  <2>1. upstream' \in [Shards -> Seq(Command)]
    BY <1>7, LeaveType, EnqueueType DEF SendLeave, SendVoiceLeave, StreamsOK
  <2> QED
    BY <1>7, <2>1 DEF SendLeave, OwnersOK, Owned, ConnsOK, SweepOK, DispatchOK,
       StreamsOK, sweepVars, dispatchVars, discordVars
<1>8. ASSUME CreateSession(c)
      PROVE  TypeOK'
  BY <1>8 DEF CreateSession, Goto, OwnersOK, Owned, ConnsOK, SweepOK, DispatchOK,
     StreamsOK, Labels, sweepVars, dispatchVars, discordVars
<1>9. ASSUME ClaimVoice(c)
      PROVE  TypeOK'
  <2>3. OwnersOK'
    BY <1>9, ClaimVoiceEffect
  <2>4. ConnsOK'
    BY <1>9 DEF ClaimVoice, Goto, ConnsOK, Labels
  <2> QED
    BY <1>9, <2>3, <2>4 DEF ClaimVoice, SweepOK, DispatchOK, StreamsOK, sweepVars,
       dispatchVars, discordVars
<1>10. ASSUME SendCommand(c)
       PROVE  TypeOK'
  <2>1. upstream' \in [Shards -> Seq(Command)]
    BY <1>10, EnqueueType DEF SendCommand, ConnsOK, StreamsOK
  <2>2. ConnsOK'
    BY <1>10 DEF SendCommand, Goto, ConnsOK, Labels
  <2> QED
    BY <1>10, <2>1, <2>2 DEF SendCommand, OwnersOK, Owned, SweepOK, DispatchOK,
       StreamsOK, sweepVars, dispatchVars, discordVars
<1>11. ASSUME MarkDisconnected(c)
       PROVE  TypeOK'
  <2>1. client[c] \in Clients
    BY <1>11 DEF MarkDisconnected, ConnsOK
  <2>2. OwnersOK'
    BY <1>11, <2>1, SetDisconnectedEffect DEF MarkDisconnected
  <2>3. ConnsOK'
    BY <1>11 DEF MarkDisconnected, Close, Goto, ConnsOK, Labels, MaybeClient
  <2> QED
    BY <1>11, <2>2, <2>3 DEF MarkDisconnected, SweepOK, DispatchOK, StreamsOK,
       sweepVars, dispatchVars, discordVars
<1> QED
  BY <1>1, <1>2, <1>3, <1>4, <1>5, <1>6, <1>7, <1>8, <1>9, <1>10, <1>11 DEF Continue

\* The steps of the sweeper.
LEMMA TypeSweep ==
  ASSUME TypeOK, Sweep
  PROVE  TypeOK'
<1> USE DEF TypeOK
<1>1. ASSUME SweepStart
      PROVE  TypeOK'
  BY <1>1 DEF SweepStart, OwnersOK, Owned, ConnsOK, SweepOK, DispatchOK, StreamsOK,
     connVars, dispatchVars, discordVars
<1>2. ASSUME SweepReadVoice
      PROVE  TypeOK'
  BY <1>2 DEF SweepReadVoice, OwnersOK, Owned, ConnsOK, SweepOK, DispatchOK, StreamsOK,
     connVars, dispatchVars, discordVars
<1>3. ASSUME TakeStaleVoiceOwners
      PROVE  TypeOK'
  BY <1>3, TakeStaleEffect DEF TakeStaleVoiceOwners, ConnsOK, SweepOK, DispatchOK,
     StreamsOK, connVars, dispatchVars, discordVars
<1>4. ASSUME NEW g \in Guilds, SweepSendLeave(g)
      PROVE  TypeOK'
  <2>1. upstream' \in [Shards -> Seq(Command)]
    BY <1>4, LeaveType, EnqueueType DEF SweepSendLeave, SendVoiceLeave, StreamsOK
  <2> QED
    BY <1>4, <2>1 DEF SweepSendLeave, OwnersOK, Owned, ConnsOK, SweepOK, DispatchOK,
       StreamsOK, connVars, dispatchVars, discordVars
<1>5. ASSUME SweepEnd
      PROVE  TypeOK'
  BY <1>5 DEF SweepEnd, OwnersOK, Owned, ConnsOK, SweepOK, DispatchOK, StreamsOK,
     connVars, dispatchVars, discordVars
<1> QED
  BY <1>1, <1>2, <1>3, <1>4, <1>5 DEF Sweep

\* The steps of a shard's dispatcher.
LEMMA TypeDispatcher ==
  ASSUME TypeOK, NEW s \in LocalShards,
         Dispatcher(s) \/ SessionInvalidated(s) \/ SessionResumed(s)
  PROVE  TypeOK'
<1> USE DEF TypeOK
<1>1. ASSUME DispatchEvent(s)
      PROVE  TypeOK'
  <2>1. s \in Shards /\ events[s] \in Seq(Event) /\ events[s] # <<>>
    BY <1>1, ShardAssumption DEF DispatchEvent, StreamsOK
  <2>2. Head(events[s]) \in Event /\ Tail(events[s]) \in Seq(Event)
    BY <2>1
  <2>3. AudienceFor(Head(events[s]).guild) \in MaybeClient
    BY <2>2 DEF AudienceFor, OwnersOK, VoiceOwner, Event, MaybeClient
  <2>4. DispatchOK'
    BY <1>1, <2>2, <2>3 DEF DispatchEvent, DispatchOK, Dispatched, MaybeClient
  <2>5. StreamsOK'
    BY <1>1, <2>1, <2>2 DEF DispatchEvent, StreamsOK
  <2> QED
    BY <1>1, <2>4, <2>5, OnBotVoiceLeaveEffect DEF DispatchEvent, ConnsOK, SweepOK,
       connVars, sweepVars
<1>2. ASSUME UpdateCache(s)
      PROVE  TypeOK'
  <2>1. DispatchOK'
    BY <1>2 DEF UpdateCache, DispatchOK
  <2> QED
    BY <1>2, <2>1 DEF UpdateCache, OwnersOK, Owned, ConnsOK, SweepOK, StreamsOK,
       connVars, sweepVars, discordVars
<1>3. ASSUME SessionInvalidated(s) \/ SessionResumed(s)
      PROVE  TypeOK'
  BY <1>3 DEF SessionInvalidated, SessionResumed, OwnersOK, Owned, ConnsOK, SweepOK,
     DispatchOK, StreamsOK, connVars, sweepVars, discordVars
<1> QED
  BY <1>1, <1>2, <1>3 DEF Dispatcher

\* The steps of Discord that handle a command.
LEMMA TypeDiscord ==
  ASSUME TypeOK, NEW s \in LocalShards, Discord(s)
  PROVE  TypeOK'
<1> DEFINE cmd == Head(upstream[s])
<1>0. s \in Shards /\ events \in [Shards -> Seq(Event)] /\ botCall \in [Guilds -> MaybeClient]
  BY ShardAssumption DEF TypeOK, StreamsOK
<1>1. ASSUME DiscordJoins(s)
      PROVE  TypeOK'
  <2>1. TakeCommand(s, TRUE)
    BY <1>1 DEF DiscordJoins
  <2>2. cmd \in Command
    BY <2>1, TakeCommandType
  <2> DEFINE Own(type) == [type |-> type, guild |-> cmd.guild, client |-> cmd.client]
  <2>3. Own("state") \in Event /\ Own("token") \in Event
    BY <2>2 DEF Event, Command
  <2>4. <<Own("state"), Own("token")>> \in Seq(Event)
    BY <2>3
  <2>5. Emit(s, <<Own("state"), Own("token")>>)
    BY <1>1 DEF DiscordJoins
  <2> HIDE DEF Own
  <2>6. events' \in [Shards -> Seq(Event)]
    BY <1>0, <2>4, <2>5, EmitType
  <2>7. botCall' \in [Guilds -> MaybeClient]
    BY <1>0, <1>1, <2>2 DEF DiscordJoins, Command
  <2> QED
    BY <2>1, <2>6, <2>7, TakeCommandType DEF TypeOK, StreamsOK
<1>2. ASSUME DiscordIgnoresJoin(s)
      PROVE  TypeOK'
  BY <1>0, <1>2, TakeCommandType DEF DiscordIgnoresJoin, TypeOK, StreamsOK, discordVars
<1>3. ASSUME DiscordLeaves(s)
      PROVE  TypeOK'
  <2>1. TakeCommand(s, FALSE)
    BY <1>3 DEF DiscordLeaves
  <2>2. cmd.guild \in Guilds
    BY <2>1, TakeCommandType DEF Command
  <2>3. <<LeaveEvent(cmd.guild)>> \in Seq(Event)
    BY <2>2, LeaveEventType
  <2>4. events' \in [Shards -> Seq(Event)]
    BY <1>0, <1>3, <2>3, EmitType DEF DiscordLeaves
  <2>5. botCall' \in [Guilds -> MaybeClient]
    BY <1>0, <1>3, <2>2 DEF DiscordLeaves, MaybeClient
  <2> QED
    BY <2>1, <2>4, <2>5, TakeCommandType DEF TypeOK, StreamsOK
<1> QED
  BY <1>1, <1>2, <1>3 DEF Discord

\* The steps nobody asks for: the grace period, a kick, a new voice server, and
\* a change of the registry.
LEMMA TypeEnvironment ==
  ASSUME TypeOK,
         \/ \E g \in Guilds : GraceElapses(g) \/ DiscordKicks(g) \/ DiscordMovesServer(g)
         \/ \E cl \in Revocable, g \in Guilds : SetGranted(cl, g)
  PROVE  TypeOK'
<1> USE DEF TypeOK
<1>0. ASSUME NEW g \in Guilds
      PROVE  ShardOf[g] \in Shards
  BY ShardAssumption
<1>1. ASSUME NEW g \in Guilds, GraceElapses(g)
      PROVE  TypeOK'
  <2>1. OwnersOK'
    BY <1>1, Disconnected DEF GraceElapses, OwnersOK, Owned
  <2> QED
    BY <1>1, <2>1 DEF GraceElapses, ConnsOK, SweepOK, DispatchOK, StreamsOK, connVars,
       sweepVars, dispatchVars, discordVars
<1>2. ASSUME NEW g \in Guilds, DiscordKicks(g)
      PROVE  TypeOK'
  <2>1. StreamsOK'
    BY <1>0, <1>2, LeaveEventType, EmitType DEF DiscordKicks, StreamsOK, MaybeClient
  <2> QED
    BY <1>2, <2>1 DEF DiscordKicks, OwnersOK, Owned, ConnsOK, SweepOK, DispatchOK,
       connVars, sweepVars, dispatchVars
<1>3. ASSUME NEW g \in Guilds, DiscordMovesServer(g)
      PROVE  TypeOK'
  <2> DEFINE token == [type |-> "token", guild |-> g, client |-> botCall[g]]
  <2>1. token \in Event
    BY DEF StreamsOK, Event
  <2>2. <<token>> \in Seq(Event)
    BY <2>1
  <2>3. Emit(ShardOf[g], <<token>>)
    BY <1>3 DEF DiscordMovesServer
  <2> HIDE DEF token
  <2>4. StreamsOK'
    BY <1>0, <1>3, <2>2, <2>3, EmitType DEF DiscordMovesServer, StreamsOK
  <2> QED
    BY <1>3, <2>4 DEF DiscordMovesServer, OwnersOK, Owned, ConnsOK, SweepOK, DispatchOK,
       connVars, sweepVars, dispatchVars
<1>4. ASSUME NEW cl \in Revocable, NEW g \in Guilds, SetGranted(cl, g)
      PROVE  TypeOK'
  BY <1>4, ConfigAssumption DEF SetGranted, OwnersOK, Owned, ConnsOK, SweepOK,
     DispatchOK, StreamsOK, connVars, sweepVars, dispatchVars, discordVars
<1> QED
  BY <1>1, <1>2, <1>3, <1>4

\* Every step keeps every variable in its type.
LEMMA TypeStep == TypeOK /\ [Next]_vars => TypeOK'
<1> SUFFICES ASSUME TypeOK, [Next]_vars
             PROVE  TypeOK'
  OBVIOUS
<1>1. CASE UNCHANGED vars
  BY <1>1 DEF TypeOK, OwnersOK, Owned, ConnsOK, SweepOK, DispatchOK, StreamsOK, vars,
     connVars, sweepVars, dispatchVars, discordVars
<1>2. CASE Next
  BY <1>2, TypeConn, TypeSweep, TypeDispatcher, TypeDiscord, TypeEnvironment DEF Next
<1> QED
  BY <1>1, <1>2

\* Type correctness: every variable keeps its type in every behaviour.
THEOREM TypeCorrect == Spec => []TypeOK
BY TypeInit, TypeStep, PTL DEF Spec

-----------------------------------------------------------------------------
(* An owner that wants voice keeps its guild *)

\* What one step may do to an owner record.
LEMMA WantingOwnerStep ==
  ASSUME TypeOK, [Next]_vars, NEW g \in Guilds, owners[g].wants
  PROVE  owners'[g].client = owners[g].client
<1>1. ASSUME NEW c \in Conns, Continue(c)
      PROVE  owners'[g].client = owners[g].client
  <2>1. pc[c] # "closed" => client[c] \in Clients
    BY DEF TypeOK, ConnsOK
  <2>2. CASE MarkConnected(c)
    BY <2>1, <2>2, SetDisconnectedEffect DEF MarkConnected, TypeOK
  <2>3. CASE LeaveVoiceForClient(c)
    BY <2>3, GaveUp DEF LeaveVoiceForClient, TypeOK, OwnersOK
  <2>4. CASE ClaimVoice(c)
    BY <2>4, ClaimVoiceEffect
  <2>5. CASE MarkDisconnected(c)
    BY <2>1, <2>5, SetDisconnectedEffect DEF MarkDisconnected, TypeOK
  <2>6. CASE (\E h \in Guilds : SendLeave(c, h)) \/ CreateSession(c) \/ SendCommand(c)
    BY <2>6 DEF SendLeave, CreateSession, SendCommand
  <2> QED
    BY <1>1, <2>2, <2>3, <2>4, <2>5, <2>6 DEF Continue
<1>2. ASSUME Sweep
      PROVE  owners'[g].client = owners[g].client
  BY <1>2, TakeStaleEffect DEF Sweep, SweepStart, SweepReadVoice, SweepSendLeave, SweepEnd
<1>3. ASSUME NEW s \in LocalShards, Dispatcher(s)
      PROVE  owners'[g].client = owners[g].client
  BY <1>3, OnBotVoiceLeaveEffect DEF Dispatcher, UpdateCache
<1>4. ASSUME NEW h \in Guilds, GraceElapses(h)
      PROVE  owners'[g].client = owners[g].client
  BY <1>4, Disconnected DEF GraceElapses, TypeOK, OwnersOK
<1>5. ASSUME NEW c \in Conns,
             \/ \E cl \in Clients : (\E s \in LocalShards : Identify(c, cl, s)) \/ Resume(c, cl)
             \/ \E h \in Guilds, join \in BOOLEAN : VoiceCommand(c, h, join)
             \/ Disconnect(c)
      PROVE  owners' = owners
  BY <1>5 DEF Identify, Resume, VoiceCommand, Disconnect
<1>6. ASSUME \/ \E h \in Guilds : DiscordKicks(h) \/ DiscordMovesServer(h)
             \/ \E s \in LocalShards :
                  SessionInvalidated(s) \/ SessionResumed(s) \/ Discord(s)
             \/ \E cl \in Revocable, h \in Guilds : SetGranted(cl, h)
      PROVE  owners' = owners
  BY <1>6 DEF DiscordKicks, DiscordMovesServer, SessionInvalidated, SessionResumed,
     Discord, DiscordJoins, DiscordIgnoresJoin, DiscordLeaves, TakeCommand, SetGranted
<1>7. CASE UNCHANGED vars
  BY <1>7 DEF vars
<1> QED
  BY <1>1, <1>2, <1>3, <1>4, <1>5, <1>6, <1>7 DEF Next

\* However the handlers interleave, no step takes a guild from an owner that
\* still wants it.
THEOREM OwnerKeepsGuild == Spec => WantingOwnerKeepsGuild
<1>1. TypeOK /\ [Next]_vars
        => [\A g \in Guilds : owners[g].wants => owners'[g].client = owners[g].client]_vars
  BY WantingOwnerStep
<1> QED
  BY <1>1, TypeCorrect, PTL DEF Spec, WantingOwnerKeepsGuild

-----------------------------------------------------------------------------
(* An owner without a connection is timed *)

\* The steps that count connections in and out.
LEMMA ActiveStep == TypeOK /\ ActiveIsExact /\ [Next]_vars => ActiveIsExact'
<1> SUFFICES ASSUME TypeOK, ActiveIsExact, [Next]_vars, NEW cl \in Clients
             PROVE  active'[cl] = Cardinality(Counted(cl)')
  BY DEF ActiveIsExact
<1>0. IsFiniteSet(Counted(cl)) /\ active[cl] = Cardinality(Counted(cl)) /\ active[cl] \in Nat
  BY ConnsAssumption, FS_Subset DEF Counted, ActiveIsExact, TypeOK, ConnsOK
<1>1. ASSUME NEW c \in Conns, NEW d \in Clients, CountConnection(c, d),
             pc' = [pc EXCEPT ![c] = "identifying"] \/ pc' = [pc EXCEPT ![c] = "resuming"]
      PROVE  active'[cl] = Cardinality(Counted(cl)')
  <2>1. CASE d = cl
    <3>1. Counted(cl)' = Counted(cl) \cup {c} /\ c \notin Counted(cl)
      BY <1>1, <2>1 DEF CountConnection, Counted, TypeOK, ConnsOK
    <3>2. active'[cl] = active[cl] + 1
      BY <1>1, <2>1 DEF CountConnection, TypeOK, ConnsOK
    <3> QED
      BY <1>0, <3>1, <3>2, FS_AddElement
  <2>2. CASE d # cl
    <3>1. Counted(cl)' = Counted(cl)
      BY <1>1, <2>2 DEF CountConnection, Counted, TypeOK, ConnsOK
    <3> QED
      BY <1>0, <1>1, <2>2, <3>1 DEF CountConnection, TypeOK, ConnsOK
  <2> QED
    BY <2>1, <2>2
<1>2. ASSUME NEW c \in Conns, Disconnect(c)
      PROVE  active'[cl] = Cardinality(Counted(cl)')
  <2>1. client[c] \in Clients /\ client[c] # None
    BY <1>2, NoneAssumption DEF Disconnect, Remaining, TypeOK, ConnsOK
  <2>2. CASE client[c] = cl
    <3>1. Counted(cl)' = Counted(cl) \ {c} /\ c \in Counted(cl)
      BY <1>2, <2>1, <2>2 DEF Disconnect, Remaining, Close, Goto, Counted, TypeOK, ConnsOK
    <3>2. Cardinality(Counted(cl)') = active[cl] - 1
      BY <1>0, <3>1, FS_RemoveElement
    <3>3. active[cl] > 0
      BY <1>0, <3>1, FS_EmptySet
    <3>4. active'[cl] = active[cl] - 1
      BY <1>0, <1>2, <2>2, <3>3 DEF Disconnect, Remaining, TypeOK, ConnsOK
    <3> QED
      BY <3>2, <3>4
  <2>3. CASE client[c] # cl
    <3>1. Counted(cl)' = Counted(cl)
      BY <1>2, <2>1, <2>3, NoneAssumption DEF Disconnect, Remaining, Close, Goto, Counted, TypeOK, ConnsOK
    <3>2. active'[cl] = active[cl]
      BY <1>2, <2>1, <2>3 DEF Disconnect, Remaining, TypeOK, ConnsOK
    <3> QED
      BY <1>0, <3>1, <3>2
  <2> QED
    BY <2>2, <2>3
<1>3. ASSUME NEW c \in Conns, Continue(c) \/ \E g \in Guilds, join \in BOOLEAN : VoiceCommand(c, g, join)
      PROVE  active'[cl] = Cardinality(Counted(cl)')
  <2>1. active' = active
    BY <1>3 DEF Continue, MarkConnected, LeaveVoiceForClient, SendLeave, CreateSession,
       ClaimVoice, SendCommand, MarkDisconnected, VoiceCommand
  <2>2. CASE MarkDisconnected(c)
    BY <1>0, <2>1, <2>2, NoneAssumption DEF MarkDisconnected, Close, Goto, Counted, TypeOK, ConnsOK
  <2>3. CASE ~MarkDisconnected(c)
    <3>1. /\ client' = client
          /\ \A d \in Conns : pc'[d] \in {"closed", "disconnecting"} <=> pc[d] \in {"closed", "disconnecting"}
      BY <1>3, <2>3 DEF Continue, MarkConnected, LeaveVoiceForClient, SendLeave, CreateSession,
         ClaimVoice, SendCommand, VoiceCommand, Goto, TypeOK, ConnsOK
    <3>2. Counted(cl)' = Counted(cl)
      BY <3>1 DEF Counted
    <3> QED
      BY <1>0, <2>1, <3>2
  <2> QED
    BY <2>2, <2>3
<1>4. ASSUME UNCHANGED <<active, pc, client>>
      PROVE  active'[cl] = Cardinality(Counted(cl)')
  BY <1>0, <1>4 DEF Counted
<1>5. ASSUME \/ UNCHANGED vars
             \/ Sweep
             \/ \E g \in Guilds : GraceElapses(g) \/ DiscordKicks(g) \/ DiscordMovesServer(g)
             \/ \E s \in LocalShards :
                  Dispatcher(s) \/ SessionInvalidated(s) \/ SessionResumed(s) \/ Discord(s)
             \/ \E d \in Revocable, g \in Guilds : SetGranted(d, g)
      PROVE  UNCHANGED <<active, pc, client>>
  BY <1>5 DEF vars, connVars, Sweep, SweepStart, SweepReadVoice, TakeStaleVoiceOwners,
     SweepSendLeave, SweepEnd, GraceElapses, DiscordKicks, DiscordMovesServer, Dispatcher,
     DispatchEvent, UpdateCache, SessionInvalidated, SessionResumed, Discord, DiscordJoins,
     DiscordIgnoresJoin, DiscordLeaves, TakeCommand, SetGranted
<1> QED
  BY <1>1, <1>2, <1>3, <1>4, <1>5 DEF Next, Identify, Resume, Goto

\* active_client_connections counts the live connections in every behaviour.
THEOREM ActiveCorrect == Spec => []ActiveIsExact
<1>1. Init => ActiveIsExact
  <2> SUFFICES ASSUME Init, NEW cl \in Clients
               PROVE  active[cl] = Cardinality(Counted(cl))
    BY DEF ActiveIsExact
  <2>1. Counted(cl) = {} /\ active[cl] = 0
    BY DEF Init, Counted
  <2> QED
    BY <2>1, FS_EmptySet
<1> QED
  BY <1>1, ActiveStep, TypeCorrect, PTL DEF Spec

\* A connection that is counted keeps its client's count above zero.
LEMMA CountedIsActive ==
  ASSUME TypeOK, ActiveIsExact, NEW c \in Conns, pc[c] \notin {"closed", "disconnecting"}
  PROVE  client[c] \in Clients /\ active[client[c]] > 0
<1>1. client[c] \in Clients /\ c \in Counted(client[c])
  BY DEF TypeOK, ConnsOK, Counted
<1>2. IsFiniteSet(Counted(client[c]))
  BY ConnsAssumption, FS_Subset DEF Counted
<1>3. Cardinality(Counted(client[c])) \in Nat /\ Cardinality(Counted(client[c])) # 0
  BY <1>1, <1>2, FS_CardinalityType, FS_EmptySet
<1> QED
  BY <1>1, <1>3 DEF ActiveIsExact

\* The teardown that has counted the client's last connection out.
Closing(cl) == \E c \in Conns : pc[c] = "disconnecting" /\ client[c] = cl

\* No step leaves an owner without a connection and without a deadline.
LEMMA DeadOwnerStep ==
  TypeOK /\ ActiveIsExact /\ DeadOwnerIsTimed /\ [Next]_vars => DeadOwnerIsTimed'
<1> SUFFICES ASSUME TypeOK, ActiveIsExact, DeadOwnerIsTimed, [Next]_vars
             PROVE  DeadOwnerIsTimed'
  OBVIOUS
<1>a. \A g \in Guilds : Owned(g)' => owners'[g].client \in Clients
  BY TypeStep DEF TypeOK, OwnersOK, Owned, VoiceOwner, MaybeClient
<1> SUFFICES ASSUME NEW g \in Guilds, NEW cl \in Clients,
                    owners'[g].client = cl, active'[cl] = 0
             PROVE  owners'[g].disconnected # "live" \/ Closing(cl)'
  BY <1>a DEF DeadOwnerIsTimed, Closing
<1>0. ASSUME owners[g].client = cl, active[cl] = 0
      PROVE  owners[g].disconnected # "live" \/ Closing(cl)
  BY <1>0, NoneAssumption DEF DeadOwnerIsTimed, Closing, Owned
<1>1. ASSUME NEW c \in Conns, NEW d \in Clients, CountConnection(c, d), owners' = owners,
             pc' = [pc EXCEPT ![c] = "identifying"] \/ pc' = [pc EXCEPT ![c] = "resuming"]
      PROVE  owners'[g].disconnected # "live" \/ Closing(cl)'
  <2>1. cl # d /\ active[cl] = 0
    BY <1>1 DEF CountConnection, TypeOK, ConnsOK
  <2>2. Closing(cl) => Closing(cl)'
    BY <1>1, <2>1 DEF CountConnection, Closing, TypeOK, ConnsOK
  <2> QED
    BY <1>0, <1>1, <2>1, <2>2
<1>2. ASSUME NEW c \in Conns, Disconnect(c)
      PROVE  owners'[g].disconnected # "live" \/ Closing(cl)'
  <2>1. client[c] \in Clients /\ owners' = owners /\ pc[c] = "serving"
    BY <1>2 DEF Disconnect, Remaining, TypeOK, ConnsOK
  <2>2. CASE client[c] = cl
    <3>1. active[client[c]] <= 1
      BY <1>2, <2>1, <2>2 DEF Disconnect, Remaining, TypeOK, ConnsOK
    <3>2. pc'[c] = "disconnecting" /\ client'[c] = cl
      BY <1>2, <2>2, <3>1 DEF Disconnect, Remaining, Goto, TypeOK, ConnsOK
    <3> QED
      BY <2>1, <3>2 DEF Closing
  <2>3. CASE client[c] # cl
    <3>1. active[cl] = 0
      BY <1>2, <2>1, <2>3 DEF Disconnect, Remaining, TypeOK, ConnsOK
    <3>2. Closing(cl) => Closing(cl)'
      BY <1>2, <2>1, <2>3 DEF Disconnect, Remaining, Close, Goto, Closing, TypeOK, ConnsOK
    <3> QED
      BY <1>0, <2>1, <3>1, <3>2
  <2> QED
    BY <2>2, <2>3
<1>3. ASSUME NEW c \in Conns, MarkConnected(c)
      PROVE  owners'[g].disconnected # "live" \/ Closing(cl)'
  <2>1. client[c] \in Clients /\ active[client[c]] > 0 /\ active' = active
    BY <1>3, CountedIsActive DEF MarkConnected
  <2>2. /\ owners'[g].client = owners[g].client
        /\ owners[g].client # client[c] => owners'[g].disconnected = owners[g].disconnected
    BY <1>3, <2>1, SetDisconnectedEffect DEF MarkConnected, TypeOK
  <2>3. owners[g].client # client[c]
    BY <2>1, <2>2
  <2>4. Closing(cl) => Closing(cl)'
    BY <1>3 DEF MarkConnected, Goto, Closing, TypeOK, ConnsOK
  <2> QED
    BY <1>0, <2>1, <2>2, <2>3, <2>4
<1>4. ASSUME NEW c \in Conns, MarkDisconnected(c)
      PROVE  owners'[g].disconnected # "live" \/ Closing(cl)'
  <2>1. client[c] \in Clients /\ active' = active
    BY <1>4 DEF MarkDisconnected, TypeOK, ConnsOK
  <2>2. /\ owners'[g].client = owners[g].client
        /\ owners'[g].disconnected = IF owners[g].client = client[c] THEN "grace"
                                     ELSE owners[g].disconnected
    BY <1>4, <2>1, SetDisconnectedEffect DEF MarkDisconnected, TypeOK
  <2>3. CASE owners[g].client = client[c]
    BY <2>2, <2>3
  <2>4. CASE owners[g].client # client[c]
    <3>1. Closing(cl) => Closing(cl)'
      BY <1>4, <2>2, <2>4 DEF MarkDisconnected, Close, Goto, Closing, TypeOK, ConnsOK
    <3> QED
      BY <1>0, <2>1, <2>2, <2>4, <3>1
  <2> QED
    BY <2>3, <2>4
<1>5. ASSUME NEW c \in Conns, ClaimVoice(c)
      PROVE  owners'[g].disconnected # "live" \/ Closing(cl)'
  <2>1. active[client[c]] > 0 /\ active' = active
    BY <1>5, CountedIsActive DEF ClaimVoice
  <2>2. owners'[g].client = owners[g].client /\ owners'[g].disconnected = owners[g].disconnected
    BY <1>5, <2>1, ClaimVoiceEffect
  <2>3. Closing(cl) => Closing(cl)'
    BY <1>5 DEF ClaimVoice, Goto, Closing, TypeOK, ConnsOK
  <2> QED
    BY <1>0, <2>1, <2>2, <2>3
\* The steps of the other handlers, which count nobody.
<1>6. ASSUME active' = active,
             \/ owners'[g].client = None
             \/ /\ owners'[g].client = owners[g].client
                /\ owners'[g].disconnected = owners[g].disconnected \/ owners'[g].disconnected # "live",
             Closing(cl) => Closing(cl)'
      PROVE  owners'[g].disconnected # "live" \/ Closing(cl)'
  BY <1>0, <1>6, NoneAssumption
<1>7. ASSUME NEW c \in Conns,
             \/ LeaveVoiceForClient(c) \/ (\E h \in Guilds : SendLeave(c, h))
             \/ CreateSession(c) \/ SendCommand(c)
             \/ \E h \in Guilds, join \in BOOLEAN : VoiceCommand(c, h, join)
      PROVE  owners'[g].disconnected # "live" \/ Closing(cl)'
  <2>1. active' = active /\ (Closing(cl) => Closing(cl)')
    BY <1>7 DEF LeaveVoiceForClient, SendLeave, CreateSession, SendCommand, VoiceCommand,
       Goto, Closing, TypeOK, ConnsOK
  <2>2. owners'[g].client = owners[g].client /\ owners'[g].disconnected = owners[g].disconnected
    BY <1>7, GaveUp DEF LeaveVoiceForClient, SendLeave, CreateSession, SendCommand,
       VoiceCommand, TypeOK, OwnersOK
  <2> QED
    BY <1>6, <2>1, <2>2
<1>8. ASSUME \/ UNCHANGED vars
             \/ Sweep
             \/ \E h \in Guilds : GraceElapses(h) \/ DiscordKicks(h) \/ DiscordMovesServer(h)
             \/ \E s \in LocalShards :
                  Dispatcher(s) \/ SessionInvalidated(s) \/ SessionResumed(s) \/ Discord(s)
             \/ \E d \in Revocable, h \in Guilds : SetGranted(d, h)
      PROVE  owners'[g].disconnected # "live" \/ Closing(cl)'
  <2>1. UNCHANGED <<active, pc, client>>
    BY <1>8 DEF vars, connVars, Sweep, SweepStart, SweepReadVoice, TakeStaleVoiceOwners,
       SweepSendLeave, SweepEnd, GraceElapses, DiscordKicks, DiscordMovesServer, Dispatcher,
       DispatchEvent, UpdateCache, SessionInvalidated, SessionResumed, Discord, DiscordJoins,
       DiscordIgnoresJoin, DiscordLeaves, TakeCommand, SetGranted
  <2>2. \/ owners'[g].client = None
        \/ /\ owners'[g].client = owners[g].client
           /\ owners'[g].disconnected = owners[g].disconnected \/ owners'[g].disconnected # "live"
    <3>1. CASE TakeStaleVoiceOwners
      BY <3>1, TakeStaleEffect DEF NoOwner
    <3>2. CASE \E s \in LocalShards : DispatchEvent(s)
      BY <3>2, OnBotVoiceLeaveEffect DEF NoOwner
    <3>3. CASE \E h \in Guilds : GraceElapses(h)
      BY <3>3, Disconnected DEF GraceElapses, TypeOK, OwnersOK
    <3>4. CASE owners' = owners
      BY <3>4
    <3> QED
      BY <1>8, <3>1, <3>2, <3>3, <3>4 DEF vars, Sweep, SweepStart, SweepReadVoice,
         SweepSendLeave, SweepEnd, DiscordKicks, DiscordMovesServer, Dispatcher, UpdateCache,
         SessionInvalidated, SessionResumed, Discord, DiscordJoins, DiscordIgnoresJoin,
         DiscordLeaves, TakeCommand, SetGranted
  <2> QED
    BY <1>6, <2>1, <2>2 DEF Closing
<1> QED
  BY <1>1, <1>2, <1>3, <1>4, <1>5, <1>7, <1>8 DEF Next, Continue, Identify, Resume, Goto

\* However the handlers interleave, an owner without a connection has its
\* disconnected_at set, or the teardown that sets it is under way.
THEOREM DeadOwnerTimed == Spec => []DeadOwnerIsTimed
<1>1. Init => DeadOwnerIsTimed
  BY DEF Init, DeadOwnerIsTimed, Owned, NoOwner
<1> QED
  BY <1>1, DeadOwnerStep, TypeCorrect, ActiveCorrect, PTL DEF Spec
=============================================================================
