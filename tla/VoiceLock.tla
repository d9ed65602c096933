----------------------------- MODULE VoiceLock -----------------------------
(***************************************************************************)
(* The voice owner lock of the gateway proxy (state.rs) with every task     *)
(* that touches it: the connection handlers of multi-tenant clients         *)
(* (server.rs, handle_client), the voice sweeper (main.rs), one event       *)
(* dispatcher per shard (dispatch.rs, events), and Discord at the other end *)
(* of the shard's command and event streams (external).                     *)
(*                                                                          *)
(* A handler runs on a tokio worker thread.  Between two accesses to shared *)
(* state (a lock, the shard cache, the shard's command channel) another     *)
(* worker may run another handler, so every access is a step of its own.    *)
(* No handler awaits between its accesses: with Workers = 1 (a one-core     *)
(* host) a handler runs to its end before the next one starts.              *)
(*                                                                          *)
(* Sessions of the bot token bypass the lock (server.rs, command_scope is   *)
(* None) and are not in this module.                                        *)
(***************************************************************************)
EXTENDS Naturals, Sequences, FiniteSets

CONSTANTS
    Clients,            \* multi-tenant client IDs
    Guilds,
    Conns,              \* client connections: one handle_client task each
    Shards,             \* all shard IDs of the bot, 0 .. shard_count - 1
    LocalShards,        \* the shards this proxy runs, from shard_start = 0
    ShardOf,            \* shard_id_for_guild
    VoiceStatesCache,   \* CONFIG.cache.voice_states
    Workers,            \* tokio worker threads
    Revocable,          \* bound: the clients whose registry entry changes
    MaxUpstream,        \* bound: clients send while fewer commands are queued
    MaxEvents,          \* bound: Discord emits while fewer events are queued
    None                \* Option::None

ASSUME NoneAssumption == None \notin Clients \cup Guilds
ASSUME ConnsAssumption == IsFiniteSet(Conns)
ASSUME ShardCountAssumption == IsFiniteSet(Shards)
ASSUME ShardAssumption == /\ LocalShards \subseteq Shards
                          /\ ShardOf \in [Guilds -> Shards]
ASSUME ConfigAssumption == /\ VoiceStatesCache \in BOOLEAN
                           /\ Workers \in Nat \ {0}
                           /\ Revocable \subseteq Clients
                           /\ MaxUpstream \in Nat
                           /\ MaxEvents \in Nat

VARIABLES
    \* Inner (state.rs)
    owners,       \* voice_owners
    active,       \* active_client_connections
    sessions,     \* clients with a session a RESUME can find
    granted,      \* CLIENTS: the guilds of every client
    cachedVoice,  \* the bot's voice state in the shard cache
    \* handle_client tasks
    pc,           \* the next access of the handler of every connection
    client,       \* active_client_id / command_scope
    command,      \* the op 4 command being handled
    inVoice,      \* claim_voice's bot_in_voice
    leaving,      \* the guilds IDENTIFY has still to leave
    \* the sweeper task
    sweepPc, sweepAuth, sweepOut, sweepLeaving,
    \* the dispatcher of every shard
    dispatching,  \* the event whose cache update is due
    relaying,     \* is_ready
    \* the shard's streams, and Discord
    upstream,     \* commands in the shard's MessageSender channel
    events,       \* events on their way from Discord to the dispatcher
    botCall       \* the bot's voice connection, by the client that asked for it

connVars == <<pc, client, command, inVoice, leaving>>
sweepVars == <<sweepPc, sweepAuth, sweepOut, sweepLeaving>>
dispatchVars == <<dispatching, relaying, cachedVoice>>
discordVars == <<events, botCall>>
vars == <<owners, active, sessions, granted, connVars, sweepVars,
          dispatchVars, upstream, discordVars>>

-----------------------------------------------------------------------------
(* Types *)

Labels == {"closed", "identifying", "resuming", "givingUp", "leaving", "serving",
           "claiming", "sending", "disconnecting"}

MaybeClient == Clients \cup {None}

\* disconnected_at: "live" is None; "expired" is at least VOICE_OWNER_GRACE ago.
VoiceOwner == [client : MaybeClient, disconnected : {"live", "grace", "expired"},
               wants : BOOLEAN]
NoOwner == [client |-> None, disconnected |-> "live", wants |-> FALSE]

\* A voice state update.  client is who asked for a join, to follow its token.
Command == [guild : Guilds, client : MaybeClient, join : BOOLEAN]
Leave(g) == [guild |-> g, client |-> None, join |-> FALSE]
NoCommand == Leave(None)

\* "state" and "leave" are the bot's own VOICE_STATE_UPDATE with and without a
\* channel, "token" is VOICE_SERVER_UPDATE for the join of that client.
Event == [type : {"state", "leave", "token"}, guild : Guilds, client : MaybeClient]

\* An event on its way through the dispatcher: to is who gets the voice token.
Dispatched == [event : Event, to : MaybeClient]
Idle == [event |-> [type |-> "none", guild |-> None, client |-> None], to |-> None]

-----------------------------------------------------------------------------
(* Helpers *)

\* Handlers that have started and not finished.
BusyConn(c) == pc[c] \notin {"closed", "serving"}
Busy == Cardinality({c \in Conns : BusyConn(c)})
        + Cardinality({s \in LocalShards : dispatching[s] # Idle})
        + (IF sweepPc = "idle" THEN 0 ELSE 1)

\* A worker thread is free to start a handler.
CanStart == Busy < Workers

\* voice_owner
Owned(g) == owners[g].client # None

\* shard_for_guild
Local(g) == ShardOf[g] \in LocalShards

\* bot_in_voice: unknown counts as in voice.  The model starts when a READY has told the
\* bot's user ID, for which startup waits 30 s; until then the bot counts as in voice.
BotInVoice(g) == ~Local(g) \/ ~VoiceStatesCache \/ cachedVoice[g]

\* Mutant: the owner's wish is not looked at.
AllowedIgnoresWish(owner, cl, botInVoice) ==
    owner.client \in {None, cl} \/ ~botInVoice

\* decide_voice_command
Allowed(owner, cl, botInVoice) ==
    \/ owner.client = None
    \/ owner.client = cl
    \/ ~owner.wants /\ ~botInVoice

\* Mutant: an owner that has given up is not flagged.
SetDisconnectedWanting(cl, at) ==
    owners' = [g \in Guilds |->
                 IF owners[g].client = cl /\ owners[g].wants
                 THEN [owners[g] EXCEPT !.disconnected = at]
                 ELSE owners[g]]

\* Mutant: the teardown flags nobody.
SetDisconnectedNever(cl, at) ==
    owners' = [g \in Guilds |->
                 IF owners[g].client = cl /\ at = "live"
                 THEN [owners[g] EXCEPT !.disconnected = at]
                 ELSE owners[g]]

\* set_voice_owner_disconnected
SetDisconnected(cl, at) ==
    owners' = [g \in Guilds |->
                 IF owners[g].client = cl
                 THEN [owners[g] EXCEPT !.disconnected = at]
                 ELSE owners[g]]

\* shard.sender.send, if this proxy runs the shard of the guild.
Enqueue(cmd) ==
    upstream' = IF Local(cmd.guild)
                THEN [upstream EXCEPT ![ShardOf[cmd.guild]] = Append(@, cmd)]
                ELSE upstream

\* Mutant: the leave is not sent.
SendVoiceLeaveForgets(g) == UNCHANGED upstream

\* send_voice_leave
SendVoiceLeave(g) == Enqueue(Leave(g))

Goto(c, label) == pc' = [pc EXCEPT ![c] = label]

\* Mutant: the teardown forgets the client and goes on.
CloseForgets(c) ==
    /\ client' = [client EXCEPT ![c] = None]
    /\ UNCHANGED pc

Close(c) ==
    /\ Goto(c, "closed")
    /\ client' = [client EXCEPT ![c] = None]

-----------------------------------------------------------------------------
(* handle_client: IDENTIFY and RESUME *)

\* mark_client_connected counts the connection under its first lock.
CountConnection(c, cl) ==
    /\ pc[c] = "closed"
    /\ CanStart
    /\ active' = [active EXCEPT ![cl] = @ + 1]
    /\ client' = [client EXCEPT ![c] = cl]

\* An accepted IDENTIFY for a shard this proxy runs.  A refused one ends the
\* connection and changes nothing; one for another shard is in EventDelivery.
Identify(c, cl, s) ==
    /\ CountConnection(c, cl)
    /\ leaving' = [leaving EXCEPT ![c] = {g \in Guilds : ShardOf[g] = s}]
    /\ Goto(c, "identifying")
    /\ UNCHANGED <<owners, sessions, granted, command, inVoice, sweepVars,
                   dispatchVars, upstream, discordVars>>

\* A RESUME of a session of the same principal.  It leaves voice alone.
Resume(c, cl) ==
    /\ cl \in sessions
    /\ CountConnection(c, cl)
    /\ Goto(c, "resuming")
    /\ UNCHANGED <<owners, sessions, granted, command, inVoice, leaving,
                   sweepVars, dispatchVars, upstream, discordVars>>

\* The rest of mark_client_connected: the owner's record is live again.
MarkConnected(c) ==
    /\ pc[c] \in {"identifying", "resuming"}
    /\ SetDisconnected(client[c], "live")
    /\ Goto(c, IF pc[c] = "identifying" THEN "givingUp" ELSE "serving")
    /\ UNCHANGED <<active, sessions, granted, client, command, inVoice,
                   leaving, sweepVars, dispatchVars, upstream, discordVars>>

\* leave_voice_for_client: a fresh IDENTIFY gives up the guilds of its shard.
LeaveVoiceForClient(c) ==
    LET mine == {g \in leaving[c] : /\ owners[g].client = client[c]
                                    /\ owners[g].wants}
    IN  /\ pc[c] = "givingUp"
        /\ owners' = [g \in Guilds |-> IF g \in mine
                                       THEN [owners[g] EXCEPT !.wants = FALSE]
                                       ELSE owners[g]]
        /\ leaving' = [leaving EXCEPT ![c] = mine]
        /\ Goto(c, "leaving")
        /\ UNCHANGED <<active, sessions, granted, client, command,
                       inVoice, sweepVars, dispatchVars, upstream, discordVars>>

SendLeave(c, g) ==
    /\ pc[c] = "leaving"
    /\ g \in leaving[c]
    /\ SendVoiceLeave(g)
    /\ leaving' = [leaving EXCEPT ![c] = @ \ {g}]
    /\ UNCHANGED <<owners, active, sessions, granted, pc, client, command,
                   inVoice, sweepVars, dispatchVars, discordVars>>

\* create_session; the connection is ready for commands.
CreateSession(c) ==
    /\ pc[c] = "leaving"
    /\ leaving[c] = {}
    /\ sessions' = sessions \cup {client[c]}
    /\ Goto(c, "serving")
    /\ UNCHANGED <<owners, active, granted, client, command, inVoice,
                   leaving, sweepVars, dispatchVars, upstream, discordVars>>

-----------------------------------------------------------------------------
(* handle_client: op 4 *)

\* filter_client_command: the client's guilds now, not those of its IDENTIFY.
FilterClientCommand(c, g) == g \in granted[client[c]]

\* A voice command that passes the filter (current guilds of the client), the
\* channel check and the rate limit; claim_voice reads the cache before it
\* takes the lock.  A dropped command changes nothing.
VoiceCommand(c, g, join) ==
    /\ pc[c] = "serving"
    /\ CanStart
    /\ FilterClientCommand(c, g)
    /\ Len(upstream[ShardOf[g]]) < MaxUpstream
    /\ command' = [command EXCEPT ![c] =
                     [guild |-> g, client |-> IF join THEN client[c] ELSE None,
                      join |-> join]]
    /\ inVoice' = [inVoice EXCEPT ![c] = BotInVoice(g)]
    /\ Goto(c, "claiming")
    /\ UNCHANGED <<owners, active, sessions, granted, client, leaving,
                   sweepVars, dispatchVars, upstream, discordVars>>

\* claim_voice under the lock.
ClaimVoice(c) ==
    LET g == command[c].guild
    IN  /\ pc[c] = "claiming"
        /\ \/ /\ Allowed(owners[g], client[c], inVoice[c])
              /\ owners' = [owners EXCEPT ![g] =
                    IF command[c].join
                    THEN [client |-> client[c], disconnected |-> "live", wants |-> TRUE]
                    ELSE [@ EXCEPT !.wants = FALSE]]
              /\ Goto(c, "sending")
              /\ UNCHANGED command
           \/ /\ ~Allowed(owners[g], client[c], inVoice[c])
              /\ Goto(c, "serving")
              /\ command' = [command EXCEPT ![c] = NoCommand]
              /\ UNCHANGED owners
        /\ inVoice' = [inVoice EXCEPT ![c] = FALSE]
        /\ UNCHANGED <<active, sessions, granted, client, leaving, sweepVars,
                       dispatchVars, upstream, discordVars>>

\* The command goes out on the shard of its guild, or is dropped.
SendCommand(c) ==
    /\ pc[c] = "sending"
    /\ Enqueue(command[c])
    /\ command' = [command EXCEPT ![c] = NoCommand]
    /\ Goto(c, "serving")
    /\ UNCHANGED <<owners, active, sessions, granted, client, inVoice, leaving,
                   sweepVars, dispatchVars, discordVars>>

-----------------------------------------------------------------------------
(* handle_client: teardown *)

\* Mutant: off by one, the last two connections count as one.
RemainingOffByOne(n) == IF n <= 2 THEN 0 ELSE n - 1

\* The connections mark_client_disconnected leaves.
Remaining(n) == IF n <= 1 THEN 0 ELSE n - 1

\* mark_client_disconnected: the last connection also flags the owner, after
\* it has released the count's lock.
Disconnect(c) ==
    LET left == Remaining(active[client[c]])
    IN  /\ pc[c] = "serving"
        /\ CanStart
        /\ active' = [active EXCEPT ![client[c]] = left]
        /\ IF left = 0 THEN Goto(c, "disconnecting") /\ UNCHANGED client ELSE Close(c)
        /\ UNCHANGED <<owners, sessions, granted, command, inVoice, leaving,
                       sweepVars, dispatchVars, upstream, discordVars>>

MarkDisconnected(c) ==
    /\ pc[c] = "disconnecting"
    /\ SetDisconnected(client[c], "grace")
    /\ Close(c)
    /\ UNCHANGED <<active, sessions, granted, command, inVoice, leaving,
                   sweepVars, dispatchVars, upstream, discordVars>>

\* VOICE_OWNER_GRACE elapses.
GraceElapses(g) ==
    /\ owners[g].disconnected = "grace"
    /\ owners' = [owners EXCEPT ![g].disconnected = "expired"]
    /\ UNCHANGED <<active, sessions, granted, connVars, sweepVars, dispatchVars,
                   upstream, discordVars>>

-----------------------------------------------------------------------------
(* The voice sweeper *)

\* The tick: a copy of the authorized guilds.
SweepStart ==
    /\ sweepPc = "idle"
    /\ CanStart
    /\ sweepAuth' = granted
    /\ sweepPc' = "reading"
    /\ UNCHANGED <<owners, active, sessions, granted, connVars, sweepOut,
                   sweepLeaving, dispatchVars, upstream, discordVars>>

\* take_stale_voice_owners, first half: which owned guilds the bot is out of.
SweepReadVoice ==
    /\ sweepPc = "reading"
    /\ sweepOut' = {g \in Guilds : Owned(g) /\ ~BotInVoice(g)}
    /\ sweepPc' = "taking"
    /\ UNCHANGED <<owners, active, sessions, granted, connVars, sweepAuth,
                   sweepLeaving, dispatchVars, upstream, discordVars>>

\* take_stale_voice_owners under the write lock: drop the owners that gave up
\* and are out of voice, then give up the expired and the revoked ones.
TakeStaleVoiceOwners ==
    LET dropped == {g \in sweepOut : ~owners[g].wants}
        Revoked(g) == g \notin sweepAuth[owners[g].client]
        stale == {g \in Guilds : /\ owners[g].wants
                                 /\ \/ owners[g].disconnected = "expired"
                                    \/ Revoked(g)}
    IN  /\ sweepPc = "taking"
        /\ owners' = [g \in Guilds |->
                        IF g \in dropped THEN NoOwner
                        ELSE IF g \in stale THEN [owners[g] EXCEPT !.wants = FALSE]
                        ELSE owners[g]]
        /\ sweepLeaving' = stale
        /\ sweepPc' = "leaving"
        /\ UNCHANGED <<active, sessions, granted, connVars, sweepAuth, sweepOut,
                       dispatchVars, upstream, discordVars>>

SweepSendLeave(g) ==
    /\ sweepPc = "leaving"
    /\ g \in sweepLeaving
    /\ SendVoiceLeave(g)
    /\ sweepLeaving' = sweepLeaving \ {g}
    /\ UNCHANGED <<owners, active, sessions, granted, connVars, sweepPc,
                   sweepAuth, sweepOut, dispatchVars, discordVars>>

SweepEnd ==
    /\ sweepPc = "leaving"
    /\ sweepLeaving = {}
    /\ sweepPc' = "idle"
    /\ sweepAuth' = [cl \in Clients |-> {}]
    /\ sweepOut' = {}
    /\ UNCHANGED <<owners, active, sessions, granted, connVars, sweepLeaving,
                   dispatchVars, upstream, discordVars>>

-----------------------------------------------------------------------------
(* The dispatcher of a shard *)

\* audience_for a VOICE_SERVER_UPDATE.
AudienceFor(g) ==
    IF Owned(g) /\ g \in granted[owners[g].client]
    THEN owners[g].client ELSE None

\* Mutant: the bot's leave frees the guild of an owner that wants it, too.
OnBotVoiceLeaveAlways(g) == owners' = [owners EXCEPT ![g] = NoOwner]

\* on_bot_voice_leave
OnBotVoiceLeave(g) ==
    owners' = IF owners[g].wants THEN owners ELSE [owners EXCEPT ![g] = NoOwner]

\* The event reaches the lock and the clients, if the shard is READY.
DispatchEvent(s) ==
    LET e == Head(events[s])
    IN  /\ dispatching[s] = Idle
        /\ CanStart
        /\ events[s] # <<>>
        /\ events' = [events EXCEPT ![s] = Tail(@)]
        /\ IF relaying[s] /\ e.type = "leave"
           THEN OnBotVoiceLeave(e.guild) ELSE UNCHANGED owners
        /\ dispatching' = [dispatching EXCEPT ![s] =
             [event |-> e, to |-> IF relaying[s] /\ e.type = "token"
                                  THEN AudienceFor(e.guild) ELSE None]]
        /\ UNCHANGED <<active, sessions, granted, connVars, sweepVars, relaying,
                       cachedVoice, upstream, botCall>>

\* Then the event updates the shard cache.
UpdateCache(s) ==
    LET e == dispatching[s].event
    IN  /\ dispatching[s] # Idle
        /\ cachedVoice' = IF e.type = "token" THEN cachedVoice
                          ELSE [cachedVoice EXCEPT ![e.guild] = e.type = "state"]
        /\ dispatching' = [dispatching EXCEPT ![s] = Idle]
        /\ UNCHANGED <<owners, active, sessions, granted, connVars, sweepVars,
                       relaying, upstream, discordVars>>

\* A resumable INVALID_SESSION, and the RESUMED or READY after it.
SessionInvalidated(s) ==
    /\ dispatching[s] = Idle
    /\ relaying[s]
    /\ relaying' = [relaying EXCEPT ![s] = FALSE]
    /\ UNCHANGED <<owners, active, sessions, granted, connVars, sweepVars,
                   dispatching, cachedVoice, upstream, discordVars>>

SessionResumed(s) ==
    /\ dispatching[s] = Idle
    /\ ~relaying[s]
    /\ relaying' = [relaying EXCEPT ![s] = TRUE]
    /\ UNCHANGED <<owners, active, sessions, granted, connVars, sweepVars,
                   dispatching, cachedVoice, upstream, discordVars>>

-----------------------------------------------------------------------------
(* Discord (external): it handles a shard's commands in order *)

Emit(s, es) ==
    /\ Len(events[s]) + Len(es) <= MaxEvents
    /\ events' = [events EXCEPT ![s] = @ \o es]

TakeCommand(s, join) ==
    /\ upstream[s] # <<>>
    /\ Head(upstream[s]).join = join
    /\ upstream' = [upstream EXCEPT ![s] = Tail(@)]
    /\ UNCHANGED <<owners, active, sessions, granted, connVars, sweepVars, dispatchVars>>

DiscordJoins(s) ==
    LET cmd == Head(upstream[s])
        Own(type) == [type |-> type, guild |-> cmd.guild, client |-> cmd.client]
    IN  /\ TakeCommand(s, TRUE)
        /\ botCall' = [botCall EXCEPT ![cmd.guild] = cmd.client]
        /\ Emit(s, <<Own("state"), Own("token")>>)

\* A full channel, a missing permission, or the channel the bot is in already.
DiscordIgnoresJoin(s) ==
    /\ TakeCommand(s, TRUE)
    /\ UNCHANGED discordVars

LeaveEvent(g) == [type |-> "leave", guild |-> g, client |-> None]

DiscordLeaves(s) ==
    LET g == Head(upstream[s]).guild
    IN  /\ TakeCommand(s, FALSE)
        /\ botCall' = [botCall EXCEPT ![g] = None]
        /\ IF botCall[g] = None THEN UNCHANGED events
           ELSE Emit(s, <<LeaveEvent(g)>>)

\* A moderator disconnects the bot.
DiscordKicks(g) ==
    /\ botCall[g] # None
    /\ botCall' = [botCall EXCEPT ![g] = None]
    /\ Emit(ShardOf[g], <<LeaveEvent(g)>>)
    /\ UNCHANGED <<owners, active, sessions, granted, connVars, sweepVars,
                   dispatchVars, upstream>>

\* The call moves to another voice server: a new token for it.
DiscordMovesServer(g) ==
    /\ botCall[g] # None
    /\ Emit(ShardOf[g], <<[type |-> "token", guild |-> g, client |-> botCall[g]]>>)
    /\ UNCHANGED <<owners, active, sessions, granted, connVars, sweepVars,
                   dispatchVars, upstream, botCall>>

\* The registry sync grants or revokes a guild.
SetGranted(cl, g) ==
    /\ granted' = [granted EXCEPT ![cl] = IF g \in @ THEN @ \ {g} ELSE @ \cup {g}]
    /\ UNCHANGED <<owners, active, sessions, connVars, sweepVars, dispatchVars,
                   upstream, discordVars>>

-----------------------------------------------------------------------------
(* The specification *)

Init ==
    /\ owners = [g \in Guilds |-> NoOwner]
    /\ active = [cl \in Clients |-> 0]
    /\ sessions = {}
    /\ granted = [cl \in Clients |-> Guilds]
    /\ cachedVoice = [g \in Guilds |-> FALSE]
    /\ pc = [c \in Conns |-> "closed"]
    /\ client = [c \in Conns |-> None]
    /\ command = [c \in Conns |-> NoCommand]
    /\ inVoice = [c \in Conns |-> FALSE]
    /\ leaving = [c \in Conns |-> {}]
    /\ sweepPc = "idle"
    /\ sweepAuth = [cl \in Clients |-> {}]
    /\ sweepOut = {}
    /\ sweepLeaving = {}
    /\ dispatching = [s \in LocalShards |-> Idle]
    /\ relaying = [s \in LocalShards |-> TRUE]
    /\ upstream = [s \in Shards |-> <<>>]
    /\ events = [s \in Shards |-> <<>>]
    /\ botCall = [g \in Guilds |-> None]

\* The steps of a handler that has started.
Continue(c) ==
    \/ MarkConnected(c)
    \/ LeaveVoiceForClient(c)
    \/ \E g \in Guilds : SendLeave(c, g)
    \/ CreateSession(c)
    \/ ClaimVoice(c)
    \/ SendCommand(c)
    \/ MarkDisconnected(c)

Sweep ==
    \/ SweepStart
    \/ SweepReadVoice
    \/ TakeStaleVoiceOwners
    \/ \E g \in Guilds : SweepSendLeave(g)
    \/ SweepEnd

Dispatcher(s) == DispatchEvent(s) \/ UpdateCache(s)

Discord(s) == DiscordJoins(s) \/ DiscordIgnoresJoin(s) \/ DiscordLeaves(s)

Next ==
    \/ \E c \in Conns :
         \/ \E cl \in Clients : (\E s \in LocalShards : Identify(c, cl, s)) \/ Resume(c, cl)
         \/ \E g \in Guilds, join \in BOOLEAN : VoiceCommand(c, g, join)
         \/ Disconnect(c)
         \/ Continue(c)
    \/ Sweep
    \/ \E g \in Guilds : GraceElapses(g) \/ DiscordKicks(g) \/ DiscordMovesServer(g)
    \/ \E s \in LocalShards :
         Dispatcher(s) \/ SessionInvalidated(s) \/ SessionResumed(s) \/ Discord(s)
    \/ \E cl \in Revocable, g \in Guilds : SetGranted(cl, g)

Spec == Init /\ [][Next]_vars

\* Tokio runs every task that can run, the sweeper ticks every 15 s, and
\* Discord handles queued commands.  Starts wait for a free worker (SF).
Fairness ==
    /\ \A c \in Conns : WF_vars(Continue(c))
    /\ SF_vars(SweepStart)
    /\ WF_vars(Sweep)
    /\ \A g \in Guilds : WF_vars(GraceElapses(g))
    /\ \A s \in LocalShards :
         SF_vars(DispatchEvent(s)) /\ WF_vars(UpdateCache(s)) /\ SF_vars(Discord(s))

FairSpec == Spec /\ Fairness

-----------------------------------------------------------------------------
(* Properties *)

OwnersOK ==
    /\ owners \in [Guilds -> VoiceOwner]
    /\ \A g \in Guilds : owners[g].wants => Owned(g)

ConnsOK ==
    /\ active \in [Clients -> Nat]
    /\ sessions \subseteq Clients
    /\ pc \in [Conns -> Labels]
    /\ client \in [Conns -> MaybeClient]
    /\ command \in [Conns -> Command \cup {NoCommand}]
    /\ inVoice \in [Conns -> BOOLEAN]
    /\ leaving \in [Conns -> SUBSET Guilds]
    /\ \A c \in Conns : pc[c] # "closed" => client[c] \in Clients
    /\ \A c \in Conns : pc[c] \in {"claiming", "sending"} => command[c] \in Command

SweepOK ==
    /\ sweepPc \in {"idle", "reading", "taking", "leaving"}
    /\ sweepAuth \in [Clients -> SUBSET Guilds]
    /\ sweepOut \subseteq Guilds
    /\ sweepLeaving \subseteq Guilds

DispatchOK ==
    /\ dispatching \in [LocalShards -> Dispatched \cup {Idle}]
    /\ relaying \in [LocalShards -> BOOLEAN]
    /\ cachedVoice \in [Guilds -> BOOLEAN]

StreamsOK ==
    /\ upstream \in [Shards -> Seq(Command)]
    /\ events \in [Shards -> Seq(Event)]
    /\ botCall \in [Guilds -> MaybeClient]

\* Every variable has its type: a handler past IDENTIFY has a client, an op 4
\* under way has a command, and only an owner wants voice.
TypeOK ==
    /\ OwnersOK
    /\ ConnsOK
    /\ SweepOK
    /\ DispatchOK
    /\ StreamsOK
    /\ granted \in [Clients -> SUBSET Guilds]

\* However the handlers interleave, no step takes a guild from an owner that
\* still wants it: the owner first gives it up, or the sweeper does for it
\* (decide_voice_command, on_bot_voice_leave, take_stale_voice_owners).
WantingOwnerKeepsGuild ==
    [][\A g \in Guilds : owners[g].wants => owners'[g].client = owners[g].client]_vars

\* The abstract lock this module implements.
Ownership == INSTANCE VoiceOwnership
    WITH holder <- [g \in Guilds |-> owners[g].client],
         wants <- [g \in Guilds |-> owners[g].wants]

\* Every step of every handler, of the sweeper and of the dispatchers is a step of the
\* abstract lock or none: several guilds may be given up or freed at once, one is taken at
\* a time, and only from nobody or from a holder that gave it up (voice_owners).
ImplementsOwnership == Ownership!Spec

\* active_client_connections counts exactly the connections that have been
\* counted in and not yet out: an overlapping reconnect loses no connection.
Counted(cl) == {c \in Conns : client[c] = cl /\ pc[c] \notin {"closed", "disconnecting"}}
ActiveIsExact == \A cl \in Clients : active[cl] = Cardinality(Counted(cl))

\* However the handlers interleave, an owner without a connection has its
\* disconnected_at set, or the teardown that sets it is under way: no call
\* escapes the grace period (mark_client_connected, mark_client_disconnected).
DeadOwnerIsTimed ==
    \A g \in Guilds :
        /\ Owned(g)
        /\ active[owners[g].client] = 0
        => \/ owners[g].disconnected # "live"
           \/ \E c \in Conns : pc[c] = "disconnecting" /\ client[c] = owners[g].client

\* The other direction, which fails: an owner with a connection has no
\* disconnected_at once no handler of the client is under way ("Set while the
\* owner has no live gateway connection", state.rs).  The teardown flags the
\* owner after it has released the lock of the count, so a reconnect that falls
\* in between is counted and flagged live first.
LiveOwnerIsNotTimed ==
    \A g \in Guilds :
        /\ Owned(g)
        /\ active[owners[g].client] > 0
        /\ \A c \in Conns : client[c] = owners[g].client => ~BusyConn(c)
        => owners[g].disconnected = "live"

\* The call the bot is in once Discord has handled the queue is client cl's.
SettlesOn(g, cl) ==
    LET queue == upstream[ShardOf[g]]
        Mine == {i \in 1 .. Len(queue) : queue[i].guild = g}
    IN  \/ Mine = {} /\ botCall[g] = cl
        \/ \E i \in Mine : queue[i].client = cl /\ \A j \in Mine : j <= i

\* Once every started handler has finished, the call the queued commands lead
\* to belongs to an owner that wants it: a leave of the proxy is never
\* overtaken by the join it ends, and no call is left without an owner.
CallsSettleOnOwner ==
    Busy = 0 =>
        \A g \in Guilds, cl \in Clients : SettlesOn(g, cl) =>
            owners[g].wants /\ owners[g].client = cl

\* The voice token of a join only goes to the client that asked for it.
TokenReachesRequester ==
    \A s \in LocalShards :
        /\ dispatching[s].event.type = "token"
        /\ dispatching[s].to # None
        => dispatching[s].to = dispatching[s].event.client

\* A given-up guild is freed, or its owner takes it again.
GivenUpGuildIsFreed ==
    \A g \in Guilds :
        (Owned(g) /\ ~owners[g].wants) ~> (~Owned(g) \/ owners[g].wants)

\* An owner that stays disconnected gives its guild up.
DeadOwnerGivesUp ==
    \A g \in Guilds : \A cl \in Clients :
        (owners[g].client = cl /\ owners[g].wants /\ active[cl] = 0)
            ~> (owners[g].client # cl \/ ~owners[g].wants \/ active[cl] > 0)
=============================================================================
