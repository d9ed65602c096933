--------------------------- MODULE EventDelivery ---------------------------
(***************************************************************************)
(* How gateway events reach the clients: the dispatcher of every shard      *)
(* (dispatch.rs, events), the offline buffers and the sessions (state.rs),  *)
(* and for every connection its handler (server.rs, handle_client) with the *)
(* forward task it spawns (server.rs, forward_shard).                       *)
(*                                                                          *)
(* All tasks run on tokio's worker threads.  Every access to shared state   *)
(* (a lock, the READY watch, the broadcast channel) is a step of its own,   *)
(* so any other task may run between two of them.                           *)
(*                                                                          *)
(* Voice commands and the voice lock are in VoiceLock; here a voice token   *)
(* is an event with an audience.                                            *)
(***************************************************************************)
EXTENDS Integers, Sequences, FiniteSets

CONSTANTS
    Clients,        \* multi-tenant client IDs
    Bot,            \* the principal of the bot token: it gets every event
    Guilds,
    Conns,          \* connections
    ShardCount,     \* total shards of the bot
    ShardStart,     \* this proxy runs the shards shard_start .. shard_end - 1
    ShardEnd,
    ShardOf,        \* shard_id_for_guild
    Backpressure,   \* capacity of a shard's broadcast channel
    BufferLimit,    \* OFFLINE_EVENT_BUFFER_LIMIT
    Inputs,         \* bound: the kinds of events Discord sends
    ResumeSeqs,     \* bound: the sequence numbers clients resume from
    MaxEvents,      \* bound: events in a behaviour
    MaxChanges,     \* bound: changes of the registry in a behaviour
    MaxConnects,    \* bound: IDENTIFYs and RESUMEs in a behaviour
    None            \* Option::None

Principals == Clients \cup {Bot}
Shards == ShardStart .. ShardEnd - 1

\* What the dispatcher needs to know of an event.  audience: None is
\* Audience::Guild, Bot is BotOnly, and a client is that client.
EventInput == [guild : Guilds \cup {None}, buffer : BOOLEAN,
               audience : Clients \cup {Bot, None}]

ASSUME PrincipalAssumption == Bot \notin Clients /\ None \notin Clients \cup Guilds \cup {Bot}
ASSUME ShardAssumption == /\ ShardStart \in Nat /\ ShardEnd \in Nat /\ ShardCount \in Nat
                          /\ ShardStart < ShardEnd /\ ShardEnd <= ShardCount
                          /\ ShardOf \in [Guilds -> 0 .. ShardCount - 1]
ASSUME BoundAssumption == /\ Backpressure \in Nat \ {0} /\ BufferLimit \in Nat \ {0}
                          /\ Inputs \subseteq EventInput /\ ResumeSeqs \subseteq Nat
                          /\ MaxEvents \in Nat /\ MaxChanges \in Nat /\ MaxConnects \in Nat

\* Messages and threads are buffered, and only a voice token has an audience.
ASSUME AudienceAssumption == \A i \in Inputs : i.buffer => i.audience = None

VARIABLES
    granted,    \* CLIENTS: the guilds of every client; {} is no entry
    changes,    \* changes of the registry so far
    ready,      \* Ready: the shard has a READY payload
    isReady,    \* is_ready of every dispatcher
    log,        \* the events every dispatcher has relayed
    dispatch,   \* the event every dispatcher has in hand
    active,     \* active_client_connections
    offline,    \* offline_event_buffers
    sessions,   \* the sessions a RESUME can find
    connects,   \* IDENTIFYs and RESUMEs so far
    conn,       \* every connection's handler and forward task
    pruning     \* the valid_ids of a cleanup under way

registryVars == <<granted, changes>>
sessionVars == <<sessions, connects>>
shardVars == <<ready, isReady, log>>
vars == <<registryVars, shardVars, dispatch, active, offline, sessionVars, conn, pruning>>

-----------------------------------------------------------------------------
(* Types *)

\* The id is the place of the event among those its shard has relayed.
Event == [shard : Shards, id : Nat, input : EventInput]

Session == [principal : Principals, shard : 0 .. ShardCount - 1]

\* stage "broadcast": sent to the subscribers, the buffering is next;
\* "buffering": under CLIENTS.read(), todo are the clients still to look at
\* and push is the one that was found disconnected.
Idle == [stage |-> "idle"]
InHand == [stage : {"broadcast", "buffering"}, event : Event,
           todo : SUBSET Clients, push : Clients \cup {None}]

\* A message to the client.  seq 0 is null; how tells replay from live.
Message == [how : {"READY", "RESUMED", "GUILD", "replay", "live"}, seq : Nat,
            what : Guilds \cup Event \cup {None}]

\* handler: the steps of handle_client; task: the steps of forward_shard.
Connection ==
    [handler : {"closed", "marking", "starting", "serving", "unmarking"},
     task : {"none", "waiting", "greeting", "replaying", "live"},
     principal : Principals \cup {None},
     asked : 0 .. ShardCount - 1,
     resuming : BOOLEAN,
     snapshot : SUBSET Guilds,   \* authorized_guilds of forward_shard
     seq : Nat,
     due : SUBSET Guilds,        \* GUILD_CREATEs still to send
     replay : Seq(Event),        \* drained and not yet replayed
     pending : Seq(Event),       \* the subscription of the broadcast channel
     out : Seq(Message),         \* everything sent to the stream writer
     greeted : Nat,              \* Len(log) of the shard at READY or RESUMED
     subscribed : Nat]           \* and at the subscription
NoConnection ==
    [handler |-> "closed", task |-> "none", principal |-> None, asked |-> 0,
     resuming |-> FALSE, snapshot |-> {}, seq |-> 0, due |-> {},
     replay |-> <<>>, pending |-> <<>>, out |-> <<>>,
     greeted |-> 0, subscribed |-> 0]

-----------------------------------------------------------------------------
(* Helpers *)

\* state.shards[shard_id]: a place in the Vec, not a shard ID.
HasIndex(i) == i < ShardEnd - ShardStart
AtIndex(i) == ShardStart + i
Served(c) == AtIndex(conn[c].asked)

IsClient(c) == conn[c].principal \in Clients

\* authenticate_gateway_token
Authenticates(p) == p \in Clients => granted[p] # {}
AuthorizedGuilds(p) == IF p = Bot THEN Guilds ELSE granted[p]

\* Mutant: the limit is off by one.
PushOver(queue, e, limit) ==
    IF Len(queue) > limit THEN Append(Tail(queue), e) ELSE Append(queue, e)

\* Mutant: the newest event goes to the front.
PushFront(queue, e, limit) ==
    IF Len(queue) >= limit THEN <<e>> \o Tail(queue) ELSE <<e>> \o queue

\* A bounded queue: the subscription of a connection, where a receiver that is
\* behind loses the oldest events (RecvError::Lagged), and an offline buffer.
Push(queue, e, limit) ==
    IF Len(queue) >= limit THEN Append(Tail(queue), e) ELSE Append(queue, e)

\* Mutant: the guilds of the IDENTIFY.
StillHasAtIdentify(c, e) ==
    IsClient(c) => e.input.guild \in conn[c].snapshot

\* is_live_guild: the client still has the guild of the event.
StillHas(c, e) ==
    IsClient(c) => /\ e.input.guild # None
                   /\ e.input.guild \in granted[conn[c].principal]

\* Mutant: the audience is checked for every principal.
AllowedAudienceFirst(c, e) ==
    /\ StillHas(c, e)
    /\ e.input.audience \in {None, conn[c].principal} \ {Bot}

\* The live stream checks the audience, too.
Allowed(c, e) ==
    /\ StillHas(c, e)
    /\ IsClient(c) => e.input.audience \in {None, conn[c].principal}

Passes(c, e, how) == IF how = "replay" THEN StillHas(c, e) ELSE Allowed(c, e)

\* stream_writer.send; once the sink is gone nobody reads the queue.
Sent(k, message) ==
    [k EXCEPT !.out = IF k.handler = "serving" THEN Append(@, message) ELSE @]

\* Mutant: an event that is filtered takes a sequence number.
RelayedCountsAll(c, k, e, how) ==
    LET next == [k EXCEPT !.seq = @ + 1]
    IN  IF Passes(c, e, how) THEN Sent(next, [how |-> how, seq |-> next.seq, what |-> e])
        ELSE next

\* The event with the next sequence number of the connection.
Relayed(c, k, e, how) ==
    IF Passes(c, e, how)
    THEN Sent([k EXCEPT !.seq = @ + 1], [how |-> how, seq |-> k.seq + 1, what |-> e])
    ELSE k

-----------------------------------------------------------------------------
(* handle_client *)

Connects == connects < MaxConnects /\ connects' = connects + 1

\* An accepted IDENTIFY; a refused one ends the connection.
Identify(c, p, i) ==
    /\ conn[c] = NoConnection
    /\ Authenticates(p)
    /\ Connects
    /\ conn' = [conn EXCEPT ![c] =
                  [NoConnection EXCEPT !.handler = "marking", !.principal = p,
                                       !.asked = i, !.snapshot = AuthorizedGuilds(p)]]
    /\ UNCHANGED <<registryVars, shardVars, dispatch, active, offline, sessions, pruning>>

\* A RESUME by the principal of the session.  Any other is answered with
\* INVALID_SESSION and closed.  A session whose IDENTIFY panicked has an ID
\* that no client knows.
Resume(c, session, seq) ==
    /\ conn[c] = NoConnection
    /\ Authenticates(session.principal)
    /\ HasIndex(session.shard)
    /\ Connects
    /\ conn' = [conn EXCEPT ![c] =
                  [NoConnection EXCEPT !.handler = "marking", !.resuming = TRUE,
                                       !.principal = session.principal,
                                       !.asked = session.shard, !.seq = seq,
                                       !.snapshot = AuthorizedGuilds(session.principal)]]
    /\ UNCHANGED <<registryVars, shardVars, dispatch, active, offline, sessions, pruning>>

\* mark_client_connected
MarkConnected(c) ==
    /\ conn[c].handler = "marking"
    /\ active' = IF IsClient(c) THEN [active EXCEPT ![conn[c].principal] = @ + 1]
                 ELSE active
    /\ conn' = [conn EXCEPT ![c].handler = "starting"]
    /\ UNCHANGED <<registryVars, shardVars, dispatch, offline, sessionVars, pruning>>

\* create_session, then the forward task.  An index past the Vec panics: the
\* handler's task ends, without its teardown.
Start(c) ==
    /\ conn[c].handler = "starting"
    /\ sessions' = IF conn[c].resuming THEN sessions
                   ELSE sessions \cup {[principal |-> conn[c].principal,
                                        shard |-> conn[c].asked]}
    /\ conn' = [conn EXCEPT ![c] =
                  IF HasIndex(conn[c].asked)
                  THEN [@ EXCEPT !.handler = "serving", !.task = "waiting"]
                  ELSE NoConnection]
    /\ UNCHANGED <<registryVars, shardVars, dispatch, active, offline, connects, pruning>>

\* The client leaves, misses its heartbeats or stops reading.  The forward
\* task is aborted where it awaits; between awaits it runs on.
Disconnect(c) ==
    LET task == conn[c].task
    IN  /\ conn[c].handler = "serving"
        /\ conn' = [conn EXCEPT ![c] =
             [@ EXCEPT !.handler = "unmarking", !.out = <<>>, !.pending = <<>>,
                       !.task = IF task \in {"waiting", "live"} THEN "none" ELSE task]]
        /\ UNCHANGED <<registryVars, shardVars, dispatch, active, offline, sessionVars, pruning>>

\* mark_client_disconnected
MarkDisconnected(c) ==
    /\ conn[c].handler = "unmarking"
    /\ active' = IF IsClient(c)
                 THEN [active EXCEPT ![conn[c].principal] = IF @ <= 1 THEN 0 ELSE @ - 1]
                 ELSE active
    /\ conn' = [conn EXCEPT ![c] = IF conn[c].task = "none" THEN NoConnection
                                   ELSE [@ EXCEPT !.handler = "closed"]]
    /\ UNCHANGED <<registryVars, shardVars, dispatch, offline, sessionVars, pruning>>

\* SESSION_TTL passes.
ExpireSession(session) ==
    /\ sessions' = sessions \ {session}
    /\ UNCHANGED <<registryVars, shardVars, dispatch, active, offline, connects, conn, pruning>>

-----------------------------------------------------------------------------
(* forward_shard *)

WaitUntilReady(s) == ready[s]

\* get_ready_payload: the cached guilds among those of the IDENTIFY.
ReadyGuilds(c) == {g \in conn[c].snapshot : ShardOf[g] = Served(c)}

\* wait_until_ready, then READY, or RESUMED which has no sequence number.
Greet(c) ==
    LET k == [conn[c] EXCEPT !.task = "greeting", !.greeted = Len(log[Served(c)])]
    IN  /\ conn[c].task = "waiting"
        /\ WaitUntilReady(Served(c))
        /\ conn' = [conn EXCEPT ![c] =
             IF k.resuming THEN Sent(k, [how |-> "RESUMED", seq |-> 0, what |-> None])
             ELSE Sent([k EXCEPT !.seq = @ + 1, !.due = ReadyGuilds(c)],
                       [how |-> "READY", seq |-> k.seq + 1, what |-> None])]
        /\ UNCHANGED <<registryVars, shardVars, dispatch, active, offline, sessionVars, pruning>>

\* get_guild_payloads: a GUILD_CREATE or GUILD_DELETE for each of them.
SendGuild(c, g) ==
    LET k == conn[c]
    IN  /\ k.task = "greeting"
        /\ g \in k.due
        /\ conn' = [conn EXCEPT ![c] =
             Sent([k EXCEPT !.seq = @ + 1, !.due = @ \ {g}],
                  [how |-> "GUILD", seq |-> k.seq + 1, what |-> g])]
        /\ UNCHANGED <<registryVars, shardVars, dispatch, active, offline, sessionVars, pruning>>

\* Mutant: the buffer is read and kept.
DrainedKept(p) == offline

\* The buffers drain_offline_events_for_client leaves.
Drained(p) == [offline EXCEPT ![p] = <<>>]

\* drain_offline_events_for_client
Drain(c) ==
    LET p == conn[c].principal
    IN  /\ conn[c].task = "greeting"
        /\ conn[c].due = {}
        /\ conn' = [conn EXCEPT ![c] =
             [@ EXCEPT !.task = "replaying",
                       !.replay = IF IsClient(c) THEN offline[p] ELSE <<>>]]
        /\ offline' = IF IsClient(c) THEN Drained(p) ELSE offline
        /\ UNCHANGED <<registryVars, shardVars, dispatch, active, sessionVars, pruning>>

\* One drained event, if the client still has its guild.
Replay(c) ==
    LET k == conn[c]
    IN  /\ k.task = "replaying"
        /\ k.replay # <<>>
        /\ conn' = [conn EXCEPT ![c] =
             Relayed(c, [k EXCEPT !.replay = Tail(@)], Head(k.replay), "replay")]
        /\ UNCHANGED <<registryVars, shardVars, dispatch, active, offline, sessionVars, pruning>>

\* Subscribe to the live stream; an aborted task ends at the await.
Subscribe(c) ==
    /\ conn[c].task = "replaying"
    /\ conn[c].replay = <<>>
    /\ conn' = [conn EXCEPT ![c] =
         IF conn[c].handler = "closed" THEN NoConnection
         ELSE [@ EXCEPT !.task = IF conn[c].handler = "serving" THEN "live" ELSE "none",
                        !.subscribed = Len(log[Served(c)])]]
    /\ UNCHANGED <<registryVars, shardVars, dispatch, active, offline, sessionVars, pruning>>

\* One event of the live stream.
Receive(c) ==
    LET k == conn[c]
    IN  /\ k.task = "live"
        /\ k.pending # <<>>
        /\ conn' = [conn EXCEPT ![c] =
             Relayed(c, [k EXCEPT !.pending = Tail(@)], Head(k.pending), "live")]
        /\ UNCHANGED <<registryVars, shardVars, dispatch, active, offline, sessionVars, pruning>>

-----------------------------------------------------------------------------
(* The dispatcher of a shard *)

\* READY, and RESUMED of a session that is still there.
Ready(s) ==
    /\ dispatch[s] = Idle
    /\ ~isReady[s]
    /\ ready' = [ready EXCEPT ![s] = TRUE]
    /\ isReady' = [isReady EXCEPT ![s] = TRUE]
    /\ UNCHANGED <<registryVars, log, dispatch, active, offline, sessionVars, conn, pruning>>

\* INVALID_SESSION
InvalidateSession(s, canResume) ==
    /\ dispatch[s] = Idle
    /\ isReady[s]
    /\ ready' = [ready EXCEPT ![s] = canResume]
    /\ isReady' = [isReady EXCEPT ![s] = FALSE]
    /\ UNCHANGED <<registryVars, log, dispatch, active, offline, sessionVars, conn, pruning>>

\* An event: it goes to every subscriber.  While the shard is not READY
\* events are dropped.
Broadcast(s, input) ==
    LET e == [shard |-> s, id |-> Len(log[s]) + 1, input |-> input]
        Subscribed(c) == conn[c].task = "live" /\ Served(c) = s
    IN  /\ dispatch[s] = Idle
        /\ isReady[s]
        /\ log' = [log EXCEPT ![s] = Append(@, input)]
        /\ conn' = [c \in Conns |->
             IF Subscribed(c) THEN [conn[c] EXCEPT !.pending = Push(@, e, Backpressure)]
             ELSE conn[c]]
        /\ dispatch' = IF input.buffer /\ input.guild # None
                       THEN [dispatch EXCEPT ![s] = [stage |-> "broadcast", event |-> e,
                                                     todo |-> {}, push |-> None]]
                       ELSE dispatch
        /\ UNCHANGED <<registryVars, ready, isReady, active, offline, sessionVars, pruning>>

\* The dispatcher is done when no client is left.
Looked(d) == IF d.todo = {} /\ d.push = None THEN Idle ELSE d

\* buffer_event_for_disconnected_clients takes CLIENTS.read().
BufferEvent(s) ==
    LET d == dispatch[s]
    IN  /\ d.stage = "broadcast"
        /\ dispatch' = [dispatch EXCEPT ![s] = Looked([d EXCEPT
             !.stage = "buffering",
             !.todo = {cl \in Clients : d.event.input.guild \in granted[cl]}])]
        /\ UNCHANGED <<registryVars, shardVars, active, offline, sessionVars, conn, pruning>>

\* is_client_connected
CheckConnected(s, cl) ==
    LET d == dispatch[s]
    IN  /\ d.stage = "buffering"
        /\ d.push = None
        /\ cl \in d.todo
        /\ dispatch' = [dispatch EXCEPT ![s] = Looked([d EXCEPT
             !.todo = @ \ {cl}, !.push = IF active[cl] > 0 THEN None ELSE cl])]
        /\ UNCHANGED <<registryVars, shardVars, active, offline, sessionVars, conn, pruning>>

\* push_offline_event_for_client
PushOffline(s) ==
    LET d == dispatch[s]
    IN  /\ d.stage = "buffering"
        /\ d.push # None
        /\ offline' = [offline EXCEPT ![d.push] = Push(@, d.event, BufferLimit)]
        /\ dispatch' = [dispatch EXCEPT ![s] = Looked([d EXCEPT !.push = None])]
        /\ UNCHANGED <<registryVars, shardVars, active, sessionVars, conn, pruning>>

-----------------------------------------------------------------------------
(* The registry and its cleanup *)

\* The sync writes CLIENTS, when no reader holds it.
SetGranted(cl, guilds) ==
    /\ changes < MaxChanges
    /\ \A s \in Shards : dispatch[s].stage # "buffering"
    /\ guilds # granted[cl]
    /\ granted' = [granted EXCEPT ![cl] = guilds]
    /\ changes' = changes + 1
    /\ UNCHANGED <<shardVars, dispatch, active, offline, sessionVars, conn, pruning>>

\* The cleanup reads the registered clients, then drops the other buffers.
PruneRead ==
    /\ pruning = None
    /\ \E cl \in Clients : granted[cl] = {}
    /\ pruning' = {cl \in Clients : granted[cl] # {}}
    /\ UNCHANGED <<registryVars, shardVars, dispatch, active, offline, sessionVars, conn>>

PruneStaleClientState ==
    /\ pruning # None
    /\ offline' = [cl \in Clients |-> IF cl \in pruning THEN offline[cl] ELSE <<>>]
    /\ pruning' = None
    /\ UNCHANGED <<registryVars, shardVars, dispatch, active, sessionVars, conn>>

-----------------------------------------------------------------------------
(* The specification *)

Init ==
    /\ granted = [cl \in Clients |-> Guilds]
    /\ changes = 0
    /\ ready = [s \in Shards |-> FALSE]
    /\ isReady = [s \in Shards |-> FALSE]
    /\ log = [s \in Shards |-> <<>>]
    /\ dispatch = [s \in Shards |-> Idle]
    /\ active = [cl \in Clients |-> 0]
    /\ offline = [cl \in Clients |-> <<>>]
    /\ sessions = {}
    /\ connects = 0
    /\ conn = [c \in Conns |-> NoConnection]
    /\ pruning = None

\* Events of a shard are about its guilds, or about none.
InputsOf(s) == {i \in Inputs : i.guild = None \/ ShardOf[i.guild] = s}

Total == LET S[s \in ShardStart - 1 .. ShardEnd - 1] ==
               IF s = ShardStart - 1 THEN 0 ELSE Len(log[s]) + S[s - 1]
         IN  S[ShardEnd - 1]

Handler(c) == MarkConnected(c) \/ Start(c) \/ MarkDisconnected(c)

Forward(c) ==
    \/ Greet(c)
    \/ \E g \in Guilds : SendGuild(c, g)
    \/ Drain(c)
    \/ Replay(c)
    \/ Subscribe(c)
    \/ Receive(c)

Dispatcher(s) ==
    \/ Ready(s)
    \/ \E canResume \in BOOLEAN : InvalidateSession(s, canResume)
    \/ Total < MaxEvents /\ \E input \in InputsOf(s) : Broadcast(s, input)
    \/ BufferEvent(s)
    \/ \E cl \in Clients : CheckConnected(s, cl)
    \/ PushOffline(s)

Next ==
    \/ \E c \in Conns :
         \/ \E p \in Principals, i \in 0 .. ShardCount - 1 : Identify(c, p, i)
         \/ \E session \in sessions, seq \in ResumeSeqs : Resume(c, session, seq)
         \/ Handler(c)
         \/ Forward(c)
         \/ Disconnect(c)
    \/ \E s \in Shards : Dispatcher(s)
    \/ \E session \in sessions : ExpireSession(session)
    \/ \E cl \in Clients, guilds \in SUBSET Guilds : SetGranted(cl, guilds)
    \/ PruneRead
    \/ PruneStaleClientState

Spec == Init /\ [][Next]_vars

-----------------------------------------------------------------------------
(* Properties *)

\* Every variable has its type, and no queue is longer than its limit.
TypeOK ==
    /\ granted \in [Clients -> SUBSET Guilds]
    /\ changes \in Nat
    /\ ready \in [Shards -> BOOLEAN]
    /\ isReady \in [Shards -> BOOLEAN]
    /\ log \in [Shards -> Seq(EventInput)]
    /\ dispatch \in [Shards -> InHand \cup {Idle}]
    /\ active \in [Clients -> Nat]
    /\ offline \in [Clients -> Seq(Event)]
    /\ \A cl \in Clients : Len(offline[cl]) <= BufferLimit
    /\ sessions \subseteq Session
    /\ connects \in Nat
    /\ conn \in [Conns -> Connection]
    /\ \A c \in Conns : Len(conn[c].pending) <= Backpressure
    /\ pruning \in (SUBSET Clients) \cup {None}

Events(k) == {i \in 1 .. Len(k.out) : k.out[i].how \in {"replay", "live"}}

\* However the dispatchers interleave with the forward tasks, a connection gets
\* the events of a shard in the order Discord sent them and none of them twice:
\* what it replays comes before what it hears live.
InOrderOnce ==
    \A c \in Conns : \A i, j \in Events(conn[c]) :
        /\ i < j
        /\ conn[c].out[i].what.shard = conn[c].out[j].what.shard
        => conn[c].out[i].what.id < conn[c].out[j].what.id

\* A connection starts with READY or RESUMED, and its sequence numbers have no
\* gap, whatever is filtered, replayed, lagged or renumbered on the way: the
\* client resumes from the last one.
NoSequenceGap ==
    \A c \in Conns : LET out == conn[c].out IN
        \A i \in 1 .. Len(out) :
            /\ (out[i].how \in {"READY", "RESUMED"}) <=> (i = 1)
            /\ i > 1 /\ out[i - 1].how # "RESUMED" => out[i].seq = out[i - 1].seq + 1

\* Two reconnects of a client that race for its offline buffer never replay
\* the same event, and what one of them replays has left the buffer.
ReplayedOnce ==
    LET Taken(c) == {conn[c].replay[i] : i \in 1 .. Len(conn[c].replay)}
                    \cup {conn[c].out[i].what : i \in {j \in 1 .. Len(conn[c].out) :
                                                        conn[c].out[j].how = "replay"}}
        Kept(cl) == {offline[cl][i] : i \in 1 .. Len(offline[cl])}
    IN  \A c \in Conns : IsClient(c) =>
          /\ Taken(c) \cap Kept(conn[c].principal) = {}
          /\ \A d \in Conns \ {c} : conn[d].principal = conn[c].principal =>
               Taken(c) \cap Taken(d) = {}

\* The bot token sees everything; a client sees its guilds, and the voice
\* tokens that are for it.
Entitled(p, input) ==
    p = Bot \/ (input.guild \in granted[p] /\ input.audience \in {None, p})

\* The events of its shard since number n.
Since(c, n) == LET s == Served(c)
               IN  {[shard |-> s, id |-> i, input |-> log[s][i]] : i \in n + 1 .. Len(log[s])}

\* The events connection c was sent or has in its subscription.
Has(c) == {conn[c].out[i].what : i \in Events(conn[c])}
          \cup {conn[c].pending[i] : i \in 1 .. Len(conn[c].pending)}

\* The events since its subscription that connection c is without.
Missed(c) == Since(c, conn[c].subscribed) \ Has(c)

\* However long it has been subscribed, a connection that comes to miss an
\* event may not have it at that moment, or the event was a whole capacity of
\* the channel behind the newest (broadcast::channel(CONFIG.backpressure)).
MissesOnlyByLag ==
    [][\A c \in Conns :
         conn[c].task = "live" /\ conn'[c].task = "live" =>
             \A e \in Missed(c)' \ Missed(c) :
                 \/ ~Entitled(conn[c].principal, e.input)
                 \/ e.id + Backpressure <= Len(log'[e.shard])]_vars

\* A client only gets events of guilds it has in the registry at that moment,
\* and a voice token only as its audience: the IDENTIFY's guilds do not count.
OnlyCurrentGuilds ==
    [][\A c \in Conns :
         /\ IsClient(c)
         /\ Len(conn'[c].out) > Len(conn[c].out)
         /\ conn'[c].out[Len(conn'[c].out)].how \in {"replay", "live"}
         => Entitled(conn[c].principal, conn'[c].out[Len(conn'[c].out)].what.input)]_vars

\* "When a client sends an IDENTIFY payload, it takes the shard ID specified
\* and relays all events for that shard to the client" (README.md): from READY
\* on, a connection that is not behind misses nothing.
RelaysAll ==
    \A c \in Conns :
        /\ conn[c].task = "live"
        /\ changes = 0
        /\ Len(log[Served(c)]) - conn[c].greeted <= Backpressure
        => \A e \in Since(c, conn[c].greeted) :
             Entitled(conn[c].principal, e.input) => e \in Has(c)

\* The same sentence: a connection that asks for a shard this proxy runs is
\* served that shard, whatever range of shards the proxy runs.
ServesShardAskedFor ==
    \A c \in Conns :
        conn[c].handler = "serving" /\ conn[c].asked \in Shards => Served(c) = conn[c].asked
=============================================================================
