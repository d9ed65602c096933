# Verification of the Discord gateway proxy

The proxy keeps one gateway connection per shard of a Discord bot and lets many
client processes share them.  A client either holds the bot token, and then
sees everything, or is a *multi-tenant client* with its own ID, secret and set
of guilds, and then sees and changes only those.  This directory holds TLA+
models of the parts that carry state shared between tasks, TLC configurations
that check them on small instances, and TLAPS proofs for every instance.

Source lines are in `PROJECT.json` (`map`): every definition that models code
names the lines it stands for.

## Contents

| File | What it is |
| --- | --- |
| `VoiceLock.tla` | who owns the bot's voice connection in a guild (`state.rs`, `server.rs`, `main.rs`, `dispatch.rs`) |
| `VoiceOwnership.tla` | what that lock promises: an abstract specification `VoiceLock` implements |
| `ClientRegistry.tla` | the sync of the client registry with Postgres, and authentication (`db_config.rs`, `main.rs`) |
| `EventDelivery.tla` | dispatcher, broadcast channel, offline buffers, sessions, forward tasks (`dispatch.rs`, `state.rs`, `server.rs`) |
| `Connection.tla` | one gateway connection: loop, teardown, sink task with compression, timeouts (`server.rs`) |
| `ClientLimits.tla` | command rate limit, wake-ups, typing and their cleanup, in time (`state.rs`, `wake.rs`, `dispatch.rs`, `main.rs`) |
| `RestProxy.tla` | a REST request from arrival to answer (`rest_proxy.rs`, `auth.rs`) |
| `*Proofs.tla` | TLAPS proofs about the module of that name |
| `VoiceOneWorkerProofs.tla` | TLAPS proofs about `VoiceLock` with one worker thread |
| `MC*.tla`, `*.cfg` | instances for TLC |

Run one with `tlc -config VoiceLock1.cfg MCVoiceLock`, check the proofs with
`tlapm VoiceLockProofs.tla`.

## Inventory

The process is one tokio runtime.  Its tasks share `State` (an `Arc<Inner>` of
locks, `state.rs`) and the registry `CLIENTS` (`db_config.rs`).

| Component | State | Operations | Talks to |
| --- | --- | --- | --- |
| Voice owner lock (`state.rs`) | `voice_owners`: owner, `disconnected_at`, `wants_voice` per guild | `claim_voice`, `leave_voice_for_client`, `on_bot_voice_leave`, `take_stale_voice_owners`, `set_voice_owner_disconnected` | handlers, dispatchers, sweeper, REST proxy |
| Client connection handler (`server.rs`) | `active_client_id`, `command_scope`, session ID | IDENTIFY, RESUME, op 4, op 8, heartbeat, teardown | lock, sessions, shard senders, forward task |
| Event relay (`dispatch.rs`, `server.rs`) | READY payload, `is_ready`, broadcast channel, offline buffers, sequence numbers | `events`, `buffer_event_for_disconnected_clients`, `forward_shard` | Discord, handlers, cache |
| Client registry (`db_config.rs`) | `CLIENTS`, `LAST_SUCCESSFUL_SYNC_UNIX_SECS`, `dirty_client_ids` | LISTEN, snapshot, refresh, reconcile, poll, authenticate | Postgres, every authentication |
| Guild cache (`cache.rs`) | twilight's cache per shard | update, READY and GUILD_CREATE payloads | dispatcher, handlers, lock |
| Command rate limit (`state.rs`) | a window and a count per client | `allow_client_command`, pruning | handler |
| Wake (`wake.rs`, `state.rs`) | last wake per client, typing tasks | `should_wake_client`, scheduled wakes, HTTP wake, wake typing | dispatcher, registry, client's `reachable_url` |
| Outgoing sink (`server.rs`) | zlib stream, queue | compression decision, `send_in_time`, close | handler, forward task |
| REST proxy (`rest_proxy.rs`) | the request under way | normalization, route classification, authorization, channel lookup, voice check, forwarding, rewriting | registry, lock, cache, Discord's REST API |
| Startup and shutdown (`main.rs`) | task handles | wait for sync and READY, sweeper, cleanup, shutdown | all |
| Payload scanner, models, configuration, upgrade | none, or constants | parsing, I/O | |

What is hard in it:

* **Interleaving.**  Handlers, dispatchers and the sweeper run on several worker
  threads and take short locks one after the other.  What a handler read under
  one lock can be stale under the next (`claim_voice`, `take_stale_voice_owners`,
  `mark_client_connected`, `is_client_connected` before the push to a buffer).
* **Two streams that cross.**  Commands go to Discord, events come back later;
  the proxy decides on the cache, which trails both.
* **Failure.**  Clients vanish and come back within a grace period, sessions are
  invalidated, the listener connection breaks and the sync falls back to polling.
* **Timeouts.**  Heartbeats, a client that does not read, the flush of a close
  frame, the wake cooldown, typing deadlines: each races what it waits for.
* **Awaits in a request.**  The REST proxy authorizes, then waits for a lookup, for
  a body of any length and for Discord, while grants, owners and channels change.
* **Limits.**  Broadcast channel, offline buffer, command window.

What makes each component correct:

* *Voice lock*: at most one client uses a guild's voice; an owner keeps it while
  it wants it; a dead owner loses it after the grace period; a given-up guild is
  freed; every call the bot is in has an owner.
* *Registry*: no change of the table is lost or undone, whatever it races with;
  valid credentials are never refused for good by a registry that was not loaded.
* *Event delivery*: a client gets the events of its guilds of the moment, in
  order, once, numbered without gaps, and misses none but by overload.
* *Connection and sink*: a connection is counted once and counted out once; its
  commands have the scope of its events; a compressed stream stays compressed;
  heartbeats are acknowledged, rejections heard if the flush is in time, dead clients
  dropped.
* *Rate limit and wake*: the limit bounds what any span of time lets through;
  wake-ups are spaced, yet a client that is due is woken.
* *REST proxy*: the bot's token never reaches a guild its sender was not granted;
  only the voice owner moves the bot; the proxy's own answers are true at Discord.

`PROJECT.json` lists the hazards one by one, at their lines, with the properties
that would catch them.

## The modules

### VoiceLock

One action is one access to shared state (a lock, the shard cache, the shard's
command channel).  The tasks:

| Code | Actions |
| --- | --- |
| IDENTIFY | `Identify` (count the connection), `MarkConnected` (clear `disconnected_at`), `LeaveVoiceForClient`, `SendLeave` per guild, `CreateSession` |
| RESUME | `Resume`, `MarkConnected` |
| op 4 | `VoiceCommand` (filter, and the cache read of `claim_voice`), `ClaimVoice` (the decision under the lock), `SendCommand` |
| teardown | `Disconnect`, `MarkDisconnected` |
| sweeper | `SweepStart`, `SweepReadVoice`, `TakeStaleVoiceOwners`, `SweepSendLeave` per guild, `SweepEnd` |
| dispatcher | `DispatchEvent` (lock and audience), then `UpdateCache`; `SessionInvalidated`, `SessionResumed` |
| Discord (external) | `DiscordJoins`, `DiscordIgnoresJoin`, `DiscordLeaves`, `DiscordKicks`, `DiscordMovesServer` |
| registry and time | `SetGranted`, `GraceElapses` |

None of these handlers awaits between its accesses.  On a host with one core
tokio has one worker, and a handler, once started, runs to its end: `Workers = 1`.
On more cores, the normal case of the multi-threaded runtime that `main.rs:336`
builds, they interleave at every access: `Workers = 2`.  `CanStart` is the free worker;
it guards the actions that start a handler.  What holds for any number of workers
is proved for any number; what two workers break is a run with two and a finding.

Abstractions: a command is its guild, whether it joins and who asked for it; the
rate limit and a channel that is not the guild's appear as a command that is not
sent at all; `disconnected_at` is live, within its grace, or past it.

Shards are those of a proxy with `shard_start = 0`, where an index into
`state.shards` is a shard ID (EventDelivery models the other case).

`VoiceOwnership` is the lock as its users see it: per guild a holder and whether
it wants voice, and four steps: keep, give up, free, take.  A guild is taken one
at a time and only from nobody, oneself or a holder that has given up.
`ImplementsOwnership` maps `holder` and `wants` to `voice_owners`.  It is checked
in `voice_one_worker` and proved for any number of workers.

### ClientRegistry

The sync task's `pc` walks through `run_realtime_loop` (connect, LISTEN, snapshot,
then the arms of `select!`) and `run_poll_loop`.  Every query and every write of
shared state is an action, because the task awaits in between and the table
changes meanwhile: `LoadClientsSnapshot`, `MarkSyncSuccess`, `WriteClients`;
`RefreshQuery`, `RefreshClientsByIds`, `ClearDirty`; `ReceiveNotification`,
`ReconcileTick`, `HealthCheck`; the errors `ListenerFails`, `ReceiveError`,
`RealtimeFails`, `PollFails`.  Authentication is two reads, `AuthState` and
`AuthRegistry`, that other steps may separate.

A client's rows are a secret and a version.  Every change increments the
version, so that "older" has a meaning; what `group_rows_into_clients` computes
from the rows is not in the model.  The model has a database; without one the
registry never changes.

### EventDelivery

Every connection has a handler (`Identify`/`Resume`, `MarkConnected`, `Start`,
`Disconnect`, `MarkDisconnected`) and the forward task it spawns (`Greet`,
`SendGuild`, `Drain`, `Replay`, `Subscribe`, `Receive`).  The dispatcher of a
shard takes an event (`Broadcast`), looks at the clients with its guild
(`BufferEvent`, `CheckConnected`) and buffers for the absent (`PushOffline`).
`Ready` and `InvalidateSession` change whether it relays.  The cleanup is
`PruneRead` and `PruneStaleClientState`; `SetGranted` is the registry.

An event is its shard, its place in the shard's stream and what the filter looks
at: guild, audience, whether `should_buffer_event` holds.  A subscription of the
broadcast channel is a queue of its own with the channel's capacity, which
drops its oldest event when it is full: what a receiver sees of
`tokio::sync::broadcast`.  `forward_shard` is aborted by the teardown; the abort
takes effect at its next await, which is why `Disconnect` leaves a task that is
greeting or replaying where it is.

`StillHas` is the look at the registry that replay and live events share, `Allowed`
adds the audience, which only live events are tested for.  That is enough because
what is buffered has no audience (`AudienceAssumption`: `should_buffer_event` takes
no voice events).

`log`, `greeted` and `subscribed` are history: no action's guard reads them
except the bound on events.

### Connection

The loop of `handle_client` handles a message without an await, so a message of
the client is one action: `Heartbeat`, `Identify`, `IdentifyRefused`, `Resume`,
`ResumeAgain`, `ResumeRejected`, `ResumeRefused`, `CommandTooEarly`, `Command`; the
other ways out of the loop are `StreamEnds`, `SinkEnded` and `HeartbeatTimeout`.
`Break` aborts the sink with what is queued; `BreakGracefully` queues the close
frame, drops the writer and waits in `flushing` until the sink is through
(`FlushEnds`) or two seconds are over, which aborts it (`FlushTimesOut`).  The model
has no clock there: the timeout may win against any queue and any client, a slow one
that still reads included, and such a client loses the end of the queue with
INVALID_SESSION and the close frame in it.

The sink task walks through `hello`, `pending` (the `select!` between the
compression decision and the queue), `draining` and `done`.  A message becomes a
text, a binary or a close frame (`FrameFor`); what zlib makes of the bytes is left
out.  The forward task is a source of events that an abort stops at its next await.
The client hangs up, stalls or falls silent at any time; the heartbeat timer may
run out just before the next heartbeat.

### ClientLimits

A clock, `now`, in units that the constants are given in.  `AllowClientCommand` is
the fixed window of `allow_client_command`; `BufferEvent` is what a dispatcher does
for clients that are away (cooldown, POST, typing task); `ScheduledWakes` is a tick
of `spawn_scheduled_wakes`; `PulseTyping` is a typing task that wakes up and ends or
calls Discord, `PulseAnswered` the answer, as late as it likes, from which the task
sleeps; one task per client is followed.  `CleanupRead`,
`PruneWakes`, `PruneWindows` the cleanup, whose list of valid clients may be old
when it is used.  `should_wake_client` records an attempt for a client without a
URL too, as the code does.

Timers are on time: the clock does not pass one that has not run (a call of Discord is
no timer).  The properties
are bounds in time and would need the delay of the scheduler as a further summand
otherwise.  `accepted`, `posted` and `asleep` are history.

### RestProxy

One request at a time, since requests share nothing but what they read.  `Receive`
runs to the first await (400, 503, 401, 403 or on); `LookupChannel`, `ReadBody` and
`Relay` or `UpstreamFails` are what happens at each await.  In between,
`SetGranted`, `SetOwner`, `BotReady`, `DeleteChannel` and `UpdateCache` change what
the handler reads.

A path is a sequence of segments.  The two normalizations of the code (the `/v10`
prefix, `%40me`) are `Normalize`; every segment that the upstream client would
rewrite is `".."`.  Percent-encoded spellings of ordinary segments (`Encoded`) pass
`is_canonical_path` and go upstream as they are, and the proxy compares segments raw.
`Reaches` says what Discord takes a path for, decoded; it is written from
Discord's routes, not from `resolve_route_scope`, so that the property compares the
two.  Discord answers a request with success, 403, 404 or anything else, and `Relay`
passes each on.  The verdict of the registry is an input; ClientRegistry is about it.

## The runs

| Run | Instance | Checks | Shows |
| --- | --- | --- | --- |
| `voice_one_worker` | 2 clients, 2 connections, 1 guild, 2 shards, 1 worker | `TypeOK`, `ActiveIsExact`, `DeadOwnerIsTimed`, `CallsSettleOnOwner`, `WantingOwnerKeepsGuild`, `ImplementsOwnership` | uninterrupted handlers: every call the queued commands lead to has an owner that wants it, no guild is taken from an owner that wants it, an owner that is away is on the clock |
| `voice_live` | 2 clients, 1 connection, 1 guild, 1 worker | `GivenUpGuildIsFreed`, `DeadOwnerGivesUp` | a given-up guild is freed, an owner that stays away gives up |
| `voice_late_token` | as `voice_one_worker`, 1 shard | `TokenReachesRequester` | **violated**, finding 1 |
| `voice_orphaned_call` | 1 connection, 2 workers | `CallsSettleOnOwner` | **violated**, finding 2 |
| `voice_timed_live_owner` | 2 connections, 2 workers, 1 shard | `LiveOwnerIsNotTimed` | **violated**, finding 5 |
| `registry` | 2 clients, 2 versions, 2 queued notifications, 2 errors | `TypeOK`, `NoLostUpdate`, `InvalidNeedsSnapshot`, `NeverStepsBack`, `EventuallyInStep` | no interleaving of writes with LISTEN, loads and refreshes loses a change or brings old rows back; nobody is refused for good before a snapshot was read; in the end registry and table are equal |
| `delivery` | 1 client and the bot token, 2 connections, 2 connects, 2 events, 1 grant change | `TypeOK`, `InOrderOnce`, `NoSequenceGap`, `ReplayedOnce`, `MissesOnlyByLag`, `OnlyCurrentGuilds` | ordered, gapless, authorized delivery; no event replayed twice; whatever a subscriber loses, at any time, it may not have or is a whole capacity behind |
| `delivery_gap` | 1 connection | `RelaysAll` | **violated**, finding 3 |
| `delivery_shard_index` | 3 shards, of which the proxy runs 1 and 2 | `ServesShardAskedFor` | **violated**, finding 4 |
| `connection` | 2 clients and the bot token, with and without compression, a queue of 2 events | `TypeOK`, `CountedWhileActive`, `OneScope`, `TextClosesWithCode`, `NeverBackToText`, `HeartbeatAcked`, `DeadClientIsDropped` | every order of ops, timeouts, stalls and hang-ups of one connection; a rejection is heard unless the flush times out |
| `limits` | 1 client, limit 2 in a window of 3, cooldown 2, poll 1, typing 3 in pulses of 2, time to 4 | `TypeOK`, `AtMostTwiceTheLimit`, `DueClientIsWoken`, `PulsesAreBounded`, `WakesAreSpaced` | bounds in time, across the end of a window, a cooldown, a deadline and a cleanup |
| `rest` | 2 clients, the bot token and a stranger, 2 guilds, 1 channel, 38 paths, GET and PATCH | `TypeOK`, `BotTokenStaysInScope`, `GatewayUrlIsTheProxys`, `VoiceChangeByOwner`, `ChannelAnswerIsTrue` | every kind of route, in and out of scope, with everything changing at every await |

### Bounds

* `MaxUpstream`, `MaxEvents` (VoiceLock): clients and Discord pause while that
  many commands or events are queued.  Two commands (a join and the leave that
  crosses it) and three events (the state and token of a join and one more) are
  what it takes to have an old call's events in flight behind a new owner.
* One guild: the lock treats guilds independently, except for IDENTIFY's set and
  the sweep, which loop over them.  The proofs are for any number.  The second
  shard gives an IDENTIFY that leaves the guild alone.
* Two clients, two connections: owner and rival, and a client that reconnects
  while its old connection is torn down.
* `MaxVersion`, `MaxNotify`, `MaxFailures` (ClientRegistry): a change before and
  during or after a query; a second notification behind the one at hand; an error in the
  realtime loop and one in the poll loop.
* `delivery`: two events make order, duplication and lag (capacity 1) visible, two
  connections race for the buffer or are followed one by the other.  The offline
  ring (limit 2) fills but does not overflow with two events; its eviction is the
  same `Push` that drops at the channel's capacity.
* `MaxConnects`, `MaxChanges`: IDENTIFYs and RESUMEs, and registry changes, of a
  behaviour.
* `MaxQueue` (Connection): events in front of and behind a close frame.  One
  connection: connections share only the count, which VoiceLock has for several.
* `MaxTime` (ClientLimits): a command window, its end and the window behind it, two
  cooldowns, a cooldown and a poll, a typing deadline and the pulses before it.  The
  clients' limits are independent of each other.
* `AllPaths` (RestProxy): every branch of `resolve_route_scope` and of
  `bot_voice_change_guild`, taken and just missed, both prefixes, a rewritten path
  and percent-encoded ones.
  `Revocable`: one client's grants change; the other keeps its own.
* Symmetry in clients and connections is declared only for runs of safety
  properties, whose definitions name no particular one.

Deadlock is checked in every run but those of Connection, which ends.

### Fairness

*VoiceLock* (`voice_live`): weak fairness of a started handler, the sweep and the
cache update, since tokio polls every task that is ready; strong fairness of
what needs a free worker to start (`SweepStart`, `DispatchEvent`), since the
workers' queues are fair and a task that is ready again and again is polled;
`GraceElapses` is time; Discord handles the commands of a shard (strong, because
the bound on queued events disables it at times).  Clients are not fair, and
neither are revocations, kicks, lost sessions or their return: both properties
hold whether or not these happen.  A command that is lost between proxy and
Discord is not modelled.

*ClientRegistry* (`registry`): weak fairness of the sync task, strong fairness
of the arms of `select!`, which polls them in random order: an arm that is ready
again and again is taken.  The reconcile tick recurs every 60 s.  Errors and
writes of the table are bounded, so a behaviour has a last one; the property
speaks of what follows it.

*Connection* (`connection`): weak fairness of the sink task, of the abort, of the end
of the flush one way or the other (its two seconds pass) and of each branch of
`handle_client`'s `select!` that stays ready; the heartbeat timer runs out once the client is silent for good.  The client owes
nothing: it need not read, send or hang up.

There is no liveness property of the REST proxy: neither the read of a body nor
its HTTP client has a timeout, so a request may wait for ever.  That of wake-ups is
`DueClientIsWoken`, a bound in time and so a safety property.

## Findings

1. `TokenReachesRequester`: the audience of a VOICE_SERVER_UPDATE is the guild's
   owner when it is dispatched.  An owner that joins and gives up before Discord
   has handled the join looks out of voice; another client takes the guild, and
   the first join's token goes to it.  `README.md:253` and `state.rs:29-31` say
   it does not.
2. `CallsSettleOnOwner` with two workers: `claim_voice` records a join under the
   lock, the command is sent after it.  If the sweeper gives the guild up in
   between, its leave precedes the join, and the bot stays in a call nobody owns.
   With one worker the property holds.
3. `RelaysAll`: a client counts as connected from its IDENTIFY, and subscribes
   after READY and the replay.  Events in between are neither buffered nor relayed.
   A subscription taken before the buffer is drained would close the gap.
4. `ServesShardAskedFor`: `state.shards` starts at `shard_start` and is indexed with
   the client's shard ID.
5. `LiveOwnerIsNotTimed` with two workers: count and flag are changed under different
   locks (`state.rs:230-231`, `239-240`).  A connect that runs between the two locks
   of a teardown clears the flag before the teardown sets it.  The owner is connected
   and on the clock, though `state.rs:27` says the flag is set "while the owner has no
   live gateway connection", and its call ends after the grace period.

More that follows from the models, without a run of its own:

* The sink compresses every message of a connection with compression, close frames
  included (`server.rs:250-254`, `270-274`; `FrameFor`), so that client gets a binary
  message and a socket that ends without 4003, 4007 or 4009; the comments at
  `server.rs:660` and `717` count on 4007.  `TextClosesWithCode` is about connections
  without compression.
* With two workers `GivenUpGuildIsFreed` fails too, as a consequence of finding 2:
  the guild of an orphaned call is given up, and the bot does not leave it.
* `mark_sync_success` runs before `CLIENTS` is written (`db_config.rs:364-367`), so a
  server that runs before the first sync refuses valid credentials as `Invalid`
  rather than `Stale` for a moment, which the comment at `db_config.rs:86-88` warns
  of.  `InvalidNeedsSnapshot` is what does hold: the snapshot has been read.

## The proofs

All proofs are by an inductive invariant, with one lemma per group of actions and
one step per action.  They hold for any sets of clients, guilds, shards and
connections (finite for the last two), any capacities and bounds and, but for
VoiceOneWorkerProofs, any number of workers.
Their assumptions are the named `ASSUME`s of the component's module, which TLC
evaluates in every run.  The strengthenings were checked with TLC before they were
proved.

*VoiceLockProofs*

* `TypeCorrect`: `TypeOK` is inductive because it says more than types: a handler
  past IDENTIFY has a client, an op 4 under way has a command, and only an owner
  wants voice.
* `OwnerKeepsGuild` (`WantingOwnerKeepsGuild`): from `TypeOK` alone.  The steps that
  matter are `ClaimVoice`, where the decision was prepared by a stale cache read,
  and `TakeStaleVoiceOwners`, which drops only owners that do not want the guild
  *now*, whatever its first half saw.
* `ActiveCorrect` (`ActiveIsExact`): inductive with `TypeOK`; each connect adds one
  connection to `Counted` and each teardown removes one, and the saturating
  decrement never saturates because the connection that is removed was counted.
* `DeadOwnerTimed` (`DeadOwnerIsTimed`): needs `ActiveIsExact`.  A claim makes its
  client a live owner, which is only right because the claiming connection is
  itself counted (`CountedIsActive`); and a connect that clears the flag has
  counted itself before.

*VoiceOneWorkerProofs* (EXTENDS VoiceLockProofs)

What `voice_one_worker` checks and two workers break (finding 2).  The theorem has the
hypothesis `Workers = 1`, a host with one core, as the run has.  The lemma
`HandlersTakeTurns` (at most one connection's handler, dispatcher or sweep has started
and not finished) is where the hypothesis is used; it says nothing of its own.

* `CallsSettle` (`CallsSettleOnOwner`): `CallInv` is about every moment, not only the
  quiet ones.  Whenever a call or a queued join of a client has no leave of the guild
  behind it (`Unended`), the client owns the guild and wants it, or a handler or the
  sweeper has decided to leave and has still to send it (`LeaveDue`).  A join is added
  only with its claim in force (`CommandInv`); an IDENTIFY, a leave and a sweep that
  give the guild up have their leave due in the same step; a sent leave ends every
  call of its guild, since a guild's commands go through one queue (`PlacedInv`); what
  Discord and moderators do only ends calls.

*VoiceOwnershipProofs*

* `LockImplementsOwnership` (`ImplementsOwnership`): initial states map to initial
  states, and each action maps to a step of `VoiceOwnership` or a stutter, using
  `TypeOK` (only an owner wants voice).  `ClaimVoice` is `Take`, a leave, an IDENTIFY
  and the first half of a sweep are `GiveUp`, a leave event and the second half are
  `Free`; the sweep does several guilds in one step.

*ClientRegistryProofs*

* `TypeCorrect`: `TypeOK`.
* `NothingLost` (`NoLostUpdate`): inductive with `TypeOK`.  The invariant is stated
  about the *upcoming* entry, the one in the registry once the load under way is
  written, so that it holds between query and write; LISTEN before the snapshot is
  what makes it hold at the start.
* `RegistryNeverStepsBack` (`NeverStepsBack`): from `VersionsOrdered`, a version in the
  registry is at most that in the last query's result while one is being applied,
  which is at most that in the table.

* `InvalidAfterSnapshot` (`InvalidNeedsSnapshot`): a `Fresh` or `Stale` registry, and so
  an authentication that saw one, implies that a snapshot was read.

*EventDeliveryProofs*

Each invariant is stated of one connection's record, or of a log, a buffer and a
dispatcher's hand, so that the effect of an action is stated once (what sends,
what drains, what pushes) and each invariant is checked against these few effects.

* `TypeCorrect`, and the lemma `ShapeCorrect` that the others start from: which stages
  of handler and forward task go together.  Only a live task has a subscription,
  only a replaying one a drained buffer, which it may keep after its handler has
  gone.
* `NumbersWithoutGap` (`NoSequenceGap`): `SequenceInv` adds that the last number sent
  is the connection's counter.
* `SentOnlyWhileEntitled` (`OnlyCurrentGuilds`): an action property; the only steps that
  add an event to what a client was sent are `Replay` and `Receive`, which look at
  the registry in that step.
* `DeliveredInOrder` (`InOrderOnce`): `OrderInv` follows an event from the log through
  the dispatcher's hand and the offline buffer to the connection.  What was sent of
  a shard is ascending, what is drained is ascending and behind it, a subscription
  is exactly the tail of the log and begins behind all that was sent of its shard; a
  buffer is ascending and, as long as the dispatcher may still push its event for
  that client, older than that event.  The last part is what makes an append
  under a stale look at `is_client_connected` harmless to the order.
* `ReplaysOnce` (`ReplayedOnce`): `OnceInv`, a drained event is neither in the buffer nor
  with another connection of the client, and the dispatcher will not push it again.
* `OnlyLagLoses` (`MissesOnlyByLag`): an action property, so that it is about every
  event of a subscription's life and not only the first.  `OpenInv` says that what is
  replayed was never meant for somebody else.  With `OrderInv` a subscription is the
  tail of the log: a push drops its head only when it holds a whole capacity
  (`PushMisses`), and a receive drops what the filter rejects, which is what the client
  may not have (`ReceiveMisses`).

*ConnectionProofs*

* `TypeCorrect`, with the count of a connection in 0..1, needs `CountInv`: what is
  counted is `active_client_id`.  `CountedCorrectly` (`CountedWhileActive`) follows.
* `ScopeIsOne` (`OneScope`): `ScopeInv` says that while the loop runs, the scope is that
  of the events being forwarded; a second RESUME changes it, but leaves the loop in
  the same step.
* `StaysBinary` (`NeverBackToText`): `BinaryInv`, a binary frame was sent only with
  compression on, which is never turned off.
* `TextCloses` (`TextClosesWithCode`): `CloseInv` and `SinkInv` say where the close frame is.
  While flushing, either it is the last frame sent, or it is in the queue with
  INVALID_SESSION in front of it unless that was sent, and the sink goes on or was
  aborted.  The hypothesis that the sink ended by itself (`sink = "done"`) is what the
  flush timeout takes away.

*ClientLimitsProofs*

* `CommandsLimited` (`AtMostTwiceTheLimit`): `CommandsOK` relates the history to the
  current window: the last `count` commands fall in it, those before it precede it,
  and the command `2 * Limit` before any is at least a window older.
* `WakesSpaced`: `WakesInv`, a posted wake-up is no later than the recorded attempt.
* `DueClientWoken`: `PollInv` (the next poll is within `Poll`) and `SleepInv`, which bounds
  the time since the last attempt by a cooldown and the polls that have passed.
* `TypingEnded` (`PulsesAreBounded`): `PaceInv`, a task's k-th pulse is at least k - 1
  pulses after its start, and a pulse is sent only before the deadline.  Nothing is
  assumed about how long a call takes.

*RestProxyProofs*

* `ScopeShape`: what the scope of a path says of its segments, for every path.
* `TokenStaysInScope` (`BotTokenStaysInScope`): `CacheInv`, a cached channel is where the
  cache says or deleted; `RequestInv`, a request under way is canonical and a client's
  is *cleared*, by its guild or its route, unless its lookup is pending.  Clearance
  survives whatever changes, because a channel never moves to another guild.
* `VoiceChangedByOwner` (`VoiceChangeByOwner`): a cleared request for `guilds/...` has the
  ID that `bot_voice_change_guild` parses, and the check is made after the body is
  read, in the step that sends.  It covers `@me`, `%40me` and the bot's literal ID;
  `bot_voice_change_guild` compares raw segments (`rest_proxy.rs:264-274`), and no
  other encoded spelling is claimed.
* `ChannelAnswersTrue` (`ChannelAnswerIsTrue`): an action property from `ScopedInv`, of the
  steps in which the proxy answers without asking; what Discord answered is relayed
  and its own.  `GatewayUrlRewritten` (`GatewayUrlIsTheProxys`): with `GatewayInv`.

Every invariant and every action property of the passing runs is a theorem.  Only
model-checked are the liveness properties: `GivenUpGuildIsFreed`, `DeadOwnerGivesUp`,
`EventuallyInStep`, `HeartbeatAcked` and `DeadClientIsDropped` (fairness and `ENABLED`
are beyond the prover).

## Not modelled

* Sessions of the bot token bypass the voice lock: their voice commands can end or
  start a call without it.  VoiceLock has no such session.
* A command that is lost with a shard's session, or whose send fails
  (`state.rs:369`).  The code does not retry: the guild stays given up until the
  next leave of the bot.
* The count that stays behind when a handler panics after `mark_client_connected`
  (`server.rs:605` with an index past the end of `state.shards`, `shard_start > 0`);
  EventDelivery's `Start` stops the handler.
* Events that arrive while a shard is not ready, and are dropped (`dispatch.rs:284`):
  the properties speak of the log of relayed events.
* What Discord makes of percent-encoded segments that the proxy does not compare, in
  a voice change; `Reaches` decodes them for the scope check.
* The number of typing tasks: every message for a client that is away starts one.
* READY and GUILD_CREATE use the guilds of the IDENTIFY after a wait
  (`server.rs:334`); the model does the same, and `OnlyCurrentGuilds` is about relayed
  and replayed events.
* A client that is pruned by an old list while it registers again loses its buffer
  and its limits; the properties of ClientLimits speak of what follows a pruning.
  An event within a wake cooldown is not retried by the dispatcher, so
  `DueClientIsWoken` is about scheduled wakes only.
* Shutdown: a flag, a close of every shard and a wait with a deadline, after which
  the process ends and nothing is kept.
* The outcome of the wake-up POST and of a typing pulse, which are only logged.
* The payload scanner, the serde models, configuration, upgrade and metrics: string
  handling and I/O without shared state.
* What the twilight cache rebuilds for READY and GUILD_CREATE, beyond which guilds
  they list.

## Plan

Done, in this order: VoiceLock (the tenants' isolation in voice, and the most
intricate locking), ClientRegistry (everything is authorized by it), EventDelivery;
then Connection, RestProxy, ClientLimits and the abstract VoiceOwnership.

Then their proofs, EventDelivery's and those of the one-worker properties last.

Next:

1. An abstract specification of a client's event stream (a cursor per shard that
   only moves forward over events it is entitled to), implemented by EventDelivery
   along `OrderInv`.
2. The same for the registry: a copy of the table that follows it.
