----------------------- MODULE VoiceOneWorkerProofs -----------------------
(***************************************************************************)
(* Theorems about VoiceLock on a runtime with one worker thread, for every  *)
(* set of clients, guilds, connections and shards.  No handler awaits        *)
(* between its accesses to shared state, so that each runs to its end before *)
(* the next one starts, and the calls settle on their owners.  With two      *)
(* workers they need not (VoiceLock_OrphanedCall.cfg).                       *)
(***************************************************************************)
EXTENDS VoiceLockProofs

-----------------------------------------------------------------------------
(* The inductive invariants *)

NothingBusy ==
    /\ \A c \in Conns : ~BusyConn(c)
    /\ \A s \in LocalShards : dispatching[s] = Idle
    /\ sweepPc = "idle"

\* At most one handler has started and not finished.
OneAtATime ==
    /\ \A c, d \in Conns : BusyConn(c) /\ BusyConn(d) => c = d
    /\ \A s, t \in LocalShards : dispatching[s] # Idle /\ dispatching[t] # Idle => s = t
    /\ \A c \in Conns : BusyConn(c) =>
         sweepPc = "idle" /\ \A s \in LocalShards : dispatching[s] = Idle
    /\ sweepPc # "idle" => \A s \in LocalShards : dispatching[s] = Idle

\* A join has the client that asked for it, a leave has none.
Signed(cmd) == IF cmd.join THEN cmd.client \in Clients ELSE cmd.client = None

\* The command under way is the connection's, and after the claim of a join
\* its client owns the guild.
CommandInv ==
    \A c \in Conns : pc[c] \in {"claiming", "sending"} =>
        /\ Signed(command[c]) /\ (command[c].join => command[c].client = client[c])
        /\ pc[c] = "sending" /\ command[c].join =>
             owners[command[c].guild].wants /\ owners[command[c].guild].client = client[c]

\* Only the shards this proxy runs have commands and calls, each its own.
PlacedInv ==
    /\ \A s \in Shards : \A i \in 1 .. Len(upstream[s]) :
         Signed(upstream[s][i]) /\ ShardOf[upstream[s][i].guild] = s /\ s \in LocalShards
    /\ \A g \in Guilds : botCall[g] # None => Local(g)

\* A call or a join of client cl that no queued leave follows.
Unended(queue, call, g, cl) ==
    \/ /\ call = cl
       /\ \A j \in 1 .. Len(queue) : queue[j].guild = g => queue[j].join
    \/ \E i \in 1 .. Len(queue) :
         /\ queue[i].guild = g /\ queue[i].client = cl
         /\ \A j \in 1 .. Len(queue) : j > i /\ queue[j].guild = g => queue[j].join

\* A handler has decided to leave the guild and has still to send it.
LeaveDue(g) ==
    \/ \E c \in Conns :
         \/ pc[c] = "leaving" /\ g \in leaving[c]
         \/ pc[c] = "sending" /\ command[c].guild = g /\ ~command[c].join
    \/ sweepPc = "leaving" /\ g \in sweepLeaving

CallInv ==
    \A g \in Guilds, cl \in Clients :
        Unended(upstream[ShardOf[g]], botCall[g], g, cl) =>
            (owners[g].wants /\ owners[g].client = cl) \/ LeaveDue(g)

-----------------------------------------------------------------------------
(* One handler at a time *)

\* With one worker a handler only starts, and the lock is only said to be at
\* rest, when nothing is under way.
LEMMA NoneBusy ==
  ASSUME TypeOK, Busy < 1
  PROVE  NothingBusy
<1> DEFINE C == {c \in Conns : BusyConn(c)}
           S == {s \in LocalShards : dispatching[s] # Idle}
<1>1. IsFiniteSet(C)
  BY ConnsAssumption, FS_Subset
<1>2. IsFiniteSet(S)
  BY ShardCountAssumption, ShardAssumption, FS_Subset
<1>3. Cardinality(C) \in Nat /\ Cardinality(S) \in Nat
  BY <1>1, <1>2, FS_CardinalityType
<1>4. Cardinality(C) + Cardinality(S) + (IF sweepPc = "idle" THEN 0 ELSE 1) < 1
  BY DEF Busy
<1> HIDE DEF C, S
<1>5. Cardinality(C) = 0 /\ Cardinality(S) = 0 /\ sweepPc = "idle"
  BY <1>3, <1>4
<1>6. C = {} /\ S = {}
  BY <1>1, <1>2, <1>5, FS_EmptySet
<1> QED
  BY <1>5, <1>6 DEF NothingBusy, C, S

\* A handler that starts finds nothing under way.
LEMMA FreeWorker ==
  ASSUME TypeOK, Workers = 1, CanStart
  PROVE  NothingBusy
BY NoneBusy DEF CanStart

\* What runs: a connection's handler, a dispatcher or the sweeper moves on.
OnlyConn(c) ==
    /\ pc' \in [Conns -> Labels] /\ \A d \in Conns \ {c} : pc'[d] = pc[d]
    /\ UNCHANGED <<sweepPc, dispatching>>

\* Nothing else is under way while connection c's handler is.
Alone(c) ==
    /\ \A d \in Conns \ {c} : ~BusyConn(d)
    /\ \A s \in LocalShards : dispatching[s] = Idle
    /\ sweepPc = "idle"

\* A handler that starts, or that moves on, is the only one.
LEMMA HandlerAlone ==
  ASSUME TypeOK, Workers = 1, OneAtATime, NEW c \in Conns,
         \/ \E cl \in Clients : (\E s \in LocalShards : Identify(c, cl, s)) \/ Resume(c, cl)
         \/ \E g \in Guilds, join \in BOOLEAN : VoiceCommand(c, g, join)
         \/ Disconnect(c)
         \/ Continue(c)
  PROVE  OnlyConn(c) /\ Alone(c)
<1>1. pc \in [Conns -> Labels]
  BY DEF TypeOK, ConnsOK
<1>2. TypeOK'
  BY TypeStep DEF Next
<1>3. OnlyConn(c)
  <2>1. /\ \A d \in Conns \ {c} : pc'[d] = pc[d]
        /\ UNCHANGED <<sweepPc, dispatching>>
    BY <1>1 DEF Identify, Resume, VoiceCommand, Disconnect, Continue, MarkConnected,
       LeaveVoiceForClient, SendLeave, CreateSession, ClaimVoice, SendCommand, MarkDisconnected,
       CountConnection, Goto, Close, sweepVars, dispatchVars
  <2> QED
    BY <1>2, <2>1 DEF OnlyConn, TypeOK, ConnsOK
<1>4. CASE Continue(c)
  <2>1. BusyConn(c)
    BY <1>4 DEF Continue, MarkConnected, LeaveVoiceForClient, SendLeave, CreateSession,
       ClaimVoice, SendCommand, MarkDisconnected, BusyConn
  <2> QED
    BY <1>3, <2>1 DEF OneAtATime, Alone
<1>5. CASE \/ \E cl \in Clients : (\E s \in LocalShards : Identify(c, cl, s)) \/ Resume(c, cl)
           \/ \E g \in Guilds, join \in BOOLEAN : VoiceCommand(c, g, join)
           \/ Disconnect(c)
  <2>1. CanStart
    BY <1>5 DEF Identify, Resume, VoiceCommand, Disconnect, CountConnection
  <2> QED
    BY <1>3, <2>1, FreeWorker DEF NothingBusy, Alone
<1> QED
  BY <1>4, <1>5

\* So is the dispatcher that takes an event, and the sweeper.
LEMMA DispatcherAlone ==
  ASSUME TypeOK, Workers = 1, OneAtATime, NEW s \in LocalShards, Dispatcher(s)
  PROVE  /\ UNCHANGED <<pc, sweepPc>>
         /\ dispatching' \in [LocalShards -> Dispatched \cup {Idle}]
         /\ \A t \in LocalShards \ {s} : dispatching'[t] = dispatching[t]
         /\ \A c \in Conns : ~BusyConn(c)
         /\ \A t \in LocalShards \ {s} : dispatching[t] = Idle
         /\ sweepPc = "idle"
<1>1. dispatching \in [LocalShards -> Dispatched \cup {Idle}]
  BY DEF TypeOK, DispatchOK
<1>2. dispatching' \in [LocalShards -> Dispatched \cup {Idle}]
  BY TypeStep DEF Next, TypeOK, DispatchOK
<1>3. /\ UNCHANGED <<pc, sweepPc>>
      /\ \A t \in LocalShards \ {s} : dispatching'[t] = dispatching[t]
  BY <1>1 DEF Dispatcher, DispatchEvent, UpdateCache, connVars, sweepVars
<1>4. CASE DispatchEvent(s)
  <2>1. NothingBusy
    BY <1>4, FreeWorker DEF DispatchEvent
  <2> QED
    BY <1>2, <1>3, <2>1 DEF NothingBusy
<1>5. CASE UpdateCache(s)
  <2>1. dispatching[s] # Idle
    BY <1>5 DEF UpdateCache
  <2> QED
    BY <1>2, <1>3, <2>1 DEF OneAtATime
<1> QED
  BY <1>4, <1>5 DEF Dispatcher

\* While the sweeper runs, nothing else does.
LEMMA SweeperAlone ==
  ASSUME TypeOK, Workers = 1, OneAtATime, Sweep
  PROVE  /\ UNCHANGED <<pc, dispatching>>
         /\ \A c \in Conns : ~BusyConn(c)
         /\ \A s \in LocalShards : dispatching[s] = Idle
<1>1. UNCHANGED <<pc, dispatching>>
  BY DEF Sweep, SweepStart, SweepReadVoice, TakeStaleVoiceOwners, SweepSendLeave, SweepEnd,
     connVars, dispatchVars
<1>2. CASE SweepStart
  BY <1>1, <1>2, FreeWorker DEF SweepStart, NothingBusy
<1>3. CASE sweepPc # "idle"
  BY <1>1, <1>3 DEF OneAtATime
<1> QED
  BY <1>2, <1>3 DEF Sweep, SweepReadVoice, TakeStaleVoiceOwners, SweepSendLeave, SweepEnd

\* The rest of the steps start no handler and move none on.
Elsewhere ==
    \/ \E g \in Guilds : GraceElapses(g) \/ DiscordKicks(g) \/ DiscordMovesServer(g)
    \/ \E s \in LocalShards : SessionInvalidated(s) \/ SessionResumed(s) \/ Discord(s)
    \/ \E cl \in Revocable, g \in Guilds : SetGranted(cl, g)
    \/ UNCHANGED vars

\* They leave the tasks and the cache alone.
LEMMA ElsewhereRuns ==
  ASSUME Elsewhere
  PROVE  UNCHANGED <<connVars, sweepVars, dispatching, cachedVoice, active>>
BY DEF Elsewhere, GraceElapses, DiscordKicks, DiscordMovesServer, SessionInvalidated,
   SessionResumed, Discord, DiscordJoins, DiscordIgnoresJoin, DiscordLeaves, TakeCommand,
   SetGranted, vars, dispatchVars

\* The actions of connection c's handler.
Handles(c) ==
    \/ \E cl \in Clients : (\E s \in LocalShards : Identify(c, cl, s)) \/ Resume(c, cl)
    \/ \E g \in Guilds, join \in BOOLEAN : VoiceCommand(c, g, join)
    \/ Disconnect(c)
    \/ Continue(c)

\* Every step is one of these.
LEMMA StepKinds ==
  ASSUME [Next]_vars
  PROVE  \/ \E c \in Conns : Handles(c)
         \/ \E s \in LocalShards : Dispatcher(s)
         \/ Sweep
         \/ Elsewhere
BY DEF Next, Handles, Elsewhere

\* Handlers take turns.
LEMMA OneStep == Workers = 1 /\ TypeOK /\ OneAtATime /\ [Next]_vars => OneAtATime'
<1> SUFFICES ASSUME Workers = 1, TypeOK, OneAtATime, [Next]_vars PROVE OneAtATime'
  OBVIOUS
<1>1. ASSUME NEW c \in Conns, Handles(c)
      PROVE  OneAtATime'
  <2>1. OnlyConn(c) /\ Alone(c)
    BY <1>1, HandlerAlone DEF Handles
  <2>2. \A d \in Conns : BusyConn(d)' => d = c
    BY <2>1 DEF OnlyConn, Alone, BusyConn
  <2> QED
    BY <2>1, <2>2 DEF OneAtATime, OnlyConn, Alone
<1>2. ASSUME NEW s \in LocalShards, Dispatcher(s)
      PROVE  OneAtATime'
  <2>1. \A c \in Conns : ~BusyConn(c)'
    BY <1>2, DispatcherAlone DEF BusyConn
  <2> QED
    BY <1>2, <2>1, DispatcherAlone DEF OneAtATime
<1>3. CASE Sweep
  <2>1. \A c \in Conns : ~BusyConn(c)'
    BY <1>3, SweeperAlone DEF BusyConn
  <2> QED
    BY <1>3, <2>1, SweeperAlone DEF OneAtATime
<1>4. CASE Elsewhere
  BY <1>4, ElsewhereRuns DEF OneAtATime, BusyConn, connVars, sweepVars
<1> QED
  BY <1>1, <1>2, <1>3, <1>4, StepKinds

\* On one worker a handler, a dispatcher and the sweeper run to their end.
LEMMA HandlersTakeTurns == ASSUME Workers = 1 PROVE Spec => []OneAtATime
<1>1. Init => OneAtATime
  BY DEF Init, OneAtATime, BusyConn
<1>2. TypeOK /\ OneAtATime /\ [Next]_vars => OneAtATime'
  BY OneStep
<1> QED
  BY <1>1, <1>2, TypeCorrect, PTL DEF Spec

-----------------------------------------------------------------------------
(* What the steps do to an owner record *)

\* The record keeps its client, and its wish.
SameClient(g) == owners'[g].client = owners[g].client
SameWish(g) == owners'[g].wants = owners[g].wants

\* A claim that is allowed: a join takes the guild, a leave gives it up.
Claims(c, g) ==
    /\ pc[c] = "claiming" /\ command[c].guild = g /\ pc'[c] = "sending"
    /\ command' = command
    /\ Allowed(owners[g], client[c], inVoice[c])
    /\ IF command[c].join
       THEN /\ owners'[g].client = client[c] /\ owners'[g].disconnected = "live"
            /\ owners'[g].wants
       ELSE SameClient(g) /\ ~owners'[g].wants

\* claim_voice claims the guild of its command, and leaves the other guilds alone.
LEMMA ClaimKinds ==
  ASSUME TypeOK, NEW c \in Conns, NEW g \in Guilds, ClaimVoice(c)
  PROVE  \/ Claims(c, g)
         \/ SameClient(g) /\ SameWish(g)
            /\ (pc'[c] = "sending" => command[c].guild # g /\ command' = command)
<1> DEFINE h == command[c].guild
           mine == [client |-> client[c], disconnected |-> "live", wants |-> TRUE]
           gaveUp == [owners[h] EXCEPT !.wants = FALSE]
<1>1. client[c] \in Clients /\ h \in Guilds /\ pc \in [Conns -> Labels]
  BY DEF ClaimVoice, TypeOK, ConnsOK, Command
<1>2. owners \in [Guilds -> VoiceOwner] /\ owners[h] \in VoiceOwner
  BY <1>1 DEF TypeOK, OwnersOK
<1>3. mine.client = client[c] /\ mine.disconnected = "live" /\ mine.wants
  OBVIOUS
<1>4. /\ gaveUp.client = owners[h].client /\ gaveUp.disconnected = owners[h].disconnected
      /\ ~gaveUp.wants
  BY <1>2, GaveUp
<1>5. CASE Allowed(owners[h], client[c], inVoice[c])
  <2>1. /\ owners' = [owners EXCEPT ![h] = IF command[c].join THEN mine ELSE gaveUp]
        /\ pc'[c] = "sending" /\ command' = command /\ pc[c] = "claiming"
    BY <1>1, <1>5 DEF ClaimVoice, Goto
  <2> HIDE DEF mine, gaveUp
  <2>2. CASE g = h
    <3>1. owners'[g] = IF command[c].join THEN mine ELSE gaveUp
      BY <1>2, <2>1, <2>2
    <3> QED
      BY <1>3, <1>4, <1>5, <2>1, <2>2, <3>1 DEF Claims, SameClient
  <2>3. CASE g # h
    <3>1. owners'[g] = owners[g]
      BY <1>2, <2>1, <2>3
    <3> QED
      BY <2>1, <2>3, <3>1 DEF SameClient, SameWish
  <2> QED
    BY <2>2, <2>3
<1>6. CASE ~Allowed(owners[h], client[c], inVoice[c])
  <2>1. owners' = owners /\ pc'[c] = "serving"
    BY <1>1, <1>6 DEF ClaimVoice, Goto
  <2> QED
    BY <2>1 DEF SameClient, SameWish
<1> QED
  BY <1>5, <1>6

\* What a step of a handler does to an owner record.
LEMMA OwnerKinds ==
  ASSUME TypeOK, NEW c \in Conns, Handles(c), NEW g \in Guilds
  PROVE  \/ SameClient(g) /\ SameWish(g)
         \/ /\ MarkConnected(c) /\ owners[g].client = client[c]
            /\ SameClient(g) /\ SameWish(g) /\ owners'[g].disconnected = "live"
         \/ /\ LeaveVoiceForClient(c) /\ g \in leaving'[c]
            /\ SameClient(g) /\ ~owners'[g].wants
         \/ ClaimVoice(c) /\ Claims(c, g)
         \/ /\ MarkDisconnected(c) /\ owners[g].client = client[c]
            /\ SameClient(g) /\ SameWish(g)
<1>1. OwnersOK /\ (pc[c] # "closed" => client[c] \in Clients)
  BY DEF TypeOK, ConnsOK
<1>2. ASSUME owners' = owners
      PROVE  SameClient(g) /\ SameWish(g)
  BY <1>2 DEF SameClient, SameWish
<1>3. CASE MarkConnected(c)
  <2>1. client[c] \in Clients /\ SetDisconnected(client[c], "live")
    BY <1>1, <1>3 DEF MarkConnected
  <2> QED
    BY <1>1, <1>3, <2>1, SetDisconnectedEffect DEF SameClient, SameWish
<1>4. CASE MarkDisconnected(c)
  <2>1. client[c] \in Clients /\ SetDisconnected(client[c], "grace")
    BY <1>1, <1>4 DEF MarkDisconnected
  <2> QED
    BY <1>1, <1>4, <2>1, SetDisconnectedEffect DEF SameClient, SameWish
<1>5. CASE LeaveVoiceForClient(c)
  <2> DEFINE mine == {h \in leaving[c] : owners[h].client = client[c] /\ owners[h].wants}
  <2>1. /\ leaving'[c] = mine
        /\ owners'[g] = IF g \in mine THEN [owners[g] EXCEPT !.wants = FALSE] ELSE owners[g]
    BY <1>5 DEF LeaveVoiceForClient, TypeOK, ConnsOK
  <2>2. owners[g] \in VoiceOwner
    BY <1>1 DEF OwnersOK
  <2> HIDE DEF mine
  <2>3. CASE g \in mine
    BY <1>5, <2>1, <2>2, <2>3, GaveUp DEF SameClient
  <2>4. CASE g \notin mine
    BY <2>1, <2>4 DEF SameClient, SameWish
  <2> QED
    BY <2>3, <2>4
<1>6. CASE ClaimVoice(c)
  BY <1>6, ClaimKinds
<1>7. CASE \/ \E cl \in Clients : (\E s \in LocalShards : Identify(c, cl, s)) \/ Resume(c, cl)
           \/ \E h \in Guilds, join \in BOOLEAN : VoiceCommand(c, h, join)
           \/ Disconnect(c)
           \/ (\E h \in Guilds : SendLeave(c, h)) \/ CreateSession(c) \/ SendCommand(c)
  BY <1>2, <1>7 DEF Identify, Resume, VoiceCommand, Disconnect, SendLeave, CreateSession,
     SendCommand
<1> QED
  BY <1>3, <1>4, <1>5, <1>6, <1>7 DEF Handles, Continue

\* What the other tasks do to it: a guild that was given up is freed or, by
\* the sweeper, given up; time passes.
LEMMA SweeperOwners ==
  ASSUME TypeOK, Sweep, NEW g \in Guilds
  PROVE  \/ SameClient(g) /\ SameWish(g)
         \/ TakeStaleVoiceOwners /\ owners'[g] = NoOwner /\ ~owners[g].wants
         \/ /\ TakeStaleVoiceOwners /\ g \in sweepLeaving'
            /\ SameClient(g) /\ ~owners'[g].wants
<1>1. owners[g] \in VoiceOwner
  BY DEF TypeOK, OwnersOK
<1>2. CASE TakeStaleVoiceOwners
  <2>1. \/ owners'[g] = owners[g]
        \/ owners'[g] = [owners[g] EXCEPT !.wants = FALSE] /\ g \in sweepLeaving'
        \/ owners'[g] = NoOwner /\ ~owners[g].wants
    BY <1>2 DEF TakeStaleVoiceOwners
  <2> QED
    BY <1>1, <1>2, <2>1, GaveUp DEF SameClient, SameWish
<1>3. CASE owners' = owners
  BY <1>3 DEF SameClient, SameWish
<1> QED
  BY <1>2, <1>3 DEF Sweep, SweepStart, SweepReadVoice, SweepSendLeave, SweepEnd

\* The dispatchers free what was given up; Discord and the registry change nothing.
LEMMA OtherOwners ==
  ASSUME TypeOK, NEW g \in Guilds
  PROVE  /\ \A s \in LocalShards : Dispatcher(s) =>
              owners'[g] = owners[g] \/ (DispatchEvent(s) /\ owners'[g] = NoOwner /\ ~owners[g].wants)
         /\ Elsewhere => \/ owners'[g] = owners[g]
                         \/ owners[g].disconnected # "live" /\ SameClient(g) /\ SameWish(g)
<1>1. ASSUME NEW s \in LocalShards, Dispatcher(s)
      PROVE  owners'[g] = owners[g] \/ (DispatchEvent(s) /\ owners'[g] = NoOwner /\ ~owners[g].wants)
  BY <1>1, OnBotVoiceLeaveEffect DEF Dispatcher, UpdateCache
<1>2. ASSUME NEW h \in Guilds, GraceElapses(h)
      PROVE  \/ owners'[g] = owners[g]
             \/ owners[g].disconnected # "live" /\ SameClient(g) /\ SameWish(g)
  <2>1. owners[h] \in VoiceOwner /\ owners \in [Guilds -> VoiceOwner]
    BY DEF TypeOK, OwnersOK
  <2>2. owners[h].disconnected = "grace"
        /\ owners' = [owners EXCEPT ![h] = [owners[h] EXCEPT !.disconnected = "expired"]]
    BY <1>2 DEF GraceElapses
  <2> QED
    BY <2>1, <2>2, Disconnected DEF SameClient, SameWish
<1>3. ASSUME \/ \E h \in Guilds : DiscordKicks(h) \/ DiscordMovesServer(h)
             \/ \E s \in LocalShards : SessionInvalidated(s) \/ SessionResumed(s) \/ Discord(s)
             \/ \E cl \in Revocable, h \in Guilds : SetGranted(cl, h)
             \/ UNCHANGED vars
      PROVE  owners' = owners
  BY <1>3 DEF DiscordKicks, DiscordMovesServer, SessionInvalidated, SessionResumed,
     Discord, DiscordJoins, DiscordIgnoresJoin, DiscordLeaves, TakeCommand, SetGranted, vars
<1> QED
  BY <1>1, <1>2, <1>3 DEF Elsewhere

-----------------------------------------------------------------------------
(* Commands and calls *)

\* A handler only sends the command it has claimed.
LEMMA CommandStep ==
  Workers = 1 /\ TypeOK /\ OneAtATime /\ CommandInv /\ [Next]_vars => CommandInv'
<1> DEFINE OK(cmd, cl, label, owner) ==
             /\ Signed(cmd) /\ (cmd.join => cmd.client = cl)
             /\ label = "sending" /\ cmd.join => owner.wants /\ owner.client = cl
<1> SUFFICES ASSUME Workers = 1, TypeOK, OneAtATime, CommandInv, [Next]_vars,
                    NEW d \in Conns, pc'[d] \in {"claiming", "sending"}
             PROVE  OK(command'[d], client'[d], pc'[d], owners'[command'[d].guild])
  BY DEF CommandInv
<1>1. ASSUME NEW c \in Conns, Handles(c)
      PROVE  OK(command'[d], client'[d], pc'[d], owners'[command'[d].guild])
  <2>1. OnlyConn(c) /\ Alone(c)
    BY <1>1, HandlerAlone DEF Handles
  <2>2. d = c
    BY <2>1 DEF OnlyConn, Alone, BusyConn
  <2>3. /\ pc \in [Conns -> Labels] /\ command \in [Conns -> Command \cup {NoCommand}]
        /\ pc[c] # "closed" => client[c] \in Clients
    BY DEF TypeOK, ConnsOK
  <2>4. ASSUME NEW g \in Guilds, NEW join \in BOOLEAN, VoiceCommand(c, g, join)
        PROVE  OK(command'[d], client'[d], pc'[d], owners'[command'[d].guild])
    <3>1. /\ command'[c] = [guild |-> g, client |-> IF join THEN client[c] ELSE None, join |-> join]
          /\ client' = client /\ pc'[c] = "claiming" /\ client[c] \in Clients
      BY <2>3, <2>4 DEF VoiceCommand, Goto
    <3> QED
      BY <2>2, <3>1 DEF Signed
  <2>5. CASE ClaimVoice(c)
    <3>1. command[c].guild \in Guilds
      BY <2>5 DEF ClaimVoice, TypeOK, ConnsOK, Command
    <3>2. pc'[c] = "sending"
      BY <2>2, <2>3, <2>5 DEF ClaimVoice, Goto
    <3>3. Claims(c, command[c].guild)
      BY <2>5, <3>1, <3>2, ClaimKinds
    <3>4. client' = client
      BY <2>5 DEF ClaimVoice
    <3> QED
      BY <2>2, <3>3, <3>4 DEF Claims, CommandInv
  <2>6. ASSUME NEW cl \in Clients, (\E s \in LocalShards : Identify(c, cl, s)) \/ Resume(c, cl)
        PROVE  FALSE
    BY <2>2, <2>3, <2>6 DEF Identify, Resume, Goto
  <2>7. ~Disconnect(c)
    BY <2>2, <2>3 DEF Disconnect, Goto, Close
  <2>8. CASE Continue(c) /\ ~ClaimVoice(c)
    BY <2>2, <2>3, <2>8 DEF Continue, MarkConnected, LeaveVoiceForClient, SendLeave,
       CreateSession, SendCommand, MarkDisconnected, Goto, Close
  <2> QED
    BY <1>1, <2>4, <2>5, <2>6, <2>7, <2>8 DEF Handles
<1>2. ASSUME NEW s \in LocalShards, Dispatcher(s)
      PROVE  FALSE
  BY <1>2, DispatcherAlone DEF BusyConn
<1>3. ~Sweep
  BY SweeperAlone DEF BusyConn
<1>4. CASE Elsewhere
  <2>1. UNCHANGED <<pc, command, client>>
    BY <1>4, ElsewhereRuns DEF connVars
  <2>2. command[d].guild \in Guilds
    BY <2>1 DEF TypeOK, ConnsOK, Command
  <2>3. SameClient(command[d].guild) /\ SameWish(command[d].guild)
    BY <1>4, <2>2, OtherOwners DEF SameClient, SameWish
  <2> QED
    BY <2>1, <2>3 DEF CommandInv, SameClient, SameWish
<1> QED
  BY <1>1, <1>2, <1>3, <1>4, StepKinds

\* What is queued on a shard is for its guilds, and the shard is local.
Placed(s, cmd) == Signed(cmd) /\ ShardOf[cmd.guild] = s /\ s \in LocalShards

\* A command goes to its guild's shard.
LEMMA EnqueuePlaced ==
  ASSUME TypeOK, PlacedInv, NEW cmd \in Command, Signed(cmd), Enqueue(cmd), NEW s \in Shards
  PROVE  \A i \in 1 .. Len(upstream'[s]) : Placed(s, upstream'[s][i])
<1>1. upstream[s] \in Seq(Command) /\ ShardOf[cmd.guild] \in Shards
  BY ShardAssumption DEF TypeOK, StreamsOK, Command
<1>2. \A i \in 1 .. Len(upstream[s]) : Placed(s, upstream[s][i])
  BY DEF PlacedInv, Placed
<1>3. CASE Local(cmd.guild) /\ ShardOf[cmd.guild] = s
  <2>1. upstream'[s] = Append(upstream[s], cmd)
    BY <1>1, <1>3 DEF Enqueue, TypeOK, StreamsOK
  <2>2. Placed(s, cmd)
    BY <1>3 DEF Placed, Local
  <2> HIDE DEF Placed
  <2> QED
    BY <1>1, <1>2, <2>1, <2>2
<1>4. CASE ~(Local(cmd.guild) /\ ShardOf[cmd.guild] = s)
  <2>1. upstream'[s] = upstream[s]
    BY <1>4 DEF Enqueue, TypeOK, StreamsOK
  <2> QED
    BY <1>2, <2>1
<1> QED
  BY <1>3, <1>4

\* A handler sends leaves, and commands it has claimed.
LEMMA Sent ==
  ASSUME TypeOK, CommandInv, [Next]_vars
  PROVE  \/ upstream' = upstream
         \/ /\ \E cmd \in Command : Signed(cmd) /\ Enqueue(cmd)
            /\ botCall' = botCall
         \/ \E s \in LocalShards : Discord(s)
<1>1. ASSUME NEW g \in Guilds, SendVoiceLeave(g)
      PROVE  \E cmd \in Command : Signed(cmd) /\ Enqueue(cmd)
  <2>1. Signed(Leave(g)) /\ Enqueue(Leave(g))
    BY <1>1 DEF SendVoiceLeave, Signed, Leave
  <2> QED
    BY <2>1, LeaveType
<1>2. ASSUME NEW c \in Conns, SendCommand(c)
      PROVE  /\ \E cmd \in Command : Signed(cmd) /\ Enqueue(cmd)
             /\ botCall' = botCall
  BY <1>2 DEF SendCommand, CommandInv, TypeOK, ConnsOK, discordVars
<1>3. ASSUME NEW c \in Conns, NEW g \in Guilds, SendLeave(c, g)
      PROVE  SendVoiceLeave(g) /\ botCall' = botCall
  BY <1>3 DEF SendLeave, discordVars
<1>4. ASSUME NEW g \in Guilds, SweepSendLeave(g)
      PROVE  SendVoiceLeave(g) /\ botCall' = botCall
  BY <1>4 DEF SweepSendLeave, discordVars
<1>5. ASSUME NEW c \in Conns, Handles(c), ~SendCommand(c), \A g \in Guilds : ~SendLeave(c, g)
      PROVE  upstream' = upstream
  BY <1>5 DEF Handles, Continue, Identify, Resume, VoiceCommand, Disconnect, MarkConnected,
     LeaveVoiceForClient, CreateSession, ClaimVoice, MarkDisconnected
<1>6. ASSUME Sweep, \A g \in Guilds : ~SweepSendLeave(g)
      PROVE  upstream' = upstream
  BY <1>6 DEF Sweep, SweepStart, SweepReadVoice, TakeStaleVoiceOwners, SweepEnd
<1>7. ASSUME NEW s \in LocalShards, Dispatcher(s)
      PROVE  upstream' = upstream
  BY <1>7 DEF Dispatcher, DispatchEvent, UpdateCache
<1>8. ASSUME Elsewhere, \A s \in LocalShards : ~Discord(s)
      PROVE  upstream' = upstream
  BY <1>8 DEF Elsewhere, GraceElapses, DiscordKicks, DiscordMovesServer, SessionInvalidated,
     SessionResumed, SetGranted, vars
<1> QED
  BY <1>1, <1>2, <1>3, <1>4, <1>5, <1>6, <1>7, <1>8, StepKinds

\* What Discord does with the head of a shard's queue.
LEMMA DiscordTakes ==
  ASSUME TypeOK, NEW s \in LocalShards, Discord(s)
  PROVE  LET head == Head(upstream[s])
         IN  /\ s \in Shards /\ upstream[s] \in Seq(Command) /\ upstream[s] # <<>>
             /\ head \in Command
             /\ upstream' = [upstream EXCEPT ![s] = Tail(upstream[s])]
             /\ \/ head.join /\ botCall' = botCall
                \/ head.join /\ botCall' = [botCall EXCEPT ![head.guild] = head.client]
                \/ ~head.join /\ botCall' = [botCall EXCEPT ![head.guild] = None]
<1>1. s \in Shards /\ upstream[s] \in Seq(Command)
  BY ShardAssumption DEF TypeOK, StreamsOK
<1>2. upstream[s] # <<>> /\ upstream' = [upstream EXCEPT ![s] = Tail(upstream[s])]
  BY DEF Discord, DiscordJoins, DiscordIgnoresJoin, DiscordLeaves, TakeCommand
<1>3. Head(upstream[s]) \in Command
  BY <1>1, <1>2
<1>4. LET head == Head(upstream[s])
      IN  \/ head.join /\ botCall' = botCall
          \/ head.join /\ botCall' = [botCall EXCEPT ![head.guild] = head.client]
          \/ ~head.join /\ botCall' = [botCall EXCEPT ![head.guild] = None]
  BY DEF Discord, DiscordJoins, DiscordIgnoresJoin, DiscordLeaves, TakeCommand, discordVars
<1> QED
  BY <1>1, <1>2, <1>3, <1>4

\* Apart from its commands, only a moderator ends the bot's call.
LEMMA CallKinds ==
  ASSUME [Next]_vars
  PROVE  \/ \E s \in LocalShards : Discord(s)
         \/ \E g \in Guilds : upstream' = upstream /\ botCall' = [botCall EXCEPT ![g] = None]
         \/ botCall' = botCall
<1>1. ASSUME NEW c \in Conns, Handles(c)
      PROVE  botCall' = botCall
  BY <1>1 DEF Handles, Continue, Identify, Resume, VoiceCommand, Disconnect, MarkConnected,
     LeaveVoiceForClient, SendLeave, CreateSession, ClaimVoice, SendCommand, MarkDisconnected,
     discordVars
<1>2. ASSUME NEW s \in LocalShards, Dispatcher(s)
      PROVE  botCall' = botCall
  BY <1>2 DEF Dispatcher, DispatchEvent, UpdateCache, discordVars
<1>3. CASE Sweep
  BY <1>3 DEF Sweep, SweepStart, SweepReadVoice, TakeStaleVoiceOwners, SweepSendLeave, SweepEnd,
     discordVars
<1>4. ASSUME NEW g \in Guilds, DiscordKicks(g)
      PROVE  upstream' = upstream /\ botCall' = [botCall EXCEPT ![g] = None]
  BY <1>4 DEF DiscordKicks
<1>5. CASE Elsewhere /\ ~(\E s \in LocalShards : Discord(s)) /\ ~(\E g \in Guilds : DiscordKicks(g))
  BY <1>5 DEF Elsewhere, GraceElapses, DiscordMovesServer, SessionInvalidated, SessionResumed,
     SetGranted, vars, discordVars
<1> QED
  BY <1>1, <1>2, <1>3, <1>4, <1>5, StepKinds

\* Commands and calls stay with the shards of this proxy.
LEMMA PlacedStep == TypeOK /\ CommandInv /\ PlacedInv /\ [Next]_vars => PlacedInv'
<1> SUFFICES ASSUME TypeOK, CommandInv, PlacedInv, [Next]_vars PROVE PlacedInv'
  OBVIOUS
<1>1. \A s \in Shards : \A i \in 1 .. Len(upstream[s]) : Placed(s, upstream[s][i])
  BY DEF PlacedInv, Placed
<1>2. ASSUME NEW t \in LocalShards, Discord(t)
      PROVE  PlacedInv'
  <2> DEFINE head == Head(upstream[t])
  <2>1. /\ t \in Shards /\ upstream[t] \in Seq(Command) /\ upstream[t] # <<>>
        /\ head \in Command
        /\ upstream' = [upstream EXCEPT ![t] = Tail(upstream[t])]
        /\ botCall' = botCall \/ \E to \in MaybeClient : botCall' = [botCall EXCEPT ![head.guild] = to]
    BY <1>2, DiscordTakes DEF Command, MaybeClient
  <2>2. upstream \in [Shards -> Seq(Command)] /\ botCall \in [Guilds -> MaybeClient]
    BY DEF TypeOK, StreamsOK
  <2>3. Placed(t, head)
    BY <1>1, <2>1
  <2>4. Local(head.guild)
    BY <2>3 DEF Placed, Local
  <2>5. ASSUME NEW s \in Shards, NEW i \in 1 .. Len(upstream'[s])
        PROVE  Placed(s, upstream'[s][i])
    <3>1. CASE s = t
      <4>1. Len(Tail(upstream[t])) = Len(upstream[t]) - 1
            /\ \A j \in 1 .. Len(upstream[t]) - 1 : Tail(upstream[t])[j] = upstream[t][j + 1]
        BY <2>1
      <4>2. i + 1 \in 1 .. Len(upstream[s]) /\ upstream'[s][i] = upstream[s][i + 1]
        BY <2>1, <2>2, <3>1, <4>1
      <4> QED
        BY <1>1, <4>2
    <3>2. CASE s # t
      BY <1>1, <2>1, <2>2, <3>2
    <3> QED
      BY <3>1, <3>2
  <2>6. ASSUME NEW g \in Guilds, botCall'[g] # None
        PROVE  Local(g)
    BY <2>1, <2>2, <2>4, <2>6 DEF PlacedInv
  <2> QED
    BY <2>5, <2>6 DEF PlacedInv, Placed
<1>3. CASE ~(\E s \in LocalShards : Discord(s))
  <2>1. \A s \in Shards : \A i \in 1 .. Len(upstream'[s]) : Placed(s, upstream'[s][i])
    BY <1>1, <1>3, Sent, EnqueuePlaced
  <2>2. botCall' = botCall \/ \E g \in Guilds : botCall' = [botCall EXCEPT ![g] = None]
    BY <1>3, CallKinds
  <2>3. \A g \in Guilds : botCall'[g] # None => Local(g)
    BY <2>2 DEF PlacedInv, TypeOK, StreamsOK
  <2> QED
    BY <2>1, <2>3 DEF PlacedInv, Placed
<1> QED
  BY <1>2, <1>3

-----------------------------------------------------------------------------
(* Calls settle on owners *)

\* A queued command changes the calls of its own guild only: a leave ends
\* them all, a join adds its client's.
LEMMA UnendedAppend ==
  ASSUME NEW queue \in Seq(Command), NEW cmd \in Command, Signed(cmd), NEW call, NEW g,
         NEW cl \in Clients, Unended(Append(queue, cmd), call, g, cl)
  PROVE  \/ Unended(queue, call, g, cl) /\ (cmd.guild # g \/ cmd.join)
         \/ cmd.join /\ cmd.guild = g /\ cmd.client = cl
<1> DEFINE longer == Append(queue, cmd)
<1>1. /\ Len(queue) \in Nat /\ Len(longer) = Len(queue) + 1
      /\ \A i \in 1 .. Len(queue) : longer[i] = queue[i]
      /\ longer[Len(queue) + 1] = cmd
  OBVIOUS
<1> HIDE DEF longer
<1>2. CASE /\ call = cl
           /\ \A j \in 1 .. Len(longer) : longer[j].guild = g => longer[j].join
  BY <1>1, <1>2 DEF Unended
<1>3. ASSUME NEW i \in 1 .. Len(longer),
             longer[i].guild = g, longer[i].client = cl,
             \A j \in 1 .. Len(longer) : j > i /\ longer[j].guild = g => longer[j].join
      PROVE  \/ Unended(queue, call, g, cl) /\ (cmd.guild # g \/ cmd.join)
             \/ cmd.join /\ cmd.guild = g /\ cmd.client = cl
  <2>1. CASE i = Len(queue) + 1 /\ cmd.join
    BY <1>1, <1>3, <2>1
  <2>2. CASE i = Len(queue) + 1 /\ ~cmd.join
    BY <1>1, <1>3, <2>2, NoneAssumption DEF Signed
  <2>3. CASE i \in 1 .. Len(queue)
    BY <1>1, <1>3, <2>3 DEF Unended
  <2> QED
    BY <1>1, <2>1, <2>2, <2>3
<1> QED
  BY <1>2, <1>3 DEF Unended, longer

\* A call that Discord's next command does not end was under way, or asked
\* for, before it.
LEMMA UnendedTail ==
  ASSUME NEW queue \in Seq(Command), queue # <<>>, NEW call, NEW after, NEW g,
         NEW cl \in Clients,
         \/ after = call /\ (Head(queue).guild # g \/ Head(queue).join)
         \/ after = Head(queue).client /\ Head(queue).guild = g /\ Head(queue).join
         \/ after = None,
         Unended(Tail(queue), after, g, cl)
  PROVE  Unended(queue, call, g, cl)
<1> DEFINE rest == Tail(queue)
<1>1. /\ Len(queue) \in Nat \ {0} /\ Len(rest) = Len(queue) - 1
      /\ \A i \in 1 .. Len(rest) : i + 1 \in 1 .. Len(queue) /\ rest[i] = queue[i + 1]
      /\ \A i \in 2 .. Len(queue) : i - 1 \in 1 .. Len(rest) /\ rest[i - 1] = queue[i]
      /\ Head(queue) = queue[1]
  OBVIOUS
<1> HIDE DEF rest
<1>2. CASE after = cl /\ \A j \in 1 .. Len(rest) : rest[j].guild = g => rest[j].join
  <2>1. \A j \in 2 .. Len(queue) : queue[j].guild = g => queue[j].join
    BY <1>1, <1>2
  <2>2. CASE after = call /\ (queue[1].guild # g \/ queue[1].join)
    <3>1. \A j \in 1 .. Len(queue) : queue[j].guild = g => queue[j].join
      BY <1>1, <2>1, <2>2
    <3> QED
      BY <1>2, <2>2, <3>1 DEF Unended
  <2>3. CASE after = queue[1].client /\ queue[1].guild = g
    <3>1. \A j \in 1 .. Len(queue) : j > 1 /\ queue[j].guild = g => queue[j].join
      BY <1>1, <2>1
    <3> QED
      BY <1>1, <1>2, <2>3, <3>1 DEF Unended
  <2> QED
    BY <1>1, <1>2, <2>2, <2>3, NoneAssumption
<1>3. ASSUME NEW i \in 1 .. Len(rest),
             rest[i].guild = g, rest[i].client = cl,
             \A j \in 1 .. Len(rest) : j > i /\ rest[j].guild = g => rest[j].join
      PROVE  Unended(queue, call, g, cl)
  <2>1. i + 1 \in 1 .. Len(queue) /\ queue[i + 1].guild = g /\ queue[i + 1].client = cl
    BY <1>1, <1>3
  <2>2. ASSUME NEW j \in 1 .. Len(queue), j > i + 1, queue[j].guild = g
        PROVE  queue[j].join
    <3>1. j - 1 \in 1 .. Len(rest) /\ j - 1 > i /\ rest[j - 1] = queue[j]
      BY <1>1, <2>2
    <3> QED
      BY <1>3, <2>2, <3>1
  <2> QED
    BY <2>1, <2>2 DEF Unended
<1> QED
  BY <1>2, <1>3 DEF Unended, rest

\* What a command that is sent does to the calls of a guild, its own or not.
LEMMA EnqueueUnended ==
  ASSUME TypeOK, PlacedInv, NEW cmd \in Command, Signed(cmd), Enqueue(cmd),
         botCall' = botCall, NEW g \in Guilds, NEW cl \in Clients,
         Unended(upstream'[ShardOf[g]], botCall'[g], g, cl)
  PROVE  \/ Unended(upstream[ShardOf[g]], botCall[g], g, cl) /\ (cmd.guild # g \/ cmd.join)
         \/ cmd.join /\ cmd.guild = g /\ cmd.client = cl
<1> DEFINE s == ShardOf[g]
<1>1. s \in Shards /\ upstream \in [Shards -> Seq(Command)] /\ upstream[s] \in Seq(Command)
  BY ShardAssumption DEF TypeOK, StreamsOK
<1>2. CASE Local(cmd.guild) /\ ShardOf[cmd.guild] = s
  <2>1. upstream'[s] = Append(upstream[s], cmd)
    BY <1>1, <1>2 DEF Enqueue
  <2> QED
    BY <1>1, <2>1, UnendedAppend
<1>3. CASE ~(Local(cmd.guild) /\ ShardOf[cmd.guild] = s)
  <2>1. upstream'[s] = upstream[s]
    BY <1>1, <1>3 DEF Enqueue
  <2>2. Unended(upstream[s], botCall[g], g, cl)
    BY <2>1
  <2>3. Local(g)
    BY <1>1, <2>2, NoneAssumption DEF Unended, PlacedInv, Local
  <2> QED
    BY <1>3, <2>2, <2>3
<1> QED
  BY <1>2, <1>3

\* Discord and the moderator end calls, or take up the joins that are queued.
LEMMA ElsewhereUnended ==
  ASSUME TypeOK, PlacedInv, Elsewhere, NEW g \in Guilds, NEW cl \in Clients,
         Unended(upstream'[ShardOf[g]], botCall'[g], g, cl)
  PROVE  Unended(upstream[ShardOf[g]], botCall[g], g, cl)
<1>1. /\ ShardOf[g] \in Shards /\ upstream \in [Shards -> Seq(Command)]
      /\ botCall \in [Guilds -> MaybeClient]
  BY ShardAssumption DEF TypeOK, StreamsOK
<1>2. ASSUME NEW s \in LocalShards, Discord(s)
      PROVE  Unended(upstream[ShardOf[g]], botCall[g], g, cl)
  <2> DEFINE head == Head(upstream[s])
  <2>1. /\ s \in Shards /\ upstream[s] \in Seq(Command) /\ upstream[s] # <<>>
        /\ head \in Command
        /\ upstream' = [upstream EXCEPT ![s] = Tail(upstream[s])]
        /\ \/ head.join /\ botCall' = botCall
           \/ head.join /\ botCall' = [botCall EXCEPT ![head.guild] = head.client]
           \/ ~head.join /\ botCall' = [botCall EXCEPT ![head.guild] = None]
    BY <1>2, DiscordTakes
  <2>2. \/ botCall'[g] = botCall[g] /\ (head.guild # g \/ head.join)
        \/ botCall'[g] = head.client /\ head.guild = g /\ head.join
        \/ botCall'[g] = None
    BY <1>1, <2>1
  <2>3. CASE ShardOf[g] = s
    <3>1. upstream'[s] = Tail(upstream[s])
      BY <1>1, <2>1
    <3> HIDE DEF head
    <3> QED
      BY <2>1, <2>2, <2>3, <3>1, UnendedTail DEF head
  <2>4. CASE ShardOf[g] # s
    <3>1. upstream'[ShardOf[g]] = upstream[ShardOf[g]]
      BY <1>1, <2>1, <2>4
    <3>2. head.guild # g
      <4>1. 1 \in 1 .. Len(upstream[s]) /\ head = upstream[s][1]
        BY <2>1
      <4> QED
        BY <2>1, <2>4, <4>1 DEF PlacedInv
    <3>3. botCall'[g] = botCall[g] \/ botCall'[g] = None
      BY <2>2, <3>2
    <3> QED
      BY <3>1, <3>3, NoneAssumption DEF Unended
  <2> QED
    BY <2>3, <2>4
<1>3. CASE ~(\E s \in LocalShards : Discord(s))
  <2>1. upstream' = upstream
    BY <1>3 DEF Elsewhere, GraceElapses, DiscordKicks, DiscordMovesServer, SessionInvalidated,
       SessionResumed, SetGranted, vars
  <2>2. botCall'[g] = botCall[g] \/ botCall'[g] = None
    BY <1>1, <1>3 DEF Elsewhere, GraceElapses, DiscordKicks, DiscordMovesServer,
       SessionInvalidated, SessionResumed, SetGranted, vars, discordVars
  <2> QED
    BY <2>1, <2>2, NoneAssumption DEF Unended
<1> QED
  BY <1>2, <1>3

\* A client with a call that nothing queued ends owns the guild and wants it,
\* or a handler is about to send the leave.
LEMMA CallStep ==
  /\ Workers = 1 /\ TypeOK /\ OneAtATime /\ CommandInv /\ PlacedInv /\ CallInv
  /\ [Next]_vars
  => CallInv'
<1> SUFFICES ASSUME Workers = 1, TypeOK, OneAtATime, CommandInv, PlacedInv, CallInv, [Next]_vars,
                    NEW g \in Guilds, NEW cl \in Clients,
                    Unended(upstream'[ShardOf[g]], botCall'[g], g, cl)
             PROVE  (owners'[g].wants /\ owners'[g].client = cl) \/ LeaveDue(g)'
  BY DEF CallInv
<1> DEFINE Mine == owners[g].wants /\ owners[g].client = cl
           Going == Unended(upstream[ShardOf[g]], botCall[g], g, cl)
<1>1. Going => Mine \/ LeaveDue(g)
  BY DEF CallInv
<1>2. ASSUME SameClient(g), SameWish(g), Mine
      PROVE  owners'[g].wants /\ owners'[g].client = cl
  BY <1>2 DEF SameClient, SameWish
<1>3. ASSUME upstream' = upstream, botCall' = botCall
      PROVE  Going
  BY <1>3
<1> HIDE DEF Going, Mine
<1>4. ASSUME NEW c \in Conns, Handles(c)
      PROVE  (owners'[g].wants /\ owners'[g].client = cl) \/ LeaveDue(g)'
  <2>1. OnlyConn(c) /\ Alone(c)
    BY <1>4, HandlerAlone DEF Handles
  <2>2. LeaveDue(g) => \/ pc[c] = "leaving" /\ g \in leaving[c]
                       \/ pc[c] = "sending" /\ command[c].guild = g /\ ~command[c].join
    BY <2>1 DEF LeaveDue, Alone, BusyConn
  <2>3. pc \in [Conns -> Labels] /\ leaving \in [Conns -> SUBSET Guilds]
    BY DEF TypeOK, ConnsOK
  <2>4. ASSUME NEW h \in Guilds, SendLeave(c, h)
        PROVE  (owners'[g].wants /\ owners'[g].client = cl) \/ LeaveDue(g)'
    <3>1. /\ pc[c] = "leaving" /\ Enqueue(Leave(h)) /\ owners' = owners /\ pc' = pc
          /\ leaving' = [leaving EXCEPT ![c] = @ \ {h}] /\ botCall' = botCall
      BY <2>4 DEF SendLeave, SendVoiceLeave, discordVars
    <3>2. Signed(Leave(h)) /\ ~Leave(h).join /\ Leave(h).guild = h
      BY DEF Signed, Leave
    <3>3. Going /\ h # g
      BY <3>1, <3>2, LeaveType, EnqueueUnended DEF Going
    <3>4. CASE Mine
      BY <3>1, <3>4 DEF Mine
    <3>5. CASE LeaveDue(g)
      BY <2>2, <2>3, <3>1, <3>3, <3>5 DEF LeaveDue
    <3> QED
      BY <1>1, <3>3, <3>4, <3>5
  <2>5. CASE SendCommand(c)
    <3>1. /\ pc[c] = "sending" /\ Enqueue(command[c]) /\ owners' = owners /\ botCall' = botCall
      BY <2>5 DEF SendCommand, discordVars
    <3>2. Signed(command[c]) /\ command[c] \in Command
      BY <3>1 DEF CommandInv, TypeOK, ConnsOK
    <3>3. \/ Going /\ (command[c].guild # g \/ command[c].join)
          \/ command[c].join /\ command[c].guild = g /\ command[c].client = cl
      BY <3>1, <3>2, EnqueueUnended DEF Going
    <3>4. Mine
      BY <1>1, <2>2, <3>1, <3>3 DEF CommandInv, Mine
    <3> QED
      BY <3>1, <3>4 DEF Mine
  <2>6. CASE ~SendCommand(c) /\ \A h \in Guilds : ~SendLeave(c, h)
    <3>1. upstream' = upstream /\ botCall' = botCall
      BY <1>4, <2>6 DEF Handles, Continue, Identify, Resume, VoiceCommand, Disconnect,
         MarkConnected, LeaveVoiceForClient, CreateSession, ClaimVoice, MarkDisconnected,
         discordVars
    <3>2. ~LeaveDue(g)
      BY <1>4, <2>2, <2>6 DEF Handles, Continue, Identify, Resume, CountConnection, VoiceCommand,
         Disconnect, MarkConnected, LeaveVoiceForClient, CreateSession, ClaimVoice,
         MarkDisconnected
    <3>3. Mine
      BY <1>1, <1>3, <3>1, <3>2
    <3>4. CASE SameClient(g) /\ SameWish(g)
      BY <1>2, <3>3, <3>4
    <3>5. CASE LeaveVoiceForClient(c) /\ g \in leaving'[c]
      BY <2>3, <3>5 DEF LeaveVoiceForClient, Goto, LeaveDue
    <3>6. CASE Claims(c, g) /\ command[c].join
      BY <3>3, <3>6, NoneAssumption DEF Claims, Allowed, Mine
    <3>7. CASE Claims(c, g) /\ ~command[c].join
      BY <3>7 DEF Claims, LeaveDue
    <3> QED
      BY <1>4, <3>4, <3>5, <3>6, <3>7, OwnerKinds
  <2> QED
    BY <2>4, <2>5, <2>6
<1>5. ASSUME NEW s \in LocalShards, Dispatcher(s)
      PROVE  owners'[g].wants /\ owners'[g].client = cl
  <2>1. ~LeaveDue(g)
    BY <1>5, DispatcherAlone DEF LeaveDue, BusyConn
  <2>2. upstream' = upstream /\ botCall' = botCall
    BY <1>5 DEF Dispatcher, DispatchEvent, UpdateCache, discordVars
  <2>3. Mine
    BY <1>1, <1>3, <2>1, <2>2
  <2> QED
    BY <1>5, <2>3, OtherOwners DEF Mine
<1>6. CASE Sweep
  <2>1. LeaveDue(g) => sweepPc = "leaving" /\ g \in sweepLeaving
    BY <1>6, SweeperAlone DEF LeaveDue, BusyConn
  <2>2. ASSUME NEW h \in Guilds, SweepSendLeave(h)
        PROVE  (owners'[g].wants /\ owners'[g].client = cl) \/ LeaveDue(g)'
    <3>1. /\ Enqueue(Leave(h)) /\ owners' = owners /\ sweepPc' = sweepPc
          /\ sweepLeaving' = sweepLeaving \ {h} /\ botCall' = botCall
      BY <2>2 DEF SweepSendLeave, SendVoiceLeave, discordVars
    <3>2. Signed(Leave(h)) /\ ~Leave(h).join /\ Leave(h).guild = h
      BY DEF Signed, Leave
    <3>3. Going /\ h # g
      BY <3>1, <3>2, LeaveType, EnqueueUnended DEF Going
    <3>4. CASE Mine
      BY <3>1, <3>4 DEF Mine
    <3>5. CASE LeaveDue(g)
      BY <2>1, <3>1, <3>3, <3>5 DEF LeaveDue
    <3> QED
      BY <1>1, <3>3, <3>4, <3>5
  <2>3. CASE \A h \in Guilds : ~SweepSendLeave(h)
    <3>1. upstream' = upstream /\ botCall' = botCall
      BY <1>6, <2>3 DEF Sweep, SweepStart, SweepReadVoice, TakeStaleVoiceOwners, SweepEnd,
         discordVars
    <3>2. ~LeaveDue(g)
      BY <1>6, <2>1, <2>3 DEF Sweep, SweepStart, SweepReadVoice, TakeStaleVoiceOwners, SweepEnd
    <3>3. Mine
      BY <1>1, <1>3, <3>1, <3>2
    <3>4. CASE SameClient(g) /\ SameWish(g)
      BY <1>2, <3>3, <3>4
    <3>5. CASE TakeStaleVoiceOwners /\ g \in sweepLeaving'
      BY <3>5 DEF TakeStaleVoiceOwners, LeaveDue
    <3> QED
      BY <1>6, <3>3, <3>4, <3>5, SweeperOwners DEF Mine
  <2> QED
    BY <2>2, <2>3
<1>7. CASE Elsewhere
  <2>1. Going
    BY <1>7, ElsewhereUnended DEF Going
  <2>2. LeaveDue(g) => LeaveDue(g)'
    BY <1>7, ElsewhereRuns DEF LeaveDue, connVars, sweepVars
  <2>3. SameClient(g) /\ SameWish(g)
    BY <1>7, OtherOwners DEF SameClient, SameWish
  <2> QED
    BY <1>1, <1>2, <2>1, <2>2, <2>3
<1> QED
  BY <1>4, <1>5, <1>6, <1>7, StepKinds

\* On one worker, once the handlers are done, the call Discord is led to is
\* that of an owner that wants it.
THEOREM CallsSettle == ASSUME Workers = 1 PROVE Spec => []CallsSettleOnOwner
<1> DEFINE Inv == CommandInv /\ PlacedInv /\ CallInv
<1>1. Init => Inv
  BY ShardAssumption, NoneAssumption
     DEF Init, CommandInv, PlacedInv, CallInv, Unended
<1>2. TypeOK /\ OneAtATime /\ Inv /\ [Next]_vars => Inv'
  BY CommandStep, PlacedStep, CallStep
<1>3. TypeOK /\ Inv => CallsSettleOnOwner
  <2> SUFFICES ASSUME TypeOK, Inv, Busy = 0, NEW g \in Guilds, NEW cl \in Clients,
                      SettlesOn(g, cl)
               PROVE  owners[g].wants /\ owners[g].client = cl
    BY DEF CallsSettleOnOwner
  <2>1. ~LeaveDue(g)
    BY NoneBusy DEF NothingBusy, LeaveDue, BusyConn
  <2>2. upstream[ShardOf[g]] \in Seq(Command)
    BY ShardAssumption DEF TypeOK, StreamsOK
  <2>3. Unended(upstream[ShardOf[g]], botCall[g], g, cl)
    BY <2>2 DEF SettlesOn, Unended
  <2> QED
    BY <2>1, <2>3 DEF CallInv
<1> QED
  BY <1>1, <1>2, <1>3, TypeCorrect, HandlersTakeTurns, PTL DEF Spec
=============================================================================
