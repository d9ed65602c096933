------------------------ MODULE EventDeliveryProofs ------------------------
(***************************************************************************)
(* Theorems about EventDelivery for every set of clients, guilds and        *)
(* connections, every range of shards and every capacity of the queues.     *)
(***************************************************************************)
EXTENDS EventDelivery, TLAPS

-----------------------------------------------------------------------------
(* The inductive invariants *)

\* How the steps of a connection's handler and of its forward task go
\* together, and what each leaves in the connection.
Shape(k) ==
    /\ k.handler # "closed" \/ k.task # "none" => k.principal \in Principals
    /\ k.task # "none" => HasIndex(k.asked)
    /\ k.handler \in {"marking", "starting"} => k.task = "none"
    /\ k.handler = "serving" => k.task # "none" /\ (k.task = "waiting" <=> k.out = <<>>)
    /\ k.handler # "serving" => k.out = <<>> /\ k.task \notin {"waiting", "live"}
    /\ k.task # "live" => k.pending = <<>>
    /\ k.task # "replaying" => k.replay = <<>>

\* A place of the stream that holds an event holds one of the type.
IsEvent(m) == m.how \in {"replay", "live"}
EventsTyped(k) ==
    /\ \A i \in 1 .. Len(k.out) : IsEvent(k.out[i]) => k.out[i].what \in Event
    /\ k.task \in {"waiting", "greeting"} => \A i \in 1 .. Len(k.out) : ~IsEvent(k.out[i])

ShapeInv == \A c \in Conns : Shape(conn[c]) /\ EventsTyped(conn[c])

\* NoSequenceGap of one connection, and the last number is the connection's.
Sequenced(k) ==
    /\ \A i \in 1 .. Len(k.out) :
         /\ (k.out[i].how \in {"READY", "RESUMED"}) <=> (i = 1)
         /\ i > 1 /\ k.out[i - 1].how # "RESUMED" => k.out[i].seq = k.out[i - 1].seq + 1
    /\ k.out # <<>> /\ k.out[Len(k.out)].how # "RESUMED" => k.out[Len(k.out)].seq = k.seq

SequenceInv == \A c \in Conns : Sequenced(conn[c])

\* Of the log l: the event number n of a shard, and an event of the log.
LogEvent(l, s, n) == [shard |-> s, id |-> n, input |-> l[s][n]]
Known(l, e) == e.id \in 1 .. Len(l[e.shard]) /\ e.input = l[e.shard][e.id]

\* e was relayed before f, if they are of the same shard.
Before(e, f) == e.shard = f.shard => e.id < f.id
Ascending(q) == \A i, j \in 1 .. Len(q) : i < j => Before(q[i], q[j])

\* What a connection was sent is in order, what it has drained comes after it.
OrderedReplay(l, k) ==
    /\ \A i, j \in 1 .. Len(k.out) :
         i < j /\ IsEvent(k.out[i]) /\ IsEvent(k.out[j]) => Before(k.out[i].what, k.out[j].what)
    /\ \A i \in 1 .. Len(k.out), j \in 1 .. Len(k.replay) :
         IsEvent(k.out[i]) => Before(k.out[i].what, k.replay[j])
    /\ \A i \in 1 .. Len(k.out) : IsEvent(k.out[i]) => Known(l, k.out[i].what)
    /\ Ascending(k.replay)
    /\ \A i \in 1 .. Len(k.replay) : Known(l, k.replay[i])

\* A subscription holds the last events of its shard, and the connection was
\* sent none of them.
Position(l, k) == Len(l[AtIndex(k.asked)]) - Len(k.pending)
OrderedLive(l, k) ==
    k.task = "live" =>
        /\ k.subscribed <= Position(l, k)
        /\ \A i \in 1 .. Len(k.pending) :
             k.pending[i] = LogEvent(l, AtIndex(k.asked), Position(l, k) + i)
        /\ \A i \in 1 .. Len(k.out) :
             IsEvent(k.out[i]) /\ k.out[i].what.shard = AtIndex(k.asked)
             => k.out[i].what.id <= Position(l, k)

\* An offline buffer holds events of the shards in their order.
OrderedBuffer(l, q) == Ascending(q) /\ \A i \in 1 .. Len(q) : Known(l, q[i])

\* The event a dispatcher has in hand is the last of its shard.
InHandOK(l, s, d) ==
    d # Idle =>
        /\ d.event = LogEvent(l, s, Len(l[s]))
        /\ Len(l[s]) > 0
        /\ d.push \notin d.todo
        /\ d.stage = "broadcast" => d.push = None

\* Dispatcher d may still push its event to the buffer of client cl.
MayPush(d, cl) ==
    d # Idle /\ (d.stage = "broadcast" \/ cl \in d.todo \/ d.push = cl)

\* Event e comes before what the dispatcher of its shard may push to cl.
Earlier(hands, cl, e) == MayPush(hands[e.shard], cl) => e.id < hands[e.shard].event.id

OrderInv ==
    /\ \A c \in Conns : OrderedReplay(log, conn[c]) /\ OrderedLive(log, conn[c])
    /\ \A cl \in Clients : OrderedBuffer(log, offline[cl])
    /\ \A s \in Shards : InHandOK(log, s, dispatch[s])
    /\ \A cl \in Clients : \A i \in 1 .. Len(offline[cl]) :
         Earlier(dispatch, cl, offline[cl][i])

\* The events a connection has drained or replayed, and those of a buffer.
Drawn(k, e) ==
    \/ \E i \in 1 .. Len(k.replay) : k.replay[i] = e
    \/ \E i \in 1 .. Len(k.out) : k.out[i].how = "replay" /\ k.out[i].what = e
Buffered(q, e) == \E i \in 1 .. Len(q) : q[i] = e

\* What a client's connection has drained is not in its buffer, not with
\* another of its connections, and the dispatcher will not buffer it again.
OnceInv ==
    \A c \in Conns, cl \in Clients : conn[c].principal = cl =>
        \A e \in Event : Drawn(conn[c], e) =>
            /\ ~Buffered(offline[cl], e)
            /\ Earlier(dispatch, cl, e)
            /\ \A d \in Conns \ {c} : conn[d].principal = cl => ~Drawn(conn[d], e)

\* Only events without an audience are buffered and replayed.
Open(e) == e.input.audience = None
AllOpen(q) == \A i \in 1 .. Len(q) : Open(q[i])
OpenInv ==
    /\ \A c \in Conns : AllOpen(conn[c].replay)
    /\ \A cl \in Clients : AllOpen(offline[cl])
    /\ \A s \in Shards : dispatch[s] # Idle => Open(dispatch[s].event)

-----------------------------------------------------------------------------
(* What the steps do to a connection *)

\* The fields no step of a connection's life changes.
SamePeer(k, l) ==
    l.principal = k.principal /\ l.asked = k.asked /\ l.resuming = k.resuming

\* Messages are sent, events taken from a queue, and nothing else.
SameStage(k, l) ==
    l.handler = k.handler /\ l.task = k.task /\ l.subscribed = k.subscribed

\* A connection's record with one field changed.
LEMMA ConnectionTask ==
  ASSUME NEW k \in Connection,
         NEW t \in {"none", "waiting", "greeting", "replaying", "live"}
  PROVE  [k EXCEPT !.task = t] \in Connection
BY DEF Connection

\* The handler moves on.
LEMMA ConnectionHandler ==
  ASSUME NEW k \in Connection,
         NEW h \in {"closed", "marking", "starting", "serving", "unmarking"}
  PROVE  [k EXCEPT !.handler = h] \in Connection
BY DEF Connection

\* Another sequence number.
LEMMA ConnectionSeq ==
  ASSUME NEW k \in Connection, NEW n \in Nat
  PROVE  [k EXCEPT !.seq = n] \in Connection
BY DEF Connection

\* What IDENTIFY or RESUME sets.
LEMMA ConnectionPeer ==
  ASSUME NEW k \in Connection
  PROVE  /\ \A p \in Principals : [k EXCEPT !.principal = p] \in Connection
         /\ \A i \in 0 .. ShardCount - 1 : [k EXCEPT !.asked = i] \in Connection
         /\ \A r \in BOOLEAN : [k EXCEPT !.resuming = r] \in Connection
         /\ \A gs \in SUBSET Guilds : [k EXCEPT !.snapshot = gs] \in Connection
<1>1. \A p \in Principals : [k EXCEPT !.principal = p] \in Connection
  BY DEF Connection
<1>2. \A i \in 0 .. ShardCount - 1 : [k EXCEPT !.asked = i] \in Connection
  BY DEF Connection
<1>3. \A r \in BOOLEAN : [k EXCEPT !.resuming = r] \in Connection
  BY DEF Connection
<1>4. \A gs \in SUBSET Guilds : [k EXCEPT !.snapshot = gs] \in Connection
  BY DEF Connection
<1> QED
  BY <1>1, <1>2, <1>3, <1>4

\* Where in the log READY was sent, or the subscription was taken.
LEMMA ConnectionPlace ==
  ASSUME NEW k \in Connection, NEW n \in Nat
  PROVE  [k EXCEPT !.greeted = n] \in Connection /\ [k EXCEPT !.subscribed = n] \in Connection
BY DEF Connection

\* The guilds GUILD_CREATE is still due for.
LEMMA ConnectionDue ==
  ASSUME NEW k \in Connection, NEW gs \in SUBSET Guilds
  PROVE  [k EXCEPT !.due = gs] \in Connection
BY DEF Connection

\* The drained buffer, and the subscription.
LEMMA ConnectionQueue ==
  ASSUME NEW k \in Connection, NEW q \in Seq(Event)
  PROVE  [k EXCEPT !.replay = q] \in Connection /\ [k EXCEPT !.pending = q] \in Connection
BY DEF Connection

\* What the client was sent.
LEMMA ConnectionOut ==
  ASSUME NEW k \in Connection, NEW o \in Seq(Message)
  PROVE  [k EXCEPT !.out = o] \in Connection
BY DEF Connection

\* A message that is sent is appended while the handler serves.
LEMMA SentEffect ==
  ASSUME NEW k \in Connection, NEW m \in Message
  PROVE  LET l == Sent(k, m)
         IN  /\ l \in Connection
             /\ SamePeer(k, l) /\ SameStage(k, l)
             /\ l.seq = k.seq /\ l.due = k.due /\ l.greeted = k.greeted
             /\ l.replay = k.replay /\ l.pending = k.pending
             /\ l.out = IF k.handler = "serving" THEN Append(k.out, m) ELSE k.out
<1> DEFINE o == IF k.handler = "serving" THEN Append(k.out, m) ELSE k.out
<1>1. k.out \in Seq(Message)
  BY DEF Connection
<1>2. o \in Seq(Message)
  BY <1>1
<1>3. Sent(k, m) = [k EXCEPT !.out = o]
  BY DEF Sent
<1> HIDE DEF o
<1>4. [k EXCEPT !.out = o] \in Connection
  BY <1>2, ConnectionOut
<1>5. LET l == [k EXCEPT !.out = o]
      IN  /\ SamePeer(k, l) /\ SameStage(k, l)
          /\ l.seq = k.seq /\ l.due = k.due /\ l.greeted = k.greeted
          /\ l.replay = k.replay /\ l.pending = k.pending
          /\ l.out = o
  BY DEF Connection, SamePeer, SameStage
<1> QED
  BY <1>3, <1>4, <1>5 DEF o

\* An event takes the connection's next number, unless it is filtered.
LEMMA RelayedEffect ==
  ASSUME NEW c \in Conns, NEW k \in Connection, NEW e \in Event,
         NEW how \in {"replay", "live"}
  PROVE  LET l == Relayed(c, k, e, how)
             m == [how |-> how, seq |-> k.seq + 1, what |-> e]
         IN  /\ l \in Connection
             /\ SamePeer(k, l) /\ SameStage(k, l)
             /\ l.due = k.due /\ l.greeted = k.greeted
             /\ l.replay = k.replay /\ l.pending = k.pending
             /\ ~Passes(c, e, how) => l.seq = k.seq /\ l.out = k.out
             /\ Passes(c, e, how) => l.seq = k.seq + 1 /\ m \in Message
             /\ Passes(c, e, how) /\ k.handler = "serving" => l.out = Append(k.out, m)
             /\ Passes(c, e, how) /\ k.handler # "serving" => l.out = k.out
<1> DEFINE m == [how |-> how, seq |-> k.seq + 1, what |-> e]
           n == [k EXCEPT !.seq = @ + 1]
<1>1. CASE ~Passes(c, e, how)
  BY <1>1 DEF Relayed, SamePeer, SameStage
<1>2. CASE Passes(c, e, how)
  <2>1. m \in Message
    <3>1. k.seq + 1 \in Nat /\ how \in {"READY", "RESUMED", "GUILD", "replay", "live"}
          /\ e \in Guilds \cup Event \cup {None}
      BY DEF Connection
    <3> QED
      BY <3>1 DEF Message
  <2>2. n \in Connection
    <3>1. k.seq + 1 \in Nat
      BY DEF Connection
    <3> QED
      BY <3>1, ConnectionSeq
  <2>3. /\ n.seq = k.seq + 1 /\ n.out = k.out /\ n.due = k.due /\ n.greeted = k.greeted
        /\ n.replay = k.replay /\ n.pending = k.pending
        /\ SamePeer(k, n) /\ SameStage(k, n)
    BY DEF Connection, SamePeer, SameStage
  <2>4. Relayed(c, k, e, how) = Sent(n, m)
    BY <1>2 DEF Relayed
  <2> HIDE DEF m, n
  <2>5. LET l == Sent(n, m)
        IN  /\ l \in Connection
            /\ SamePeer(n, l) /\ SameStage(n, l)
            /\ l.seq = n.seq /\ l.due = n.due /\ l.greeted = n.greeted
            /\ l.replay = n.replay /\ l.pending = n.pending
            /\ l.out = IF n.handler = "serving" THEN Append(n.out, m) ELSE n.out
    BY <2>1, <2>2, SentEffect
  <2> QED
    BY <1>2, <2>1, <2>3, <2>4, <2>5 DEF SamePeer, SameStage, m
<1> QED
  BY <1>1, <1>2

\* A step changes the record of connection c and no other.
ChangesOnly(c) ==
    conn' \in [Conns -> Connection] /\ \A d \in Conns \ {c} : conn'[d] = conn[d]

\* The queues of a connection that has none.
Empty(k) == k.out = <<>> /\ k.replay = <<>> /\ k.pending = <<>>

\* A step of one connection changes its record alone.
LEMMA ConnChange ==
  ASSUME TypeOK, NEW c \in Conns, NEW l \in Connection, conn' = [conn EXCEPT ![c] = l]
  PROVE  ChangesOnly(c) /\ conn'[c] = l
BY DEF ChangesOnly, TypeOK

\* A closed connection is well formed and has nothing in its queues.
LEMMA NoConnectionEffect ==
  /\ NoConnection \in Connection
  /\ NoConnection.handler = "closed" /\ NoConnection.task = "none"
  /\ NoConnection.principal = None /\ Empty(NoConnection)
<1>1. 0 \in 0 .. ShardCount - 1
  BY ShardAssumption
<1>2. NoConnection \in Connection
  BY <1>1 DEF NoConnection, Connection
<1> QED
  BY <1>2 DEF NoConnection, Empty

\* An accepted IDENTIFY or RESUME starts a handler.
LEMMA StartedEffect ==
  ASSUME TypeOK, NEW c \in Conns,
         \/ \E p \in Principals, i \in 0 .. ShardCount - 1 : Identify(c, p, i)
         \/ \E session \in sessions, seq \in ResumeSeqs : Resume(c, session, seq)
  PROVE  /\ ChangesOnly(c)
         /\ conn'[c].handler = "marking" /\ conn'[c].task = "none"
         /\ conn'[c].principal \in Principals /\ Empty(conn'[c])
         /\ UNCHANGED <<registryVars, shardVars, dispatch, active, offline, sessions, pruning>>
         /\ connects' = connects + 1
<1>1. ASSUME NEW p \in Principals
      PROVE  AuthorizedGuilds(p) \subseteq Guilds
  BY <1>1 DEF AuthorizedGuilds, Principals, TypeOK
<1>2. ASSUME NEW p \in Principals, NEW i \in 0 .. ShardCount - 1, Identify(c, p, i)
      PROVE  \E l \in Connection :
               /\ l.handler = "marking" /\ l.task = "none" /\ l.principal \in Principals /\ Empty(l)
               /\ conn' = [conn EXCEPT ![c] = l]
  <2> DEFINE l == [NoConnection EXCEPT !.handler = "marking", !.principal = p,
                                       !.asked = i, !.snapshot = AuthorizedGuilds(p)]
  <2>1. l \in Connection
    <3> DEFINE l1 == [NoConnection EXCEPT !.handler = "marking"]
               l2 == [l1 EXCEPT !.principal = p]
               l3 == [l2 EXCEPT !.asked = i]
    <3>1. l = [l3 EXCEPT !.snapshot = AuthorizedGuilds(p)]
      OBVIOUS
    <3>2. l1 \in Connection
      BY NoConnectionEffect, ConnectionHandler
    <3> HIDE DEF l1
    <3>3. l2 \in Connection
      BY <3>2, ConnectionPeer
    <3> HIDE DEF l2
    <3>4. l3 \in Connection
      BY <3>3, ConnectionPeer
    <3> HIDE DEF l, l3
    <3> QED
      BY <1>1, <3>1, <3>4, ConnectionPeer
  <2>2. l.handler = "marking" /\ l.task = "none" /\ l.principal = p /\ Empty(l)
    BY DEF NoConnection, Empty
  <2>3. conn' = [conn EXCEPT ![c] = l]
    BY <1>2 DEF Identify
  <2> HIDE DEF l
  <2> QED
    BY <2>1, <2>2, <2>3
<1>3. ASSUME NEW session \in sessions, NEW seq \in ResumeSeqs, Resume(c, session, seq)
      PROVE  \E l \in Connection :
               /\ l.handler = "marking" /\ l.task = "none" /\ l.principal \in Principals /\ Empty(l)
               /\ conn' = [conn EXCEPT ![c] = l]
  <2> DEFINE p == session.principal
             l == [NoConnection EXCEPT !.handler = "marking", !.resuming = TRUE,
                                       !.principal = p, !.asked = session.shard, !.seq = seq,
                                       !.snapshot = AuthorizedGuilds(p)]
  <2>1. p \in Principals /\ session.shard \in 0 .. ShardCount - 1 /\ seq \in Nat
    BY BoundAssumption DEF TypeOK, Session
  <2>2. l \in Connection
    <3> DEFINE l1 == [NoConnection EXCEPT !.handler = "marking"]
               l2 == [l1 EXCEPT !.resuming = TRUE]
               l3 == [l2 EXCEPT !.principal = p]
               l4 == [l3 EXCEPT !.asked = session.shard]
               l5 == [l4 EXCEPT !.seq = seq]
    <3>1. l = [l5 EXCEPT !.snapshot = AuthorizedGuilds(p)]
      OBVIOUS
    <3>2. l1 \in Connection
      BY NoConnectionEffect, ConnectionHandler
    <3> HIDE DEF l1
    <3>3. l2 \in Connection
      BY <3>2, ConnectionPeer
    <3> HIDE DEF l2, p
    <3>4. l3 \in Connection
      BY <2>1, <3>3, ConnectionPeer
    <3> HIDE DEF l3
    <3>5. l4 \in Connection
      BY <2>1, <3>4, ConnectionPeer
    <3> HIDE DEF l4
    <3>6. l5 \in Connection
      BY <2>1, <3>5, ConnectionSeq
    <3> HIDE DEF l, l5
    <3> QED
      BY <1>1, <2>1, <3>1, <3>6, ConnectionPeer
  <2>3. l.handler = "marking" /\ l.task = "none" /\ l.principal = p /\ Empty(l)
    BY DEF NoConnection, Empty
  <2>4. conn' = [conn EXCEPT ![c] = l]
    BY <1>3 DEF Resume
  <2> HIDE DEF l
  <2> QED
    BY <2>1, <2>2, <2>3, <2>4
<1>4. \E l \in Connection :
        /\ l.handler = "marking" /\ l.task = "none" /\ l.principal \in Principals /\ Empty(l)
        /\ conn' = [conn EXCEPT ![c] = l]
  BY <1>2, <1>3
<1>5. /\ UNCHANGED <<registryVars, shardVars, dispatch, active, offline, sessions, pruning>>
      /\ connects' = connects + 1
  BY DEF Identify, Resume, Connects
<1> QED
  BY <1>4, <1>5, ConnChange

\* The handler moves on, and nothing else of its connection does.
LEMMA MarkConnectedEffect ==
  ASSUME TypeOK, NEW c \in Conns, MarkConnected(c)
  PROVE  LET k == conn[c]  l == conn'[c]
         IN  /\ ChangesOnly(c)
             /\ k.handler = "marking" /\ l.handler = "starting" /\ l.task = k.task
             /\ SamePeer(k, l) /\ l.seq = k.seq
             /\ l.out = k.out /\ l.replay = k.replay /\ l.pending = k.pending
<1>1. /\ conn[c] \in Connection /\ conn[c].handler = "marking"
      /\ conn' = [conn EXCEPT ![c] = [conn[c] EXCEPT !.handler = "starting"]]
  BY DEF MarkConnected, TypeOK
<1>2. LET k == conn[c]  l == [k EXCEPT !.handler = "starting"]
      IN  /\ l \in Connection
          /\ l.handler = "starting" /\ l.task = k.task /\ SamePeer(k, l) /\ l.seq = k.seq
          /\ l.out = k.out /\ l.replay = k.replay /\ l.pending = k.pending
  BY <1>1 DEF Connection, SamePeer
<1> QED
  BY <1>1, <1>2, ConnChange

\* The forward task starts, or the handler panics.
LEMMA StartEffect ==
  ASSUME TypeOK, NEW c \in Conns, Start(c)
  PROVE  LET k == conn[c]  l == conn'[c]
         IN  /\ ChangesOnly(c)
             /\ k.handler = "starting"
             /\ \/ l = NoConnection
                \/ /\ HasIndex(k.asked)
                   /\ l.handler = "serving" /\ l.task = "waiting"
                   /\ SamePeer(k, l) /\ l.seq = k.seq
                   /\ l.out = k.out /\ l.replay = k.replay /\ l.pending = k.pending
<1> DEFINE k == conn[c]
           m == [k EXCEPT !.handler = "serving", !.task = "waiting"]
<1>1. k \in Connection /\ k.handler = "starting"
  BY DEF Start, TypeOK
<1>2. conn' = [conn EXCEPT ![c] = IF HasIndex(k.asked) THEN m ELSE NoConnection]
  BY DEF Start
<1>3. /\ m \in Connection
      /\ m.handler = "serving" /\ m.task = "waiting" /\ SamePeer(k, m) /\ m.seq = k.seq
      /\ m.out = k.out /\ m.replay = k.replay /\ m.pending = k.pending
  <2>1. m \in Connection
    BY <1>1, ConnectionTask, ConnectionHandler
  <2> QED
    BY <1>1, <2>1 DEF Connection, SamePeer
<1> HIDE DEF m
<1>4. CASE HasIndex(k.asked)
  BY <1>1, <1>2, <1>3, <1>4, ConnChange
<1>5. CASE ~HasIndex(k.asked)
  BY <1>1, <1>2, <1>5, ConnChange, NoConnectionEffect
<1> QED
  BY <1>4, <1>5

\* The stream ends; a forward task that waits or listens is aborted.
LEMMA DisconnectEffect ==
  ASSUME TypeOK, NEW c \in Conns, Disconnect(c)
  PROVE  LET k == conn[c]  l == conn'[c]
         IN  /\ ChangesOnly(c)
             /\ k.handler = "serving" /\ l.handler = "unmarking"
             /\ l.task = IF k.task \in {"waiting", "live"} THEN "none" ELSE k.task
             /\ SamePeer(k, l) /\ l.seq = k.seq
             /\ l.out = <<>> /\ l.replay = k.replay /\ l.pending = <<>>
<1> DEFINE k == conn[c]
           m1 == [k EXCEPT !.handler = "unmarking"]
           m2 == [m1 EXCEPT !.out = <<>>]
           m3 == [m2 EXCEPT !.pending = <<>>]
           t == IF k.task \in {"waiting", "live"} THEN "none" ELSE k.task
           m == [m3 EXCEPT !.task = t]
<1>1. k \in Connection /\ k.handler = "serving"
  BY DEF Disconnect, TypeOK
<1>2. conn' = [conn EXCEPT ![c] = m]
  BY DEF Disconnect
<1>3. t \in {"none", "waiting", "greeting", "replaying", "live"}
  BY <1>1 DEF Connection
<1> HIDE DEF t
<1>4. /\ m.handler = "unmarking" /\ m.task = t /\ SamePeer(k, m) /\ m.seq = k.seq
      /\ m.out = <<>> /\ m.replay = k.replay /\ m.pending = <<>>
  BY <1>1 DEF Connection, SamePeer
<1>5. m1 \in Connection
  BY <1>1, ConnectionHandler
<1> HIDE DEF m1
<1>6. m2 \in Connection
  <2>1. <<>> \in Seq(Message)
    OBVIOUS
  <2> QED
    BY <1>5, <2>1, ConnectionOut
<1> HIDE DEF m2
<1>7. m3 \in Connection
  <2>1. <<>> \in Seq(Event)
    OBVIOUS
  <2> QED
    BY <1>6, <2>1, ConnectionQueue
<1> HIDE DEF m3
<1>8. m \in Connection
  BY <1>3, <1>7, ConnectionTask
<1> HIDE DEF m
<1> QED
  BY <1>1, <1>2, <1>4, <1>8, ConnChange DEF t

\* The teardown ends; a forward task between two awaits runs on.
LEMMA MarkDisconnectedEffect ==
  ASSUME TypeOK, NEW c \in Conns, MarkDisconnected(c)
  PROVE  LET k == conn[c]  l == conn'[c]
         IN  /\ ChangesOnly(c)
             /\ k.handler = "unmarking"
             /\ \/ l = NoConnection /\ k.task = "none"
                \/ /\ k.task # "none"
                   /\ l.handler = "closed" /\ l.task = k.task
                   /\ SamePeer(k, l) /\ l.seq = k.seq
                   /\ l.out = k.out /\ l.replay = k.replay /\ l.pending = k.pending
<1> DEFINE k == conn[c]
           m == [k EXCEPT !.handler = "closed"]
<1>1. k \in Connection /\ k.handler = "unmarking"
  BY DEF MarkDisconnected, TypeOK
<1>2. conn' = [conn EXCEPT ![c] = IF k.task = "none" THEN NoConnection ELSE m]
  BY DEF MarkDisconnected
<1>3. /\ m \in Connection
      /\ m.handler = "closed" /\ m.task = k.task /\ SamePeer(k, m) /\ m.seq = k.seq
      /\ m.out = k.out /\ m.replay = k.replay /\ m.pending = k.pending
  BY <1>1 DEF Connection, SamePeer
<1> HIDE DEF m
<1>4. CASE k.task = "none"
  BY <1>1, <1>2, <1>4, ConnChange, NoConnectionEffect
<1>5. CASE k.task # "none"
  BY <1>1, <1>2, <1>3, <1>5, ConnChange
<1> QED
  BY <1>4, <1>5

\* The shard a forward task serves is one of this proxy's.
LEMMA ServedShard ==
  ASSUME TypeOK, NEW k \in Connection, HasIndex(k.asked)
  PROVE  AtIndex(k.asked) \in Shards /\ Len(log[AtIndex(k.asked)]) \in Nat
<1>1. AtIndex(k.asked) \in Shards
  BY ShardAssumption DEF Connection, HasIndex, AtIndex, Shards
<1> QED
  BY <1>1 DEF TypeOK

\* What a step of the forward task that sends message m leaves of the connection.
Sends(k, l, m) ==
    /\ SamePeer(k, l) /\ l.handler = k.handler
    /\ l.replay = k.replay /\ l.pending = k.pending
    /\ l.out = IF k.handler = "serving" THEN Append(k.out, m) ELSE k.out

\* READY takes the next sequence number, RESUMED none.
LEMMA GreetEffect ==
  ASSUME TypeOK, ShapeInv, NEW c \in Conns, Greet(c)
  PROVE  LET k == conn[c]  l == conn'[c]
         IN  /\ ChangesOnly(c)
             /\ k.task = "waiting" /\ l.task = "greeting"
             /\ \E m \in Message :
                  /\ Sends(k, l, m)
                  /\ \/ m.how = "RESUMED" /\ l.seq = k.seq
                     \/ m.how = "READY" /\ l.seq = k.seq + 1 /\ m.seq = l.seq
<1> DEFINE k0 == conn[c]
           k1 == [k0 EXCEPT !.task = "greeting"]
           k == [k1 EXCEPT !.greeted = Len(log[Served(c)])]
           r == [how |-> "RESUMED", seq |-> 0, what |-> None]
           n1 == [k EXCEPT !.seq = k.seq + 1]
           n == [n1 EXCEPT !.due = ReadyGuilds(c)]
           m == [how |-> "READY", seq |-> k.seq + 1, what |-> None]
<1>1. k0 \in Connection /\ k0.task = "waiting"
  BY DEF Greet, TypeOK
<1>2. Len(log[Served(c)]) \in Nat
  BY <1>1, ServedShard DEF ShapeInv, Shape, Served
<1>3. conn' = [conn EXCEPT ![c] = IF k.resuming THEN Sent(k, r) ELSE Sent(n, m)]
  BY DEF Greet
<1>4. /\ k.task = "greeting" /\ k.handler = k0.handler /\ k.seq = k0.seq
      /\ SamePeer(k0, k) /\ k.out = k0.out /\ k.replay = k0.replay /\ k.pending = k0.pending
  BY <1>1 DEF Connection, SamePeer
<1>5. k1 \in Connection
  BY <1>1, ConnectionTask
<1> HIDE DEF k1
<1>6. k \in Connection
  BY <1>2, <1>5, ConnectionPlace
<1> HIDE DEF k
<1>7. k.seq + 1 \in Nat
  BY <1>6 DEF Connection
<1>8. r \in Message /\ m \in Message /\ r.how = "RESUMED" /\ m.how = "READY" /\ m.seq = k.seq + 1
  BY <1>7 DEF Message
<1>9. /\ n.task = k.task /\ n.handler = k.handler /\ n.seq = k.seq + 1
      /\ SamePeer(k, n) /\ n.out = k.out /\ n.replay = k.replay /\ n.pending = k.pending
  BY <1>6 DEF Connection, SamePeer
<1>10. n1 \in Connection
  BY <1>6, <1>7, ConnectionSeq
<1>11. ReadyGuilds(c) \subseteq Guilds
  BY <1>1 DEF ReadyGuilds, Connection
<1> HIDE DEF n1
<1>12. n \in Connection
  BY <1>10, <1>11, ConnectionDue
<1> HIDE DEF n, m, r
<1>13. CASE k.resuming
  <2>1. conn' = [conn EXCEPT ![c] = Sent(k, r)]
    BY <1>3, <1>13
  <2>2. ChangesOnly(c) /\ conn'[c] = Sent(k, r)
    BY <1>6, <1>8, <2>1, SentEffect, ConnChange
  <2>3. /\ Sent(k, r).task = "greeting" /\ Sent(k, r).seq = k0.seq
        /\ Sends(k0, Sent(k, r), r)
    BY <1>4, <1>6, <1>8, SentEffect DEF Sends, SamePeer, SameStage
  <2> QED
    BY <1>1, <1>8, <2>2, <2>3
<1>14. CASE ~k.resuming
  <2>1. conn' = [conn EXCEPT ![c] = Sent(n, m)]
    BY <1>3, <1>14
  <2>2. ChangesOnly(c) /\ conn'[c] = Sent(n, m)
    BY <1>12, <1>8, <2>1, SentEffect, ConnChange
  <2>3. /\ Sent(n, m).task = "greeting" /\ Sent(n, m).seq = k0.seq + 1
        /\ Sends(k0, Sent(n, m), m)
    BY <1>4, <1>9, <1>12, <1>8, SentEffect DEF Sends, SamePeer, SameStage
  <2> QED
    BY <1>1, <1>4, <1>8, <2>2, <2>3
<1> QED
  BY <1>13, <1>14

\* A GUILD_CREATE or GUILD_DELETE takes the next sequence number.
LEMMA SendGuildEffect ==
  ASSUME TypeOK, NEW c \in Conns, NEW g \in Guilds, SendGuild(c, g)
  PROVE  LET k == conn[c]  l == conn'[c]
         IN  /\ ChangesOnly(c)
             /\ k.task = "greeting" /\ l.task = "greeting"
             /\ \E m \in Message :
                  /\ Sends(k, l, m)
                  /\ m.how = "GUILD" /\ l.seq = k.seq + 1 /\ m.seq = l.seq
<1> DEFINE k == conn[c]
           n1 == [k EXCEPT !.seq = k.seq + 1]
           n == [n1 EXCEPT !.due = k.due \ {g}]
           m == [how |-> "GUILD", seq |-> k.seq + 1, what |-> g]
<1>1. k \in Connection /\ k.task = "greeting"
  BY DEF SendGuild, TypeOK
<1>2. conn' = [conn EXCEPT ![c] = Sent(n, m)]
  BY DEF SendGuild
<1>3. k.seq + 1 \in Nat /\ k.due \ {g} \subseteq Guilds
  BY <1>1 DEF Connection
<1>4. m \in Message /\ m.how = "GUILD" /\ m.seq = k.seq + 1
  BY <1>3 DEF Message
<1>5. /\ n.task = k.task /\ n.handler = k.handler /\ n.seq = k.seq + 1
      /\ SamePeer(k, n) /\ n.out = k.out /\ n.replay = k.replay /\ n.pending = k.pending
  BY <1>1 DEF Connection, SamePeer
<1>6. n1 \in Connection
  BY <1>1, <1>3, ConnectionSeq
<1> HIDE DEF n1
<1>7. n \in Connection
  BY <1>3, <1>6, ConnectionDue
<1> HIDE DEF n, m
<1>8. ChangesOnly(c) /\ conn'[c] = Sent(n, m)
  BY <1>2, <1>4, <1>7, SentEffect, ConnChange
<1>9. Sent(n, m).task = "greeting" /\ Sent(n, m).seq = k.seq + 1 /\ Sends(k, Sent(n, m), m)
  BY <1>1, <1>4, <1>5, <1>7, SentEffect DEF Sends, SamePeer, SameStage
<1> QED
  BY <1>1, <1>4, <1>8, <1>9

\* The client's whole buffer is drained; a bot connection drains nothing.
LEMMA DrainEffect ==
  ASSUME TypeOK, NEW c \in Conns, Drain(c)
  PROVE  LET k == conn[c]  l == conn'[c]
         IN  /\ ChangesOnly(c)
             /\ k.task = "greeting" /\ l.task = "replaying"
             /\ SamePeer(k, l) /\ l.handler = k.handler /\ l.seq = k.seq
             /\ l.out = k.out /\ l.pending = k.pending
             /\ IsClient(c) => /\ l.replay = offline[k.principal]
                               /\ offline' = [offline EXCEPT ![k.principal] = <<>>]
             /\ ~IsClient(c) => l.replay = <<>> /\ offline' = offline
<1> DEFINE k == conn[c]
           q == IF IsClient(c) THEN offline[k.principal] ELSE <<>>
           l1 == [k EXCEPT !.task = "replaying"]
           l == [l1 EXCEPT !.replay = q]
<1>1. k \in Connection /\ k.task = "greeting"
  BY DEF Drain, TypeOK
<1>2. conn' = [conn EXCEPT ![c] = l]
  BY DEF Drain
<1>3. q \in Seq(Event)
  BY DEF TypeOK, IsClient
<1>4. offline' = IF IsClient(c) THEN [offline EXCEPT ![k.principal] = <<>>] ELSE offline
  BY DEF Drain, Drained
<1> HIDE DEF q
<1>5. /\ l.task = "replaying" /\ l.handler = k.handler /\ l.seq = k.seq /\ SamePeer(k, l)
      /\ l.out = k.out /\ l.pending = k.pending /\ l.replay = q
  BY <1>1 DEF Connection, SamePeer
<1>6. l1 \in Connection
  BY <1>1, ConnectionTask
<1> HIDE DEF l1
<1>7. l \in Connection
  BY <1>3, <1>6, ConnectionQueue
<1> HIDE DEF l
<1>8. ChangesOnly(c) /\ conn'[c] = l
  BY <1>2, <1>7, ConnChange
<1> QED
  BY <1>1, <1>4, <1>5, <1>8 DEF q

\* What relaying event e leaves of a connection.
Relays(c, k, l, e, how) ==
    /\ SamePeer(k, l) /\ SameStage(k, l)
    /\ \/ l.out = k.out
       \/ /\ k.handler = "serving" /\ Passes(c, e, how) /\ l.seq = k.seq + 1
          /\ \E m \in Message :
               m.how = how /\ m.seq = l.seq /\ m.what = e /\ l.out = Append(k.out, m)
    /\ k.handler = "serving" /\ l.out = k.out => ~Passes(c, e, how) /\ l.seq = k.seq

\* filter and relay: an event is sent with the next number, or skipped without one.
LEMMA RelaysEffect ==
  ASSUME NEW c \in Conns, NEW k \in Connection, NEW e \in Event,
         NEW how \in {"replay", "live"}
  PROVE  LET l == Relayed(c, k, e, how)
         IN  /\ l \in Connection /\ Relays(c, k, l, e, how)
             /\ l.replay = k.replay /\ l.pending = k.pending
<1> DEFINE l == Relayed(c, k, e, how)
           m == [how |-> how, seq |-> k.seq + 1, what |-> e]
<1>1. /\ l \in Connection
      /\ SamePeer(k, l) /\ SameStage(k, l) /\ l.replay = k.replay /\ l.pending = k.pending
      /\ ~Passes(c, e, how) => l.seq = k.seq /\ l.out = k.out
      /\ Passes(c, e, how) => l.seq = k.seq + 1 /\ m \in Message
      /\ Passes(c, e, how) /\ k.handler = "serving" => l.out = Append(k.out, m)
      /\ Passes(c, e, how) /\ k.handler # "serving" => l.out = k.out
  BY RelayedEffect
<1>2. m.how = how /\ m.seq = k.seq + 1 /\ m.what = e
  OBVIOUS
<1> HIDE DEF m, l
<1>3. k.out \in Seq(Message)
  BY DEF Connection
<1>4. Append(k.out, m) # k.out
  BY <1>3
<1> QED
  BY <1>1, <1>2, <1>4 DEF Relays, l

\* The first of the drained events is replayed or filtered.
LEMMA ReplayEffect ==
  ASSUME TypeOK, NEW c \in Conns, Replay(c)
  PROVE  LET k == conn[c]  l == conn'[c]
         IN  /\ ChangesOnly(c)
             /\ k.task = "replaying" /\ k.replay # <<>> /\ Head(k.replay) \in Event
             /\ Relays(c, k, l, Head(k.replay), "replay")
             /\ l.replay = Tail(k.replay) /\ l.pending = k.pending
<1> DEFINE k == conn[c]
           e == Head(k.replay)
           n == [k EXCEPT !.replay = Tail(k.replay)]
           l == Relayed(c, n, e, "replay")
<1>1. k \in Connection /\ k.task = "replaying" /\ k.replay # <<>>
  BY DEF Replay, TypeOK
<1>2. conn' = [conn EXCEPT ![c] = l]
  BY DEF Replay
<1>3. k.replay \in Seq(Event) /\ e \in Event /\ Tail(k.replay) \in Seq(Event)
  BY <1>1 DEF Connection
<1>4. /\ n.handler = k.handler /\ n.task = k.task /\ n.subscribed = k.subscribed /\ n.seq = k.seq
      /\ SamePeer(k, n) /\ n.out = k.out /\ n.pending = k.pending /\ n.replay = Tail(k.replay)
  BY <1>1 DEF Connection, SamePeer
<1>5. n \in Connection
  BY <1>1, <1>3, ConnectionQueue
<1> HIDE DEF n, e
<1>6. /\ l \in Connection /\ l.replay = n.replay /\ l.pending = n.pending
      /\ Relays(c, n, l, e, "replay")
  BY <1>3, <1>5, RelaysEffect
<1> HIDE DEF l
<1>7. ChangesOnly(c) /\ conn'[c] = l
  BY <1>2, <1>6, ConnChange
<1>8. Relays(c, k, l, e, "replay")
  BY <1>4, <1>6 DEF Relays, SamePeer, SameStage
<1> QED
  BY <1>1, <1>3, <1>4, <1>6, <1>7, <1>8 DEF e

\* The first event of the subscription is relayed or filtered.
LEMMA ReceiveEffect ==
  ASSUME TypeOK, NEW c \in Conns, Receive(c)
  PROVE  LET k == conn[c]  l == conn'[c]
         IN  /\ ChangesOnly(c)
             /\ k.task = "live" /\ k.pending # <<>> /\ Head(k.pending) \in Event
             /\ Relays(c, k, l, Head(k.pending), "live")
             /\ l.pending = Tail(k.pending) /\ l.replay = k.replay
<1> DEFINE k == conn[c]
           e == Head(k.pending)
           n == [k EXCEPT !.pending = Tail(k.pending)]
           l == Relayed(c, n, e, "live")
<1>1. k \in Connection /\ k.task = "live" /\ k.pending # <<>>
  BY DEF Receive, TypeOK
<1>2. conn' = [conn EXCEPT ![c] = l]
  BY DEF Receive
<1>3. k.pending \in Seq(Event) /\ e \in Event /\ Tail(k.pending) \in Seq(Event)
  BY <1>1 DEF Connection
<1>4. /\ n.handler = k.handler /\ n.task = k.task /\ n.subscribed = k.subscribed /\ n.seq = k.seq
      /\ SamePeer(k, n) /\ n.out = k.out /\ n.replay = k.replay /\ n.pending = Tail(k.pending)
  BY <1>1 DEF Connection, SamePeer
<1>5. n \in Connection
  BY <1>1, <1>3, ConnectionQueue
<1> HIDE DEF n, e
<1>6. /\ l \in Connection /\ l.replay = n.replay /\ l.pending = n.pending
      /\ Relays(c, n, l, e, "live")
  BY <1>3, <1>5, RelaysEffect
<1> HIDE DEF l
<1>7. ChangesOnly(c) /\ conn'[c] = l
  BY <1>2, <1>6, ConnChange
<1>8. Relays(c, k, l, e, "live")
  BY <1>4, <1>6 DEF Relays, SamePeer, SameStage
<1> QED
  BY <1>1, <1>3, <1>4, <1>6, <1>7, <1>8 DEF e

\* The live stream starts at the end of the shard's log.
LEMMA SubscribeEffect ==
  ASSUME TypeOK, ShapeInv, NEW c \in Conns, Subscribe(c)
  PROVE  LET k == conn[c]  l == conn'[c]
         IN  /\ ChangesOnly(c)
             /\ k.task = "replaying" /\ k.replay = <<>>
             /\ \/ k.handler = "closed" /\ l = NoConnection
                \/ /\ k.handler # "closed"
                   /\ SamePeer(k, l) /\ l.handler = k.handler /\ l.seq = k.seq
                   /\ l.task = IF k.handler = "serving" THEN "live" ELSE "none"
                   /\ l.subscribed = Len(log[AtIndex(k.asked)])
                   /\ l.out = k.out /\ l.replay = k.replay /\ l.pending = k.pending
<1> DEFINE k == conn[c]
           t == IF k.handler = "serving" THEN "live" ELSE "none"
           n == Len(log[AtIndex(k.asked)])
           l1 == [k EXCEPT !.task = t]
           l == [l1 EXCEPT !.subscribed = n]
<1>1. k \in Connection /\ k.task = "replaying" /\ k.replay = <<>>
  BY DEF Subscribe, TypeOK
<1>2. conn' = [conn EXCEPT ![c] = IF k.handler = "closed" THEN NoConnection ELSE l]
  BY DEF Subscribe, Served
<1>3. n \in Nat
  BY <1>1, ServedShard DEF ShapeInv, Shape
<1>4. t \in {"none", "waiting", "greeting", "replaying", "live"}
  OBVIOUS
<1> HIDE DEF t, n
<1>5. /\ SamePeer(k, l) /\ l.handler = k.handler /\ l.seq = k.seq /\ l.task = t /\ l.subscribed = n
      /\ l.out = k.out /\ l.replay = k.replay /\ l.pending = k.pending
  BY <1>1 DEF Connection, SamePeer
<1>6. l1 \in Connection
  BY <1>1, <1>4, ConnectionTask
<1> HIDE DEF l1
<1>7. l \in Connection
  BY <1>3, <1>6, ConnectionPlace
<1> HIDE DEF l
<1>8. CASE k.handler = "closed"
  BY <1>1, <1>2, <1>8, ConnChange, NoConnectionEffect
<1>9. CASE k.handler # "closed"
  <2>1. ChangesOnly(c) /\ conn'[c] = l
    BY <1>2, <1>7, <1>9, ConnChange
  <2> QED
    BY <1>1, <1>5, <1>9, <2>1 DEF t, n
<1> QED
  BY <1>8, <1>9

\* A bounded queue: the new element is the last, and the others are the last
\* ones of before.
LEMMA PushEffect ==
  ASSUME NEW S, NEW q \in Seq(S), NEW e \in S, NEW limit \in Nat \ {0}, Len(q) <= limit
  PROVE  LET p == Push(q, e, limit)
             drop == IF Len(q) >= limit THEN 1 ELSE 0
         IN  /\ p \in Seq(S) /\ Len(p) = Len(q) - drop + 1 /\ Len(p) <= limit
             /\ p[Len(p)] = e
             /\ \A i \in 1 .. Len(p) - 1 : p[i] = q[i + drop] /\ i + drop \in 1 .. Len(q)
<1>1. CASE Len(q) >= limit
  <2>1. q # <<>> /\ Tail(q) \in Seq(S) /\ Len(Tail(q)) = Len(q) - 1
        /\ \A i \in 1 .. Len(q) - 1 : Tail(q)[i] = q[i + 1]
    BY <1>1
  <2>2. Push(q, e, limit) = Append(Tail(q), e)
    BY <1>1 DEF Push
  <2> HIDE DEF Push
  <2> QED
    BY <1>1, <2>1, <2>2
<1>2. CASE ~(Len(q) >= limit)
  <2>1. Push(q, e, limit) = Append(q, e)
    BY <1>2 DEF Push
  <2> QED
    BY <1>2, <2>1
<1> QED
  BY <1>1, <1>2

Subscribed(c, s) == conn[c].task = "live" /\ Served(c) = s

\* An event goes to the log of its shard and to the subscriptions of that shard.
LEMMA BroadcastEffect ==
  ASSUME TypeOK, NEW s \in Shards, NEW input \in InputsOf(s), Broadcast(s, input)
  PROVE  LET e == [shard |-> s, id |-> Len(log[s]) + 1, input |-> input]
         IN  /\ e \in Event /\ input \in EventInput
             /\ dispatch[s] = Idle
             /\ log' = [log EXCEPT ![s] = Append(@, input)]
             /\ conn' \in [Conns -> Connection]
             /\ \A c \in Conns :
                  /\ ~Subscribed(c, s) => conn'[c] = conn[c]
                  /\ Subscribed(c, s) =>
                       /\ SamePeer(conn[c], conn'[c]) /\ SameStage(conn[c], conn'[c])
                       /\ conn'[c].seq = conn[c].seq
                       /\ conn'[c].out = conn[c].out /\ conn'[c].replay = conn[c].replay
                       /\ conn'[c].pending = Push(conn[c].pending, e, Backpressure)
                       /\ Len(conn'[c].pending) <= Backpressure
             /\ \/ dispatch' = dispatch
                \/ /\ dispatch' = [dispatch EXCEPT ![s] = [stage |-> "broadcast", event |-> e,
                                                           todo |-> {}, push |-> None]]
                   /\ Open(e)
<1> DEFINE e == [shard |-> s, id |-> Len(log[s]) + 1, input |-> input]
<1>1. input \in EventInput
  BY BoundAssumption DEF InputsOf
<1>2. e \in Event
  BY <1>1 DEF Event, TypeOK
<1>3. /\ dispatch[s] = Idle
      /\ log' = [log EXCEPT ![s] = Append(@, input)]
      /\ \/ dispatch' = dispatch
         \/ /\ dispatch' = [dispatch EXCEPT ![s] = [stage |-> "broadcast", event |-> e,
                                                    todo |-> {}, push |-> None]]
            /\ input.buffer
  BY DEF Broadcast
<1>9. input.buffer => Open(e)
  BY AudienceAssumption DEF InputsOf, Open
<1>4. conn' = [c \in Conns |->
                 IF Subscribed(c, s)
                 THEN [conn[c] EXCEPT !.pending = Push(conn[c].pending, e, Backpressure)]
                 ELSE conn[c]]
  BY DEF Broadcast, Subscribed
<1> HIDE DEF e
<1>5. ASSUME NEW c \in Conns
      PROVE  LET q == Push(conn[c].pending, e, Backpressure)
                 l == [conn[c] EXCEPT !.pending = q]
             IN  /\ l \in Connection /\ Len(q) <= Backpressure
                 /\ SamePeer(conn[c], l) /\ SameStage(conn[c], l) /\ l.seq = conn[c].seq
                 /\ l.out = conn[c].out /\ l.replay = conn[c].replay /\ l.pending = q
  <2> DEFINE q == Push(conn[c].pending, e, Backpressure)
  <2>1. conn[c] \in Connection /\ Len(conn[c].pending) <= Backpressure
    BY DEF TypeOK
  <2>2. conn[c].pending \in Seq(Event)
    BY <2>1 DEF Connection
  <2>3. q \in Seq(Event) /\ Len(q) <= Backpressure
    BY <1>2, <2>1, <2>2, PushEffect, BoundAssumption
  <2> HIDE DEF q
  <2>4. [conn[c] EXCEPT !.pending = q] \in Connection
    BY <2>1, <2>3, ConnectionQueue
  <2> QED
    BY <2>1, <2>3, <2>4 DEF Connection, SamePeer, SameStage, q
<1>6. conn' \in [Conns -> Connection]
  BY <1>4, <1>5 DEF TypeOK
<1>7. ASSUME NEW c \in Conns, Subscribed(c, s)
      PROVE  conn'[c] = [conn[c] EXCEPT !.pending = Push(conn[c].pending, e, Backpressure)]
  BY <1>4, <1>7
<1>8. ASSUME NEW c \in Conns, ~Subscribed(c, s)
      PROVE  conn'[c] = conn[c]
  BY <1>4, <1>8
<1> QED
  BY <1>1, <1>2, <1>3, <1>5, <1>6, <1>7, <1>8, <1>9 DEF e

-----------------------------------------------------------------------------
(* Type correctness and the shape of a connection *)

\* The state the proxy starts in is well typed, and no connection has begun.
LEMMA TypeInit == Init => TypeOK /\ ShapeInv
<1> SUFFICES ASSUME Init PROVE TypeOK /\ ShapeInv
  OBVIOUS
<1>1. \A c \in Conns : conn[c] = NoConnection
  BY DEF Init
<1>2. conn \in [Conns -> Connection] /\ \A c \in Conns : Len(conn[c].pending) <= Backpressure
  BY <1>1, NoConnectionEffect, BoundAssumption DEF Init, Empty
<1>3. offline \in [Clients -> Seq(Event)] /\ \A cl \in Clients : Len(offline[cl]) <= BufferLimit
  BY BoundAssumption DEF Init
<1>4. /\ log \in [Shards -> Seq(EventInput)] /\ dispatch \in [Shards -> InHand \cup {Idle}]
      /\ granted \in [Clients -> SUBSET Guilds] /\ active \in [Clients -> Nat]
      /\ ready \in [Shards -> BOOLEAN] /\ isReady \in [Shards -> BOOLEAN]
  BY DEF Init
<1>5. TypeOK
  BY <1>2, <1>3, <1>4 DEF Init, TypeOK
<1>6. ShapeInv
  BY <1>1, NoConnectionEffect DEF ShapeInv, Shape, EventsTyped, Empty
<1> QED
  BY <1>5, <1>6

\* A step of one connection keeps the types of all of them.
LEMMA ConnTyped ==
  ASSUME TypeOK, NEW c \in Conns, ChangesOnly(c),
         \/ conn'[c].pending = <<>>
         \/ conn'[c].pending = conn[c].pending
         \/ conn[c].pending # <<>> /\ conn'[c].pending = Tail(conn[c].pending)
  PROVE  /\ conn' \in [Conns -> Connection]
         /\ \A d \in Conns : Len(conn'[d].pending) <= Backpressure
<1>1. conn[c] \in Connection /\ Len(conn[c].pending) <= Backpressure
  BY DEF TypeOK
<1>2. conn[c].pending \in Seq(Event)
  BY <1>1 DEF Connection
<1>3. Len(conn'[c].pending) <= Backpressure
  <2>1. CASE conn'[c].pending = <<>>
    BY <2>1, BoundAssumption
  <2>2. CASE conn[c].pending # <<>> /\ conn'[c].pending = Tail(conn[c].pending)
    <3>1. Len(Tail(conn[c].pending)) = Len(conn[c].pending) - 1
      BY <1>2, <2>2
    <3> QED
      BY <1>1, <1>2, <2>2, <3>1, BoundAssumption
  <2> QED
    BY <1>1, <2>1, <2>2
<1> QED
  BY <1>3 DEF ChangesOnly, TypeOK

\* The steps of a handler keep the types.
LEMMA TypeHandler ==
  ASSUME TypeOK, ShapeInv, NEW c \in Conns,
         \/ \E p \in Principals, i \in 0 .. ShardCount - 1 : Identify(c, p, i)
         \/ \E session \in sessions, seq \in ResumeSeqs : Resume(c, session, seq)
         \/ Handler(c)
         \/ Disconnect(c)
  PROVE  TypeOK'
<1>1. CASE \/ \E p \in Principals, i \in 0 .. ShardCount - 1 : Identify(c, p, i)
           \/ \E session \in sessions, seq \in ResumeSeqs : Resume(c, session, seq)
  <2>1. /\ conn' \in [Conns -> Connection]
        /\ \A d \in Conns : Len(conn'[d].pending) <= Backpressure
    BY <1>1, StartedEffect, ConnTyped DEF Empty
  <2>2. /\ UNCHANGED <<registryVars, shardVars, dispatch, active, offline, sessions, pruning>>
        /\ connects' = connects + 1
    BY <1>1, StartedEffect
  <2> QED
    BY <2>1, <2>2 DEF TypeOK, registryVars, shardVars
<1>2. CASE MarkConnected(c)
  <2>1. /\ conn' \in [Conns -> Connection]
        /\ \A d \in Conns : Len(conn'[d].pending) <= Backpressure
    BY <1>2, MarkConnectedEffect, ConnTyped
  <2>2. active' \in [Clients -> Nat]
    BY <1>2 DEF MarkConnected, TypeOK, IsClient
  <2> QED
    BY <1>2, <2>1, <2>2 DEF MarkConnected, TypeOK, registryVars, shardVars, sessionVars
<1>3. CASE Start(c)
  <2>1. /\ conn' \in [Conns -> Connection]
        /\ \A d \in Conns : Len(conn'[d].pending) <= Backpressure
    BY <1>3, StartEffect, ConnTyped, NoConnectionEffect DEF Empty
  <2>2. sessions' \subseteq Session
    <3>1. conn[c] \in Connection /\ conn[c].handler = "starting"
      BY <1>3 DEF Start, TypeOK
    <3>2. conn[c].asked \in 0 .. ShardCount - 1
      BY <3>1 DEF Connection
    <3>3. conn[c].principal \in Principals
      BY <3>1 DEF ShapeInv, Shape
    <3> QED
      BY <1>3, <3>2, <3>3 DEF Start, TypeOK, Session
  <2> QED
    BY <1>3, <2>1, <2>2 DEF Start, TypeOK, registryVars, shardVars
<1>4. CASE Disconnect(c)
  <2>1. /\ conn' \in [Conns -> Connection]
        /\ \A d \in Conns : Len(conn'[d].pending) <= Backpressure
    BY <1>4, DisconnectEffect, ConnTyped
  <2> QED
    BY <1>4, <2>1 DEF Disconnect, TypeOK, registryVars, shardVars, sessionVars
<1>5. CASE MarkDisconnected(c)
  <2>1. /\ conn' \in [Conns -> Connection]
        /\ \A d \in Conns : Len(conn'[d].pending) <= Backpressure
    BY <1>5, MarkDisconnectedEffect, ConnTyped, NoConnectionEffect DEF Empty
  <2>2. active' \in [Clients -> Nat]
    BY <1>5 DEF MarkDisconnected, TypeOK, IsClient
  <2> QED
    BY <1>5, <2>1, <2>2 DEF MarkDisconnected, TypeOK, registryVars, shardVars, sessionVars
<1> QED
  BY <1>1, <1>2, <1>3, <1>4, <1>5 DEF Handler

\* The steps of a forward task keep the types.
LEMMA TypeForward ==
  ASSUME TypeOK, ShapeInv, NEW c \in Conns, Forward(c)
  PROVE  TypeOK'
<1>1. ASSUME ChangesOnly(c),
             \/ conn'[c].pending = <<>>
             \/ conn'[c].pending = conn[c].pending
             \/ conn[c].pending # <<>> /\ conn'[c].pending = Tail(conn[c].pending),
             UNCHANGED <<registryVars, shardVars, dispatch, active, offline, sessionVars, pruning>>
      PROVE  TypeOK'
  <2>1. /\ conn' \in [Conns -> Connection]
        /\ \A d \in Conns : Len(conn'[d].pending) <= Backpressure
    BY <1>1, ConnTyped
  <2> QED
    BY <1>1, <2>1 DEF TypeOK, registryVars, shardVars, sessionVars
<1>2. CASE Greet(c)
  BY <1>1, <1>2, GreetEffect DEF Greet, Sends
<1>3. ASSUME NEW g \in Guilds, SendGuild(c, g)
      PROVE  TypeOK'
  BY <1>1, <1>3, SendGuildEffect DEF SendGuild, Sends
<1>4. CASE Drain(c)
  <2>1. /\ conn' \in [Conns -> Connection]
        /\ \A d \in Conns : Len(conn'[d].pending) <= Backpressure
    BY <1>4, DrainEffect, ConnTyped
  <2>2. offline' \in [Clients -> Seq(Event)] /\ \A cl \in Clients : Len(offline'[cl]) <= BufferLimit
    <3>1. offline \in [Clients -> Seq(Event)] /\ \A cl \in Clients : Len(offline[cl]) <= BufferLimit
      BY DEF TypeOK
    <3>2. \/ offline' = offline
          \/ conn[c].principal \in Clients /\ offline' = [offline EXCEPT ![conn[c].principal] = <<>>]
      BY <1>4, DrainEffect DEF IsClient
    <3>3. <<>> \in Seq(Event) /\ Len(<<>>) <= BufferLimit
      BY BoundAssumption
    <3> QED
      BY <3>1, <3>2, <3>3
  <2> QED
    BY <1>4, <2>1, <2>2 DEF Drain, TypeOK, registryVars, shardVars, sessionVars
<1>5. CASE Replay(c)
  BY <1>1, <1>5, ReplayEffect DEF Replay
<1>6. CASE Subscribe(c)
  BY <1>1, <1>6, SubscribeEffect, NoConnectionEffect DEF Subscribe, Empty
<1>7. CASE Receive(c)
  BY <1>1, <1>7, ReceiveEffect DEF Receive
<1> QED
  BY <1>2, <1>3, <1>4, <1>5, <1>6, <1>7 DEF Forward

\* A dispatcher's hand holds an event or nothing.
LEMMA LookedType ==
  ASSUME NEW d \in InHand
  PROVE  Looked(d) \in InHand \cup {Idle}
BY DEF Looked

\* The steps of a dispatcher keep the types.
LEMMA TypeDispatcher ==
  ASSUME TypeOK, NEW s \in Shards, Dispatcher(s)
  PROVE  TypeOK'
<1>1. CASE Ready(s) \/ \E canResume \in BOOLEAN : InvalidateSession(s, canResume)
  BY <1>1 DEF Ready, InvalidateSession, TypeOK, registryVars, sessionVars
<1>2. ASSUME NEW input \in InputsOf(s), Broadcast(s, input)
      PROVE  TypeOK'
  <2> DEFINE e == [shard |-> s, id |-> Len(log[s]) + 1, input |-> input]
  <2>1. /\ conn' \in [Conns -> Connection] /\ e \in Event /\ input \in EventInput
        /\ log' = [log EXCEPT ![s] = Append(@, input)]
    BY <1>2, BroadcastEffect
  <2>2. \A c \in Conns : Len(conn'[c].pending) <= Backpressure
    BY <1>2, BroadcastEffect DEF TypeOK
  <2>3. dispatch' \in [Shards -> InHand \cup {Idle}]
    <3>1. [stage |-> "broadcast", event |-> e, todo |-> {}, push |-> None] \in InHand
      BY <2>1 DEF InHand
    <3> QED
      BY <1>2, <3>1 DEF Broadcast, TypeOK
  <2>4. log' \in [Shards -> Seq(EventInput)]
    BY <2>1 DEF TypeOK
  <2> QED
    BY <1>2, <2>1, <2>2, <2>3, <2>4 DEF Broadcast, TypeOK, registryVars, sessionVars
<1>3. ASSUME BufferEvent(s) \/ (\E cl \in Clients : CheckConnected(s, cl)) \/ PushOffline(s)
      PROVE  dispatch[s] \in InHand
  <2>1. dispatch[s] # Idle
    <3>1. dispatch[s].stage # "idle"
      BY <1>3 DEF BufferEvent, CheckConnected, PushOffline
    <3> QED
      BY <3>1 DEF Idle
  <2> QED
    BY <2>1 DEF TypeOK
<1>4. CASE BufferEvent(s)
  <2> DEFINE todo == {cl \in Clients : dispatch[s].event.input.guild \in granted[cl]}
             d == [dispatch[s] EXCEPT !.stage = "buffering", !.todo = todo]
  <2>1. d \in InHand
    BY <1>3, <1>4 DEF InHand
  <2>2. dispatch' = [dispatch EXCEPT ![s] = Looked(d)]
    BY <1>4 DEF BufferEvent
  <2> HIDE DEF d
  <2>3. dispatch' \in [Shards -> InHand \cup {Idle}]
    BY <2>1, <2>2, LookedType DEF TypeOK
  <2> QED
    BY <1>4, <2>3 DEF BufferEvent, TypeOK, registryVars, shardVars, sessionVars
<1>5. ASSUME NEW cl \in Clients, CheckConnected(s, cl)
      PROVE  TypeOK'
  <2> DEFINE p == IF active[cl] > 0 THEN None ELSE cl
             d == [dispatch[s] EXCEPT !.todo = @ \ {cl}, !.push = p]
  <2>1. d \in InHand
    BY <1>3, <1>5 DEF InHand
  <2>2. dispatch' = [dispatch EXCEPT ![s] = Looked(d)]
    BY <1>5 DEF CheckConnected
  <2> HIDE DEF d
  <2>3. dispatch' \in [Shards -> InHand \cup {Idle}]
    BY <2>1, <2>2, LookedType DEF TypeOK
  <2> QED
    BY <1>5, <2>3 DEF CheckConnected, TypeOK, registryVars, shardVars, sessionVars
<1>6. CASE PushOffline(s)
  <2> DEFINE d == [dispatch[s] EXCEPT !.push = None]
             p == dispatch[s].push
             e == dispatch[s].event
             q == Push(offline[p], e, BufferLimit)
  <2>1. d \in InHand /\ p \in Clients /\ e \in Event
    BY <1>3, <1>6 DEF PushOffline, InHand
  <2>2. dispatch' = [dispatch EXCEPT ![s] = Looked(d)] /\ offline' = [offline EXCEPT ![p] = q]
    BY <1>6 DEF PushOffline
  <2>3. offline[p] \in Seq(Event) /\ Len(offline[p]) <= BufferLimit
    BY <2>1 DEF TypeOK
  <2> HIDE DEF d, p, e
  <2>4. q \in Seq(Event) /\ Len(q) <= BufferLimit
    BY <2>1, <2>3, PushEffect, BoundAssumption
  <2> HIDE DEF q
  <2>5. dispatch' \in [Shards -> InHand \cup {Idle}]
    BY <2>1, <2>2, LookedType DEF TypeOK
  <2>6. offline' \in [Clients -> Seq(Event)] /\ \A cl \in Clients : Len(offline'[cl]) <= BufferLimit
    BY <2>1, <2>2, <2>4 DEF TypeOK
  <2> QED
    BY <1>6, <2>5, <2>6 DEF PushOffline, TypeOK, registryVars, shardVars, sessionVars
<1> QED
  BY <1>1, <1>2, <1>4, <1>5, <1>6 DEF Dispatcher

\* Every step keeps the types.
LEMMA TypeStep == TypeOK /\ ShapeInv /\ [Next]_vars => TypeOK'
<1> SUFFICES ASSUME TypeOK, ShapeInv, [Next]_vars PROVE TypeOK'
  OBVIOUS
<1>1. ASSUME NEW session \in sessions, ExpireSession(session)
      PROVE  TypeOK'
  BY <1>1 DEF ExpireSession, TypeOK, registryVars, shardVars
<1>2. ASSUME NEW cl \in Clients, NEW guilds \in SUBSET Guilds, SetGranted(cl, guilds)
      PROVE  TypeOK'
  BY <1>2 DEF SetGranted, TypeOK, shardVars, sessionVars
<1>3. CASE PruneRead
  BY <1>3 DEF PruneRead, TypeOK, registryVars, shardVars, sessionVars
<1>4. CASE PruneStaleClientState
  <2>1. offline \in [Clients -> Seq(Event)] /\ \A cl \in Clients : Len(offline[cl]) <= BufferLimit
    BY DEF TypeOK
  <2>2. \A cl \in Clients : offline'[cl] = offline[cl] \/ offline'[cl] = <<>>
    BY <1>4 DEF PruneStaleClientState
  <2>3. <<>> \in Seq(Event) /\ Len(<<>>) <= BufferLimit
    BY BoundAssumption
  <2>4. offline' \in [Clients -> Seq(Event)] /\ \A cl \in Clients : Len(offline'[cl]) <= BufferLimit
    BY <1>4, <2>1, <2>2, <2>3 DEF PruneStaleClientState
  <2> QED
    BY <1>4, <2>4 DEF PruneStaleClientState, TypeOK, registryVars, shardVars, sessionVars
<1>5. CASE UNCHANGED vars
  BY <1>5 DEF vars, TypeOK, registryVars, shardVars, sessionVars
<1> QED
  BY <1>1, <1>2, <1>3, <1>4, <1>5, TypeHandler, TypeForward, TypeDispatcher DEF Next

\* The fields of a connection that the proofs speak of.
LEMMA ConnectionFields ==
  ASSUME NEW k \in Connection
  PROVE  /\ k.handler \in {"closed", "marking", "starting", "serving", "unmarking"}
         /\ k.task \in {"none", "waiting", "greeting", "replaying", "live"}
         /\ k.seq \in Nat /\ k.subscribed \in Nat
         /\ k.out \in Seq(Message) /\ k.replay \in Seq(Event) /\ k.pending \in Seq(Event)
BY DEF Connection

\* A connection that was sent a message.
LEMMA AppendedMessage ==
  ASSUME NEW o \in Seq(Message), NEW m \in Message
  PROVE  LET p == Append(o, m)
         IN  /\ p \in Seq(Message) /\ p # <<>> /\ Len(p) = Len(o) + 1 /\ p[Len(p)] = m
             /\ \A i \in 1 .. Len(o) : p[i] = o[i]
             /\ \A i \in 1 .. Len(p) : i \in 1 .. Len(o) \/ i = Len(p)
OBVIOUS

\* Every step keeps the shape of every connection.
LEMMA ShapeStep == TypeOK /\ ShapeInv /\ [Next]_vars => ShapeInv'
<1> SUFFICES ASSUME TypeOK, ShapeInv, [Next]_vars PROVE ShapeInv'
  OBVIOUS
<1>1. ASSUME NEW c \in Conns, ChangesOnly(c), Shape(conn'[c]), EventsTyped(conn'[c])
      PROVE  ShapeInv'
  BY <1>1 DEF ShapeInv, ChangesOnly, Shape, EventsTyped, IsEvent
<1>2. ASSUME NEW c \in Conns
      PROVE  conn[c] \in Connection /\ Shape(conn[c]) /\ EventsTyped(conn[c])
  BY DEF ShapeInv, TypeOK
<1>3. Shape(NoConnection) /\ EventsTyped(NoConnection)
  BY NoConnectionEffect DEF Shape, EventsTyped, Empty
<1>4. ASSUME NEW c \in Conns,
             \/ \E p \in Principals, i \in 0 .. ShardCount - 1 : Identify(c, p, i)
             \/ \E session \in sessions, seq \in ResumeSeqs : Resume(c, session, seq)
      PROVE  ShapeInv'
  BY <1>1, <1>4, StartedEffect DEF Shape, EventsTyped, Empty
<1>5. ASSUME NEW c \in Conns, MarkConnected(c)
      PROVE  ShapeInv'
  BY <1>1, <1>2, <1>5, MarkConnectedEffect DEF Shape, EventsTyped, SamePeer
<1>6. ASSUME NEW c \in Conns, Start(c)
      PROVE  ShapeInv'
  BY <1>1, <1>2, <1>3, <1>6, StartEffect DEF Shape, EventsTyped, SamePeer
<1>7. ASSUME NEW c \in Conns, Disconnect(c)
      PROVE  ShapeInv'
  BY <1>1, <1>2, <1>7, DisconnectEffect DEF Shape, EventsTyped, SamePeer
<1>8. ASSUME NEW c \in Conns, MarkDisconnected(c)
      PROVE  ShapeInv'
  BY <1>1, <1>2, <1>3, <1>8, MarkDisconnectedEffect DEF Shape, EventsTyped, SamePeer
\* The forward task sends a message that is no event, before it has sent any.
<1>9. ASSUME NEW c \in Conns, NEW m \in Message, ChangesOnly(c), Sends(conn[c], conn'[c], m),
             conn[c].task \in {"waiting", "greeting"}, conn'[c].task = "greeting", ~IsEvent(m)
      PROVE  ShapeInv'
  <2>1. conn[c].out \in Seq(Message)
    BY <1>2, ConnectionFields
  <2>2. Shape(conn'[c])
    BY <1>2, <1>9, <2>1, AppendedMessage DEF Shape, Sends, SamePeer
  <2>3. EventsTyped(conn'[c])
    BY <1>2, <1>9, <2>1, AppendedMessage DEF EventsTyped, Sends
  <2> QED
    BY <1>1, <1>9, <2>2, <2>3
<1>10. ASSUME NEW c \in Conns, Greet(c) \/ \E g \in Guilds : SendGuild(c, g)
       PROVE  ShapeInv'
  <2>1. /\ ChangesOnly(c) /\ conn[c].task \in {"waiting", "greeting"} /\ conn'[c].task = "greeting"
        /\ \E m \in Message : Sends(conn[c], conn'[c], m) /\ ~IsEvent(m)
    BY <1>10, GreetEffect, SendGuildEffect DEF IsEvent
  <2> QED
    BY <1>9, <2>1
<1>11. ASSUME NEW c \in Conns, Drain(c)
       PROVE  ShapeInv'
  BY <1>1, <1>2, <1>11, DrainEffect DEF Shape, EventsTyped, SamePeer
<1>12. ASSUME NEW c \in Conns, NEW e \in Event, NEW how \in {"replay", "live"}, ChangesOnly(c),
              Relays(c, conn[c], conn'[c], e, how), conn[c].task \in {"replaying", "live"},
              conn[c].task = "replaying" => conn'[c].pending = conn[c].pending,
              conn[c].task = "live" => conn'[c].replay = conn[c].replay
       PROVE  ShapeInv'
  <2>1. conn[c].out \in Seq(Message)
    BY <1>2, ConnectionFields
  <2>2. \/ conn'[c].out = conn[c].out
        \/ /\ conn[c].handler = "serving"
           /\ \E m \in Message : m.what = e /\ conn'[c].out = Append(conn[c].out, m)
    BY <1>12 DEF Relays
  <2>3. Shape(conn'[c])
    BY <1>2, <1>12, <2>1, <2>2, AppendedMessage DEF Shape, Relays, SamePeer, SameStage
  <2>4. EventsTyped(conn'[c])
    BY <1>2, <1>12, <2>1, <2>2, AppendedMessage DEF EventsTyped, Relays, SameStage
  <2> QED
    BY <1>1, <1>12, <2>3, <2>4
<1>13. ASSUME NEW c \in Conns, Replay(c)
       PROVE  ShapeInv'
  BY <1>12, <1>13, ReplayEffect
<1>14. ASSUME NEW c \in Conns, Receive(c)
       PROVE  ShapeInv'
  BY <1>12, <1>14, ReceiveEffect
<1>15. ASSUME NEW c \in Conns, Subscribe(c)
       PROVE  ShapeInv'
  BY <1>1, <1>2, <1>3, <1>15, SubscribeEffect, ConnectionFields DEF Shape, EventsTyped, SamePeer
<1>16. ASSUME NEW s \in Shards, NEW input \in InputsOf(s), Broadcast(s, input)
       PROVE  ShapeInv'
  <2> SUFFICES ASSUME NEW c \in Conns
               PROVE  Shape(conn'[c]) /\ EventsTyped(conn'[c])
    BY DEF ShapeInv, Shape, EventsTyped, IsEvent
  <2>1. CASE ~Subscribed(c, s)
    BY <1>2, <1>16, <2>1, BroadcastEffect
  <2>2. CASE Subscribed(c, s)
    <3>1. /\ SamePeer(conn[c], conn'[c]) /\ SameStage(conn[c], conn'[c]) /\ conn[c].task = "live"
          /\ conn'[c].out = conn[c].out /\ conn'[c].replay = conn[c].replay
      BY <1>16, <2>2, BroadcastEffect DEF Subscribed
    <3> QED
      BY <1>2, <3>1 DEF Shape, EventsTyped, SamePeer, SameStage
  <2> QED
    BY <2>1, <2>2
<1>17. ASSUME conn' = conn
       PROVE  ShapeInv'
  BY <1>17 DEF ShapeInv, Shape, EventsTyped, IsEvent
<1>18. ASSUME \/ \E s \in Shards :
                   \/ Ready(s) \/ (\E canResume \in BOOLEAN : InvalidateSession(s, canResume))
                   \/ BufferEvent(s) \/ (\E cl \in Clients : CheckConnected(s, cl)) \/ PushOffline(s)
              \/ \E session \in sessions : ExpireSession(session)
              \/ \E cl \in Clients, guilds \in SUBSET Guilds : SetGranted(cl, guilds)
              \/ PruneRead \/ PruneStaleClientState \/ UNCHANGED vars
       PROVE  conn' = conn
  BY <1>18 DEF Ready, InvalidateSession, BufferEvent, CheckConnected, PushOffline, ExpireSession,
     SetGranted, PruneRead, PruneStaleClientState, vars
<1> QED
  BY <1>4, <1>5, <1>6, <1>7, <1>8, <1>10, <1>11, <1>13, <1>14, <1>15, <1>16, <1>17, <1>18
     DEF Next, Handler, Forward, Dispatcher

\* Every variable keeps its type in every behaviour, and no queue outgrows its
\* limit: neither a subscription nor an offline buffer.
THEOREM TypeCorrect == Spec => []TypeOK
BY TypeInit, TypeStep, ShapeStep, PTL DEF Spec

\* The shape of a connection holds in every behaviour.
LEMMA ShapeCorrect == Spec => []ShapeInv
BY TypeInit, TypeStep, ShapeStep, PTL DEF Spec

-----------------------------------------------------------------------------
(* The kinds of steps *)

ambientVars == <<granted, changes, log, dispatch, offline>>

\* The handler starts, stops or moves on: nothing is on its way to the client,
\* and at most what was drained is left.
Quiet(c) ==
    LET k == conn[c]  l == conn'[c]
    IN  /\ ChangesOnly(c) /\ UNCHANGED ambientVars
        /\ l.out = <<>> /\ l.pending = <<>> /\ l.task # "live"
        /\ l.replay = <<>> \/ (l.replay = k.replay /\ l.principal = k.principal)

\* READY, RESUMED or a guild.
Says(c) ==
    LET k == conn[c]  l == conn'[c]
    IN  /\ ChangesOnly(c) /\ UNCHANGED ambientVars
        /\ k.task \in {"waiting", "greeting"} /\ l.task = "greeting"
        /\ \E m \in Message :
             /\ Sends(k, l, m) /\ ~IsEvent(m)
             /\ \/ k.task = "waiting" /\ m.how = "RESUMED"
                \/ k.task = "waiting" /\ m.how = "READY" /\ m.seq = l.seq
                \/ k.task = "greeting" /\ m.how = "GUILD" /\ m.seq = l.seq /\ l.seq = k.seq + 1

\* The subscription of a connection that is served.
GoesLive(c) ==
    LET k == conn[c]  l == conn'[c]
    IN  /\ ChangesOnly(c) /\ UNCHANGED ambientVars
        /\ k.task = "replaying" /\ k.replay = <<>> /\ k.pending = <<>>
        /\ SamePeer(k, l) /\ l.handler = "serving" /\ l.task = "live" /\ l.seq = k.seq
        /\ l.subscribed = Len(log[AtIndex(k.asked)])
        /\ l.out = k.out /\ l.replay = <<>> /\ l.pending = <<>>

\* The steps of the handler are quiet.
LEMMA QuietHandler ==
  ASSUME TypeOK, ShapeInv, NEW c \in Conns,
         \/ \E p \in Principals, i \in 0 .. ShardCount - 1 : Identify(c, p, i)
         \/ \E session \in sessions, seq \in ResumeSeqs : Resume(c, session, seq)
         \/ Handler(c)
         \/ Disconnect(c)
  PROVE  Quiet(c)
<1>1. Shape(conn[c])
  BY DEF ShapeInv
<1>2. UNCHANGED ambientVars
  BY DEF ambientVars, Identify, Resume, Handler, MarkConnected, Start, MarkDisconnected,
     Disconnect, registryVars, shardVars
<1>3. CASE \/ \E p \in Principals, i \in 0 .. ShardCount - 1 : Identify(c, p, i)
           \/ \E session \in sessions, seq \in ResumeSeqs : Resume(c, session, seq)
  BY <1>2, <1>3, StartedEffect DEF Quiet, Empty
<1>4. CASE MarkConnected(c)
  BY <1>1, <1>2, <1>4, MarkConnectedEffect DEF Quiet, Shape
<1>5. CASE Start(c)
  BY <1>1, <1>2, <1>5, StartEffect, NoConnectionEffect DEF Quiet, Shape, Empty
<1>6. CASE MarkDisconnected(c)
  BY <1>1, <1>2, <1>6, MarkDisconnectedEffect, NoConnectionEffect DEF Quiet, Shape, Empty, SamePeer
<1>7. CASE Disconnect(c)
  BY <1>1, <1>2, <1>7, DisconnectEffect DEF Quiet, Shape, SamePeer
<1> QED
  BY <1>3, <1>4, <1>5, <1>6, <1>7 DEF Handler

\* Every step is of one of these kinds.
LEMMA StepKinds ==
  ASSUME TypeOK, ShapeInv, [Next]_vars
  PROVE  \/ \E c \in Conns :
              Quiet(c) \/ Says(c) \/ Drain(c) \/ Replay(c) \/ GoesLive(c) \/ Receive(c)
         \/ \E s \in Shards :
              \/ \E input \in InputsOf(s) : Broadcast(s, input)
              \/ BufferEvent(s) \/ (\E cl \in Clients : CheckConnected(s, cl)) \/ PushOffline(s)
         \/ \E cl \in Clients, guilds \in SUBSET Guilds : SetGranted(cl, guilds)
         \/ PruneStaleClientState
         \/ UNCHANGED <<conn, ambientVars>>
<1>1. ASSUME NEW c \in Conns, Greet(c)
      PROVE  Says(c)
  <2>1. UNCHANGED ambientVars
    BY <1>1 DEF Greet, ambientVars, registryVars, shardVars
  <2> QED
    BY <1>1, <2>1, GreetEffect DEF Says, IsEvent
<1>2. ASSUME NEW c \in Conns, NEW g \in Guilds, SendGuild(c, g)
      PROVE  Says(c)
  <2>1. UNCHANGED ambientVars
    BY <1>2 DEF SendGuild, ambientVars, registryVars, shardVars
  <2> QED
    BY <1>2, <2>1, SendGuildEffect DEF Says, IsEvent
<1>3. ASSUME NEW c \in Conns, Subscribe(c)
      PROVE  GoesLive(c) \/ Quiet(c)
  <2>1. UNCHANGED ambientVars
    BY <1>3 DEF Subscribe, ambientVars, registryVars, shardVars
  <2>2. Shape(conn[c])
    BY DEF ShapeInv
  <2>3. CASE conn[c].handler = "serving"
    BY <1>3, <2>1, <2>2, <2>3, SubscribeEffect DEF GoesLive, Shape
  <2>4. CASE conn[c].handler # "serving"
    BY <1>3, <2>1, <2>2, <2>4, SubscribeEffect, NoConnectionEffect DEF Quiet, Shape, Empty
  <2> QED
    BY <2>3, <2>4
<1>4. ASSUME \/ \E s \in Shards :
                  Ready(s) \/ (\E canResume \in BOOLEAN : InvalidateSession(s, canResume))
             \/ \E session \in sessions : ExpireSession(session)
             \/ PruneRead \/ UNCHANGED vars
      PROVE  UNCHANGED <<conn, ambientVars>>
  BY <1>4 DEF Ready, InvalidateSession, ExpireSession, PruneRead, vars, ambientVars,
     registryVars, shardVars
<1> QED
  BY <1>1, <1>2, <1>3, <1>4, QuietHandler DEF Next, Forward, Dispatcher

-----------------------------------------------------------------------------
(* Sequence numbers *)

\* A connection that was sent nothing.
LEMMA NothingSequenced == ASSUME NEW k, k.out = <<>> PROVE Sequenced(k)
BY DEF Sequenced

\* The next message has the next number.
LEMMA SequencedAppend ==
  ASSUME NEW k \in Connection, NEW l \in Connection, NEW m \in Message, Sequenced(k),
         l.out = Append(k.out, m),
         \/ k.out = <<>> /\ m.how \in {"READY", "RESUMED"}
         \/ k.out # <<>> /\ m.how \notin {"READY", "RESUMED"} /\ m.seq = k.seq + 1,
         m.how # "RESUMED" => m.seq = l.seq
  PROVE  Sequenced(l)
<1>1. k.out \in Seq(Message) /\ Len(k.out) \in Nat
  BY ConnectionFields
<1>2. /\ l.out # <<>> /\ Len(l.out) = Len(k.out) + 1 /\ l.out[Len(l.out)] = m
      /\ \A i \in 1 .. Len(k.out) : l.out[i] = k.out[i]
      /\ \A i \in 1 .. Len(l.out) : i \in 1 .. Len(k.out) \/ i = Len(l.out)
  BY <1>1, AppendedMessage
<1>3. ASSUME NEW i \in 1 .. Len(k.out)
      PROVE  /\ (l.out[i].how \in {"READY", "RESUMED"}) <=> (i = 1)
             /\ i > 1 /\ l.out[i - 1].how # "RESUMED" => l.out[i].seq = l.out[i - 1].seq + 1
  <2>1. i > 1 => i - 1 \in 1 .. Len(k.out)
    BY <1>1
  <2> QED
    BY <1>2, <2>1 DEF Sequenced
<1>4. (m.how \in {"READY", "RESUMED"}) <=> (Len(l.out) = 1)
  BY <1>1, <1>2
<1>5. ASSUME Len(l.out) > 1, l.out[Len(l.out) - 1].how # "RESUMED"
      PROVE  m.seq = l.out[Len(l.out) - 1].seq + 1
  <2>1. Len(k.out) \in 1 .. Len(k.out) /\ k.out # <<>> /\ Len(l.out) - 1 = Len(k.out)
    BY <1>1, <1>2, <1>5
  <2> QED
    BY <1>2, <1>5, <2>1 DEF Sequenced
<1> QED
  BY <1>2, <1>3, <1>4, <1>5 DEF Sequenced

\* Every step keeps the numbers of every connection without a gap.
LEMMA SequenceStep == TypeOK /\ ShapeInv /\ SequenceInv /\ [Next]_vars => SequenceInv'
<1> SUFFICES ASSUME TypeOK, ShapeInv, SequenceInv, [Next]_vars, NEW c \in Conns
             PROVE  Sequenced(conn'[c])
  BY DEF SequenceInv, Sequenced
<1>1. /\ conn[c] \in Connection /\ Shape(conn[c]) /\ Sequenced(conn[c])
      /\ conn[c].out \in Seq(Message)
  BY ConnectionFields DEF ShapeInv, TypeOK, SequenceInv
<1>2. TypeOK' /\ conn'[c] \in Connection
  BY TypeStep DEF TypeOK
<1>3. ASSUME conn'[c].out = conn[c].out, conn'[c].seq = conn[c].seq
      PROVE  Sequenced(conn'[c])
  BY <1>1, <1>3 DEF Sequenced
<1>4. ASSUME NEW d \in Conns \ {c}, ChangesOnly(d)
      PROVE  Sequenced(conn'[c])
  BY <1>3, <1>4 DEF ChangesOnly
<1>5. CASE Quiet(c)
  BY <1>5, NothingSequenced DEF Quiet
<1>6. CASE Says(c)
  <2>1. PICK m \in Message :
          /\ Sends(conn[c], conn'[c], m)
          /\ \/ conn[c].task = "waiting" /\ m.how = "RESUMED"
             \/ conn[c].task = "waiting" /\ m.how = "READY" /\ m.seq = conn'[c].seq
             \/ /\ conn[c].task = "greeting" /\ m.how = "GUILD"
                /\ m.seq = conn'[c].seq /\ conn'[c].seq = conn[c].seq + 1
    BY <1>6 DEF Says
  <2>2. CASE conn[c].handler # "serving"
    BY <1>1, <2>1, <2>2, NothingSequenced DEF Shape, Sends
  <2>3. CASE conn[c].handler = "serving"
    <3>1. conn'[c].out = Append(conn[c].out, m) /\ (conn[c].task = "waiting" <=> conn[c].out = <<>>)
      BY <1>1, <2>1, <2>3 DEF Shape, Sends
    <3> QED
      BY <1>1, <1>2, <2>1, <3>1, SequencedAppend
  <2> QED
    BY <2>2, <2>3
<1>7. CASE Drain(c)
  BY <1>3, <1>7, DrainEffect
<1>8. CASE GoesLive(c)
  BY <1>3, <1>8 DEF GoesLive
<1>9. ASSUME NEW e, NEW how \in {"replay", "live"}, Relays(c, conn[c], conn'[c], e, how),
             conn[c].task \in {"replaying", "live"}
      PROVE  Sequenced(conn'[c])
  <2>1. CASE conn[c].handler # "serving"
    BY <1>1, <1>9, <2>1, NothingSequenced DEF Shape, Relays
  <2>2. CASE conn[c].handler = "serving"
    <3>1. CASE conn'[c].out = conn[c].out
      BY <1>3, <1>9, <2>2, <3>1 DEF Relays
    <3>2. CASE conn'[c].out # conn[c].out
      <4>1. PICK m \in Message : m.how = how /\ m.seq = conn'[c].seq /\ conn'[c].seq = conn[c].seq + 1
                                 /\ conn'[c].out = Append(conn[c].out, m)
        BY <1>9, <3>2 DEF Relays
      <4>2. conn[c].out # <<>>
        BY <1>1, <1>9, <2>2 DEF Shape
      <4> QED
        BY <1>1, <1>2, <4>1, <4>2, SequencedAppend
    <3> QED
      BY <3>1, <3>2
  <2> QED
    BY <2>1, <2>2
<1>10. CASE Replay(c)
  BY <1>9, <1>10, ReplayEffect
<1>11. CASE Receive(c)
  BY <1>9, <1>11, ReceiveEffect
<1>12. ASSUME NEW s \in Shards, NEW input \in InputsOf(s), Broadcast(s, input)
       PROVE  Sequenced(conn'[c])
  BY <1>1, <1>3, <1>12, BroadcastEffect
<1>13. ASSUME NEW d \in Conns \ {c},
              Quiet(d) \/ Says(d) \/ Drain(d) \/ Replay(d) \/ GoesLive(d) \/ Receive(d)
       PROVE  Sequenced(conn'[c])
  BY <1>4, <1>13, DrainEffect, ReplayEffect, ReceiveEffect DEF Quiet, Says, GoesLive
<1>14. ASSUME conn' = conn
       PROVE  Sequenced(conn'[c])
  BY <1>1, <1>14
<1> QED
  BY <1>5, <1>6, <1>7, <1>8, <1>10, <1>11, <1>12, <1>13, <1>14, StepKinds
     DEF BufferEvent, CheckConnected, PushOffline, SetGranted, PruneStaleClientState

\* Whatever is filtered, replayed, lagged or renumbered on the way, the sequence
\* numbers of a connection start with READY or RESUMED and have no gap.
THEOREM NumbersWithoutGap == Spec => []NoSequenceGap
<1>1. Init => SequenceInv
  BY NothingSequenced, NoConnectionEffect DEF Init, SequenceInv, Empty
<1>2. SequenceInv => NoSequenceGap
  BY DEF SequenceInv, Sequenced, NoSequenceGap
<1> QED
  BY <1>1, <1>2, SequenceStep, TypeCorrect, ShapeCorrect, PTL DEF Spec

-----------------------------------------------------------------------------
(* Order *)

\* A log that goes on: what it holds stays where it is.
Grows(l, m) ==
    \A s \in Shards : /\ Len(l[s]) <= Len(m[s])
                      /\ \A n \in 1 .. Len(l[s]) : m[s][n] = l[s][n]
Logs == [Shards -> Seq(EventInput)]

\* What is in the log of a shard stays there.
LEMMA LogGrows ==
  ASSUME TypeOK,
         log' = log \/ \E s \in Shards, input \in EventInput :
                         log' = [log EXCEPT ![s] = Append(@, input)]
  PROVE  log \in Logs /\ log' \in Logs /\ Grows(log, log')
<1>1. log \in Logs
  BY DEF TypeOK, Logs
<1>2. CASE log' = log
  BY <1>1, <1>2 DEF Logs, Grows
<1>3. ASSUME NEW s \in Shards, NEW input \in EventInput,
             log' = [log EXCEPT ![s] = Append(@, input)]
      PROVE  log' \in Logs /\ Grows(log, log')
  <2>1. log[s] \in Seq(EventInput)
    BY <1>1 DEF Logs
  <2>2. Append(log[s], input) \in Seq(EventInput)
    BY <2>1
  <2>3. log' \in Logs
    BY <1>1, <1>3, <2>2 DEF Logs
  <2>4. ASSUME NEW t \in Shards
        PROVE  /\ Len(log[t]) <= Len(log'[t])
               /\ \A n \in 1 .. Len(log[t]) : log'[t][n] = log[t][n]
    <3>1. CASE t = s
      <4>1. log'[t] = Append(log[s], input)
        BY <1>1, <1>3, <3>1 DEF Logs
      <4> QED
        BY <2>1, <3>1, <4>1
    <3>2. CASE t # s
      <4>1. log'[t] = log[t] /\ log[t] \in Seq(EventInput)
        BY <1>1, <1>3, <3>2 DEF Logs
      <4> QED
        BY <4>1
    <3> QED
      BY <3>1, <3>2
  <2> QED
    BY <2>3, <2>4 DEF Grows
<1> QED
  BY <1>1, <1>2, <1>3

\* An event of the log stays one.
LEMMA KnownGrows ==
  ASSUME NEW l \in Logs, NEW m \in Logs, Grows(l, m), NEW e \in Event, Known(l, e)
  PROVE  Known(m, e)
<1>1. e.shard \in Shards /\ e.id \in Nat
  BY DEF Event
<1>2. l[e.shard] \in Seq(EventInput) /\ m[e.shard] \in Seq(EventInput)
  BY <1>1 DEF Logs
<1>3. Len(l[e.shard]) \in Nat /\ Len(m[e.shard]) \in Nat
  BY <1>2
<1>4. Len(l[e.shard]) <= Len(m[e.shard]) /\ \A n \in 1 .. Len(l[e.shard]) : m[e.shard][n] = l[e.shard][n]
  BY <1>1 DEF Grows
<1> QED
  BY <1>1, <1>3, <1>4 DEF Known

\* A connection whose messages and replay stay, while the log grows.
LEMMA ReplayKept ==
  ASSUME NEW l \in Logs, NEW m \in Logs, Grows(l, m), NEW k \in Connection, NEW k2,
         EventsTyped(k), OrderedReplay(l, k), k2.out = k.out, k2.replay = k.replay
  PROVE  OrderedReplay(m, k2)
<1>1. k.replay \in Seq(Event)
  BY ConnectionFields
<1>2. \A i \in 1 .. Len(k.replay) : k.replay[i] \in Event
  BY <1>1
<1>3. \A i \in 1 .. Len(k.replay) : Known(m, k.replay[i])
  BY <1>2, KnownGrows DEF OrderedReplay
<1>4. \A i \in 1 .. Len(k.out) : IsEvent(k.out[i]) => Known(m, k.out[i].what)
  BY KnownGrows DEF OrderedReplay, EventsTyped
<1> QED
  BY <1>3, <1>4 DEF OrderedReplay

\* A connection that was sent no event.
LEMMA ReplayUnsent ==
  ASSUME NEW l, NEW k, \A i \in 1 .. Len(k.out) : ~IsEvent(k.out[i]), OrderedBuffer(l, k.replay)
  PROVE  OrderedReplay(l, k)
BY DEF OrderedReplay, OrderedBuffer

\* An empty buffer is in order.
LEMMA EmptyOrdered == ASSUME NEW l PROVE OrderedBuffer(l, <<>>)
BY DEF OrderedBuffer, Ascending

\* One more message, that comes after the others and before what is left.
LEMMA ReplayAppend ==
  ASSUME NEW l, NEW k \in Connection, NEW k2 \in Connection, NEW m \in Message,
         OrderedReplay(l, k), k2.out = Append(k.out, m),
         OrderedBuffer(l, k2.replay),
         \A i \in 1 .. Len(k2.replay) : \E j \in 1 .. Len(k.replay) : k2.replay[i] = k.replay[j],
         IsEvent(m) =>
           /\ Known(l, m.what)
           /\ \A i \in 1 .. Len(k.out) : IsEvent(k.out[i]) => Before(k.out[i].what, m.what)
           /\ \A i \in 1 .. Len(k2.replay) : Before(m.what, k2.replay[i])
  PROVE  OrderedReplay(l, k2)
<1>1. k.out \in Seq(Message) /\ Len(k.out) \in Nat
  BY ConnectionFields
<1>2. /\ Len(k2.out) = Len(k.out) + 1 /\ k2.out[Len(k2.out)] = m
      /\ \A i \in 1 .. Len(k.out) : k2.out[i] = k.out[i]
      /\ \A i \in 1 .. Len(k2.out) : i \in 1 .. Len(k.out) \/ i = Len(k2.out)
  BY <1>1, AppendedMessage
<1>3. ASSUME NEW i \in 1 .. Len(k2.out), NEW j \in 1 .. Len(k2.out), i < j,
             IsEvent(k2.out[i]), IsEvent(k2.out[j])
      PROVE  Before(k2.out[i].what, k2.out[j].what)
  <2>1. i \in 1 .. Len(k.out)
    BY <1>1, <1>2, <1>3
  <2>2. CASE j \in 1 .. Len(k.out)
    BY <1>2, <1>3, <2>1, <2>2 DEF OrderedReplay
  <2>3. CASE j = Len(k2.out)
    BY <1>2, <1>3, <2>1, <2>3
  <2> QED
    BY <1>2, <2>2, <2>3
<1>4. ASSUME NEW i \in 1 .. Len(k2.out), NEW j \in 1 .. Len(k2.replay), IsEvent(k2.out[i])
      PROVE  Before(k2.out[i].what, k2.replay[j])
  <2>1. CASE i \in 1 .. Len(k.out)
    BY <1>2, <1>4, <2>1 DEF OrderedReplay
  <2>2. CASE i = Len(k2.out)
    BY <1>2, <1>4, <2>2
  <2> QED
    BY <1>2, <2>1, <2>2
<1>5. ASSUME NEW i \in 1 .. Len(k2.out), IsEvent(k2.out[i])
      PROVE  Known(l, k2.out[i].what)
  BY <1>2, <1>5 DEF OrderedReplay
<1> QED
  BY <1>3, <1>4, <1>5 DEF OrderedReplay, OrderedBuffer

\* The rest of a queue.
LEMMA TailEffect ==
  ASSUME NEW S, NEW q \in Seq(S), q # <<>>
  PROVE  /\ Tail(q) \in Seq(S) /\ Len(Tail(q)) = Len(q) - 1 /\ Len(q) \in Nat \ {0}
         /\ Head(q) = q[1] /\ Head(q) \in S
         /\ \A i \in 1 .. Len(Tail(q)) : Tail(q)[i] = q[i + 1] /\ i + 1 \in 1 .. Len(q)
<1>1. Len(q) \in Nat \ {0}
  OBVIOUS
<1>2. Tail(q) \in Seq(S) /\ Head(q) = q[1] /\ Head(q) \in S
  BY <1>1
<1>3. Len(Tail(q)) = Len(q) - 1
  BY <1>1
<1>4. \A i \in 1 .. Len(q) - 1 : Tail(q)[i] = q[i + 1] /\ i + 1 \in 1 .. Len(q)
  BY <1>1
<1> QED
  BY <1>1, <1>2, <1>3, <1>4

\* The rest of a buffer is in order, and comes after its head.
LEMMA TailOrdered ==
  ASSUME NEW l, NEW q \in Seq(Event), q # <<>>, OrderedBuffer(l, q)
  PROVE  /\ OrderedBuffer(l, Tail(q)) /\ Known(l, Head(q))
         /\ \A i \in 1 .. Len(Tail(q)) :
              /\ Before(Head(q), Tail(q)[i])
              /\ \E j \in 1 .. Len(q) : Tail(q)[i] = q[j]
<1>1. /\ Len(Tail(q)) = Len(q) - 1 /\ Len(q) \in Nat \ {0} /\ Head(q) = q[1]
      /\ \A i \in 1 .. Len(Tail(q)) : Tail(q)[i] = q[i + 1] /\ i + 1 \in 1 .. Len(q)
  BY TailEffect
<1>2. 1 \in 1 .. Len(q) /\ \A i \in 1 .. Len(Tail(q)) : 1 < i + 1
  BY <1>1
<1>3. \A i, j \in 1 .. Len(Tail(q)) : i < j => i + 1 < j + 1
  BY <1>1
<1>4. Ascending(Tail(q))
  BY <1>1, <1>3 DEF OrderedBuffer, Ascending
<1>5. \A i \in 1 .. Len(Tail(q)) : Known(l, Tail(q)[i])
  BY <1>1 DEF OrderedBuffer
<1>6. Known(l, Head(q)) /\ \A i \in 1 .. Len(Tail(q)) : Before(Head(q), Tail(q)[i])
  BY <1>1, <1>2 DEF OrderedBuffer, Ascending
<1> QED
  BY <1>1, <1>4, <1>5, <1>6 DEF OrderedBuffer

\* What is relayed of the head of a queue.
LEMMA ReplayRelays ==
  ASSUME NEW l, NEW c \in Conns, NEW k \in Connection, NEW k2 \in Connection,
         NEW e \in Event, NEW how \in {"replay", "live"},
         Relays(c, k, k2, e, how), OrderedReplay(l, k), Known(l, e),
         OrderedBuffer(l, k2.replay),
         \A i \in 1 .. Len(k2.replay) :
            Before(e, k2.replay[i]) /\ \E j \in 1 .. Len(k.replay) : k2.replay[i] = k.replay[j],
         \A i \in 1 .. Len(k.out) : IsEvent(k.out[i]) => Before(k.out[i].what, e)
  PROVE  OrderedReplay(l, k2)
<1>1. CASE k2.out = k.out
  BY <1>1 DEF OrderedReplay, OrderedBuffer
<1>2. CASE k2.out # k.out
  <2>1. PICK m \in Message : m.what = e /\ k2.out = Append(k.out, m)
    BY <1>2 DEF Relays
  <2> QED
    BY <2>1, ReplayAppend
<1> QED
  BY <1>1, <1>2

\* The place in the log of a connection that is subscribed.
LEMMA PositionRange ==
  ASSUME NEW l \in Logs, NEW k \in Connection, HasIndex(k.asked),
         k.task = "live", OrderedLive(l, k)
  PROVE  /\ AtIndex(k.asked) \in Shards /\ l[AtIndex(k.asked)] \in Seq(EventInput)
         /\ Len(l[AtIndex(k.asked)]) \in Nat /\ Len(k.pending) \in Nat
         /\ Position(l, k) \in Nat /\ k.subscribed \in Nat /\ k.subscribed <= Position(l, k)
         /\ Len(l[AtIndex(k.asked)]) = Position(l, k) + Len(k.pending)
<1>1. AtIndex(k.asked) \in Shards
  BY ShardAssumption DEF Connection, HasIndex, AtIndex, Shards
<1>2. l[AtIndex(k.asked)] \in Seq(EventInput)
  BY <1>1 DEF Logs
<1>3. Len(l[AtIndex(k.asked)]) \in Nat
  BY <1>2
<1>4. k.pending \in Seq(Event) /\ k.subscribed \in Nat
  BY ConnectionFields
<1>5. Len(k.pending) \in Nat
  BY <1>4
<1>6. k.subscribed <= Position(l, k)
  BY DEF OrderedLive
<1>7. Position(l, k) = Len(l[AtIndex(k.asked)]) - Len(k.pending)
  BY DEF Position
<1>8. Position(l, k) \in Int
  BY <1>3, <1>5, <1>7
<1>9. Position(l, k) \in Nat
  BY <1>4, <1>6, <1>8
<1>10. Len(l[AtIndex(k.asked)]) = Position(l, k) + Len(k.pending)
  BY <1>3, <1>5, <1>7, <1>8
<1> QED
  BY <1>1, <1>2, <1>3, <1>4, <1>5, <1>6, <1>9, <1>10

\* The head of a subscription is the next event of the shard.
LEMMA NextLive ==
  ASSUME NEW l \in Logs, NEW k \in Connection, HasIndex(k.asked), EventsTyped(k),
         k.task = "live", OrderedLive(l, k), k.pending # <<>>
  PROVE  /\ Len(k.pending) > 0
         /\ Position(l, k) + 1 \in 1 .. Len(l[AtIndex(k.asked)])
         /\ Head(k.pending) = LogEvent(l, AtIndex(k.asked), Position(l, k) + 1)
         /\ Known(l, Head(k.pending))
         /\ \A i \in 1 .. Len(k.out) : IsEvent(k.out[i]) => Before(k.out[i].what, Head(k.pending))
<1> DEFINE s == AtIndex(k.asked)
           n == Position(l, k) + 1
<1>1. /\ s \in Shards /\ Len(l[s]) \in Nat /\ Len(k.pending) \in Nat /\ Position(l, k) \in Nat
      /\ Len(l[s]) = Position(l, k) + Len(k.pending)
  BY PositionRange
<1>2. k.pending \in Seq(Event)
  BY ConnectionFields
<1>3. Len(k.pending) > 0 /\ Head(k.pending) = k.pending[1] /\ 1 \in 1 .. Len(k.pending)
  BY <1>2, TailEffect
<1>4. k.pending[1] = LogEvent(l, s, n)
  BY <1>3 DEF OrderedLive
<1>5. n \in 1 .. Len(l[s])
  BY <1>1, <1>3
<1>6. Head(k.pending) = LogEvent(l, s, n)
  BY <1>3, <1>4
<1>7. Head(k.pending).shard = s /\ Head(k.pending).id = n /\ Head(k.pending).input = l[s][n]
  BY <1>6 DEF LogEvent
<1>8. Known(l, Head(k.pending))
  BY <1>5, <1>7 DEF Known
<1>9. ASSUME NEW i \in 1 .. Len(k.out), IsEvent(k.out[i])
      PROVE  Before(k.out[i].what, Head(k.pending))
  <2>1. k.out[i].what \in Event
    BY <1>9 DEF EventsTyped
  <2>2. k.out[i].what.id \in Nat
    BY <2>1 DEF Event
  <2>3. k.out[i].what.shard = s => k.out[i].what.id <= Position(l, k)
    BY <1>9 DEF OrderedLive
  <2> HIDE DEF s
  <2> QED
    BY <1>1, <1>7, <2>2, <2>3 DEF Before
<1> QED
  BY <1>3, <1>5, <1>6, <1>8, <1>9

\* The messages and the replay of a connection stay in order.
LEMMA ReplayStep ==
  ASSUME TypeOK, ShapeInv, OrderInv, [Next]_vars, NEW c \in Conns
  PROVE  OrderedReplay(log', conn'[c])
<1>1. /\ conn[c] \in Connection /\ Shape(conn[c]) /\ EventsTyped(conn[c])
      /\ OrderedReplay(log, conn[c]) /\ OrderedLive(log, conn[c])
  BY DEF TypeOK, ShapeInv, OrderInv
<1>2. TypeOK' /\ conn'[c] \in Connection
  BY TypeStep DEF TypeOK
<1>3. log \in Logs
  BY DEF TypeOK, Logs
<1>4. conn[c].replay \in Seq(Event) /\ conn[c].pending \in Seq(Event)
  BY <1>1, ConnectionFields
<1>5. OrderedBuffer(log, conn[c].replay)
  BY <1>1 DEF OrderedReplay, OrderedBuffer
<1>6. ASSUME log' \in Logs, Grows(log, log'),
             conn'[c].out = conn[c].out, conn'[c].replay = conn[c].replay
      PROVE  OrderedReplay(log', conn'[c])
  BY <1>1, <1>3, <1>6, ReplayKept
<1>7. log' = log => log' \in Logs /\ Grows(log, log')
  BY LogGrows
<1>8. CASE Quiet(c)
  <2>1. log' = log /\ conn'[c].out = <<>>
        /\ (conn'[c].replay = <<>> \/ conn'[c].replay = conn[c].replay)
    BY <1>8 DEF Quiet, ambientVars
  <2>2. OrderedBuffer(log, conn'[c].replay)
    BY <1>5, <2>1, EmptyOrdered
  <2>3. \A i \in 1 .. Len(conn'[c].out) : ~IsEvent(conn'[c].out[i])
    BY <2>1
  <2> QED
    BY <2>1, <2>2, <2>3, ReplayUnsent
<1>9. CASE Says(c)
  <2>1. PICK m \in Message : Sends(conn[c], conn'[c], m) /\ ~IsEvent(m)
    BY <1>9 DEF Says
  <2>2. log' = log /\ conn'[c].replay = conn[c].replay
    BY <1>9, <2>1 DEF Says, ambientVars, Sends
  <2>3. CASE conn'[c].out = conn[c].out
    BY <1>6, <1>7, <2>2, <2>3
  <2>4. CASE conn'[c].out = Append(conn[c].out, m)
    BY <1>1, <1>2, <1>5, <2>1, <2>2, <2>4, ReplayAppend
  <2> QED
    BY <2>1, <2>3, <2>4 DEF Sends
<1>10. CASE Drain(c)
  <2>1. \A i \in 1 .. Len(conn'[c].out) : ~IsEvent(conn'[c].out[i])
    BY <1>1, <1>10, DrainEffect DEF EventsTyped
  <2>2. OrderedBuffer(log, conn'[c].replay)
    BY <1>10, DrainEffect, EmptyOrdered DEF OrderInv, IsClient
  <2>3. log' = log
    BY <1>10 DEF Drain, shardVars
  <2> QED
    BY <2>1, <2>2, <2>3, ReplayUnsent
<1>11. CASE GoesLive(c)
  BY <1>6, <1>7, <1>11 DEF GoesLive, ambientVars
<1>12. CASE Replay(c)
  <2>1. /\ conn[c].replay # <<>> /\ Head(conn[c].replay) \in Event
        /\ Relays(c, conn[c], conn'[c], Head(conn[c].replay), "replay")
        /\ conn'[c].replay = Tail(conn[c].replay)
    BY <1>12, ReplayEffect
  <2>2. log' = log
    BY <1>12 DEF Replay, shardVars
  <2>3. /\ OrderedBuffer(log, conn'[c].replay) /\ Known(log, Head(conn[c].replay))
        /\ \A i \in 1 .. Len(conn'[c].replay) :
             /\ Before(Head(conn[c].replay), conn'[c].replay[i])
             /\ \E j \in 1 .. Len(conn[c].replay) : conn'[c].replay[i] = conn[c].replay[j]
    <3> DEFINE q == conn[c].replay
    <3>1. q \in Seq(Event) /\ q # <<>> /\ OrderedBuffer(log, q)
      BY <1>4, <1>5, <2>1
    <3> HIDE DEF q
    <3>2. /\ OrderedBuffer(log, Tail(q)) /\ Known(log, Head(q))
          /\ \A i \in 1 .. Len(Tail(q)) :
               /\ Before(Head(q), Tail(q)[i])
               /\ \E j \in 1 .. Len(q) : Tail(q)[i] = q[j]
      BY <3>1, TailOrdered
    <3> QED
      BY <2>1, <3>2 DEF q
  <2>4. ASSUME NEW i \in 1 .. Len(conn[c].out), IsEvent(conn[c].out[i])
        PROVE  Before(conn[c].out[i].what, Head(conn[c].replay))
    <3>1. 1 \in 1 .. Len(conn[c].replay) /\ Head(conn[c].replay) = conn[c].replay[1]
      BY <1>4, <2>1, TailEffect
    <3> QED
      BY <1>1, <2>4, <3>1 DEF OrderedReplay
  <2> QED
    BY <1>1, <1>2, <2>1, <2>2, <2>3, <2>4, ReplayRelays
<1>13. CASE Receive(c)
  <2>1. /\ conn[c].task = "live" /\ conn[c].pending # <<>> /\ Head(conn[c].pending) \in Event
        /\ Relays(c, conn[c], conn'[c], Head(conn[c].pending), "live")
        /\ conn'[c].replay = conn[c].replay
    BY <1>13, ReceiveEffect
  <2>2. log' = log
    BY <1>13 DEF Receive, shardVars
  <2>3. conn[c].replay = <<>> /\ HasIndex(conn[c].asked)
    BY <1>1, <2>1 DEF Shape
  <2>4. /\ Known(log, Head(conn[c].pending))
        /\ \A i \in 1 .. Len(conn[c].out) :
             IsEvent(conn[c].out[i]) => Before(conn[c].out[i].what, Head(conn[c].pending))
    BY <1>1, <1>3, <2>1, <2>3, NextLive
  <2>5. conn'[c].replay = <<>> /\ OrderedBuffer(log, conn'[c].replay)
        /\ \A i \in 1 .. Len(conn'[c].replay) : FALSE
    BY <2>1, <2>3, EmptyOrdered
  <2> QED
    BY <1>1, <1>2, <2>1, <2>2, <2>4, <2>5, ReplayRelays
<1>14. ASSUME NEW s \in Shards, NEW input \in InputsOf(s), Broadcast(s, input)
       PROVE  OrderedReplay(log', conn'[c])
  <2>1. /\ log' = [log EXCEPT ![s] = Append(@, input)] /\ input \in EventInput
        /\ conn'[c].out = conn[c].out /\ conn'[c].replay = conn[c].replay
    BY <1>14, BroadcastEffect
  <2>2. log' \in Logs /\ Grows(log, log')
    BY <2>1, LogGrows
  <2> QED
    BY <1>6, <2>1, <2>2
<1>15. ASSUME NEW d \in Conns \ {c},
              Quiet(d) \/ Says(d) \/ Drain(d) \/ Replay(d) \/ GoesLive(d) \/ Receive(d)
       PROVE  OrderedReplay(log', conn'[c])
  <2>1. ChangesOnly(d)
    BY <1>15, DrainEffect, ReplayEffect, ReceiveEffect DEF Quiet, Says, GoesLive
  <2>2. log' = log
    BY <1>15 DEF Quiet, Says, GoesLive, ambientVars, Drain, Replay, Receive, shardVars
  <2> QED
    BY <1>6, <1>7, <2>1, <2>2 DEF ChangesOnly
<1>16. ASSUME conn' = conn, log' = log
       PROVE  OrderedReplay(log', conn'[c])
  BY <1>1, <1>16
<1> QED
  BY <1>8, <1>9, <1>10, <1>11, <1>12, <1>13, <1>14, <1>15, <1>16, StepKinds
     DEF BufferEvent, CheckConnected, PushOffline, SetGranted, PruneStaleClientState,
         ambientVars, shardVars

\* A connection that takes the head of its subscription.
LEMMA LiveReceive ==
  ASSUME NEW l \in Logs, NEW c \in Conns, NEW k \in Connection, NEW k2 \in Connection,
         HasIndex(k.asked), EventsTyped(k), k.task = "live", k.pending # <<>>,
         OrderedLive(l, k), Relays(c, k, k2, Head(k.pending), "live"),
         k2.pending = Tail(k.pending)
  PROVE  OrderedLive(l, k2) /\ Position(l, k2) = Position(l, k) + 1
<1> DEFINE s == AtIndex(k.asked)
<1>1. /\ s \in Shards /\ Len(l[s]) \in Nat /\ Len(k.pending) \in Nat /\ Position(l, k) \in Nat
      /\ k.subscribed \in Nat /\ k.subscribed <= Position(l, k)
      /\ Len(l[s]) = Position(l, k) + Len(k.pending)
  BY PositionRange
<1>2. /\ Head(k.pending) = LogEvent(l, s, Position(l, k) + 1) /\ Len(k.pending) > 0
  BY NextLive
<1>3. k2.asked = k.asked /\ k2.subscribed = k.subscribed
  BY DEF Relays, SamePeer, SameStage
<1>4. /\ Len(k2.pending) = Len(k.pending) - 1
      /\ \A i \in 1 .. Len(k2.pending) :
           k2.pending[i] = k.pending[i + 1] /\ i + 1 \in 1 .. Len(k.pending)
  <2>1. k.pending \in Seq(Event)
    BY ConnectionFields
  <2> QED
    BY <2>1, TailEffect
<1>5. Position(l, k2) = Len(l[s]) - Len(k2.pending)
  BY <1>3 DEF Position
<1>6. Position(l, k2) = Position(l, k) + 1
  <2> HIDE DEF s
  <2> QED
    BY <1>1, <1>4, <1>5
<1>7. k2.subscribed <= Position(l, k2)
  BY <1>1, <1>3, <1>6
<1>8. ASSUME NEW i \in 1 .. Len(k2.pending)
      PROVE  k2.pending[i] = LogEvent(l, s, Position(l, k2) + i)
  <2>1. Position(l, k) + (i + 1) = Position(l, k2) + i
    BY <1>1, <1>4, <1>6
  <2>2. k.pending[i + 1] = LogEvent(l, s, Position(l, k) + (i + 1))
    BY <1>4 DEF OrderedLive
  <2> QED
    BY <1>4, <2>1, <2>2
<1>9. ASSUME NEW i \in 1 .. Len(k.out), IsEvent(k.out[i]), k.out[i].what.shard = s
      PROVE  k.out[i].what.id <= Position(l, k2)
  <2>1. k.out[i].what \in Event
    BY <1>9 DEF EventsTyped
  <2>2. k.out[i].what.id \in Nat
    BY <2>1 DEF Event
  <2>3. k.out[i].what.id <= Position(l, k)
    BY <1>9 DEF OrderedLive
  <2> QED
    BY <1>1, <1>6, <2>2, <2>3
<1>10. ASSUME NEW i \in 1 .. Len(k2.out), IsEvent(k2.out[i]), k2.out[i].what.shard = s
       PROVE  k2.out[i].what.id <= Position(l, k2)
  <2>1. CASE k2.out = k.out
    BY <1>9, <1>10, <2>1
  <2>2. CASE k2.out # k.out
    <3>1. PICK m \in Message : m.what = Head(k.pending) /\ k2.out = Append(k.out, m)
      BY <2>2 DEF Relays
    <3>2. k.out \in Seq(Message)
      BY ConnectionFields
    <3>3. CASE i \in 1 .. Len(k.out)
      BY <1>9, <1>10, <3>1, <3>2, <3>3, AppendedMessage
    <3>4. CASE i = Len(k2.out)
      <4>1. k2.out[i].what = LogEvent(l, s, Position(l, k) + 1)
        BY <1>2, <3>1, <3>2, <3>4, AppendedMessage
      <4>2. k2.out[i].what.id = Position(l, k) + 1
        BY <4>1 DEF LogEvent
      <4> QED
        BY <1>1, <1>6, <4>2
    <3> QED
      BY <1>10, <3>1, <3>2, <3>3, <3>4, AppendedMessage
  <2> QED
    BY <2>1, <2>2
<1> QED
  BY <1>3, <1>6, <1>7, <1>8, <1>10 DEF OrderedLive

\* A subscription whose shard relays one more event.
LEMMA LivePush ==
  ASSUME NEW l \in Logs, NEW k \in Connection, NEW k2 \in Connection, NEW input \in EventInput,
         HasIndex(k.asked), EventsTyped(k), k.task = "live", OrderedLive(l, k),
         Len(k.pending) <= Backpressure,
         SamePeer(k, k2), SameStage(k, k2), k2.out = k.out,
         NEW m \in Logs,
         m[AtIndex(k.asked)] = Append(l[AtIndex(k.asked)], input),
         k2.pending = Push(k.pending, [shard |-> AtIndex(k.asked),
                                       id |-> Len(l[AtIndex(k.asked)]) + 1,
                                       input |-> input], Backpressure)
  PROVE  /\ OrderedLive(m, k2)
         /\ Position(m, k2) = Position(l, k) + (IF Len(k.pending) >= Backpressure THEN 1 ELSE 0)
<1> DEFINE s == AtIndex(k.asked)
           e == [shard |-> s, id |-> Len(l[s]) + 1, input |-> input]
           drop == IF Len(k.pending) >= Backpressure THEN 1 ELSE 0
<1>1. /\ s \in Shards /\ l[s] \in Seq(EventInput)
      /\ Len(l[s]) \in Nat /\ Len(k.pending) \in Nat /\ Position(l, k) \in Nat
      /\ k.subscribed \in Nat /\ k.subscribed <= Position(l, k)
      /\ Len(l[s]) = Position(l, k) + Len(k.pending)
  BY PositionRange
<1>2. /\ Len(m[s]) = Len(l[s]) + 1 /\ m[s][Len(l[s]) + 1] = input
      /\ \A n \in 1 .. Len(l[s]) : m[s][n] = l[s][n]
  <2> HIDE DEF s
  <2>1. m[s] = Append(l[s], input)
    BY DEF s
  <2> QED
    BY <1>1, <2>1
<1>3. e \in Event
  <2>1. Len(l[s]) + 1 \in Nat
    BY <1>1
  <2> QED
    BY <1>1, <2>1 DEF Event
<1>4. e = LogEvent(m, s, Len(l[s]) + 1)
  BY <1>2 DEF LogEvent
<1>5. k.pending \in Seq(Event) /\ Backpressure \in Nat \ {0}
  BY ConnectionFields, BoundAssumption
<1>6. drop \in {0, 1}
  OBVIOUS
<1>7. k2.pending = Push(k.pending, e, Backpressure)
  OBVIOUS
<1>8. /\ Len(k2.pending) = Len(k.pending) - drop + 1
      /\ k2.pending[Len(k2.pending)] = e
      /\ \A i \in 1 .. Len(k2.pending) - 1 :
           k2.pending[i] = k.pending[i + drop] /\ i + drop \in 1 .. Len(k.pending)
  <2> HIDE DEF e
  <2> QED
    BY <1>3, <1>5, <1>7, PushEffect
<1>9. k2.asked = k.asked /\ k2.subscribed = k.subscribed
  BY DEF SamePeer, SameStage
<1>10. Position(m, k2) = Len(m[s]) - Len(k2.pending)
  BY <1>9 DEF Position
<1> HIDE DEF drop, e, s
<1>11. Position(m, k2) = Position(l, k) + drop
  BY <1>1, <1>2, <1>6, <1>8, <1>10
<1>12. k2.subscribed <= Position(m, k2)
  BY <1>1, <1>6, <1>9, <1>11
<1>13. ASSUME NEW i \in 1 .. Len(k2.pending)
       PROVE  k2.pending[i] = LogEvent(m, s, Position(m, k2) + i)
  <2>1. Len(k2.pending) \in Nat
    BY <1>1, <1>6, <1>8
  <2>2. CASE i = Len(k2.pending)
    <3>1. Position(m, k2) + i = Len(l[s]) + 1
      BY <1>1, <1>6, <1>8, <1>11, <2>2
    <3> QED
      BY <1>4, <1>8, <2>2, <3>1
  <2>3. CASE i # Len(k2.pending)
    <3>1. i \in 1 .. Len(k2.pending) - 1
      BY <2>1, <2>3
    <3>2. Position(l, k) + (i + drop) = Position(m, k2) + i
      BY <1>1, <1>6, <1>11
    <3>3. k2.pending[i] = k.pending[i + drop] /\ i + drop \in 1 .. Len(k.pending)
      BY <1>8, <3>1
    <3>4. Position(m, k2) + i \in 1 .. Len(l[s])
      BY <1>1, <1>6, <3>2, <3>3
    <3>5. k.pending[i + drop] = LogEvent(l, s, Position(l, k) + (i + drop))
      BY <3>3 DEF OrderedLive, s
    <3>6. LogEvent(l, s, Position(m, k2) + i) = LogEvent(m, s, Position(m, k2) + i)
      BY <1>2, <3>4 DEF LogEvent
    <3> QED
      BY <3>2, <3>3, <3>5, <3>6
  <2> QED
    BY <2>2, <2>3
<1>14. ASSUME NEW i \in 1 .. Len(k2.out), IsEvent(k2.out[i]), k2.out[i].what.shard = s
       PROVE  k2.out[i].what.id <= Position(m, k2)
  <2>1. k.out[i].what \in Event
    BY <1>14 DEF EventsTyped
  <2>2. k.out[i].what.id \in Nat
    BY <2>1 DEF Event
  <2>3. k.out[i].what.id <= Position(l, k)
    BY <1>14 DEF OrderedLive, s
  <2> QED
    BY <1>1, <1>6, <1>11, <2>2, <2>3
<1> QED
  BY <1>9, <1>11, <1>12, <1>13, <1>14 DEF OrderedLive, s, drop

\* A subscription that stays as it is, and its shard's log too.
LEMMA LiveKept ==
  ASSUME NEW l, NEW m, NEW k, NEW k2, OrderedLive(l, k),
         k.task = "live" => m[AtIndex(k.asked)] = l[AtIndex(k.asked)],
         k2.task = k.task, k2.asked = k.asked, k2.subscribed = k.subscribed,
         k2.pending = k.pending, k2.out = k.out
  PROVE  OrderedLive(m, k2) /\ (k.task = "live" => Position(m, k2) = Position(l, k))
BY DEF OrderedLive, Position, LogEvent

\* What a step does to a subscription, and to the log of its shard.
SubscriptionKept(c) ==
    /\ conn[c].task = "live" => log'[AtIndex(conn[c].asked)] = log[AtIndex(conn[c].asked)]
    /\ conn'[c].task = conn[c].task /\ conn'[c].asked = conn[c].asked
    /\ conn'[c].principal = conn[c].principal
    /\ conn'[c].subscribed = conn[c].subscribed
    /\ conn'[c].pending = conn[c].pending /\ conn'[c].out = conn[c].out
SubscriptionPushed(c) ==
    LET s == AtIndex(conn[c].asked)
        k == conn[c]
    IN  \E input \in EventInput :
          /\ k.task = "live"
          /\ log'[s] = Append(log[s], input)
          /\ SamePeer(k, conn'[c]) /\ SameStage(k, conn'[c]) /\ conn'[c].out = k.out
          /\ conn'[c].pending = Push(k.pending, [shard |-> s, id |-> Len(log[s]) + 1,
                                                 input |-> input], Backpressure)

\* What a step does to a subscription: it keeps it, pushes the event relayed,
\* takes it or receives from it.
LEMMA SubscriptionKinds ==
  ASSUME TypeOK, ShapeInv, [Next]_vars, NEW c \in Conns
  PROVE  /\ log \in Logs /\ log' \in Logs
         /\ \/ conn'[c].task # "live"
            \/ SubscriptionKept(c) /\ changes' >= changes /\ (granted' = granted \/ changes' > 0)
            \/ SubscriptionPushed(c) /\ UNCHANGED <<granted, changes>>
            \/ (GoesLive(c) \/ Receive(c)) /\ UNCHANGED <<granted, changes, log>>
<1>1. conn[c] \in Connection /\ Shape(conn[c]) /\ changes \in Nat
  BY DEF TypeOK, ShapeInv
<1>2. log \in Logs
  BY DEF TypeOK, Logs
<1>3. TypeOK'
  BY TypeStep
<1>4. log' \in Logs
  BY <1>3 DEF TypeOK, Logs
<1>5. ASSUME NEW d \in Conns, d # c,
             Quiet(d) \/ Says(d) \/ Drain(d) \/ Replay(d) \/ GoesLive(d) \/ Receive(d)
      PROVE  SubscriptionKept(c) /\ UNCHANGED <<granted, changes>>
  <2>1. ChangesOnly(d)
    BY <1>5, DrainEffect, ReplayEffect, ReceiveEffect DEF Quiet, Says, GoesLive
  <2>2. UNCHANGED <<granted, changes, log>>
    BY <1>5 DEF Quiet, Says, GoesLive, ambientVars, Drain, Replay, Receive, shardVars, registryVars
  <2> QED
    BY <1>5, <2>1, <2>2 DEF ChangesOnly, SubscriptionKept
<1>6. ASSUME Quiet(c) \/ Says(c) \/ Drain(c) \/ Replay(c)
      PROVE  conn'[c].task # "live"
  BY <1>6, DrainEffect, ReplayEffect DEF Quiet, Says, Relays, SameStage
<1>7. ASSUME GoesLive(c) \/ Receive(c)
      PROVE  UNCHANGED <<granted, changes, log>>
  BY <1>7 DEF GoesLive, ambientVars, Receive, shardVars, registryVars
<1>8. ASSUME NEW s \in Shards, NEW input \in InputsOf(s), Broadcast(s, input)
      PROVE  /\ UNCHANGED <<granted, changes>>
             /\ SubscriptionKept(c) \/ SubscriptionPushed(c)
  <2>1. UNCHANGED <<granted, changes>>
    BY <1>8 DEF Broadcast, registryVars
  <2>2. log' = [log EXCEPT ![s] = Append(@, input)] /\ input \in EventInput
    BY <1>8, BroadcastEffect
  <2>3. CASE ~Subscribed(c, s)
    <3>1. conn'[c] = conn[c]
      BY <1>8, <2>3, BroadcastEffect
    <3>2. conn[c].task = "live" => AtIndex(conn[c].asked) # s /\ AtIndex(conn[c].asked) \in Shards
      BY <1>1, <2>3, ServedShard DEF Subscribed, Served, Shape
    <3>3. conn[c].task = "live" => log'[AtIndex(conn[c].asked)] = log[AtIndex(conn[c].asked)]
      BY <1>2, <2>2, <3>2 DEF Logs
    <3> QED
      BY <2>1, <3>1, <3>3 DEF SubscriptionKept
  <2>4. CASE Subscribed(c, s)
    <3>1. AtIndex(conn[c].asked) = s /\ conn[c].task = "live"
      BY <2>4 DEF Subscribed, Served
    <3>2. log'[s] = Append(log[s], input)
      BY <1>2, <2>2 DEF Logs
    <3>3. /\ SamePeer(conn[c], conn'[c]) /\ SameStage(conn[c], conn'[c])
          /\ conn'[c].out = conn[c].out
          /\ conn'[c].pending = Push(conn[c].pending, [shard |-> s, id |-> Len(log[s]) + 1,
                                                       input |-> input], Backpressure)
      BY <1>8, <2>4, BroadcastEffect
    <3> QED
      BY <2>1, <2>2, <3>1, <3>2, <3>3 DEF SubscriptionPushed
  <2> QED
    BY <2>3, <2>4, <2>1
<1>9. ASSUME \/ \E s \in Shards :
                  BufferEvent(s) \/ (\E cl \in Clients : CheckConnected(s, cl)) \/ PushOffline(s)
             \/ PruneStaleClientState
             \/ UNCHANGED <<conn, ambientVars>>
      PROVE  SubscriptionKept(c) /\ UNCHANGED <<granted, changes>>
  BY <1>9 DEF BufferEvent, CheckConnected, PushOffline, PruneStaleClientState,
     SubscriptionKept, ambientVars, shardVars, registryVars
<1>10. ASSUME NEW cl \in Clients, NEW guilds \in SUBSET Guilds, SetGranted(cl, guilds)
       PROVE  SubscriptionKept(c) /\ changes' = changes + 1
  BY <1>10 DEF SetGranted, SubscriptionKept, shardVars
<1>11. ASSUME UNCHANGED <<granted, changes>> PROVE changes' >= changes
  BY <1>1, <1>11
<1>12. changes' = changes + 1 => changes' >= changes /\ changes' > 0
  BY <1>1
<1> QED
  BY <1>2, <1>4, <1>5, <1>6, <1>7, <1>8, <1>9, <1>10, <1>11, <1>12, StepKinds

\* Subscriptions stay the last events of their shards.
LEMMA LiveStep ==
  ASSUME TypeOK, ShapeInv, OrderInv, [Next]_vars, NEW c \in Conns
  PROVE  OrderedLive(log', conn'[c])
<1>1. /\ conn[c] \in Connection /\ Shape(conn[c]) /\ EventsTyped(conn[c])
      /\ OrderedReplay(log, conn[c]) /\ OrderedLive(log, conn[c])
      /\ Len(conn[c].pending) <= Backpressure
  BY DEF TypeOK, ShapeInv, OrderInv
<1>2. TypeOK' /\ conn'[c] \in Connection
  BY TypeStep DEF TypeOK
<1>3. log \in Logs /\ log' \in Logs
  BY SubscriptionKinds
<1>4. CASE SubscriptionKept(c)
  BY <1>1, <1>4, LiveKept DEF SubscriptionKept
<1>5. CASE SubscriptionPushed(c)
  <2>1. HasIndex(conn[c].asked)
    BY <1>1, <1>5 DEF Shape, SubscriptionPushed
  <2> QED
    BY <1>1, <1>2, <1>3, <1>5, <2>1, LivePush DEF SubscriptionPushed
<1>6. CASE GoesLive(c) /\ log' = log
  <2> DEFINE k == conn[c]
             k2 == conn'[c]
             s == AtIndex(k.asked)
  <2>1. /\ k.task = "replaying" /\ k2.asked = k.asked /\ k2.subscribed = Len(log[s])
        /\ k2.out = k.out /\ k2.pending = <<>>
    BY <1>6 DEF GoesLive, SamePeer
  <2>2. s \in Shards /\ Len(log[s]) \in Nat
    BY <1>1, <2>1, ServedShard DEF Shape
  <2>3. Len(k2.pending) = 0
    BY <2>1
  <2>4. Position(log, k2) = Len(log[s])
    <3>1. Position(log, k2) = Len(log[s]) - Len(k2.pending)
      BY <2>1 DEF Position
    <3> HIDE DEF k2, s
    <3> QED
      BY <2>2, <2>3, <3>1
  <2>5. ASSUME NEW i \in 1 .. Len(k.out), IsEvent(k.out[i]), k.out[i].what.shard = s
        PROVE  k.out[i].what.id <= Len(log[s])
    <3>1. k.out[i].what.id \in 1 .. Len(log[s])
      BY <1>1, <2>5 DEF OrderedReplay, Known
    <3> QED
      BY <2>2, <3>1
  <2>6. k2.subscribed <= Position(log, k2) /\ \A i \in 1 .. Len(k2.pending) : FALSE
    BY <2>1, <2>2, <2>3, <2>4
  <2> HIDE DEF k, k2, s
  <2>7. OrderedLive(log, k2)
    BY <2>1, <2>4, <2>5, <2>6 DEF OrderedLive, s
  <2> QED
    BY <1>6, <2>7 DEF k2
<1>7. CASE Receive(c) /\ log' = log
  <2>1. /\ conn[c].task = "live" /\ conn[c].pending # <<>>
        /\ Relays(c, conn[c], conn'[c], Head(conn[c].pending), "live")
        /\ conn'[c].pending = Tail(conn[c].pending)
    BY <1>7, ReceiveEffect
  <2>2. HasIndex(conn[c].asked)
    BY <1>1, <2>1 DEF Shape
  <2> QED
    BY <1>1, <1>2, <1>3, <1>7, <2>1, <2>2, LiveReceive
<1>8. CASE conn'[c].task # "live"
  BY <1>8 DEF OrderedLive
<1> QED
  BY <1>4, <1>5, <1>6, <1>7, <1>8, SubscriptionKinds

\* A dispatcher with an event in hand goes on with the clients it has to look
\* at, and is done when none is left.
GoesOn(d, d2) ==
    /\ d # Idle
    /\ d2 # Idle =>
         /\ d2.event = d.event /\ d2.push \notin d2.todo /\ d2.stage = "buffering"
         /\ \A cl \in Clients : MayPush(d2, cl) => MayPush(d, cl)

\* An event in hand is not the idle dispatcher.
LEMMA IdleApart == ASSUME NEW d \in InHand PROVE d # Idle
BY DEF InHand, Idle

\* Every step leaves a dispatcher as it is, gives it the event it relays, or
\* lets it go on.
LEMMA HandKinds ==
  ASSUME TypeOK, ShapeInv, OrderInv, [Next]_vars, NEW s \in Shards
  PROVE  \/ dispatch'[s] = dispatch[s] /\ (dispatch[s] # Idle => log'[s] = log[s])
         \/ /\ log'[s] # <<>> /\ Len(log'[s]) = Len(log[s]) + 1
            /\ dispatch'[s].event = LogEvent(log', s, Len(log'[s]))
            /\ dispatch'[s].push = None /\ dispatch'[s].todo = {}
            /\ Open(dispatch'[s].event)
         \/ GoesOn(dispatch[s], dispatch'[s]) /\ log'[s] = log[s]
<1>1. log \in [Shards -> Seq(EventInput)] /\ dispatch \in [Shards -> InHand \cup {Idle}]
  BY DEF TypeOK
<1>2. InHandOK(log, s, dispatch[s])
  BY DEF OrderInv
<1>3. ASSUME NEW d \in InHand, NEW d2 \in InHand,
             dispatch[s] = d, dispatch'[s] = Looked(d2), d2.event = d.event,
             d2.push \notin d2.todo, d2.stage = "buffering",
             \A cl \in Clients : MayPush(d2, cl) => MayPush(d, cl)
      PROVE  GoesOn(dispatch[s], dispatch'[s])
  BY <1>3, IdleApart DEF GoesOn, Looked
<1>4. CASE BufferEvent(s)
  <2> DEFINE d == dispatch[s]
             todo == {cl \in Clients : d.event.input.guild \in granted[cl]}
             d2 == [d EXCEPT !.stage = "buffering", !.todo = todo]
  <2>1. d.stage = "broadcast" /\ dispatch'[s] = Looked(d2) /\ log' = log
    BY <1>1, <1>4 DEF BufferEvent, shardVars
  <2>2. d \in InHand
    BY <1>1, <2>1 DEF Idle
  <2>3. d.push = None
    BY <1>2, <2>1, <2>2, IdleApart DEF InHandOK
  <2>4. todo \in SUBSET Clients
    OBVIOUS
  <2> HIDE DEF todo
  <2>5. d2 \in InHand /\ d2.event = d.event /\ d2.push = None /\ d2.stage = "buffering" /\ d2.todo = todo
    BY <2>2, <2>3, <2>4 DEF InHand
  <2>6. None \notin Clients
    BY PrincipalAssumption
  <2>7. \A cl \in Clients : MayPush(d, cl)
    BY <2>1, <2>2, IdleApart DEF MayPush
  <2>8. d2.push \notin d2.todo
    BY <2>4, <2>5, <2>6
  <2> HIDE DEF d, d2
  <2>9. dispatch[s] = d
    BY DEF d
  <2> QED
    BY <1>3, <2>1, <2>2, <2>5, <2>7, <2>8, <2>9
<1>5. ASSUME NEW cl \in Clients, CheckConnected(s, cl)
      PROVE  GoesOn(dispatch[s], dispatch'[s]) /\ log'[s] = log[s]
  <2> DEFINE d == dispatch[s]
             push == IF active[cl] > 0 THEN None ELSE cl
             d2 == [d EXCEPT !.todo = @ \ {cl}, !.push = push]
  <2>1. d.stage = "buffering" /\ d.push = None /\ cl \in d.todo
        /\ dispatch'[s] = Looked(d2) /\ log' = log
    BY <1>1, <1>5 DEF CheckConnected, shardVars
  <2>2. d \in InHand
    BY <1>1, <2>1 DEF Idle
  <2>3. push \in {None, cl} /\ None \notin Clients
    BY PrincipalAssumption
  <2> HIDE DEF push
  <2>4. d.todo \subseteq Clients
    BY <2>2 DEF InHand
  <2>5. /\ d2 \in InHand /\ d2.event = d.event /\ d2.push = push /\ d2.stage = "buffering"
        /\ d2.todo = d.todo \ {cl}
    BY <2>1, <2>2, <2>3 DEF InHand
  <2> HIDE DEF d2
  <2>6. d2.push \notin d2.todo
    BY <2>3, <2>4, <2>5
  <2>7. ASSUME NEW x \in Clients, MayPush(d2, x)
        PROVE  MayPush(d, x)
    BY <2>1, <2>2, <2>3, <2>5, <2>7, IdleApart DEF MayPush
  <2> HIDE DEF d
  <2>9. dispatch[s] = d
    BY DEF d
  <2> QED
    BY <1>3, <2>1, <2>2, <2>5, <2>6, <2>7, <2>9
<1>6. CASE PushOffline(s)
  <2> DEFINE d == dispatch[s]
             d2 == [d EXCEPT !.push = None]
  <2>1. d.stage = "buffering" /\ d.push # None /\ dispatch'[s] = Looked(d2) /\ log' = log
    BY <1>1, <1>6 DEF PushOffline, shardVars
  <2>2. d \in InHand
    BY <1>1, <2>1 DEF Idle
  <2>3. d2 \in InHand /\ d2.event = d.event /\ d2.push = None /\ d2.stage = "buffering"
        /\ d2.todo = d.todo
    BY <2>1, <2>2 DEF InHand
  <2> HIDE DEF d2
  <2>4. d.todo \subseteq Clients /\ None \notin Clients
    BY <2>2, PrincipalAssumption DEF InHand
  <2>5. d2.push \notin d2.todo
    BY <2>3, <2>4
  <2>6. ASSUME NEW x \in Clients, MayPush(d2, x)
        PROVE  MayPush(d, x)
    BY <2>2, <2>3, <2>4, <2>6, IdleApart DEF MayPush
  <2> HIDE DEF d
  <2>9. dispatch[s] = d
    BY DEF d
  <2> QED
    BY <1>3, <2>1, <2>2, <2>3, <2>5, <2>6, <2>9
<1>7. ASSUME NEW t \in Shards \ {s},
             BufferEvent(t) \/ (\E cl \in Clients : CheckConnected(t, cl)) \/ PushOffline(t)
      PROVE  dispatch'[s] = dispatch[s] /\ log'[s] = log[s]
  BY <1>1, <1>7 DEF BufferEvent, CheckConnected, PushOffline, shardVars
<1>8. ASSUME NEW t \in Shards, NEW input \in InputsOf(t), Broadcast(t, input), t # s
      PROVE  dispatch'[s] = dispatch[s] /\ log'[s] = log[s]
  BY <1>1, <1>8 DEF Broadcast
<1>9. ASSUME NEW input \in InputsOf(s), Broadcast(s, input), dispatch' # dispatch
      PROVE  /\ log'[s] # <<>> /\ Len(log'[s]) = Len(log[s]) + 1
             /\ dispatch'[s].event = LogEvent(log', s, Len(log'[s]))
             /\ dispatch'[s].push = None /\ dispatch'[s].todo = {}
             /\ Open(dispatch'[s].event)
  <2>1. input \in EventInput /\ log' = [log EXCEPT ![s] = Append(@, input)]
    BY <1>9, BroadcastEffect
  <2>2. /\ dispatch' = [dispatch EXCEPT ![s] =
              [stage |-> "broadcast",
               event |-> [shard |-> s, id |-> Len(log[s]) + 1, input |-> input],
               todo |-> {}, push |-> None]]
        /\ Open([shard |-> s, id |-> Len(log[s]) + 1, input |-> input])
    BY <1>9, BroadcastEffect
  <2>3. log[s] \in Seq(EventInput) /\ log'[s] = Append(log[s], input)
    BY <1>1, <2>1
  <2>4. Len(log'[s]) = Len(log[s]) + 1 /\ log'[s] # <<>> /\ log'[s][Len(log[s]) + 1] = input
    BY <2>1, <2>3
  <2>5. /\ dispatch'[s].event = [shard |-> s, id |-> Len(log[s]) + 1, input |-> input]
        /\ dispatch'[s].push = None /\ dispatch'[s].todo = {}
    BY <1>1, <2>2
  <2> QED
    BY <2>2, <2>4, <2>5 DEF LogEvent
<1>10. ASSUME NEW input \in InputsOf(s), Broadcast(s, input), dispatch' = dispatch
       PROVE  dispatch'[s] = dispatch[s] /\ dispatch[s] = Idle
  BY <1>10, BroadcastEffect
<1>11. ASSUME \/ \E c \in Conns :
                   Quiet(c) \/ Says(c) \/ Drain(c) \/ Replay(c) \/ GoesLive(c) \/ Receive(c)
              \/ \E cl \in Clients, guilds \in SUBSET Guilds : SetGranted(cl, guilds)
              \/ PruneStaleClientState
              \/ UNCHANGED <<conn, ambientVars>>
       PROVE  dispatch'[s] = dispatch[s] /\ log'[s] = log[s]
  BY <1>11 DEF Quiet, Says, Drain, Replay, GoesLive, Receive, SetGranted,
     PruneStaleClientState, ambientVars, shardVars

<1> QED
  BY <1>4, <1>5, <1>6, <1>7, <1>8, <1>9, <1>10, <1>11, StepKinds

\* The event in hand stays the last of its shard.
LEMMA HandStep ==
  ASSUME TypeOK, ShapeInv, OrderInv, [Next]_vars, NEW s \in Shards
  PROVE  InHandOK(log', s, dispatch'[s])
<1>1. InHandOK(log, s, dispatch[s])
  BY DEF OrderInv
<1>2. log[s] \in Seq(EventInput) /\ Len(log[s]) \in Nat
  BY DEF TypeOK
<1>3. CASE dispatch'[s] = dispatch[s] /\ (dispatch[s] # Idle => log'[s] = log[s])
  BY <1>1, <1>3 DEF InHandOK, LogEvent
<1>4. CASE /\ log'[s] # <<>> /\ Len(log'[s]) = Len(log[s]) + 1
           /\ dispatch'[s].event = LogEvent(log', s, Len(log'[s]))
           /\ dispatch'[s].push = None /\ dispatch'[s].todo = {}
  <2>1. Len(log'[s]) > 0
    BY <1>2, <1>4
  <2> QED
    BY <1>4, <2>1 DEF InHandOK
<1>5. CASE GoesOn(dispatch[s], dispatch'[s]) /\ log'[s] = log[s]
  BY <1>1, <1>5 DEF InHandOK, LogEvent, GoesOn
<1> QED
  BY <1>3, <1>4, <1>5, HandKinds

\* An event of the log that comes before what a dispatcher may push to a
\* client's buffer still does after the step.
LEMMA EarlierKept ==
  ASSUME TypeOK, ShapeInv, OrderInv, [Next]_vars, NEW cl \in Clients,
         NEW e \in Event, Known(log, e), Earlier(dispatch, cl, e)
  PROVE  Earlier(dispatch', cl, e)
<1> DEFINE s == e.shard
<1>1. s \in Shards /\ e.id \in Nat
  BY DEF Event
<1>2. log[s] \in Seq(EventInput) /\ Len(log[s]) \in Nat
  BY <1>1 DEF TypeOK
<1>3. CASE dispatch'[s] = dispatch[s]
  BY <1>3 DEF Earlier
<1>4. CASE Len(log'[s]) = Len(log[s]) + 1 /\ dispatch'[s].event = LogEvent(log', s, Len(log'[s]))
  <2>1. dispatch'[s].event.id = Len(log[s]) + 1
    BY <1>4 DEF LogEvent
  <2>2. e.id <= Len(log[s])
    BY <1>2 DEF Known
  <2>3. e.id < dispatch'[s].event.id
    BY <1>1, <1>2, <2>1, <2>2
  <2> QED
    BY <2>3 DEF Earlier
<1>5. CASE GoesOn(dispatch[s], dispatch'[s])
  BY <1>5 DEF Earlier, GoesOn, MayPush
<1> QED
  BY <1>1, <1>3, <1>4, <1>5, HandKinds

\* What a step does to the buffer of a client: nothing, it empties it, or a
\* dispatcher pushes its event and will not push it again.
Pushes(s, cl) ==
    /\ MayPush(dispatch[s], cl) /\ ~MayPush(dispatch'[s], cl)
    /\ dispatch[s].event \in Event
    /\ dispatch[s].event = LogEvent(log, s, Len(log[s])) /\ Len(log[s]) > 0
    /\ offline'[cl] = Push(offline[cl], dispatch[s].event, BufferLimit)
    /\ UNCHANGED <<log, conn>>

\* What a step does to a client's buffer: nothing, empties it, or pushes the event
\* in a dispatcher's hand.
LEMMA BufferKinds ==
  ASSUME TypeOK, ShapeInv, OrderInv, [Next]_vars, NEW cl \in Clients
  PROVE  \/ offline'[cl] = offline[cl]
         \/ offline'[cl] = <<>>
         \/ \E s \in Shards : Pushes(s, cl)
<1>1. /\ offline \in [Clients -> Seq(Event)]
      /\ dispatch \in [Shards -> InHand \cup {Idle}]
  BY DEF TypeOK
<1>2. ASSUME NEW c \in Conns, Drain(c)
      PROVE  offline'[cl] = offline[cl] \/ offline'[cl] = <<>>
  BY <1>1, <1>2, DrainEffect
<1>3. CASE PruneStaleClientState
  BY <1>3 DEF PruneStaleClientState
<1>4. ASSUME NEW s \in Shards, PushOffline(s)
      PROVE  offline'[cl] = offline[cl] \/ Pushes(s, cl)
  <2> DEFINE d == dispatch[s]
             d2 == [d EXCEPT !.push = None]
  <2>1. /\ d.stage = "buffering" /\ d.push # None /\ dispatch'[s] = Looked(d2)
        /\ UNCHANGED <<log, conn>>
        /\ offline' = [offline EXCEPT ![d.push] = Push(@, d.event, BufferLimit)]
    BY <1>1, <1>4 DEF PushOffline, shardVars
  <2>2. d \in InHand
    BY <1>1, <2>1 DEF Idle
  <2>3. InHandOK(log, s, d)
    BY DEF OrderInv
  <2>4. /\ d.push \in Clients /\ d.event \in Event /\ d # Idle
        /\ d.push \notin d.todo
        /\ d.event = LogEvent(log, s, Len(log[s])) /\ Len(log[s]) > 0
    BY <2>1, <2>2, <2>3, IdleApart DEF InHand, InHandOK
  <2>5. CASE cl # d.push
    BY <1>1, <2>1, <2>4, <2>5
  <2>6. CASE cl = d.push
    <3>1. offline'[cl] = Push(offline[cl], d.event, BufferLimit)
      BY <1>1, <2>1, <2>4, <2>6
    <3>2. MayPush(d, cl)
      BY <2>4, <2>6 DEF MayPush
    <3>3. d2.stage = "buffering" /\ d2.push = None /\ d2.todo = d.todo
      BY <2>1, <2>2 DEF InHand
    <3> HIDE DEF d2
    <3>4. ~MayPush(Looked(d2), cl)
      BY <2>4, <2>6, <3>3, PrincipalAssumption DEF MayPush, Looked
    <3> HIDE DEF d
    <3> QED
      BY <2>1, <2>4, <3>1, <3>2, <3>4 DEF Pushes, d
  <2> QED
    BY <2>5, <2>6
<1>5. ASSUME \/ \E c \in Conns : Quiet(c) \/ Says(c) \/ Replay(c) \/ GoesLive(c) \/ Receive(c)
             \/ \E s \in Shards :
                  \/ \E input \in InputsOf(s) : Broadcast(s, input)
                  \/ BufferEvent(s) \/ (\E x \in Clients : CheckConnected(s, x))
             \/ \E x \in Clients, guilds \in SUBSET Guilds : SetGranted(x, guilds)
             \/ UNCHANGED <<conn, ambientVars>>
      PROVE  offline'[cl] = offline[cl]
  BY <1>5 DEF Quiet, Says, Replay, GoesLive, Receive, Broadcast, BufferEvent, CheckConnected,
     SetGranted, ambientVars
<1> QED
  BY <1>2, <1>3, <1>4, <1>5, StepKinds

\* Buffers stay in the order of the shards, and before what is in hand.
LEMMA BufferStep ==
  ASSUME TypeOK, ShapeInv, OrderInv, [Next]_vars, NEW cl \in Clients
  PROVE  /\ OrderedBuffer(log', offline'[cl])
         /\ \A i \in 1 .. Len(offline'[cl]) : Earlier(dispatch', cl, offline'[cl][i])
<1> DEFINE q == offline[cl]
<1>1. /\ q \in Seq(Event) /\ Len(q) \in Nat /\ Len(q) <= BufferLimit /\ OrderedBuffer(log, q)
      /\ \A i \in 1 .. Len(q) : Earlier(dispatch, cl, q[i]) /\ Known(log, q[i]) /\ q[i] \in Event
  BY DEF TypeOK, OrderInv, OrderedBuffer
<1>2. \A i \in 1 .. Len(q) : Earlier(dispatch', cl, q[i])
  BY <1>1, EarlierKept
<1>3. CASE offline'[cl] = offline[cl]
  <2>1. log \in Logs /\ log' \in Logs /\ Grows(log, log')
    <3>1. log' = log \/ \E s \in Shards, input \in EventInput :
                          log' = [log EXCEPT ![s] = Append(@, input)]
      <4>1. ASSUME NEW s \in Shards, NEW input \in InputsOf(s), Broadcast(s, input)
            PROVE  input \in EventInput /\ log' = [log EXCEPT ![s] = Append(@, input)]
        BY <4>1, BroadcastEffect
      <4> QED
        BY <4>1, StepKinds DEF Quiet, Says, Drain, Replay, GoesLive, Receive, BufferEvent,
           CheckConnected, PushOffline, SetGranted, PruneStaleClientState, ambientVars, shardVars
    <3> QED
      BY <3>1, LogGrows
  <2>2. \A i \in 1 .. Len(q) : Known(log', q[i])
    BY <1>1, <2>1, KnownGrows
  <2> QED
    BY <1>1, <1>2, <1>3, <2>2 DEF OrderedBuffer
<1>4. CASE offline'[cl] = <<>>
  <2>1. \A i \in 1 .. Len(offline'[cl]) : FALSE
    BY <1>4
  <2> QED
    BY <1>4, <2>1, EmptyOrdered
<1>5. ASSUME NEW s \in Shards, Pushes(s, cl)
      PROVE  /\ OrderedBuffer(log', offline'[cl])
             /\ \A i \in 1 .. Len(offline'[cl]) : Earlier(dispatch', cl, offline'[cl][i])
  <2> DEFINE e == dispatch[s].event
             p == offline'[cl]
             drop == IF Len(q) >= BufferLimit THEN 1 ELSE 0
  <2>1. /\ e \in Event /\ log' = log /\ MayPush(dispatch[s], cl) /\ ~MayPush(dispatch'[s], cl)
        /\ e.shard = s /\ e.id = Len(log[s]) /\ e.input = log[s][Len(log[s])] /\ Len(log[s]) > 0
        /\ p = Push(q, e, BufferLimit)
    BY <1>5 DEF Pushes, LogEvent
  <2>2. Len(log[s]) \in Nat /\ BufferLimit \in Nat \ {0}
    BY BoundAssumption DEF TypeOK
  <2>3. Known(log, e)
    BY <2>1, <2>2 DEF Known
  <2>4. drop \in {0, 1}
    OBVIOUS
  <2>5. /\ Len(p) = Len(q) - drop + 1 /\ p[Len(p)] = e
        /\ \A i \in 1 .. Len(p) - 1 : p[i] = q[i + drop] /\ i + drop \in 1 .. Len(q)
    <3> HIDE DEF q, e
    <3> QED
      BY <1>1, <2>1, <2>2, PushEffect
  <2>6. \A i \in 1 .. Len(q) : Before(q[i], e)
    BY <1>1, <2>1 DEF Before, Earlier
  <2>7. Earlier(dispatch', cl, e)
    BY <2>1 DEF Earlier
  <2> HIDE DEF q, e, p, drop
  <2>8. Len(p) \in Nat /\ \A i \in 1 .. Len(p) : i = Len(p) \/ i \in 1 .. Len(p) - 1
    BY <1>1, <2>4, <2>5
  <2>9. \A i \in 1 .. Len(p) : Known(log, p[i]) /\ Earlier(dispatch', cl, p[i])
    BY <1>1, <1>2, <2>3, <2>5, <2>7, <2>8
  <2>10. ASSUME NEW i \in 1 .. Len(p), NEW j \in 1 .. Len(p), i < j
         PROVE  Before(p[i], p[j])
    <3>1. i \in 1 .. Len(p) - 1
      BY <2>8, <2>10
    <3>2. p[i] = q[i + drop] /\ i + drop \in 1 .. Len(q)
      BY <2>5, <3>1
    <3>3. CASE j = Len(p)
      BY <2>5, <2>6, <3>2, <3>3
    <3>4. CASE j \in 1 .. Len(p) - 1
      <4>1. p[j] = q[j + drop] /\ j + drop \in 1 .. Len(q) /\ i + drop < j + drop
        BY <2>4, <2>5, <2>10, <3>4
      <4> QED
        BY <1>1, <3>2, <4>1 DEF OrderedBuffer, Ascending
    <3> QED
      BY <2>8, <3>3, <3>4
  <2>11. OrderedBuffer(log, p)
    BY <2>9, <2>10 DEF OrderedBuffer, Ascending
  <2> QED
    BY <2>1, <2>9, <2>11 DEF p
<1> QED
  BY <1>3, <1>4, <1>5, BufferKinds

\* Every step keeps the order.
LEMMA OrderStep == TypeOK /\ ShapeInv /\ OrderInv /\ [Next]_vars => OrderInv'
BY ReplayStep, LiveStep, HandStep, BufferStep DEF OrderInv

\* Order holds in every behaviour.
LEMMA OrderCorrect == Spec => []OrderInv
<1>1. Init => OrderInv
  <2> SUFFICES ASSUME Init PROVE OrderInv
    OBVIOUS
  <2>1. ASSUME NEW c \in Conns
        PROVE  OrderedReplay(log, conn[c]) /\ OrderedLive(log, conn[c])
    <3>1. conn[c].out = <<>> /\ conn[c].replay = <<>> /\ conn[c].task # "live"
      BY NoConnectionEffect DEF Init, Empty
    <3>2. \A i \in 1 .. Len(conn[c].out) : ~IsEvent(conn[c].out[i])
      BY <3>1
    <3> QED
      BY <3>1, <3>2, ReplayUnsent, EmptyOrdered DEF OrderedLive
  <2>2. \A cl \in Clients : OrderedBuffer(log, offline[cl])
    BY EmptyOrdered DEF Init
  <2>3. \A s \in Shards : InHandOK(log, s, dispatch[s])
    BY DEF Init, InHandOK
  <2>4. \A cl \in Clients : \A i \in 1 .. Len(offline[cl]) : FALSE
    BY DEF Init
  <2> QED
    BY <2>1, <2>2, <2>3, <2>4 DEF OrderInv
<1> QED
  BY <1>1, OrderStep, TypeCorrect, ShapeCorrect, PTL DEF Spec

\* However the dispatchers, the reconnects and the cleanup interleave, a
\* connection gets the events of a shard in Discord's order and each once.
THEOREM DeliveredInOrder == Spec => []InOrderOnce
<1>1. OrderInv => InOrderOnce
  BY DEF OrderInv, OrderedReplay, InOrderOnce, Events, IsEvent, Before
<1> QED
  BY <1>1, OrderCorrect, PTL

-----------------------------------------------------------------------------
(* No event is replayed twice *)

\* What a connection has drawn is an event of the log.
LEMMA DrawnKnown ==
  ASSUME TypeOK, ShapeInv, OrderInv, NEW c \in Conns, NEW e \in Event, Drawn(conn[c], e)
  PROVE  Known(log, e)
BY DEF OrderInv, OrderedReplay, Drawn, IsEvent

\* Only Drain adds to what a connection has drawn.
LEMMA DrawnKept ==
  ASSUME TypeOK, ShapeInv, [Next]_vars, NEW c \in Conns, NEW e \in Event,
         ~Drain(c), Drawn(conn'[c], e)
  PROVE  Drawn(conn[c], e) /\ conn'[c].principal = conn[c].principal
<1>1. conn[c] \in Connection /\ conn[c].out \in Seq(Message) /\ conn[c].replay \in Seq(Event)
  BY ConnectionFields DEF TypeOK
<1>2. CASE conn'[c].out = conn[c].out /\ conn'[c].replay = conn[c].replay
           /\ conn'[c].principal = conn[c].principal
  BY <1>2 DEF Drawn
<1>3. CASE Quiet(c)
  <2>1. conn'[c].out = <<>> /\ (conn'[c].replay = <<>> \/ (conn'[c].replay = conn[c].replay
                                             /\ conn'[c].principal = conn[c].principal))
    BY <1>3 DEF Quiet
  <2>2. \A i \in 1 .. Len(conn'[c].out) : FALSE
    BY <2>1
  <2>3. PICK i \in 1 .. Len(conn'[c].replay) : conn'[c].replay[i] = e
    BY <2>2 DEF Drawn
  <2>4. conn'[c].replay # <<>>
    BY <2>3
  <2> QED
    BY <2>1, <2>3, <2>4 DEF Drawn
<1>4. ASSUME NEW m \in Message, conn'[c].out = Append(conn[c].out, m),
             m.how = "replay" => \E i \in 1 .. Len(conn[c].replay) : conn[c].replay[i] = m.what,
             \A i \in 1 .. Len(conn'[c].replay) :
               \E j \in 1 .. Len(conn[c].replay) : conn'[c].replay[i] = conn[c].replay[j]
      PROVE  Drawn(conn[c], e)
  <2>1. /\ conn'[c].out[Len(conn'[c].out)] = m
        /\ \A i \in 1 .. Len(conn[c].out) : conn'[c].out[i] = conn[c].out[i]
        /\ \A i \in 1 .. Len(conn'[c].out) : i \in 1 .. Len(conn[c].out) \/ i = Len(conn'[c].out)
    BY <1>1, <1>4, AppendedMessage
  <2>2. CASE \E i \in 1 .. Len(conn'[c].replay) : conn'[c].replay[i] = e
    BY <1>4, <2>2 DEF Drawn
  <2>3. ASSUME NEW i \in 1 .. Len(conn'[c].out), conn'[c].out[i].how = "replay",
               conn'[c].out[i].what = e
        PROVE  Drawn(conn[c], e)
    BY <1>4, <2>1, <2>3 DEF Drawn
  <2> QED
    BY <2>2, <2>3 DEF Drawn
<1>5. CASE Says(c)
  <2>1. PICK m \in Message : Sends(conn[c], conn'[c], m) /\ ~IsEvent(m)
    BY <1>5 DEF Says
  <2> QED
    BY <1>2, <1>4, <2>1 DEF Sends, SamePeer, IsEvent
<1>6. CASE Replay(c)
  <2>1. /\ conn[c].replay # <<>>
        /\ Relays(c, conn[c], conn'[c], Head(conn[c].replay), "replay")
        /\ conn'[c].replay = Tail(conn[c].replay)
    BY <1>6, ReplayEffect
  <2>2. /\ 1 \in 1 .. Len(conn[c].replay) /\ Head(conn[c].replay) = conn[c].replay[1]
        /\ \A i \in 1 .. Len(conn'[c].replay) :
             conn'[c].replay[i] = conn[c].replay[i + 1] /\ i + 1 \in 1 .. Len(conn[c].replay)
    BY <1>1, <2>1, TailEffect
  <2>3. conn'[c].principal = conn[c].principal
    BY <2>1 DEF Relays, SamePeer
  <2>4. CASE conn'[c].out = conn[c].out
    BY <2>2, <2>3, <2>4 DEF Drawn
  <2>5. CASE conn'[c].out # conn[c].out
    <3>1. PICK m \in Message : m.what = Head(conn[c].replay) /\ conn'[c].out = Append(conn[c].out, m)
      BY <2>1, <2>5 DEF Relays
    <3> QED
      BY <1>4, <2>2, <2>3, <3>1
  <2> QED
    BY <2>4, <2>5
<1>7. CASE GoesLive(c)
  BY <1>2, <1>7 DEF GoesLive, SamePeer
<1>8. CASE Receive(c)
  <2>1. /\ Relays(c, conn[c], conn'[c], Head(conn[c].pending), "live")
        /\ conn'[c].replay = conn[c].replay
    BY <1>8, ReceiveEffect
  <2>2. conn'[c].principal = conn[c].principal
    BY <2>1 DEF Relays, SamePeer
  <2>3. CASE conn'[c].out # conn[c].out
    <3>1. PICK m \in Message : m.how = "live" /\ conn'[c].out = Append(conn[c].out, m)
      BY <2>1, <2>3 DEF Relays
    <3> QED
      BY <1>4, <2>1, <2>2, <3>1
  <2> QED
    BY <1>2, <2>1, <2>2, <2>3
<1>9. ASSUME NEW d \in Conns, d # c,
             Quiet(d) \/ Says(d) \/ Drain(d) \/ Replay(d) \/ GoesLive(d) \/ Receive(d)
      PROVE  conn'[c] = conn[c]
  BY <1>9, DrainEffect, ReplayEffect, ReceiveEffect DEF Quiet, Says, GoesLive, ChangesOnly
<1>10. ASSUME NEW s \in Shards, NEW input \in InputsOf(s), Broadcast(s, input)
       PROVE  /\ conn'[c].out = conn[c].out /\ conn'[c].replay = conn[c].replay
              /\ conn'[c].principal = conn[c].principal
  BY <1>10, BroadcastEffect DEF SamePeer
<1> QED
  BY <1>2, <1>3, <1>5, <1>6, <1>7, <1>8, <1>9, <1>10, StepKinds
     DEF BufferEvent, CheckConnected, PushOffline, SetGranted, PruneStaleClientState

\* An event in the buffer after a step was there before, or a dispatcher had
\* it in hand.
LEMMA BufferedKept ==
  ASSUME TypeOK, ShapeInv, OrderInv, [Next]_vars, NEW cl \in Clients, NEW e \in Event,
         Buffered(offline'[cl], e)
  PROVE  \/ Buffered(offline[cl], e)
         \/ MayPush(dispatch[e.shard], cl) /\ dispatch[e.shard].event = e
<1>1. PICK i \in 1 .. Len(offline'[cl]) : offline'[cl][i] = e
  BY DEF Buffered
<1>2. CASE offline'[cl] = offline[cl]
  BY <1>2
<1>3. CASE offline'[cl] = <<>>
  BY <1>1, <1>3
<1>4. ASSUME NEW s \in Shards, Pushes(s, cl)
      PROVE  \/ Buffered(offline[cl], e)
             \/ MayPush(dispatch[e.shard], cl) /\ dispatch[e.shard].event = e
  <2> DEFINE q == offline[cl]
             p == offline'[cl]
             f == dispatch[s].event
             drop == IF Len(q) >= BufferLimit THEN 1 ELSE 0
  <2>1. /\ f \in Event /\ MayPush(dispatch[s], cl) /\ f.shard = s
        /\ p = Push(q, f, BufferLimit)
    BY <1>4 DEF Pushes, LogEvent
  <2>2. q \in Seq(Event) /\ Len(q) \in Nat /\ Len(q) <= BufferLimit /\ BufferLimit \in Nat \ {0}
    BY BoundAssumption DEF TypeOK
  <2>3. drop \in {0, 1}
    OBVIOUS
  <2>4. /\ Len(p) = Len(q) - drop + 1 /\ p[Len(p)] = f
        /\ \A j \in 1 .. Len(p) - 1 : p[j] = q[j + drop] /\ j + drop \in 1 .. Len(q)
    <3>1. f \in Event /\ p = Push(q, f, BufferLimit)
      BY <2>1
    <3> HIDE DEF q, f, p
    <3>2. LET r == Push(q, f, BufferLimit)
              n == IF Len(q) >= BufferLimit THEN 1 ELSE 0
          IN  /\ Len(r) = Len(q) - n + 1 /\ r[Len(r)] = f
              /\ \A j \in 1 .. Len(r) - 1 : r[j] = q[j + n] /\ j + n \in 1 .. Len(q)
      BY <2>2, <3>1, PushEffect
    <3> QED
      BY <3>1, <3>2
  <2>5. i = Len(p) \/ i \in 1 .. Len(p) - 1
    <3> HIDE DEF q, drop
    <3> QED
      BY <2>2, <2>3, <2>4
  <2>6. CASE i = Len(p)
    <3>1. e = f
      BY <1>1, <2>4, <2>6
    <3> QED
      BY <2>1, <3>1
  <2>7. CASE i \in 1 .. Len(p) - 1
    BY <1>1, <2>4, <2>7 DEF Buffered
  <2> QED
    BY <2>5, <2>6, <2>7
<1> QED
  BY <1>2, <1>3, <1>4, BufferKinds

\* A reconnect draws what is in the buffer, and leaves the buffer empty.
LEMMA DrainDraws ==
  ASSUME TypeOK, ShapeInv, NEW c \in Conns, NEW cl \in Clients, Drain(c),
         conn'[c].principal = cl, NEW e \in Event, Drawn(conn'[c], e)
  PROVE  /\ conn[c].principal = cl /\ Buffered(offline[cl], e) /\ ~Buffered(offline'[cl], e)
         /\ \A d \in Conns \ {c} : conn'[d] = conn[d]
         /\ \A x \in Clients \ {cl} : offline'[x] = offline[x]
<1>1. /\ ChangesOnly(c) /\ conn[c].task = "greeting" /\ conn'[c].out = conn[c].out
      /\ conn[c].principal = cl
    BY DrainEffect DEF SamePeer
<1>2. /\ conn'[c].replay = offline[cl] /\ offline' = [offline EXCEPT ![cl] = <<>>]
    BY <1>1, DrainEffect DEF IsClient
<1>3. offline'[cl] = <<>> /\ \A x \in Clients \ {cl} : offline'[x] = offline[x]
    BY <1>2 DEF TypeOK
<1>4. \A i \in 1 .. Len(conn'[c].out) : conn'[c].out[i].how # "replay"
    BY <1>1 DEF ShapeInv, EventsTyped, IsEvent
<1>5. Buffered(offline[cl], e)
    BY <1>2, <1>4 DEF Drawn, Buffered
<1>6. ~Buffered(offline'[cl], e)
    BY <1>3 DEF Buffered
<1> QED
    BY <1>1, <1>3, <1>5, <1>6 DEF ChangesOnly

\* Every step keeps drained and buffered events apart.
LEMMA OnceStep == TypeOK /\ ShapeInv /\ OrderInv /\ OnceInv /\ [Next]_vars => OnceInv'
<1> SUFFICES ASSUME TypeOK, ShapeInv, OrderInv, OnceInv, [Next]_vars,
                    NEW c \in Conns, NEW cl \in Clients, conn'[c].principal = cl,
                    NEW e \in Event, Drawn(conn'[c], e)
             PROVE  /\ ~Buffered(offline'[cl], e)
                    /\ Earlier(dispatch', cl, e)
                    /\ \A d \in Conns \ {c} : conn'[d].principal = cl => ~Drawn(conn'[d], e)
  BY DEF OnceInv
<1>1. \A d \in Conns : conn[d].principal = cl /\ Drawn(conn[d], e) =>
        /\ ~Buffered(offline[cl], e) /\ Earlier(dispatch, cl, e) /\ Known(log, e)
        /\ \A x \in Conns \ {d} : conn[x].principal = cl => ~Drawn(conn[x], e)
  BY DrawnKnown DEF OnceInv
<1>2. CASE Drain(c)
  <2>1. /\ conn[c].principal = cl /\ Buffered(offline[cl], e) /\ ~Buffered(offline'[cl], e)
        /\ \A d \in Conns \ {c} : conn'[d] = conn[d]
    BY <1>2, DrainDraws
  <2>2. Earlier(dispatch, cl, e) /\ Known(log, e)
    BY <2>1 DEF Buffered, OrderInv, OrderedBuffer
  <2>3. Earlier(dispatch', cl, e)
    BY <2>2, EarlierKept
  <2> QED
    BY <1>1, <2>1, <2>3
<1>3. CASE ~Drain(c)
  <2>1. Drawn(conn[c], e) /\ conn[c].principal = cl
    BY <1>3, DrawnKept
  <2>2. ~Buffered(offline[cl], e) /\ Earlier(dispatch, cl, e) /\ Known(log, e)
    BY <1>1, <2>1
  <2>3. Earlier(dispatch', cl, e)
    BY <2>2, EarlierKept
  <2>4. ~Buffered(offline'[cl], e)
    <3>1. SUFFICES ASSUME MayPush(dispatch[e.shard], cl), dispatch[e.shard].event = e
                   PROVE  FALSE
      BY <2>2, BufferedKept
    <3>2. e.id < e.id /\ e.id \in Nat
      BY <2>2, <3>1 DEF Earlier, Event
    <3> QED
      BY <3>2
  <2>5. ASSUME NEW d \in Conns \ {c}, conn'[d].principal = cl, Drawn(conn'[d], e)
        PROVE  FALSE
    <3>1. CASE Drain(d)
      BY <2>2, <2>5, <3>1, DrainDraws
    <3>2. CASE ~Drain(d)
      <4>1. Drawn(conn[d], e) /\ conn[d].principal = cl
        BY <2>5, <3>2, DrawnKept
      <4> QED
        BY <1>1, <2>1, <2>5, <4>1
    <3> QED
      BY <3>1, <3>2
  <2> QED
    BY <2>3, <2>4, <2>5
<1> QED
  BY <1>2, <1>3

\* However many connections of a client race for its buffer, an event is
\* replayed by one of them at most, and no longer buffered then.
THEOREM ReplaysOnce == Spec => []ReplayedOnce
<1>1. Init => OnceInv
  <2>1. ASSUME Init, NEW c \in Conns, NEW e PROVE ~Drawn(conn[c], e)
    BY <2>1, NoConnectionEffect DEF Init, Drawn, Empty
  <2> QED
    BY <2>1 DEF OnceInv
<1>2. TypeOK /\ ShapeInv /\ OnceInv => ReplayedOnce
  <2> SUFFICES ASSUME TypeOK, ShapeInv, OnceInv PROVE ReplayedOnce
    OBVIOUS
  <2> DEFINE Taken(c) == {conn[c].replay[i] : i \in 1 .. Len(conn[c].replay)}
                    \cup {conn[c].out[i].what : i \in {j \in 1 .. Len(conn[c].out) :
                                                        conn[c].out[j].how = "replay"}}
             Kept(cl) == {offline[cl][i] : i \in 1 .. Len(offline[cl])}
  <2>1. ASSUME NEW c \in Conns, NEW e \in Taken(c)
        PROVE  e \in Event /\ Drawn(conn[c], e)
    <3>1. conn[c].replay \in Seq(Event) /\ EventsTyped(conn[c])
      BY ConnectionFields DEF TypeOK, ShapeInv
    <3> QED
      BY <3>1 DEF Drawn, EventsTyped, IsEvent
  <2>2. ASSUME NEW cl \in Clients, NEW e \in Kept(cl)
        PROVE  Buffered(offline[cl], e)
    BY DEF Buffered
  <2> HIDE DEF Taken, Kept
  <2>3. ASSUME NEW c \in Conns, IsClient(c)
        PROVE  /\ Taken(c) \cap Kept(conn[c].principal) = {}
               /\ \A d \in Conns \ {c} : conn[d].principal = conn[c].principal =>
                    Taken(c) \cap Taken(d) = {}
    BY <2>1, <2>2, <2>3 DEF OnceInv, IsClient
  <2> QED
    BY <2>3 DEF ReplayedOnce, Taken, Kept
<1> QED
  BY <1>1, <1>2, OnceStep, OrderCorrect, TypeCorrect, ShapeCorrect, PTL DEF Spec

-----------------------------------------------------------------------------
(* The filter *)

\* The rest of a queue of such events, and one more at its end.
LEMMA OpenQueue ==
  ASSUME NEW q \in Seq(Event), AllOpen(q)
  PROVE  /\ q # <<>> => AllOpen(Tail(q))
         /\ \A e \in Event, limit \in Nat \ {0} :
              Open(e) /\ Len(q) <= limit => AllOpen(Push(q, e, limit))
<1>1. q # <<>> => AllOpen(Tail(q))
  BY TailEffect DEF AllOpen
<1>2. ASSUME NEW e \in Event, NEW limit \in Nat \ {0}, Open(e), Len(q) <= limit
      PROVE  AllOpen(Push(q, e, limit))
  <2> DEFINE p == Push(q, e, limit)
             drop == IF Len(q) >= limit THEN 1 ELSE 0
  <2>1. /\ p \in Seq(Event) /\ p[Len(p)] = e
        /\ \A i \in 1 .. Len(p) - 1 : p[i] = q[i + drop] /\ i + drop \in 1 .. Len(q)
    BY <1>2, PushEffect
  <2> HIDE DEF p, drop
  <2>2. \A i \in 1 .. Len(p) : i = Len(p) \/ i \in 1 .. Len(p) - 1
    BY <2>1
  <2>3. AllOpen(p)
    BY <1>2, <2>1, <2>2 DEF AllOpen
  <2> QED
    BY <2>3 DEF p
<1> QED
  BY <1>1, <1>2

\* The drained events of a connection have no audience.
LEMMA OpenReplay ==
  ASSUME TypeOK, ShapeInv, OpenInv, [Next]_vars, NEW c \in Conns
  PROVE  AllOpen(conn'[c].replay)
<1>1. conn[c].replay \in Seq(Event) /\ AllOpen(conn[c].replay) /\ AllOpen(<<>>)
  BY ConnectionFields DEF TypeOK, OpenInv, AllOpen
<1>2. CASE conn'[c].replay = conn[c].replay \/ conn'[c].replay = <<>>
  BY <1>1, <1>2
<1>3. CASE Replay(c)
  BY <1>1, <1>3, ReplayEffect, OpenQueue
<1>4. CASE Drain(c)
  BY <1>1, <1>4, DrainEffect DEF OpenInv, IsClient
<1>5. CASE Quiet(c) \/ Says(c) \/ GoesLive(c) \/ Receive(c)
  BY <1>2, <1>5, ReceiveEffect DEF Quiet, Says, Sends, GoesLive
<1>6. ASSUME NEW d \in Conns \ {c},
             Quiet(d) \/ Says(d) \/ Drain(d) \/ Replay(d) \/ GoesLive(d) \/ Receive(d)
      PROVE  conn'[c].replay = conn[c].replay
  <2>1. ChangesOnly(d)
    BY <1>6, DrainEffect, ReplayEffect, ReceiveEffect DEF Quiet, Says, GoesLive
  <2> QED
    BY <2>1 DEF ChangesOnly
<1>7. ASSUME NEW s \in Shards, NEW input \in InputsOf(s), Broadcast(s, input)
      PROVE  conn'[c].replay = conn[c].replay
  BY <1>7, BroadcastEffect
<1> QED
  BY <1>2, <1>3, <1>4, <1>5, <1>6, <1>7, StepKinds
     DEF BufferEvent, CheckConnected, PushOffline, SetGranted, PruneStaleClientState

\* So have the buffers and the events in hand.
LEMMA OpenStep == TypeOK /\ ShapeInv /\ OrderInv /\ OpenInv /\ [Next]_vars => OpenInv'
<1> SUFFICES ASSUME TypeOK, ShapeInv, OrderInv, OpenInv, [Next]_vars PROVE OpenInv'
  OBVIOUS
<1>1. ASSUME NEW cl \in Clients PROVE AllOpen(offline'[cl])
  <2>1. /\ offline[cl] \in Seq(Event) /\ Len(offline[cl]) <= BufferLimit
        /\ AllOpen(offline[cl]) /\ AllOpen(<<>>)
    BY DEF TypeOK, OpenInv, AllOpen
  <2>2. ASSUME NEW s \in Shards, Pushes(s, cl) PROVE AllOpen(offline'[cl])
    <3>1. dispatch[s].event \in Event /\ Open(dispatch[s].event)
          /\ offline'[cl] = Push(offline[cl], dispatch[s].event, BufferLimit)
      BY <2>2 DEF Pushes, MayPush, OpenInv
    <3> QED
      BY <2>1, <3>1, OpenQueue, BoundAssumption
  <2> QED
    BY <2>1, <2>2, BufferKinds
<1>2. ASSUME NEW s \in Shards, dispatch'[s] # Idle PROVE Open(dispatch'[s].event)
  BY <1>2, HandKinds DEF OpenInv, GoesOn
<1> QED
  BY <1>1, <1>2, OpenReplay DEF OpenInv

\* A buffered event never has an audience.
LEMMA OpenCorrect == Spec => []OpenInv
<1>1. Init => OpenInv
  BY NoConnectionEffect DEF Init, OpenInv, AllOpen, Empty
<1> QED
  BY <1>1, OpenStep, OrderCorrect, TypeCorrect, ShapeCorrect, PTL DEF Spec

\* What passes the filter is what the principal may have at that moment: the
\* replay does not look at the audience, and its events have none.
LEMMA AllowedEntitled ==
  ASSUME TypeOK, NEW c \in Conns, NEW e \in Event, conn[c].principal \in Principals
  PROVE  /\ Allowed(c, e) <=> Entitled(conn[c].principal, e.input)
         /\ StillHas(c, e) /\ Open(e) => Entitled(conn[c].principal, e.input)
<1>1. CASE conn[c].principal = Bot
  BY <1>1, PrincipalAssumption DEF Allowed, StillHas, Open, Entitled, IsClient
<1>2. CASE conn[c].principal \in Clients
  <2>1. granted[conn[c].principal] \subseteq Guilds /\ conn[c].principal # Bot
    BY <1>2, PrincipalAssumption DEF TypeOK
  <2>2. None \notin granted[conn[c].principal]
    BY <2>1, PrincipalAssumption
  <2> QED
    BY <1>2, <2>1, <2>2 DEF Allowed, StillHas, Open, Entitled, IsClient
<1> QED
  BY <1>1, <1>2 DEF Principals

\* The step that sends an event checks the guilds and the audience then.
THEOREM SentOnlyWhileEntitled == Spec => OnlyCurrentGuilds
<1> DEFINE Checked(c) ==
      /\ IsClient(c)
      /\ Len(conn'[c].out) > Len(conn[c].out)
      /\ conn'[c].out[Len(conn'[c].out)].how \in {"replay", "live"}
      => Entitled(conn[c].principal, conn'[c].out[Len(conn'[c].out)].what.input)
<1>1. TypeOK /\ ShapeInv /\ OpenInv /\ [Next]_vars => \A c \in Conns : Checked(c)
  <2> SUFFICES ASSUME TypeOK, ShapeInv, OpenInv, [Next]_vars, NEW c \in Conns, IsClient(c),
                      Len(conn'[c].out) > Len(conn[c].out),
                      IsEvent(conn'[c].out[Len(conn'[c].out)])
               PROVE  Entitled(conn[c].principal, conn'[c].out[Len(conn'[c].out)].what.input)
    BY DEF IsEvent
  <2>1. /\ conn[c].out \in Seq(Message) /\ Len(conn[c].out) \in Nat
        /\ conn[c].principal \in Principals
    BY ConnectionFields DEF TypeOK, IsClient, Principals
  <2>2. conn'[c].out # conn[c].out /\ conn'[c] # conn[c]
    BY <2>1
  <2>3. ASSUME NEW e \in Event, NEW how, Relays(c, conn[c], conn'[c], e, how),
               how = "replay" => Open(e)
        PROVE  Entitled(conn[c].principal, conn'[c].out[Len(conn'[c].out)].what.input)
    <3>1. PICK m \in Message : m.what = e /\ conn'[c].out = Append(conn[c].out, m)
      BY <2>2, <2>3 DEF Relays
    <3>2. conn'[c].out[Len(conn'[c].out)] = m
      BY <2>1, <3>1
    <3>3. Passes(c, e, how)
      BY <2>2, <2>3 DEF Relays
    <3> QED
      BY <2>1, <2>3, <3>1, <3>2, <3>3, AllowedEntitled DEF Passes
  <2>4. ~Quiet(c)
    BY <2>1 DEF Quiet
  <2>5. ~Says(c)
    <3>1. ASSUME NEW m \in Message, Sends(conn[c], conn'[c], m), ~IsEvent(m)
          PROVE  FALSE
      <4>1. conn'[c].out = Append(conn[c].out, m)
        BY <2>2, <3>1 DEF Sends
      <4> QED
        BY <2>1, <3>1, <4>1
    <3> QED
      BY <3>1 DEF Says
  <2>6. ~Drain(c) /\ ~GoesLive(c)
    BY <2>2, DrainEffect DEF GoesLive
  <2>7. ASSUME Replay(c) \/ Receive(c)
        PROVE  Entitled(conn[c].principal, conn'[c].out[Len(conn'[c].out)].what.input)
    <3>1. CASE Receive(c)
      BY <2>3, <3>1, ReceiveEffect
    <3>2. CASE Replay(c)
      <4>1. conn[c].replay \in Seq(Event) /\ conn[c].replay # <<>>
        BY <3>2, ConnectionFields, ReplayEffect DEF TypeOK
      <4>2. Open(Head(conn[c].replay))
        BY <4>1, TailEffect DEF OpenInv, AllOpen
      <4> QED
        BY <2>3, <3>2, <4>2, ReplayEffect
    <3> QED
      BY <2>7, <3>1, <3>2
  <2>8. ASSUME NEW d \in Conns \ {c}
        PROVE  ~ChangesOnly(d)
    BY <2>2 DEF ChangesOnly
  <2>9. ASSUME NEW d \in Conns \ {c}
        PROVE  ~(Quiet(d) \/ Says(d) \/ Drain(d) \/ Replay(d) \/ GoesLive(d) \/ Receive(d))
    BY <2>8, DrainEffect, ReplayEffect, ReceiveEffect DEF Quiet, Says, GoesLive
  <2>10. ASSUME NEW s \in Shards, NEW input \in InputsOf(s)
         PROVE  ~Broadcast(s, input)
    BY <2>2, BroadcastEffect
  <2> QED
    BY <2>2, <2>4, <2>5, <2>6, <2>7, <2>9, <2>10, StepKinds
       DEF BufferEvent, CheckConnected, PushOffline, SetGranted, PruneStaleClientState
<1> QED
  BY <1>1, TypeCorrect, ShapeCorrect, OpenCorrect, PTL DEF Spec, OnlyCurrentGuilds

-----------------------------------------------------------------------------
(* Nothing is missed but by lag *)

\* A subscription that takes an event loses its oldest one, if it is full.
LEMMA PushMisses ==
  ASSUME TypeOK, ShapeInv, OrderInv, NEW c \in Conns, SubscriptionPushed(c),
         NEW e \in Missed(c)' \ Missed(c)
  PROVE  e.id + Backpressure <= Len(log'[e.shard])
<1> DEFINE k == conn[c]
           k2 == conn'[c]
           s == AtIndex(k.asked)
           len == Len(log[s])
<1>1. PICK input \in EventInput :
        /\ k.task = "live" /\ log'[s] = Append(log[s], input)
        /\ SamePeer(k, k2) /\ SameStage(k, k2) /\ k2.out = k.out
        /\ k2.pending = Push(k.pending, [shard |-> s, id |-> len + 1, input |-> input],
                             Backpressure)
  BY DEF SubscriptionPushed
<1> DEFINE new == [shard |-> s, id |-> len + 1, input |-> input]
           full == Len(k.pending) >= Backpressure
           drop == IF full THEN 1 ELSE 0
<1>2. /\ k \in Connection /\ HasIndex(k.asked) /\ EventsTyped(k) /\ OrderedLive(log, k)
      /\ Len(k.pending) <= Backpressure /\ log \in Logs /\ Backpressure \in Nat \ {0}
  BY <1>1, BoundAssumption DEF TypeOK, ShapeInv, Shape, OrderInv, Logs
<1>3. /\ s \in Shards /\ log[s] \in Seq(EventInput) /\ len \in Nat
      /\ Len(k.pending) \in Nat /\ k.pending \in Seq(Event) /\ k.subscribed \in Nat
      /\ len = Position(log, k) + Len(k.pending) /\ Position(log, k) \in Nat
  BY <1>1, <1>2, PositionRange, ConnectionFields
<1>4. new \in Event
  BY <1>3 DEF Event
<1>5. /\ k2.pending \in Seq(Event) /\ Len(k2.pending) \in Nat \ {0}
      /\ k2.pending[Len(k2.pending)] = new /\ Len(k2.pending) = Len(k.pending) - drop + 1
      /\ \A i \in 1 .. Len(k2.pending) - 1 : k2.pending[i] = k.pending[i + drop]
  <2>1. k2.pending = Push(k.pending, new, Backpressure)
    BY <1>1
  <2> DEFINE q == k.pending
             q2 == k2.pending
  <2>2. q \in Seq(Event) /\ Len(q) \in Nat /\ Len(q) <= Backpressure /\ q2 = Push(q, new, Backpressure)
    BY <1>2, <1>3, <2>1
  <2>3. new \in Event /\ Backpressure \in Nat \ {0}
    BY <1>2, <1>4
  <2> HIDE DEF new, q, q2, full, drop, k, k2, s, len
  <2>4. LET dr == IF Len(q) >= Backpressure THEN 1 ELSE 0
        IN  /\ q2 \in Seq(Event) /\ Len(q2) = Len(q) - dr + 1
            /\ q2[Len(q2)] = new
            /\ \A i \in 1 .. Len(q2) - 1 : q2[i] = q[i + dr]
    <3>1. LET p == Push(q, new, Backpressure)
              dr == IF Len(q) >= Backpressure THEN 1 ELSE 0
          IN  /\ p \in Seq(Event) /\ Len(p) = Len(q) - dr + 1 /\ Len(p) <= Backpressure
              /\ p[Len(p)] = new
              /\ \A i \in 1 .. Len(p) - 1 : p[i] = q[i + dr] /\ i + dr \in 1 .. Len(q)
      BY <2>2, <2>3, PushEffect
    <3> QED
      BY <2>2, <3>1
  <2>5. Len(q) >= Backpressure => Len(q) >= 1
    BY <1>2, <2>2
  <2>6. Len(q2) \in Nat \ {0}
    BY <2>2, <2>4, <2>5
  <2> QED
    BY <2>2, <2>4, <2>6 DEF q, q2, full, drop
<1>6. PICK n \in k.subscribed + 1 .. len + 1 : e = [shard |-> s, id |-> n, input |-> log'[s][n]]
  <2>1. Len(log'[s]) = len + 1
    BY <1>1, <1>3
  <2>2. k2.asked = k.asked /\ k2.subscribed = k.subscribed
    BY <1>1 DEF SamePeer, SameStage
  <2>3. PICK n \in k2.subscribed + 1 .. Len(log'[AtIndex(k2.asked)]) :
          e = [shard |-> AtIndex(k2.asked), id |-> n, input |-> log'[AtIndex(k2.asked)][n]]
    BY DEF Missed, Since, Served
  <2> HIDE DEF k, k2, len
  <2> QED
    BY <2>1, <2>2, <2>3
<1>7. e \notin Has(c)'
  BY DEF Missed
<1>8. \A i \in 1 .. Len(k2.pending) : k2.pending[i] # e
  BY <1>7 DEF Has
<1>9. n # len + 1
  <2>1. log'[s][len + 1] = input
    BY <1>1, <1>3
  <2>2. Len(k2.pending) \in 1 .. Len(k2.pending)
    <3> HIDE DEF k2
    <3> QED
      BY <1>5
  <2> QED
    BY <1>5, <1>6, <1>8, <2>1, <2>2
<1>10. n \in k.subscribed + 1 .. len /\ e = LogEvent(log, s, n)
  BY <1>1, <1>3, <1>6, <1>9 DEF LogEvent
<1>11. e \in Has(c)
  BY <1>10 DEF Missed, Since, Served, LogEvent
<1>12. PICK i \in 1 .. Len(k.pending) : k.pending[i] = e
  BY <1>1, <1>7, <1>11 DEF Has, Events
<1>13. e.id = Position(log, k) + i /\ e.id = n /\ e.shard = s
  <2>1. k.pending[i] = LogEvent(log, s, Position(log, k) + i)
    BY <1>1, <1>2, <1>12 DEF OrderedLive
  <2> HIDE DEF k, s
  <2> QED
    BY <1>10, <1>12, <2>1 DEF LogEvent
<1> HIDE DEF k, k2, s, len, new
<1>14. full /\ i = 1
  <2>1. ASSUME NEW j \in 1 .. Len(k2.pending) - 1
        PROVE  j + drop # i
    <3>1. j \in 1 .. Len(k2.pending) /\ k2.pending[j] = k.pending[j + drop]
      <4> HIDE DEF drop
      <4> QED
        BY <1>5, <2>1
    <3> QED
      BY <1>8, <1>12, <3>1
  <2>2. CASE ~full
    <3>1. i \in 1 .. Len(k2.pending) - 1 /\ i + drop = i
      BY <1>3, <1>5, <2>2
    <3> QED
      BY <2>1, <3>1
  <2>3. CASE full /\ i # 1
    <3>1. i - 1 \in 1 .. Len(k2.pending) - 1 /\ (i - 1) + drop = i
      BY <1>3, <1>5, <2>3
    <3> QED
      BY <2>1, <3>1
  <2> QED
    BY <2>2, <2>3
<1>15. Len(log'[s]) = len + 1
  BY <1>1, <1>3 DEF len
<1> QED
  BY <1>2, <1>3, <1>13, <1>14, <1>15

\* A connection that receives an event without sending it may not have it.
LEMMA ReceiveMisses ==
  ASSUME TypeOK, ShapeInv, NEW c \in Conns, Receive(c), log' = log,
         NEW e \in Missed(c)' \ Missed(c)
  PROVE  ~Entitled(conn[c].principal, e.input)
<1> DEFINE k == conn[c]
           k2 == conn'[c]
           h == Head(k.pending)
<1>1. /\ k.task = "live" /\ k.pending # <<>> /\ h \in Event
      /\ Relays(c, k, k2, h, "live") /\ k2.pending = Tail(k.pending)
  BY ReceiveEffect
<1>2. /\ k \in Connection /\ k.handler = "serving" /\ k.principal \in Principals
      /\ k.out \in Seq(Message) /\ k.pending \in Seq(Event)
  BY <1>1, ConnectionFields DEF TypeOK, ShapeInv, Shape
<1>3. k2.asked = k.asked /\ k2.subscribed = k.subscribed
  BY <1>1 DEF Relays, SamePeer, SameStage
<1>4. e \in Has(c) /\ e \notin Has(c)'
  BY <1>3 DEF Missed, Since, Served
<1>5. /\ k2.out = k.out => ~Passes(c, h, "live")
      /\ k2.out # k.out => \E m \in Message : m.how = "live" /\ m.what = h /\ k2.out = Append(k.out, m)
  BY <1>1, <1>2 DEF Relays
<1>6. ASSUME NEW i \in 1 .. Len(k.out), IsEvent(k.out[i])
      PROVE  k.out[i].what \in Has(c)'
  <2>1. i \in 1 .. Len(k2.out) /\ k2.out[i] = k.out[i]
    BY <1>2, <1>5, AppendedMessage
  <2> QED
    BY <1>6, <2>1 DEF Has, Events, IsEvent
<1>7. ASSUME NEW i \in 2 .. Len(k.pending)
      PROVE  k.pending[i] \in Has(c)'
  <2>1. i - 1 \in 1 .. Len(k2.pending) /\ k2.pending[i - 1] = k.pending[i]
    <3> HIDE DEF k, k2
    <3> QED
      BY <1>1, <1>2
  <2> QED
    BY <2>1 DEF Has
<1>8. e = h
  <2>1. k.pending[1] = h /\ Len(k.pending) \in Nat
    BY <1>1, <1>2
  <2>2. \A i \in 1 .. Len(k.pending) : i = 1 \/ i \in 2 .. Len(k.pending)
    BY <2>1
  <2> QED
    BY <1>4, <1>6, <1>7, <2>1, <2>2 DEF Has, Events, IsEvent
<1>9. k2.out = k.out
  <2> SUFFICES ASSUME k2.out # k.out PROVE FALSE
    OBVIOUS
  <2>1. PICK m \in Message : m.how = "live" /\ m.what = h /\ k2.out = Append(k.out, m)
    BY <1>5
  <2>2. k2.out[Len(k2.out)] = m /\ Len(k2.out) \in 1 .. Len(k2.out)
    BY <1>2, <2>1, AppendedMessage
  <2> QED
    BY <1>4, <1>8, <2>1, <2>2 DEF Has, Events
<1> QED
  BY <1>1, <1>2, <1>5, <1>8, <1>9, AllowedEntitled DEF Passes

\* However long it has been subscribed, a connection misses an event only that
\* it may not have, or that is a whole capacity of the channel behind.
THEOREM OnlyLagLoses == Spec => MissesOnlyByLag
<1> DEFINE Kept(c) ==
      conn[c].task = "live" /\ conn'[c].task = "live" =>
          \A e \in Missed(c)' \ Missed(c) :
              \/ ~Entitled(conn[c].principal, e.input)
              \/ e.id + Backpressure <= Len(log'[e.shard])
<1>1. TypeOK /\ ShapeInv /\ OrderInv /\ [Next]_vars => \A c \in Conns : Kept(c)
  <2> SUFFICES ASSUME TypeOK, ShapeInv, OrderInv, [Next]_vars, NEW c \in Conns,
                      conn[c].task = "live", conn'[c].task = "live",
                      NEW e \in Missed(c)' \ Missed(c)
               PROVE  \/ ~Entitled(conn[c].principal, e.input)
                      \/ e.id + Backpressure <= Len(log'[e.shard])
    OBVIOUS
  <2>1. ~SubscriptionKept(c)
    BY DEF SubscriptionKept, Missed, Since, Served, Has, Events
  <2>2. ~GoesLive(c)
    BY DEF GoesLive
  <2> QED
    BY <2>1, <2>2, SubscriptionKinds, PushMisses, ReceiveMisses
<1> QED
  BY <1>1, OrderCorrect, TypeCorrect, ShapeCorrect, PTL DEF Spec, MissesOnlyByLag
=============================================================================
