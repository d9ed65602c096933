----------------------------- MODULE Connection -----------------------------
(***************************************************************************)
(* One gateway connection (server.rs): the loop of handle_client, its       *)
(* teardown, the sink task that writes the queue to the socket              *)
(* (sink_from_queue) and the forward task as a source of events.  At the    *)
(* other end is a client that may hang up, stop reading or stop sending     *)
(* heartbeats (external).                                                   *)
(*                                                                          *)
(* The loop handles a message without an await, so a message is a step.     *)
(* What the forward task sends is in EventDelivery, what a voice command    *)
(* changes in VoiceLock, the rate limit in ClientLimits.  The shard of a    *)
(* session is one this proxy runs.                                          *)
(***************************************************************************)
EXTENDS Naturals, Sequences

CONSTANTS
    Clients,    \* multi-tenant client IDs
    Bot,        \* SessionPrincipal::BotToken
    MaxQueue,   \* bound: events are forwarded while the queue is shorter
    None        \* Option::None

ASSUME PrincipalAssumption == Bot \notin Clients /\ None \notin Clients \cup {Bot}
ASSUME QueueAssumption == MaxQueue \in Nat

VARIABLES
    \* handle_client
    pc,         \* in the loop, awaiting the flush, or returned
    authorized, \* compress_tx was taken: an IDENTIFY or RESUME succeeded
    active,     \* active_client_id
    scope,      \* command_scope
    shardSet,   \* shard_sender is some
    closing,    \* the close code that was queued; graceful_close if any
    count,      \* what the connection adds to active_client_connections
    sent,       \* the scopes commands went upstream with; None is unfiltered
    \* the forward task
    forward,    \* none, running, aborting (until its next await), ended
    serves,     \* the client whose events it forwards
    \* the channels and the sink task
    queue,      \* stream_writer -> message_stream
    decision,   \* compress_tx -> compress_rx
    sink,       \* which loop of sink_from_queue runs; done, aborted
    zlib,       \* use_zlib
    \* the client
    timer,      \* heartbeat_timeout
    awaiting,   \* a heartbeat was sent and not acknowledged yet
    silent,     \* the client will send no more heartbeats
    stalled,    \* the client reads no more
    gone,       \* the client hung up
    rejected,   \* INVALID_SESSION was on the wire
    last,       \* the last frame on the wire
    binary      \* some frame was binary

authVars == <<authorized, active, scope, shardSet, count>>
handlerVars == <<pc, authVars, closing>>
forwardVars == <<forward, serves>>
sinkVars == <<sink, zlib>>
wireVars == <<rejected, last, binary>>
clientVars == <<silent, stalled, gone>>
vars == <<handlerVars, sent, forwardVars, queue, decision, sinkVars, timer, awaiting,
          clientVars, wireVars>>

-----------------------------------------------------------------------------
(* Types *)

Principals == Clients \cup {Bot}
MaybeClient == Clients \cup {None}

CloseCodes == {"4003", "4007", "4009"}
Text == {"HELLO", "HEARTBEAT_ACK", "INVALID_SESSION", "EVENT"}
Message == Text \cup CloseCodes

\* A close frame carries its code; in a binary frame the code is payload.
Frame == [form : {"text", "binary", "close"}, message : Message]
NoFrame == [form |-> "none", message |-> "none"]

\* Whether a principal's commands are filtered, and for whom.
ScopeOf(p) == IF p = Bot THEN None ELSE p

-----------------------------------------------------------------------------
(* The sink task *)

\* Every message of a zlib connection is compressed, close frames too.
FrameFor(message) ==
    [form |-> IF zlib THEN "binary"
              ELSE IF message \in CloseCodes THEN "close" ELSE "text",
     message |-> message]

\* The task ended by itself, or was aborted.
SinkGone == sink \in {"done", "aborted"}

\* sink.send to a client that reads.  Nothing can follow a close frame.
SendInTime(message) ==
    /\ ~stalled /\ ~gone
    /\ last.form # "close"
    /\ last' = FrameFor(message)
    /\ binary' = (binary \/ last'.form = "binary")
    /\ rejected' = (rejected \/ message = "INVALID_SESSION")

SendHello ==
    /\ sink = "hello"
    /\ SendInTime("HELLO")
    /\ sink' = "pending"
    /\ UNCHANGED <<handlerVars, sent, forwardVars, queue, decision, zlib, timer,
                   awaiting, clientVars>>

\* Mutant: the decision replaces what the upgrade asked for.
ReceiveDecisionReplaces ==
    /\ sink = "pending"
    /\ decision # None
    /\ zlib' = (decision = "yes")
    /\ sink' = "draining"
    /\ UNCHANGED <<handlerVars, sent, forwardVars, queue, decision, timer, awaiting,
                   clientVars, wireVars>>

\* The select! takes the compression decision.
ReceiveDecision ==
    /\ sink = "pending"
    /\ decision # None
    /\ zlib' = (zlib \/ decision = "yes")
    /\ sink' = "draining"
    /\ UNCHANGED <<handlerVars, sent, forwardVars, queue, decision, timer, awaiting,
                   clientVars, wireVars>>

\* Mutant: the sink waits for the decision before it takes a message.
TakesMessagesAfterDecision == sink = "draining"

\* The select!, and the loop after it, take messages.
TakesMessages == sink \in {"pending", "draining"}

SendMessage ==
    /\ TakesMessages
    /\ queue # <<>>
    /\ SendInTime(Head(queue))
    /\ queue' = Tail(queue)
    /\ awaiting' = (awaiting /\ Head(queue) # "HEARTBEAT_ACK")
    /\ UNCHANGED <<handlerVars, sent, forwardVars, decision, sinkVars, timer,
                   clientVars>>

\* The send times out or fails: the client reads no more, hung up, or was sent
\* a close frame.
SinkFails ==
    /\ ~SinkGone
    /\ sink = "hello" \/ queue # <<>>
    /\ stalled \/ gone \/ last.form = "close"
    /\ sink' = "done"
    /\ UNCHANGED <<handlerVars, sent, forwardVars, queue, decision, zlib, timer,
                   awaiting, clientVars, wireVars>>

\* Every writer is dropped and the queue is drained.
SinkDrained ==
    /\ TakesMessages
    /\ queue = <<>>
    /\ pc # "open"
    /\ forward \in {"none", "ended"}
    /\ sink' = "done"
    /\ UNCHANGED <<handlerVars, sent, forwardVars, queue, decision, zlib, timer,
                   awaiting, clientVars, wireVars>>

-----------------------------------------------------------------------------
(* The forward task *)

\* stream_writer.send in forward_shard.  A task that is being aborted runs on to its
\* next await.
ForwardEvent ==
    /\ forward \in {"running", "aborting"}
    /\ ~SinkGone
    /\ Len(queue) < MaxQueue
    /\ queue' = Append(queue, "EVENT")
    /\ UNCHANGED <<handlerVars, sent, forwardVars, decision, sinkVars, timer,
                   awaiting, clientVars, wireVars>>

\* The abort takes effect.  Nothing else ends the task: it ignores a failed send.
ForwardEnds ==
    /\ forward = "aborting"
    /\ forward' = "ended"
    /\ UNCHANGED <<handlerVars, sent, serves, queue, decision, sinkVars, timer,
                   awaiting, clientVars, wireVars>>

Abort(state) == IF state = "running" THEN "aborting" ELSE state

-----------------------------------------------------------------------------
(* The end of the loop, and the teardown *)

\* Mutant: the client is not counted out.
CountedOutForgets == count

\* mark_client_disconnected, for a client that was counted in.
CountedOut == IF active = None THEN count ELSE [count EXCEPT ![active] = @ - 1]

\* Forward task aborted, client counted out, handle_client returns.
Return ==
    /\ pc' = "closed"
    /\ forward' = Abort(forward)
    /\ count' = CountedOut
    /\ active' = None

\* break without graceful_close: the sink is aborted with what is queued.
Break ==
    /\ Return
    /\ sink' = "aborted"
    /\ UNCHANGED <<authorized, scope, shardSet, closing, sent, serves, queue, decision,
                   zlib, timer, awaiting, clientVars, wireVars>>

\* Mutant: the close frame is queued before what it must follow.
BreakGracefullyCodeFirst(messages, code) ==
    /\ queue' = queue \o <<code>> \o messages
    /\ closing' = code
    /\ forward' = Abort(forward)
    /\ pc' = "flushing"
    /\ UNCHANGED sink

\* break with graceful_close: the writer is dropped, the sink has 2 s to drain.
BreakGracefully(messages, code) ==
    /\ queue' = queue \o messages \o <<code>>
    /\ closing' = code
    /\ forward' = Abort(forward)
    /\ pc' = "flushing"
    /\ UNCHANGED sink

\* The sink task ended: it drained the queue, or a send failed.
FlushEnds ==
    /\ pc = "flushing"
    /\ sink = "done"
    /\ Return
    /\ UNCHANGED <<authorized, scope, shardSet, closing, sent, serves, queue, decision,
                   sinkVars, timer, awaiting, clientVars, wireVars>>

\* The 2 s are over before the sink is done, whatever the client does: a slow reader
\* with a long queue before it loses the end of the queue.
FlushTimesOut ==
    /\ pc = "flushing"
    /\ ~SinkGone
    /\ Return
    /\ sink' = "aborted"
    /\ UNCHANGED <<authorized, scope, shardSet, closing, sent, serves, queue, decision,
                   zlib, timer, awaiting, clientVars, wireVars>>

\* stream.next() returns None or an error.
StreamEnds ==
    /\ pc = "open"
    /\ gone
    /\ Break

\* The select! finds the sink task ended.
SinkEnded ==
    /\ pc = "open"
    /\ sink = "done"
    /\ Break

HeartbeatTimeout ==
    /\ pc = "open"
    /\ timer = "elapsed"
    /\ BreakGracefully(<<>>, "4009")
    /\ UNCHANGED <<authVars, sent, serves, decision, zlib, timer, awaiting, clientVars,
                   wireVars>>

-----------------------------------------------------------------------------
(* The messages of the client *)

Receives == pc = "open" /\ ~gone

\* op 1
Heartbeat ==
    /\ Receives
    /\ ~awaiting
    /\ ~silent
    /\ timer' = "running"
    /\ queue' = Append(queue, "HEARTBEAT_ACK")
    /\ awaiting' = TRUE
    /\ UNCHANGED <<handlerVars, sent, forwardVars, decision, sinkVars, clientVars,
                   wireVars>>

\* Mutant: the connection is counted whenever it authenticates.
CountAlways(p) ==
    IF p = Bot
    THEN UNCHANGED <<active, count>>
    ELSE /\ active' = p
         /\ count' = [count EXCEPT ![p] = @ + 1]

\* mark_client_connected, unless the connection counts already.
Count(p) ==
    IF p = Bot \/ active # None
    THEN UNCHANGED <<active, count>>
    ELSE /\ active' = p
         /\ count' = [count EXCEPT ![p] = @ + 1]

\* What IDENTIFY and RESUME share: the principal is known from here on.
Authenticate(p) ==
    /\ Count(p)
    /\ scope' = ScopeOf(p)
    /\ shardSet' = TRUE

\* The forward task is spawned, then the compression decision is sent.
SpawnForward(p, compress) ==
    /\ authorized' = TRUE
    /\ forward' = "running"
    /\ serves' = ScopeOf(p)
    /\ decision' = compress

\* op 2, accepted.
Identify(p, compress) ==
    /\ Receives
    /\ ~authorized
    /\ Authenticate(p)
    /\ SpawnForward(p, compress)
    /\ UNCHANGED <<pc, closing, sent, queue, sinkVars, timer, awaiting, clientVars,
                   wireVars>>

\* op 2, on an authorized connection, for another shard count, a shard out of
\* range, or with a refused token.
IdentifyRefused ==
    /\ Receives
    /\ Break

\* op 6 with a token of p and a session of p, on a fresh connection.
Resume(p, compress) ==
    /\ Receives
    /\ ~authorized
    /\ Authenticate(p)
    /\ SpawnForward(p, compress)
    /\ UNCHANGED <<pc, closing, sent, queue, sinkVars, timer, awaiting, clientVars,
                   wireVars>>

\* Mutant: the second RESUME is answered, and the loop goes on.
ResumeAgainGoesOn(p) ==
    /\ Receives
    /\ authorized
    /\ Authenticate(p)
    /\ queue' = Append(queue, "INVALID_SESSION")
    /\ UNCHANGED <<pc, authorized, closing, sent, forwardVars, decision, sinkVars, timer,
                   awaiting, clientVars, wireVars>>

\* op 6 of a session of p on an authorized connection.
ResumeAgain(p) ==
    /\ Receives
    /\ authorized
    /\ Authenticate(p)
    /\ BreakGracefully(<<"INVALID_SESSION">>, "4007")
    /\ UNCHANGED <<authorized, sent, serves, decision, zlib, timer, awaiting, clientVars,
                   wireVars>>

\* op 6 of an unknown session, or of another principal's.
ResumeRejected ==
    /\ Receives
    /\ BreakGracefully(<<"INVALID_SESSION">>, "4007")
    /\ UNCHANGED <<authVars, sent, serves, decision, zlib, timer, awaiting, clientVars,
                   wireVars>>

\* op 6 with a refused token.
ResumeRefused ==
    /\ Receives
    /\ Break

\* Any other op before IDENTIFY or RESUME.
CommandTooEarly ==
    /\ Receives
    /\ ~shardSet
    /\ BreakGracefully(<<>>, "4003")
    /\ UNCHANGED <<authVars, sent, serves, decision, zlib, timer, awaiting, clientVars,
                   wireVars>>

\* Mutant: every command counts as a heartbeat.
TimerAfterCommandReset == "running"

\* The timer after a command.
TimerAfterCommand == timer

\* Any other op later: as it is for the bot token, filtered for a client.
Command ==
    /\ Receives
    /\ shardSet
    /\ sent' = sent \cup {scope}
    /\ timer' = TimerAfterCommand
    /\ UNCHANGED <<handlerVars, forwardVars, queue, decision, sinkVars, awaiting,
                   clientVars, wireVars>>

-----------------------------------------------------------------------------
(* The client, and time (external) *)

ClientGoes ==
    /\ ~gone
    /\ gone' = TRUE
    /\ UNCHANGED <<handlerVars, sent, forwardVars, queue, decision, sinkVars, timer,
                   awaiting, silent, stalled, wireVars>>

ClientStalls ==
    /\ ~stalled
    /\ stalled' = TRUE
    /\ UNCHANGED <<handlerVars, sent, forwardVars, queue, decision, sinkVars, timer,
                   awaiting, silent, gone, wireVars>>

ClientFallsSilent ==
    /\ ~silent
    /\ silent' = TRUE
    /\ UNCHANGED <<handlerVars, sent, forwardVars, queue, decision, sinkVars, timer,
                   awaiting, stalled, gone, wireVars>>

\* CLIENT_HEARTBEAT_TIMEOUT is over; the next heartbeat may be about to arrive.
TimerElapses ==
    /\ pc = "open"
    /\ timer = "running"
    /\ timer' = "elapsed"
    /\ UNCHANGED <<handlerVars, sent, forwardVars, queue, decision, sinkVars, awaiting,
                   clientVars, wireVars>>

-----------------------------------------------------------------------------
(* The specification *)

Init ==
    /\ pc = "open"
    /\ authorized = FALSE
    /\ active = None
    /\ scope = None
    /\ shardSet = FALSE
    /\ closing = None
    /\ count = [cl \in Clients |-> 0]
    /\ sent = {}
    /\ forward = "none"
    /\ serves = None
    /\ queue = <<>>
    /\ decision = None
    /\ sink = "hello"
    /\ zlib \in BOOLEAN
    /\ timer = "running"
    /\ awaiting = FALSE
    /\ silent = FALSE
    /\ stalled = FALSE
    /\ gone = FALSE
    /\ rejected = FALSE
    /\ last = NoFrame
    /\ binary = FALSE

Sink == SendHello \/ ReceiveDecision \/ SendMessage \/ SinkFails \/ SinkDrained

Forward == ForwardEvent \/ ForwardEnds

Teardown == FlushEnds \/ FlushTimesOut \/ StreamEnds \/ SinkEnded \/ HeartbeatTimeout

Client ==
    \/ Heartbeat
    \/ \E p \in Principals :
         \/ \E compress \in {"yes", "no"} : Identify(p, compress) \/ Resume(p, compress)
         \/ ResumeAgain(p)
    \/ IdentifyRefused
    \/ ResumeRejected
    \/ ResumeRefused
    \/ CommandTooEarly
    \/ Command

Environment == ClientGoes \/ ClientStalls \/ ClientFallsSilent \/ TimerElapses

Next == Sink \/ Forward \/ Teardown \/ Client \/ Environment

Spec == Init /\ [][Next]_vars

\* Tokio runs every task that can run, its timers fire, and its select! does not
\* starve a branch that stays ready; the timer runs out once heartbeats stay away.
\* Nothing is assumed of the client.
Fairness ==
    /\ WF_vars(Sink)
    /\ WF_vars(ForwardEnds)
    /\ WF_vars(FlushEnds \/ FlushTimesOut)
    /\ WF_vars(StreamEnds)
    /\ WF_vars(SinkEnded)
    /\ WF_vars(HeartbeatTimeout)
    /\ WF_vars(silent /\ TimerElapses)

FairSpec == Spec /\ Fairness

-----------------------------------------------------------------------------
(* Properties *)

HandlerOK ==
    /\ pc \in {"open", "flushing", "closed"}
    /\ authorized \in BOOLEAN
    /\ active \in MaybeClient
    /\ scope \in MaybeClient
    /\ shardSet \in BOOLEAN
    /\ closing \in CloseCodes \cup {None}
    /\ count \in [Clients -> {0, 1}]
    /\ sent \subseteq MaybeClient

TasksOK ==
    /\ forward \in {"none", "running", "aborting", "ended"}
    /\ serves \in MaybeClient
    /\ queue \in Seq(Message)
    /\ decision \in {"yes", "no", None}
    /\ sink \in {"hello", "pending", "draining", "done", "aborted"}
    /\ zlib \in BOOLEAN

ClientOK ==
    /\ timer \in {"running", "elapsed"}
    /\ {awaiting, silent, stalled, gone, rejected, binary} \subseteq BOOLEAN
    /\ last \in Frame \cup {NoFrame}

\* Every variable has its type: no sequence of IDENTIFY and RESUME counts a
\* connection twice.
TypeOK == HandlerOK /\ TasksOK /\ ClientOK

\* Whatever order of IDENTIFY, RESUME, timeouts and hang-ups ends the connection, it is counted
\* for active_client_id and nobody else, and for nobody once handle_client has returned
\* (mark_client_connected, mark_client_disconnected).
CountedWhileActive ==
    /\ \A cl \in Clients : count[cl] = IF active = cl THEN 1 ELSE 0
    /\ pc = "closed" => active = None

\* One IDENTIFY or RESUME per connection: every command of a connection went upstream
\* with the filter of the client whose events it forwards, and unfiltered only where it
\* forwards to the bot token (command_scope, shard_forward_task).
OneScope == sent \subseteq {serves}

\* A connection never goes back to text once a frame was compressed, whichever of the
\* decision and the queued messages the select! of sink_from_queue takes first: the
\* client's inflate stream would break.
NeverBackToText == [][binary => last' = last \/ last'.form = "binary"]_vars

\* A rejection reached the client: INVALID_SESSION if it says so, then the close frame.
CloseHeard ==
    /\ last = [form |-> "close", message |-> closing]
    /\ closing = "4007" => rejected

\* A client without compression that still reads hears why it was rejected, unless the
\* two seconds cut its queue off: INVALID_SESSION comes before the close frame, behind
\* what was queued, with events of the aborted forward task on either side of both
\* (graceful_close).
TextClosesWithCode ==
    pc = "closed" /\ closing # None /\ sink = "done" /\ ~stalled /\ ~gone /\ ~zlib
    => CloseHeard

\* A heartbeat is acknowledged, before any IDENTIFY or RESUME too, or the connection
\* ends: the zombie reconnects that sink_from_queue's comment describes do not happen.
HeartbeatAcked == awaiting ~> (~awaiting \/ pc = "closed")

\* A client that hung up, that sends no more heartbeats, or that does not read what is
\* queued for it is disconnected, whatever else it sends (CLIENT_HEARTBEAT_TIMEOUT,
\* SINK_SEND_TIMEOUT).
DeadClientIsDropped ==
    (gone \/ silent \/ (stalled /\ queue # <<>>)) ~> (pc = "closed")
=============================================================================
