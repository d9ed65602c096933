-------------------------- MODULE ConnectionProofs --------------------------
(***************************************************************************)
(* Theorems about Connection for every set of clients and every queue       *)
(* bound: type correctness, the count of the connection, the scope of its   *)
(* commands, that its frames stay compressed, and that a client without     *)
(* compression hears why it is closed.                                      *)
(***************************************************************************)
EXTENDS Connection, SequenceTheorems, TLAPS

-----------------------------------------------------------------------------
(* Types, and the count of the connection *)

\* The two invariants are inductive together: what the teardown subtracts was added.
CountInv == TypeOK /\ CountedWhileActive

\* A new connection.
LEMMA CountInit == Init => CountInv
<1> SUFFICES ASSUME Init PROVE CountInv
  OBVIOUS
<1>1. HandlerOK
  BY DEF Init, HandlerOK, MaybeClient
<1>2. TasksOK
  BY DEF Init, TasksOK, MaybeClient
<1>3. ClientOK
  BY DEF Init, ClientOK
<1>4. CountedWhileActive
  BY PrincipalAssumption DEF Init, CountedWhileActive
<1> QED
  BY <1>1, <1>2, <1>3, <1>4 DEF CountInv, TypeOK

\* A message in its frame.
LEMMA FrameType ==
  ASSUME TypeOK, NEW message \in Message
  PROVE  FrameFor(message) \in Frame
BY DEF FrameFor, Frame

\* mark_client_connected: the connection is counted for its first client.
LEMMA CountEffect ==
  ASSUME CountInv, NEW p \in Principals, Count(p)
  PROVE  /\ active' \in MaybeClient
         /\ count' \in [Clients -> {0, 1}]
         /\ \A cl \in Clients : count'[cl] = IF active' = cl THEN 1 ELSE 0
BY PrincipalAssumption
   DEF CountInv, CountedWhileActive, TypeOK, HandlerOK, Count, Principals, MaybeClient

\* mark_client_disconnected, as handle_client returns.
LEMMA ReturnEffect ==
  ASSUME CountInv, Return
  PROVE  /\ pc' = "closed"
         /\ active' = None
         /\ count' \in [Clients -> {0, 1}]
         /\ \A cl \in Clients : count'[cl] = IF active' = cl THEN 1 ELSE 0
         /\ forward' \in {"none", "running", "aborting", "ended"}
<1>1. forward' \in {"none", "running", "aborting", "ended"}
  BY DEF Return, Abort, CountInv, TypeOK, TasksOK
<1>2. CASE active = None
  BY <1>1, <1>2 DEF Return, CountedOut, CountInv, CountedWhileActive, TypeOK, HandlerOK
<1>3. CASE active # None
  <2>1. active \in Clients /\ count[active] = 1
    BY <1>3 DEF CountInv, CountedWhileActive, TypeOK, HandlerOK, MaybeClient
  <2>2. count' = [count EXCEPT ![active] = 0]
    BY <1>3, <2>1 DEF Return, CountedOut
  <2> QED
    BY <1>1, <2>1, <2>2, PrincipalAssumption
       DEF Return, CountInv, CountedWhileActive, TypeOK, HandlerOK
<1> QED
  BY <1>2, <1>3

\* A break with graceful_close queues messages and starts the flush.
LEMMA BreakGracefullyType ==
  ASSUME TypeOK, NEW messages \in Seq(Message), NEW code \in CloseCodes,
         BreakGracefully(messages, code)
  PROVE  /\ pc' = "flushing" /\ closing' = code /\ sink' = sink
         /\ queue' \in Seq(Message)
         /\ forward' \in {"none", "running", "aborting", "ended"}
<1>1. <<code>> \in Seq(Message)
  BY DEF Message
<1>2. queue' \in Seq(Message)
  BY <1>1 DEF BreakGracefully, TypeOK, TasksOK
<1> QED
  BY <1>2 DEF BreakGracefully, Abort, TypeOK, TasksOK

\* Steps of the sink task.
LEMMA CountSink ==
  ASSUME CountInv, Sink
  PROVE  CountInv'
<1>1. ASSUME NEW message \in Message, SendInTime(message)
      PROVE  /\ last' \in Frame /\ binary' \in BOOLEAN /\ rejected' \in BOOLEAN
  <2>1. last' \in Frame
    BY <1>1, FrameType DEF SendInTime, CountInv
  <2> QED
    BY <1>1, <2>1 DEF SendInTime, CountInv, TypeOK, ClientOK
<1>2. CASE SendHello
  <2>1. "HELLO" \in Message /\ SendInTime("HELLO")
    BY <1>2 DEF SendHello, Message, Text
  <2> QED
    BY <1>1, <1>2, <2>1 DEF SendHello, CountInv, CountedWhileActive, TypeOK, HandlerOK, TasksOK,
       ClientOK, handlerVars, authVars, forwardVars, clientVars
<1>3. CASE ReceiveDecision
  BY <1>3 DEF ReceiveDecision, CountInv, CountedWhileActive, TypeOK, HandlerOK, TasksOK,
     ClientOK, handlerVars, authVars, forwardVars, clientVars, wireVars
<1>4. CASE SendMessage
  <2>1. /\ queue \in Seq(Message) /\ queue # <<>>
        /\ Head(queue) \in Message /\ queue' \in Seq(Message)
        /\ SendInTime(Head(queue))
    BY <1>4 DEF SendMessage, CountInv, TypeOK, TasksOK
  <2>2. last' \in Frame /\ binary' \in BOOLEAN /\ rejected' \in BOOLEAN
    BY <1>1, <2>1
  <2>3. awaiting' \in BOOLEAN
    BY <1>4 DEF SendMessage, CountInv, TypeOK, ClientOK
  <2> QED
    BY <1>4, <2>1, <2>2, <2>3 DEF SendMessage, CountInv, CountedWhileActive, TypeOK, HandlerOK,
       TasksOK, ClientOK, handlerVars, authVars, forwardVars, sinkVars, clientVars
<1>5. CASE SinkFails \/ SinkDrained
  BY <1>5 DEF SinkFails, SinkDrained, CountInv, CountedWhileActive, TypeOK, HandlerOK, TasksOK,
     ClientOK, handlerVars, authVars, forwardVars, clientVars, wireVars
<1> QED
  BY <1>2, <1>3, <1>4, <1>5 DEF Sink

\* Steps of the forward task.
LEMMA CountForward ==
  ASSUME CountInv, Forward
  PROVE  CountInv'
<1>1. CASE ForwardEvent
  <2>1. queue' \in Seq(Message)
    BY <1>1 DEF ForwardEvent, CountInv, TypeOK, TasksOK, Message, Text
  <2> QED
    BY <1>1, <2>1 DEF ForwardEvent, CountInv, CountedWhileActive, TypeOK, HandlerOK, TasksOK,
       ClientOK, handlerVars, authVars, forwardVars, sinkVars, clientVars, wireVars
<1>2. CASE ForwardEnds
  BY <1>2 DEF ForwardEnds, CountInv, CountedWhileActive, TypeOK, HandlerOK, TasksOK,
     ClientOK, handlerVars, authVars, sinkVars, clientVars, wireVars
<1> QED
  BY <1>1, <1>2 DEF Forward

\* A break without graceful_close.
LEMMA CountBreak ==
  ASSUME CountInv, Break
  PROVE  CountInv'
BY ReturnEffect DEF Break, CountInv, CountedWhileActive, TypeOK, HandlerOK, TasksOK, ClientOK,
   MaybeClient, clientVars, wireVars

\* A break with graceful_close that leaves the authentication alone.
LEMMA CountBreakGracefully ==
  ASSUME CountInv, NEW messages \in Seq(Message), NEW code \in CloseCodes,
         BreakGracefully(messages, code),
         UNCHANGED <<authVars, sent, serves, decision, zlib, timer, awaiting, clientVars, wireVars>>
  PROVE  CountInv'
BY BreakGracefullyType DEF CountInv, CountedWhileActive, TypeOK, HandlerOK, TasksOK,
   ClientOK, authVars, clientVars, wireVars

\* The end of the loop and of the flush.
LEMMA CountTeardown ==
  ASSUME CountInv, Teardown
  PROVE  CountInv'
<1>1. CASE FlushEnds \/ FlushTimesOut
  BY <1>1, ReturnEffect DEF FlushEnds, FlushTimesOut, CountInv, CountedWhileActive, TypeOK,
     HandlerOK, TasksOK, ClientOK, MaybeClient, sinkVars, clientVars, wireVars
<1>2. CASE HeartbeatTimeout
  <2>1. << >> \in Seq(Message) /\ "4009" \in CloseCodes
    BY DEF CloseCodes
  <2> QED
    BY <1>2, <2>1, CountBreakGracefully DEF HeartbeatTimeout
<1> QED
  BY <1>1, <1>2, CountBreak DEF Teardown, StreamEnds, SinkEnded

\* The client's messages: IDENTIFY and RESUME count the connection once.
LEMMA CountClient ==
  ASSUME CountInv, Client
  PROVE  CountInv'
<1>1. CASE Heartbeat
  <2>1. queue' \in Seq(Message)
    BY <1>1 DEF Heartbeat, CountInv, TypeOK, TasksOK, Message, Text
  <2> QED
    BY <1>1, <2>1 DEF Heartbeat, CountInv, CountedWhileActive, TypeOK, HandlerOK, TasksOK,
       ClientOK, handlerVars, authVars, forwardVars, sinkVars, clientVars, wireVars
<1>2. \A p \in Principals : ScopeOf(p) \in MaybeClient
  BY DEF ScopeOf, Principals, MaybeClient
<1>3. ASSUME NEW p \in Principals, NEW compress \in {"yes", "no"},
             Identify(p, compress) \/ Resume(p, compress)
      PROVE  CountInv'
  <2>1. /\ pc = "open" /\ pc' = "open"
        /\ Count(p) /\ scope' = ScopeOf(p) /\ shardSet' = TRUE
        /\ SpawnForward(p, compress)
        /\ UNCHANGED <<closing, sent, queue, sinkVars, timer, awaiting, clientVars, wireVars>>
    BY <1>3 DEF Identify, Resume, Receives, Authenticate
  <2> QED
    BY <1>2, <2>1, CountEffect DEF SpawnForward, CountInv, CountedWhileActive, TypeOK,
       HandlerOK, TasksOK, ClientOK, sinkVars, clientVars, wireVars
<1>4. <<"INVALID_SESSION">> \in Seq(Message) /\ << >> \in Seq(Message)
      /\ "4007" \in CloseCodes /\ "4003" \in CloseCodes
  BY DEF Message, Text, CloseCodes
<1>5. ASSUME NEW p \in Principals, ResumeAgain(p)
      PROVE  CountInv'
  <2>1. /\ Count(p) /\ scope' = ScopeOf(p) /\ shardSet' = TRUE
        /\ BreakGracefully(<<"INVALID_SESSION">>, "4007")
        /\ UNCHANGED <<authorized, sent, serves, decision, zlib, timer, awaiting, clientVars,
                       wireVars>>
    BY <1>5 DEF ResumeAgain, Authenticate
  <2>2. /\ pc' = "flushing" /\ closing' \in CloseCodes /\ sink' = sink
        /\ queue' \in Seq(Message)
        /\ forward' \in {"none", "running", "aborting", "ended"}
    BY <1>4, <2>1, BreakGracefullyType DEF CountInv
  <2> QED
    BY <1>2, <2>1, <2>2, CountEffect DEF CountInv, CountedWhileActive, TypeOK, HandlerOK,
       TasksOK, ClientOK, clientVars, wireVars
<1>6. CASE ResumeRejected \/ CommandTooEarly
  BY <1>4, <1>6, CountBreakGracefully DEF ResumeRejected, CommandTooEarly
<1>7. CASE IdentifyRefused \/ ResumeRefused
  BY <1>7, CountBreak DEF IdentifyRefused, ResumeRefused
<1>8. CASE Command
  BY <1>8 DEF Command, TimerAfterCommand, CountInv, CountedWhileActive, TypeOK, HandlerOK,
     TasksOK, ClientOK, handlerVars, authVars, forwardVars, sinkVars, clientVars, wireVars
<1> QED
  BY <1>1, <1>3, <1>5, <1>6, <1>7, <1>8 DEF Client

\* The client's other end, and time.
LEMMA CountEnvironment ==
  ASSUME CountInv, Environment \/ UNCHANGED vars
  PROVE  CountInv'
<1>1. UNCHANGED <<handlerVars, sent, forwardVars, queue, decision, sinkVars, awaiting, wireVars>>
  BY DEF Environment, ClientGoes, ClientStalls, ClientFallsSilent, TimerElapses, vars
<1>2. HandlerOK' /\ TasksOK' /\ CountedWhileActive'
  BY <1>1 DEF CountInv, CountedWhileActive, TypeOK, HandlerOK, TasksOK, handlerVars, authVars,
     forwardVars, sinkVars
<1>3. timer' \in {"running", "elapsed"}
  BY DEF Environment, ClientGoes, ClientStalls, ClientFallsSilent, TimerElapses, vars, CountInv,
     TypeOK, ClientOK
<1>4. silent' \in BOOLEAN /\ stalled' \in BOOLEAN /\ gone' \in BOOLEAN
  BY DEF Environment, ClientGoes, ClientStalls, ClientFallsSilent, TimerElapses, vars, CountInv,
     TypeOK, ClientOK, clientVars
<1>5. ClientOK'
  BY <1>1, <1>3, <1>4 DEF CountInv, TypeOK, ClientOK, wireVars
<1> QED
  BY <1>2, <1>5 DEF CountInv, TypeOK

\* Every step keeps the types and the count.
LEMMA CountStep == CountInv /\ [Next]_vars => CountInv'
BY CountSink, CountForward, CountTeardown, CountClient, CountEnvironment DEF Next

\* The invariant in every behaviour.
LEMMA CountCorrect == Spec => []CountInv
BY CountInit, CountStep, PTL DEF Spec

\* Every variable keeps its type: no sequence of IDENTIFY and RESUME counts a
\* connection twice.
THEOREM TypeCorrect == Spec => []TypeOK
<1>1. CountInv => TypeOK
  BY DEF CountInv
<1> QED
  BY <1>1, CountCorrect, PTL

\* However the connection ends, it is counted for its client while it lasts and
\* for nobody afterwards.
THEOREM CountedCorrectly == Spec => []CountedWhileActive
<1>1. CountInv => CountedWhileActive
  BY DEF CountInv
<1> QED
  BY <1>1, CountCorrect, PTL

-----------------------------------------------------------------------------
(* The scope of the commands *)

\* Commands wait for an IDENTIFY or RESUME, which a connection has once; while
\* the loop runs, their scope is that of the forward task.
ScopeInv ==
    /\ shardSet => authorized
    /\ ~authorized => sent = {}
    /\ authorized /\ pc = "open" => scope = serves
    /\ OneScope

\* Steps that leave the loop, or do not touch the authentication.
LEMMA ScopeKept ==
  ASSUME ScopeInv, UNCHANGED <<authorized, sent, serves>>, pc' = "open" => pc = "open",
         UNCHANGED <<scope, shardSet>> \/ (authorized /\ pc' # "open")
  PROVE  ScopeInv'
BY DEF ScopeInv, OneScope

\* Every step keeps the scope.
LEMMA ScopeStep == ScopeInv /\ [Next]_vars => ScopeInv'
<1> SUFFICES ASSUME ScopeInv, [Next]_vars PROVE ScopeInv'
  OBVIOUS
<1>1. ASSUME Sink \/ Forward \/ Environment \/ UNCHANGED vars
      PROVE  ScopeInv'
  <2>1. UNCHANGED <<handlerVars, sent, serves>>
    BY <1>1 DEF Sink, SendHello, ReceiveDecision, SendMessage, SinkFails, SinkDrained, Forward,
       ForwardEvent, ForwardEnds, Environment, ClientGoes, ClientStalls, ClientFallsSilent,
       TimerElapses, vars, forwardVars
  <2> QED
    BY <2>1, ScopeKept DEF handlerVars, authVars
<1>2. ASSUME Break PROVE ScopeInv'
  BY <1>2, ScopeKept DEF Break, Return
<1>3. CASE Teardown
  <2>1. CASE FlushEnds \/ FlushTimesOut
    BY <2>1, ScopeKept DEF FlushEnds, FlushTimesOut, Return
  <2>2. CASE HeartbeatTimeout
    BY <2>2, ScopeKept DEF HeartbeatTimeout, BreakGracefully, authVars
  <2> QED
    BY <1>2, <1>3, <2>1, <2>2 DEF Teardown, StreamEnds, SinkEnded
<1>4. ASSUME NEW p \in Principals, NEW compress \in {"yes", "no"},
             Identify(p, compress) \/ Resume(p, compress)
      PROVE  ScopeInv'
  BY <1>4 DEF ScopeInv, OneScope, Identify, Resume, Receives, Authenticate, SpawnForward
<1>5. ASSUME NEW p \in Principals, ResumeAgain(p)
      PROVE  ScopeInv'
  BY <1>5, ScopeKept DEF ResumeAgain, Receives, BreakGracefully, Authenticate
<1>6. CASE ResumeRejected \/ CommandTooEarly
  BY <1>6, ScopeKept DEF ResumeRejected, CommandTooEarly, BreakGracefully, authVars
<1>7. CASE Heartbeat
  BY <1>7, ScopeKept DEF Heartbeat, handlerVars, authVars, forwardVars
<1>8. CASE Command
  BY <1>8 DEF ScopeInv, OneScope, Command, Receives, handlerVars, authVars, forwardVars
<1>9. CASE Client
  BY <1>2, <1>4, <1>5, <1>6, <1>7, <1>8, <1>9 DEF Client, IdentifyRefused, ResumeRefused
<1> QED
  BY <1>1, <1>3, <1>9 DEF Next

\* Every command of a connection goes upstream with the filter of the client whose
\* events the connection forwards, whatever IDENTIFYs and RESUMEs it sends.
THEOREM ScopeIsOne == Spec => []OneScope
<1>1. Init => ScopeInv
  BY DEF Init, ScopeInv, OneScope
<1>2. ScopeInv => OneScope
  BY DEF ScopeInv
<1> QED
  BY <1>1, <1>2, ScopeStep, PTL DEF Spec

-----------------------------------------------------------------------------
(* Compression *)

\* A binary frame comes from a sink that compresses from then on.
BinaryInv == binary => zlib

\* The sink never stops compressing, and only it writes frames.
LEMMA BinaryStep ==
  ASSUME TypeOK, BinaryInv, [Next]_vars
  PROVE  BinaryInv' /\ (binary => last' = last \/ last'.form = "binary")
<1>1. ASSUME NEW message, SendInTime(message), zlib' = zlib
      PROVE  BinaryInv' /\ (binary => last'.form = "binary")
  <2>1. last'.form = "binary" <=> zlib
    BY <1>1 DEF SendInTime, FrameFor
  <2>2. binary' => binary \/ last'.form = "binary"
    BY <1>1 DEF SendInTime, TypeOK, ClientOK
  <2> QED
    BY <1>1, <2>1, <2>2 DEF BinaryInv
<1>2. CASE SendHello \/ SendMessage
  BY <1>1, <1>2 DEF SendHello, SendMessage, sinkVars
<1>3. CASE ~SendHello /\ ~SendMessage
  <2>1. UNCHANGED <<binary, last>>
    BY <1>3 DEF Next, Sink, ReceiveDecision, SinkFails, SinkDrained, Forward, ForwardEvent,
       ForwardEnds, Teardown, FlushEnds, FlushTimesOut, StreamEnds, SinkEnded, HeartbeatTimeout,
       Break, Client, Heartbeat, Identify, Resume, ResumeAgain, IdentifyRefused, ResumeRejected,
       ResumeRefused, CommandTooEarly, Command, Environment, ClientGoes, ClientStalls, ClientFallsSilent,
       TimerElapses, vars, wireVars
  <2>2. zlib => zlib'
    BY <1>3 DEF Next, Sink, ReceiveDecision, SinkFails, SinkDrained, Forward, ForwardEvent,
       ForwardEnds, Teardown, FlushEnds, FlushTimesOut, StreamEnds, SinkEnded, HeartbeatTimeout,
       Break, Client, Heartbeat, Identify, Resume, ResumeAgain, IdentifyRefused, ResumeRejected,
       ResumeRefused, CommandTooEarly, Command, Environment, ClientGoes, ClientStalls, ClientFallsSilent,
       TimerElapses, vars, sinkVars
  <2> QED
    BY <2>1, <2>2 DEF BinaryInv
<1> QED
  BY <1>2, <1>3

\* Once a frame was compressed, every later frame is, whichever of the decision
\* and the queue the select! takes first.
THEOREM StaysBinary == Spec => NeverBackToText
<1>1. Init => BinaryInv
  BY DEF Init, BinaryInv
<1>2. TypeOK /\ BinaryInv /\ [Next]_vars => BinaryInv'
  BY BinaryStep
<1>3. TypeOK /\ BinaryInv /\ [Next]_vars
        => [binary => last' = last \/ last'.form = "binary"]_vars
  BY BinaryStep
<1> QED
  BY <1>1, <1>2, <1>3, TypeCorrect, PTL DEF Spec, NeverBackToText

-----------------------------------------------------------------------------
(* Close codes *)

\* A client that reads, without compression.
ReadsText == ~stalled /\ ~gone /\ ~zlib

\* The close frame is on its way: it is queued before any other, and behind the
\* INVALID_SESSION it needs.
ClosePending ==
    \E k \in 1..Len(queue) :
        /\ queue[k] = closing
        /\ \A i \in 1..(k - 1) : queue[i] \notin CloseCodes
        /\ closing = "4007" => rejected \/ \E j \in 1..(k - 1) : queue[j] = "INVALID_SESSION"

\* The loop of a client that reads runs with a sink that works and has no close
\* frame to send; after it, the close frame was heard, or it is pending and the
\* sink did not end by itself.
Undisturbed ==
    /\ closing = None
    /\ sink # "done"
    /\ last.form # "close"
    /\ \A i \in 1..Len(queue) : queue[i] \notin CloseCodes

StillToClose == sink # "done" /\ last.form # "close" /\ ClosePending

CloseInv ==
    ReadsText =>
        /\ pc = "open" => Undisturbed
        /\ closing # None => CloseHeard \/ StillToClose

\* Steps that change neither the queue nor the wire, and leave the sink running.
LEMMA CloseKept ==
  ASSUME CloseInv, UNCHANGED <<pc, closing, queue, wireVars>>, ReadsText' => ReadsText,
         sink' = sink \/ sink' # "done"
  PROVE  CloseInv'
BY DEF CloseInv, Undisturbed, StillToClose, ClosePending, CloseHeard, wireVars

\* A message of a task enters the queue.
LEMMA CloseAppend ==
  ASSUME TypeOK, CloseInv, NEW message \in Text, queue' = Append(queue, message),
         UNCHANGED <<pc, closing, sink, wireVars>>, ReadsText' => ReadsText
  PROVE  CloseInv'
<1> SUFFICES ASSUME ReadsText
             PROVE  /\ pc = "open" => Undisturbed'
                    /\ closing # None => CloseHeard' \/ StillToClose'
  BY DEF CloseInv
<1>1. message \notin CloseCodes
  BY DEF Text, CloseCodes
<1>2. /\ queue \in Seq(Message) /\ Len(queue) \in Nat
      /\ Len(queue') = Len(queue) + 1 /\ queue'[Len(queue) + 1] = message
      /\ \A i \in 1..Len(queue) : queue'[i] = queue[i]
  BY DEF TypeOK, TasksOK, Message
<1>3. ASSUME Undisturbed PROVE Undisturbed'
  <2>1. \A i \in 1..Len(queue') : i \in 1..Len(queue) \/ i = Len(queue) + 1
    BY <1>2
  <2> QED
    BY <1>1, <1>2, <1>3, <2>1 DEF Undisturbed, wireVars
<1>4. ASSUME ClosePending PROVE ClosePending'
  <2>1. PICK k \in 1..Len(queue) :
          /\ queue[k] = closing
          /\ \A i \in 1..(k - 1) : queue[i] \notin CloseCodes
          /\ closing = "4007" => rejected \/ \E j \in 1..(k - 1) : queue[j] = "INVALID_SESSION"
    BY <1>4 DEF ClosePending
  <2>2. k \in 1..Len(queue') /\ \A i \in 1..k : i \in 1..Len(queue)
    BY <1>2
  <2>3. queue'[k] = queue[k] /\ \A i \in 1..(k - 1) : queue'[i] = queue[i]
    BY <1>2, <2>2
  <2> QED
    BY <2>1, <2>2, <2>3 DEF ClosePending, wireVars
<1>5. CloseHeard => CloseHeard'
  BY DEF CloseHeard, wireVars
<1> QED
  BY <1>3, <1>4, <1>5 DEF CloseInv, StillToClose, wireVars

\* The sink writes the head of the queue.
LEMMA CloseSend ==
  ASSUME TypeOK, CloseInv, SendMessage
  PROVE  CloseInv'
<1>1. /\ SendInTime(Head(queue)) /\ queue' = Tail(queue) /\ queue # <<>>
      /\ UNCHANGED <<pc, closing, sink, zlib, stalled, gone>> /\ sink # "done"
  BY DEF SendMessage, TakesMessages, handlerVars, sinkVars, clientVars
<1> SUFFICES ASSUME ReadsText
             PROVE  /\ pc = "open" => Undisturbed'
                    /\ closing # None => CloseHeard' \/ StillToClose'
  BY <1>1 DEF CloseInv, ReadsText
<1>2. /\ queue \in Seq(Message) /\ Len(queue) \in Nat /\ Len(queue) >= 1
      /\ Len(queue') = Len(queue) - 1
      /\ \A i \in 1..Len(queue') : queue'[i] = queue[i + 1]
      /\ Head(queue) = queue[1]
  BY <1>1 DEF TypeOK, TasksOK
<1>3. last.form # "close"
  BY <1>1 DEF SendInTime
<1>4. /\ last' = [form |-> IF queue[1] \in CloseCodes THEN "close" ELSE "text",
                 message |-> queue[1]]
      /\ rejected' = (rejected \/ queue[1] = "INVALID_SESSION")
  BY <1>1, <1>2 DEF SendInTime, FrameFor, ReadsText
<1>5. ASSUME Undisturbed PROVE Undisturbed'
  <2>1. queue[1] \notin CloseCodes
    BY <1>2, <1>5 DEF Undisturbed
  <2>2. \A i \in 1..Len(queue') : i + 1 \in 1..Len(queue)
    BY <1>2
  <2>3. \A i \in 1..Len(queue') : queue'[i] \notin CloseCodes
    BY <1>2, <1>5, <2>2 DEF Undisturbed
  <2> QED
    BY <1>1, <1>4, <1>5, <2>1, <2>3 DEF Undisturbed
<1>6. ASSUME closing # None PROVE CloseHeard' \/ StillToClose'
  <2>1. ClosePending /\ closing \in CloseCodes
    BY <1>3, <1>6 DEF CloseInv, CloseHeard, StillToClose, TypeOK, HandlerOK
  <2>2. PICK k \in 1..Len(queue) :
          /\ queue[k] = closing
          /\ \A i \in 1..(k - 1) : queue[i] \notin CloseCodes
          /\ closing = "4007" => rejected \/ \E j \in 1..(k - 1) : queue[j] = "INVALID_SESSION"
    BY <2>1 DEF ClosePending
  <2>3. CASE k = 1
    <3>1. closing = "4007" => rejected
      BY <2>2, <2>3
    <3>2. last' = [form |-> "close", message |-> closing]
      BY <1>4, <2>1, <2>2, <2>3
    <3> QED
      BY <1>1, <1>4, <3>1, <3>2 DEF CloseHeard, TypeOK, ClientOK
  <2>4. CASE k > 1
    <3>1. queue[1] \notin CloseCodes
      BY <2>2, <2>4
    <3>2. last'.form # "close"
      BY <1>4, <3>1
    <3>3. k - 1 \in 1..Len(queue') /\ queue'[k - 1] = closing
      BY <1>2, <2>2, <2>4
    <3>4. \A i \in 1..((k - 1) - 1) : queue'[i] = queue[i + 1] /\ i + 1 \in 1..(k - 1)
      BY <1>2, <2>4
    <3>5. \A i \in 1..((k - 1) - 1) : queue'[i] \notin CloseCodes
      BY <2>2, <3>4
    <3>6. ASSUME closing = "4007"
          PROVE  rejected' \/ \E j \in 1..((k - 1) - 1) : queue'[j] = "INVALID_SESSION"
      <4>1. CASE rejected
        BY <1>4, <4>1
      <4>2. ASSUME NEW j \in 1..(k - 1), queue[j] = "INVALID_SESSION"
            PROVE  rejected' \/ \E i \in 1..((k - 1) - 1) : queue'[i] = "INVALID_SESSION"
        <5>1. CASE j = 1
          BY <1>4, <4>2, <5>1
        <5>2. CASE j > 1
          <6>1. j - 1 \in 1..((k - 1) - 1) /\ (j - 1) + 1 = j
            BY <2>4, <5>2
          <6>2. queue'[j - 1] = "INVALID_SESSION"
            BY <3>4, <4>2, <6>1
          <6> QED
            BY <6>1, <6>2
        <5> QED
          BY <5>1, <5>2
      <4> QED
        BY <2>2, <3>6, <4>1, <4>2
    <3>7. ClosePending'
      BY <1>1, <3>3, <3>5, <3>6 DEF ClosePending
    <3> QED
      BY <1>1, <3>2, <3>7 DEF StillToClose
  <2> QED
    BY <2>3, <2>4
<1> QED
  BY <1>5, <1>6 DEF CloseInv

\* The loop ends with a close code: its frame is queued behind what was.
LEMMA CloseBreakGracefully ==
  ASSUME TypeOK, CloseInv, pc = "open", NEW code \in CloseCodes,
         NEW messages \in {<< >>, <<"INVALID_SESSION">>},
         code = "4007" => messages = <<"INVALID_SESSION">>,
         BreakGracefully(messages, code), UNCHANGED <<wireVars, clientVars, zlib>>
  PROVE  CloseInv'
<1> SUFFICES ASSUME ReadsText PROVE StillToClose'
  BY DEF CloseInv, BreakGracefully, ReadsText, clientVars
<1>1. Undisturbed
  BY DEF CloseInv
<1>2. queue \in Seq(Message) /\ Len(queue) \in Nat
  BY DEF TypeOK, TasksOK
<1>3. /\ queue' = queue \o messages \o <<code>> /\ closing' = code
      /\ UNCHANGED <<sink, last, rejected>>
  BY DEF BreakGracefully, wireVars
<1>4. CASE messages = << >>
  <2>1. /\ Len(queue') = Len(queue) + 1 /\ queue'[Len(queue) + 1] = code
        /\ \A i \in 1..Len(queue) : queue'[i] = queue[i]
    BY <1>2, <1>3, <1>4
  <2>2. code # "4007"
    BY <1>4
  <2>3. ClosePending'
    <3>1. Len(queue) + 1 \in 1..Len(queue') /\ (Len(queue) + 1) - 1 = Len(queue)
      BY <1>2, <2>1
    <3>2. \A i \in 1..((Len(queue) + 1) - 1) : queue'[i] \notin CloseCodes
      BY <1>1, <2>1, <3>1 DEF Undisturbed
    <3> QED
      BY <1>3, <2>1, <2>2, <3>1, <3>2 DEF ClosePending
  <2> QED
    BY <1>1, <1>3, <2>3 DEF Undisturbed, StillToClose
<1>5. CASE messages = <<"INVALID_SESSION">>
  <2>1. /\ Len(queue') = Len(queue) + 2 /\ queue'[Len(queue) + 2] = code
        /\ queue'[Len(queue) + 1] = "INVALID_SESSION"
        /\ \A i \in 1..Len(queue) : queue'[i] = queue[i]
    BY <1>2, <1>3, <1>5
  <2>2. ClosePending'
    <3>1. /\ Len(queue) + 2 \in 1..Len(queue') /\ (Len(queue) + 2) - 1 = Len(queue) + 1
          /\ Len(queue) + 1 \in 1..(Len(queue) + 1)
          /\ \A i \in 1..(Len(queue) + 1) : i \in 1..Len(queue) \/ i = Len(queue) + 1
      BY <1>2, <2>1
    <3>2. "INVALID_SESSION" \notin CloseCodes
      BY DEF CloseCodes
    <3>3. \A i \in 1..((Len(queue) + 2) - 1) : queue'[i] \notin CloseCodes
      BY <1>1, <2>1, <3>1, <3>2 DEF Undisturbed
    <3> QED
      BY <1>3, <2>1, <3>1, <3>3 DEF ClosePending
  <2> QED
    BY <1>1, <1>3, <2>2 DEF Undisturbed, StillToClose
<1> QED
  BY <1>4, <1>5

\* Steps of the sink: it ends only when nothing is left to say.
LEMMA CloseSink ==
  ASSUME TypeOK, CloseInv, Sink
  PROVE  CloseInv'
<1>1. CASE SendHello
  <2>1. /\ SendInTime("HELLO") /\ sink' = "pending"
        /\ UNCHANGED <<pc, closing, queue, zlib, stalled, gone>>
    BY <1>1 DEF SendHello, handlerVars, clientVars
  <2>2. "HELLO" \notin CloseCodes /\ "HELLO" # "INVALID_SESSION"
    BY DEF CloseCodes
  <2>3. ReadsText => last.form # "close" /\ last'.form = "text"
    BY <2>1, <2>2 DEF SendInTime, FrameFor, ReadsText
  <2>4. rejected' = rejected
    BY <2>1, <2>2 DEF SendInTime, TypeOK, ClientOK
  <2> QED
    BY <2>1, <2>3, <2>4
       DEF CloseInv, Undisturbed, StillToClose, ClosePending, CloseHeard, ReadsText
<1>2. CASE ReceiveDecision
  <2>1. UNCHANGED <<pc, closing, queue, wireVars, stalled, gone>> /\ sink' # "done"
        /\ (zlib => zlib')
    BY <1>2 DEF ReceiveDecision, handlerVars, clientVars
  <2> QED
    BY <2>1, CloseKept DEF ReadsText
<1>3. CASE SinkFails
  <2>1. /\ stalled \/ gone \/ last.form = "close"
        /\ UNCHANGED <<pc, closing, queue, wireVars, stalled, gone, zlib>>
    BY <1>3 DEF SinkFails, handlerVars, clientVars
  <2> QED
    BY <2>1 DEF CloseInv, Undisturbed, StillToClose, CloseHeard, ReadsText, wireVars
<1>4. CASE SinkDrained
  <2>1. /\ queue = << >> /\ pc # "open"
        /\ UNCHANGED <<pc, closing, queue, wireVars, stalled, gone, zlib>>
    BY <1>4 DEF SinkDrained, handlerVars, clientVars
  <2>2. ~ClosePending
    BY <2>1 DEF ClosePending
  <2> QED
    BY <2>1, <2>2 DEF CloseInv, StillToClose, CloseHeard, ReadsText, wireVars
<1> QED
  BY <1>1, <1>2, <1>3, <1>4, CloseSend DEF Sink

\* Every step keeps a close code that was queued on its way to the client.
LEMMA CloseStep == TypeOK /\ CloseInv /\ [Next]_vars => CloseInv'
<1> SUFFICES ASSUME TypeOK, CloseInv, [Next]_vars PROVE CloseInv'
  OBVIOUS
<1>1. ASSUME Break, pc = "open" PROVE CloseInv'
  BY <1>1 DEF CloseInv, Undisturbed, Break, Return, ReadsText, clientVars
<1>2. CASE Forward
  <2>1. CASE ForwardEvent
    <3>1. "EVENT" \in Text
      BY DEF Text
    <3> QED
      BY <2>1, <3>1, CloseAppend DEF ForwardEvent, handlerVars, sinkVars, clientVars, ReadsText
  <2>2. CASE ForwardEnds
    BY <2>2, CloseKept DEF ForwardEnds, handlerVars, sinkVars, clientVars, ReadsText
  <2> QED
    BY <1>2, <2>1, <2>2 DEF Forward
<1>3. CASE FlushEnds \/ FlushTimesOut
  <2>1. /\ pc' # "open" /\ (sink' = sink \/ sink' = "aborted")
        /\ UNCHANGED <<closing, queue, wireVars, clientVars, zlib>>
    BY <1>3 DEF FlushEnds, FlushTimesOut, Return, sinkVars
  <2> QED
    BY <2>1 DEF CloseInv, StillToClose, ClosePending, CloseHeard, ReadsText, clientVars, wireVars
<1>4. CASE HeartbeatTimeout
  BY <1>4, CloseBreakGracefully DEF HeartbeatTimeout, CloseCodes
<1>5. CASE Teardown
  BY <1>1, <1>3, <1>4, <1>5 DEF Teardown, StreamEnds, SinkEnded
<1>6. CASE Heartbeat
  <2>1. "HEARTBEAT_ACK" \in Text
    BY DEF Text
  <2> QED
    BY <1>6, <2>1, CloseAppend DEF Heartbeat, handlerVars, sinkVars, clientVars, ReadsText
<1>7. ASSUME NEW p \in Principals, NEW compress \in {"yes", "no"},
             Identify(p, compress) \/ Resume(p, compress)
      PROVE  CloseInv'
  BY <1>7, CloseKept DEF Identify, Resume, sinkVars, clientVars, ReadsText
<1>8. ASSUME \/ \E p \in Principals : ResumeAgain(p)
             \/ ResumeRejected
      PROVE  CloseInv'
  BY <1>8, CloseBreakGracefully DEF ResumeAgain, ResumeRejected, Receives, CloseCodes
<1>9. CASE CommandTooEarly
  BY <1>9, CloseBreakGracefully DEF CommandTooEarly, Receives, CloseCodes
<1>10. CASE Command
  BY <1>10, CloseKept DEF Command, handlerVars, sinkVars, clientVars, ReadsText
<1>11. CASE Client
  BY <1>1, <1>6, <1>7, <1>8, <1>9, <1>10, <1>11
     DEF Client, IdentifyRefused, ResumeRefused, Receives
<1>12. ASSUME Environment \/ UNCHANGED vars
       PROVE  CloseInv'
  <2>1. /\ UNCHANGED <<pc, closing, queue, sink, wireVars, zlib>>
        /\ (stalled => stalled') /\ (gone => gone')
    BY <1>12 DEF Environment, ClientGoes, ClientStalls, ClientFallsSilent, TimerElapses, vars,
       handlerVars, sinkVars, clientVars
  <2> QED
    BY <2>1, CloseKept DEF ReadsText
<1> QED
  BY <1>2, <1>5, <1>11, <1>12, CloseSink DEF Next

\* A client without compression that still reads hears why it was rejected, however long
\* its queue is and whatever the aborted forward task puts around the close frame, if its
\* sink is done before the two seconds are over.
THEOREM TextCloses == Spec => []TextClosesWithCode
<1>1. Init => CloseInv
  BY DEF Init, CloseInv, Undisturbed, NoFrame
<1>2. CloseInv => TextClosesWithCode
  BY DEF CloseInv, StillToClose, ReadsText, TextClosesWithCode
<1> QED
  BY <1>1, <1>2, CloseStep, TypeCorrect, PTL DEF Spec
=============================================================================
