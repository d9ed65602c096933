------------------------- MODULE ClientLimitsProofs -------------------------
(***************************************************************************)
(* Theorems about ClientLimits for every set of clients and every value of  *)
(* the limits and periods: type correctness, the two limits of commands in  *)
(* any window, the spacing of wake-ups, that a due client is woken, and the *)
(* end of a typing task.                                                    *)
(***************************************************************************)
EXTENDS ClientLimits, TLAPS

-----------------------------------------------------------------------------
(* Helpers *)

\* What allow_client_command leaves of a window it counts a command in.
LEMMA CountedCommand ==
  ASSUME NEW w \in CommandWindow
  PROVE  LET v == [w EXCEPT !.count = @ + 1]
         IN  v.start = w.start /\ v.count = w.count + 1
BY DEF CommandWindow

\* The window a command falls in is the last one, which is not over, or a new one.
LEMMA CurrentWindowEffect ==
  ASSUME TypeOK, NEW cl \in Clients
  PROVE  /\ CurrentWindow(cl) \in CommandWindow
         /\ \/ /\ CurrentWindow(cl) = windows[cl]
               /\ windows[cl] # NoWindow
               /\ now - windows[cl].start < Window
            \/ /\ CurrentWindow(cl) = [start |-> now, count |-> 0]
               /\ windows[cl] # NoWindow => now - windows[cl].start >= Window
<1>1. windows[cl] \in CommandWindow \cup {NoWindow}
  BY DEF TypeOK
<1>2. NoWindow.start = None /\ None \notin Int
  BY LimitAssumption DEF NoWindow
<1>3. [start |-> now, count |-> 0] \in CommandWindow
  BY LimitAssumption DEF CommandWindow, Time, TypeOK
<1>4. windows[cl] \in CommandWindow => windows[cl].start \in Int /\ windows[cl] # NoWindow
  BY <1>2 DEF CommandWindow, Time
<1>5. now \in Int /\ Window \in Int
  BY LimitAssumption DEF TypeOK, Time
<1>6. CASE windows[cl] = NoWindow
  BY <1>2, <1>3, <1>6 DEF CurrentWindow
<1>7. CASE windows[cl] # NoWindow
  BY <1>1, <1>2, <1>3, <1>4, <1>5, <1>7 DEF CurrentWindow
<1> QED
  BY <1>6, <1>7

\* allow_client_command: an accepted command is counted in its window and
\* recorded, a refused one changes nothing.
LEMMA AllowEffect ==
  ASSUME TypeOK, NEW cl \in Clients, AllowClientCommand(cl)
  PROVE  \/ UNCHANGED <<windows, accepted>>
         \/ \E w \in CommandWindow :
              /\ w = CurrentWindow(cl)
              /\ w.count < Limit
              /\ windows' = [windows EXCEPT ![cl] = [w EXCEPT !.count = @ + 1]]
              /\ accepted' = [accepted EXCEPT ![cl] = Append(@, now)]
<1> DEFINE w == CurrentWindow(cl)
<1>1. w \in CommandWindow
  BY CurrentWindowEffect
<1>2. CASE Allows(w)
  <2>1. /\ windows' = [windows EXCEPT ![cl] = [w EXCEPT !.count = @ + 1]]
        /\ accepted' = [accepted EXCEPT ![cl] = Append(@, now)]
    BY <1>2 DEF AllowClientCommand
  <2> QED
    BY <1>1, <1>2, <2>1 DEF Allows
<1>3. CASE ~Allows(w)
  <2>1. w.count # 0
    BY <1>3, LimitAssumption DEF Allows
  <2>2. w = windows[cl]
    BY <2>1, CurrentWindowEffect
  <2>3. windows' = [windows EXCEPT ![cl] = w] /\ accepted' = accepted
    BY <1>3 DEF AllowClientCommand
  <2> QED
    BY <2>2, <2>3 DEF TypeOK
<1> QED
  BY <1>2, <1>3

-----------------------------------------------------------------------------
(* Type correctness *)

\* The state the proxy starts in is well typed.
LEMMA TypeInit == Init => TypeOK
BY LimitAssumption DEF Init, TypeOK, Time, MaybeTime

\* A command keeps the types: the window never counts past the limit.
LEMMA TypeAllow ==
  ASSUME TypeOK, NEW cl \in Clients, AllowClientCommand(cl)
  PROVE  TypeOK'
<1>1. UNCHANGED <<now, clientVars, wakeVars, nextPoll, typing, cleanupVars>>
  BY DEF AllowClientCommand
<1>2. CASE UNCHANGED <<windows, accepted>>
  BY <1>1, <1>2 DEF TypeOK, clientVars, wakeVars, cleanupVars
<1>3. ASSUME NEW w \in CommandWindow, w.count < Limit,
             windows' = [windows EXCEPT ![cl] = [w EXCEPT !.count = @ + 1]],
             accepted' = [accepted EXCEPT ![cl] = Append(@, now)]
      PROVE  TypeOK'
  <2>1. [w EXCEPT !.count = @ + 1] \in CommandWindow
    BY <1>3, LimitAssumption DEF CommandWindow
  <2>2. windows' \in [Clients -> CommandWindow \cup {NoWindow}]
    BY <1>3, <2>1 DEF TypeOK
  <2>3. accepted' \in [Clients -> Seq(Time)]
    BY <1>3 DEF TypeOK
  <2> QED
    BY <1>1, <2>2, <2>3 DEF TypeOK, clientVars, wakeVars, cleanupVars
<1> QED
  BY <1>2, <1>3, AllowEffect

\* A typing task that wakes up, or is answered, keeps the types.
LEMMA TypePulse ==
  ASSUME TypeOK, NEW cl \in Clients, PulseTyping(cl) \/ PulseAnswered(cl)
  PROVE  TypeOK'
<1>1. typing[cl] \in Typing
  BY DEF PulseTyping, PulseAnswered, TypeOK
<1>2. now + Pulse \in Time
  BY LimitAssumption DEF Time, TypeOK
<1>3. /\ [typing[cl] EXCEPT !.next = now + Pulse] \in Typing
      /\ [typing[cl] EXCEPT !.next = None, !.pulses = typing[cl].pulses + 1] \in Typing
  <2> DEFINE t == typing[cl]
  <2>1. t \in [started : Time, next : MaybeTime, pulses : Nat]
    BY <1>1 DEF Typing
  <2>2. now + Pulse \in MaybeTime /\ None \in MaybeTime /\ t.pulses + 1 \in Nat
    BY <1>2, <2>1 DEF MaybeTime
  <2> HIDE DEF t
  <2>3. /\ [t EXCEPT !.next = now + Pulse] \in [started : Time, next : MaybeTime, pulses : Nat]
        /\ [t EXCEPT !.next = None, !.pulses = t.pulses + 1]
             \in [started : Time, next : MaybeTime, pulses : Nat]
    BY <2>1, <2>2
  <2> QED
    BY <2>3 DEF t, Typing
<1>4. \E t \in Typing \cup {NoTyping} : typing' = [typing EXCEPT ![cl] = t]
  BY <1>3 DEF PulseTyping, PulseAnswered
<1>5. typing' \in [Clients -> Typing \cup {NoTyping}]
  BY <1>4 DEF TypeOK
<1> QED
  BY <1>5 DEF PulseTyping, PulseAnswered, TypeOK, clientVars, limitVars, wakeVars,
     cleanupVars

\* Wake-ups record times.
LEMMA TypeWake ==
  ASSUME TypeOK, NEW cls, WakeClients(cls)
  PROVE  wakes' \in [Clients -> MaybeTime] /\ posted' \in [Clients -> MaybeTime]
BY DEF WakeClients, TypeOK, MaybeTime

\* Changes of a client, its registration and its connections keep the types.
LEMMA TypeClient ==
  ASSUME TypeOK, NEW cl \in Clients,
         \/ ToggleRegistered(cl) \/ ToggleReachable(cl)
         \/ ToggleDue(cl) \/ ToggleConnected(cl)
  PROVE  TypeOK'
<1>1. \A set \in SUBSET Clients : Toggled(set, cl) \subseteq Clients
  BY DEF Toggled
<1>2. ASSUME NEW reg \in SUBSET Clients, NEW reach \in SUBSET Clients,
             NEW d \in SUBSET Clients, NEW conn \in SUBSET Clients,
             SetClient(reg, reach, d, conn)
      PROVE  TypeOK'
  BY <1>2 DEF SetClient, TypeOK, MaybeTime, limitVars, wakeVars, cleanupVars
<1> QED
  BY <1>1, <1>2 DEF TypeOK, ToggleRegistered, ToggleReachable, ToggleDue, ToggleConnected

\* Every step keeps the types.
LEMMA TypeStep == TypeOK /\ [Next]_vars => TypeOK'
<1> SUFFICES ASSUME TypeOK, [Next]_vars PROVE TypeOK'
  OBVIOUS
<1>1. ASSUME NEW cls, NEW message \in BOOLEAN, BufferEvent(cls, message)
      PROVE  TypeOK'
  <2>1. [started |-> now, next |-> now, pulses |-> 0] \in Typing
    BY DEF Typing, MaybeTime, TypeOK
  <2>2. typing' \in [Clients -> Typing \cup {NoTyping}]
    BY <1>1, <2>1 DEF BufferEvent, TypeOK
  <2>3. wakes' \in [Clients -> MaybeTime] /\ posted' \in [Clients -> MaybeTime]
    BY <1>1, TypeWake DEF BufferEvent
  <2> QED
    BY <1>1, <2>2, <2>3 DEF BufferEvent, TypeOK, clientVars, limitVars, cleanupVars
<1>2. CASE ScheduledWakes
  <2>1. wakes' \in [Clients -> MaybeTime] /\ posted' \in [Clients -> MaybeTime]
    BY <1>2, TypeWake DEF ScheduledWakes
  <2>2. nextPoll' \in Time
    BY <1>2, LimitAssumption DEF ScheduledWakes, TypeOK, Time
  <2> QED
    BY <1>2, <2>1, <2>2 DEF ScheduledWakes, TypeOK, clientVars, limitVars, cleanupVars
<1>3. CASE CleanupRead
  BY <1>3 DEF CleanupRead, TypeOK, clientVars, limitVars, wakeVars
<1>4. CASE PruneWakes
  BY <1>4 DEF PruneWakes, TypeOK, clientVars, limitVars, MaybeTime
<1>5. CASE PruneWindows
  BY <1>5 DEF PruneWindows, TypeOK, clientVars, wakeVars
<1>6. CASE Tick
  BY <1>6 DEF Tick, TypeOK, Time, clientVars, limitVars, wakeVars, cleanupVars
<1>7. CASE UNCHANGED vars
  BY <1>7 DEF vars, TypeOK, clientVars, limitVars, wakeVars, cleanupVars
<1> QED
  BY <1>1, <1>2, <1>3, <1>4, <1>5, <1>6, <1>7, TypeAllow, TypePulse, TypeClient DEF Next

\* Only a tick moves the clock, and it moves it forward.
LEMMA TimeStep == TypeOK /\ [Next]_vars => now' = now \/ (Tick /\ now' = now + 1 /\ now' >= now)
<1> SUFFICES ASSUME TypeOK, [Next]_vars, ~Tick PROVE now' = now
  BY DEF Tick, TypeOK, Time
<1> QED
  BY DEF Next, vars, AllowClientCommand, PulseTyping, PulseAnswered, ToggleRegistered,
     ToggleReachable, ToggleDue, ToggleConnected, SetClient, BufferEvent, ScheduledWakes,
     CleanupRead, PruneWakes, PruneWindows

\* Every variable keeps its type in every behaviour; in particular no window
\* counts more commands than its limit.
THEOREM TypeCorrect == Spec => []TypeOK
BY TypeInit, TypeStep, PTL DEF Spec

-----------------------------------------------------------------------------
(* The inductive invariants *)

\* The commands of a client against its window: the last count of them are in
\* it, those before were accepted by its start, and those more than a limit before a
\* whole window earlier.
CommandsOK(a, w) ==
    /\ w = NoWindow => a = <<>>
    /\ \A i \in 1..Len(a) : a[i] <= now
    /\ w # NoWindow =>
         /\ w.start <= now
         /\ w.count <= Len(a)
         /\ \A i \in 1..Len(a) : i <= Len(a) - w.count => a[i] <= w.start
         /\ \A i \in 1..Len(a) : i <= Len(a) - w.count - Limit => a[i] <= w.start - Window

\* What AtMostTwiceTheLimit says of one client.
TwiceTheLimit(a) ==
    \A i \in 1..Len(a) : i + 2 * Limit <= Len(a) => a[i + 2 * Limit] - a[i] >= Window

CommandsInv ==
    \A cl \in Clients : CommandsOK(accepted[cl], windows[cl]) /\ TwiceTheLimit(accepted[cl])

\* A wake-up that was sent was recorded, and nothing is recorded ahead of time.
WakesInv ==
    \A cl \in Clients :
        /\ wakes[cl] # None => wakes[cl] <= now
        /\ posted[cl] # None => wakes[cl] # None /\ posted[cl] <= wakes[cl]

\* The last poll is at most a period ago.
PollInv == now <= nextPoll /\ nextPoll <= now + Poll

\* A client that sleeps since before the last poll has an attempt not older than
\* a cooldown before that poll, its later attempts were sent, and a cleanup
\* that prunes it read the registry before it fell asleep.
SleepOK(cl) ==
    asleep[cl] # None =>
        /\ asleep[cl] <= now
        /\ cl \in (registered \cap reachable \cap due) \ connected
        /\ asleep[cl] < nextPoll - Poll =>
             wakes[cl] # None /\ wakes[cl] > nextPoll - Poll - Cooldown
        /\ wakes[cl] # None /\ wakes[cl] > asleep[cl] => posted[cl] = wakes[cl]
        /\ cleanup # "idle" /\ cl \notin valid => asleep[cl] = now

SleepInv == \A cl \in Clients : SleepOK(cl)

-----------------------------------------------------------------------------
(* Commands *)

\* A command accepted in the window under way, or in a new one that starts now.
LEMMA AppendCommand ==
  ASSUME TypeOK, NEW a \in Seq(Int), NEW w \in CommandWindow \cup {NoWindow},
         NEW v \in CommandWindow, CommandsOK(a, w), TwiceTheLimit(a),
         \/ w # NoWindow /\ v.start = w.start /\ v.count = w.count + 1 /\ now - w.start < Window
         \/ v.start = now /\ v.count = 1 /\ (w # NoWindow => now - w.start >= Window)
  PROVE  CommandsOK(Append(a, now), v) /\ TwiceTheLimit(Append(a, now))
<1> DEFINE b == Append(a, now)
           n == Len(a)
<1>1. /\ now \in Int /\ n \in Nat /\ Window \in Nat /\ Limit \in Nat /\ Limit >= 1
      /\ v.start \in Int /\ v.count \in 0..Limit /\ v # NoWindow
  BY LimitAssumption DEF TypeOK, Time, CommandWindow, NoWindow
<1>2. /\ Len(b) = n + 1
      /\ b[n + 1] = now
      /\ \A i \in 1..n : b[i] = a[i] /\ a[i] \in Int
  BY <1>1
<1>3. w # NoWindow => w.start \in Int /\ w.count \in 0..Limit
  BY DEF CommandWindow, Time
<1>4. \A i \in 1..n : a[i] <= now
  BY DEF CommandsOK
<1>5. w = NoWindow => n = 0
  BY DEF CommandsOK
<1>6. w # NoWindow =>
        /\ w.start <= now
        /\ w.count <= n
        /\ \A i \in 1..n : i <= n - w.count => a[i] <= w.start
        /\ \A i \in 1..n : i <= n - w.count - Limit => a[i] <= w.start - Window
  BY DEF CommandsOK
<1> HIDE DEF b, n
<1>7. v.start <= now /\ v.count <= n + 1 /\ v.count >= 1
  BY <1>1, <1>3, <1>6
<1>8. \A i \in 1..n : i <= n + 1 - v.count => a[i] <= v.start
  <2> SUFFICES ASSUME NEW i \in 1..n, i <= n + 1 - v.count
               PROVE  a[i] <= v.start
    OBVIOUS
  <2>1. CASE w # NoWindow /\ v.start = w.start /\ v.count = w.count + 1
    <3>1. i <= n - w.count
      BY <1>1, <1>3, <2>1
    <3> QED
      BY <1>6, <2>1, <3>1
  <2>2. CASE v.start = now
    BY <1>4, <2>2
  <2> QED
    BY <2>1, <2>2
<1>9. \A i \in 1..n : i <= n + 1 - v.count - Limit => a[i] <= v.start - Window
  <2> SUFFICES ASSUME NEW i \in 1..n, i <= n + 1 - v.count - Limit
               PROVE  a[i] <= v.start - Window
    OBVIOUS
  <2>1. w # NoWindow
    BY <1>1, <1>5
  <2>2. CASE v.start = w.start /\ v.count = w.count + 1
    BY <1>1, <1>2, <1>3, <1>6, <2>1, <2>2
  <2>3. CASE v.start = now /\ v.count = 1 /\ now - w.start >= Window
    <3>1. i <= n - w.count
      BY <1>1, <1>3, <2>1, <2>3
    <3>2. a[i] <= w.start /\ a[i] \in Int
      BY <1>2, <1>6, <2>1, <3>1
    <3> QED
      BY <1>1, <1>3, <2>1, <2>3, <3>2
  <2> QED
    BY <2>1, <2>2, <2>3
<1>10. CommandsOK(b, v)
  <2>1. \A i \in 1..Len(b) : i \in 1..n \/ i = n + 1
    BY <1>1, <1>2
  <2>2. \A i \in 1..Len(b) : b[i] <= now
    BY <1>1, <1>2, <1>4, <2>1
  <2>3. ASSUME NEW i \in 1..Len(b), i <= Len(b) - v.count
        PROVE  b[i] <= v.start
    <3>1. i \in 1..n
      BY <1>1, <1>2, <1>7, <2>1, <2>3
    <3> QED
      BY <1>1, <1>2, <1>8, <2>3, <3>1
  <2>4. ASSUME NEW i \in 1..Len(b), i <= Len(b) - v.count - Limit
        PROVE  b[i] <= v.start - Window
    <3>1. i \in 1..n
      BY <1>1, <1>2, <1>7, <2>1, <2>4
    <3>2. i <= n + 1 - v.count - Limit
      BY <1>1, <1>2, <2>4
    <3> QED
      BY <1>1, <1>2, <1>9, <2>4, <3>1, <3>2
  <2>5. v # NoWindow /\ v.count <= Len(b)
    BY <1>1, <1>2, <1>7
  <2> QED
    BY <1>7, <2>2, <2>3, <2>4, <2>5, Zenon DEF CommandsOK
<1>11. TwiceTheLimit(b)
  <2> SUFFICES ASSUME NEW i \in 1..(n + 1), i + 2 * Limit <= n + 1
               PROVE  b[i + 2 * Limit] - b[i] >= Window
    BY <1>2 DEF TwiceTheLimit
  <2>1. i \in 1..n
    BY <1>1
  <2>2. CASE i + 2 * Limit <= n
    <3>1. i + 2 * Limit \in 1..n /\ a[i + 2 * Limit] - a[i] >= Window
      BY <1>1, <2>1, <2>2 DEF TwiceTheLimit, n
    <3> QED
      BY <1>2, <2>1, <3>1
  <2>3. CASE i + 2 * Limit = n + 1
    <3>1. i <= n + 1 - v.count - Limit
      BY <1>1, <2>3
    <3>2. b[i] <= v.start - Window /\ b[i] \in Int
      BY <1>2, <1>9, <2>1, <3>1
    <3>3. b[i + 2 * Limit] = now
      BY <1>2, <2>3
    <3> QED
      BY <1>1, <1>7, <3>2, <3>3
  <2> QED
    BY <1>1, <2>2, <2>3
<1> QED
  BY <1>10, <1>11 DEF b

\* Steps that accept no command: time only moves forward.
LEMMA CommandsKept ==
  ASSUME TypeOK, TypeOK', CommandsInv, now' >= now, UNCHANGED <<windows, accepted>>
  PROVE  CommandsInv'
<1> SUFFICES ASSUME NEW cl \in Clients
             PROVE  CommandsOK(accepted[cl], windows[cl])' /\ TwiceTheLimit(accepted[cl])'
  BY DEF CommandsInv
<1>1. CommandsOK(accepted[cl], windows[cl]) /\ TwiceTheLimit(accepted[cl])
  BY DEF CommandsInv
<1>2. /\ now \in Int /\ now' \in Int /\ accepted[cl] \in Seq(Int)
      /\ windows[cl] # NoWindow => windows[cl].start \in Int
  BY DEF TypeOK, Time, CommandWindow
<1>3. TwiceTheLimit(accepted[cl])'
  BY <1>1 DEF TwiceTheLimit
<1>4. \A i \in 1..Len(accepted[cl]) : accepted[cl][i] \in Int
  BY <1>2
<1>5. CommandsOK(accepted[cl], windows[cl])'
  BY <1>1, <1>2, <1>4 DEF CommandsOK
<1> QED
  BY <1>3, <1>5

\* An accepted command, by the case of the window it falls in.
LEMMA CommandsAllow ==
  ASSUME TypeOK, TypeOK', CommandsInv, NEW d \in Clients, AllowClientCommand(d)
  PROVE  CommandsInv'
<1>1. now' = now
  BY DEF AllowClientCommand
<1>2. CASE UNCHANGED <<windows, accepted>>
  BY <1>1, <1>2, CommandsKept DEF TypeOK, Time
<1>3. ASSUME NEW w \in CommandWindow, w = CurrentWindow(d), w.count < Limit,
             windows' = [windows EXCEPT ![d] = [w EXCEPT !.count = @ + 1]],
             accepted' = [accepted EXCEPT ![d] = Append(@, now)]
      PROVE  CommandsInv'
  <2> DEFINE v == [w EXCEPT !.count = @ + 1]
  <2>1. v.start = w.start /\ v.count = w.count + 1
    BY CountedCommand
  <2>2. windows'[d] = v /\ accepted'[d] = Append(accepted[d], now)
    BY <1>3 DEF TypeOK
  <2>3. \A cl \in Clients \ {d} : windows'[cl] = windows[cl] /\ accepted'[cl] = accepted[cl]
    BY <1>3 DEF TypeOK
  <2>4. v \in CommandWindow
    BY <1>3, LimitAssumption DEF CommandWindow
  <2>5. /\ accepted[d] \in Seq(Int) /\ windows[d] \in CommandWindow \cup {NoWindow}
        /\ CommandsOK(accepted[d], windows[d]) /\ TwiceTheLimit(accepted[d])
    BY DEF TypeOK, Time, CommandsInv
  <2>6. \/ /\ windows[d] # NoWindow /\ v.start = windows[d].start
           /\ v.count = windows[d].count + 1 /\ now - windows[d].start < Window
        \/ /\ v.start = now /\ v.count = 1
           /\ windows[d] # NoWindow => now - windows[d].start >= Window
    BY <1>3, <2>1, CurrentWindowEffect
  <2> HIDE DEF v
  <2>7. CommandsOK(Append(accepted[d], now), v) /\ TwiceTheLimit(Append(accepted[d], now))
    BY <2>4, <2>5, <2>6, AppendCommand
  <2>8. CommandsOK(accepted[d], windows[d])' /\ TwiceTheLimit(accepted[d])'
    BY <1>1, <2>2, <2>7 DEF CommandsOK, TwiceTheLimit
  <2>9. \A cl \in Clients \ {d} :
          CommandsOK(accepted[cl], windows[cl])' /\ TwiceTheLimit(accepted[cl])'
    BY <1>1, <2>3 DEF CommandsInv, CommandsOK, TwiceTheLimit
  <2> QED
    BY <2>8, <2>9 DEF CommandsInv
<1> QED
  BY <1>2, <1>3, AllowEffect

\* The cleanup forgets a client's window and commands together.
LEMMA CommandsPrune ==
  ASSUME TypeOK, CommandsInv, PruneWindows
  PROVE  CommandsInv'
<1> SUFFICES ASSUME NEW cl \in Clients
             PROVE  CommandsOK(accepted[cl], windows[cl])' /\ TwiceTheLimit(accepted[cl])'
  BY DEF CommandsInv
<1>1. now' = now
  BY DEF PruneWindows
<1>2. CASE cl \in valid
  <2>1. windows'[cl] = windows[cl] /\ accepted'[cl] = accepted[cl]
    BY <1>2 DEF PruneWindows
  <2> QED
    BY <1>1, <2>1 DEF CommandsInv, CommandsOK, TwiceTheLimit
<1>3. CASE cl \notin valid
  <2>1. windows'[cl] = NoWindow /\ accepted'[cl] = <<>>
    BY <1>3 DEF PruneWindows
  <2> QED
    BY <2>1 DEF CommandsOK, TwiceTheLimit
<1> QED
  BY <1>2, <1>3

\* Every step keeps the invariant of the commands.
LEMMA CommandsStep == TypeOK /\ CommandsInv /\ [Next]_vars => CommandsInv'
<1> SUFFICES ASSUME TypeOK, CommandsInv, [Next]_vars PROVE CommandsInv'
  OBVIOUS
<1>1. TypeOK'
  BY TypeStep
<1>2. CASE /\ ~PruneWindows
           /\ \A cl \in Clients : ~AllowClientCommand(cl)
  <2>1. UNCHANGED <<windows, accepted>>
    BY <1>2 DEF Next, vars, limitVars, PulseTyping, PulseAnswered, ToggleRegistered,
       ToggleReachable, ToggleDue, ToggleConnected, SetClient, BufferEvent, ScheduledWakes,
       CleanupRead, PruneWakes, Tick
  <2> QED
    BY <1>1, <2>1, TimeStep, CommandsKept DEF TypeOK, Time
<1> QED
  BY <1>1, <1>2, CommandsAllow, CommandsPrune

\* allow_client_command lets at most two limits of commands through in any
\* span as long as its window, for every limit and window.
THEOREM CommandsLimited == Spec => []AtMostTwiceTheLimit
<1>1. Init => CommandsInv
  <2> SUFFICES ASSUME Init, NEW cl \in Clients
               PROVE  CommandsOK(accepted[cl], windows[cl]) /\ TwiceTheLimit(accepted[cl])
    BY DEF CommandsInv
  <2>1. windows[cl] = NoWindow /\ accepted[cl] = <<>>
    BY DEF Init
  <2> QED
    BY <2>1 DEF CommandsOK, TwiceTheLimit
<1>2. CommandsInv => AtMostTwiceTheLimit
  BY DEF CommandsInv, TwiceTheLimit, AtMostTwiceTheLimit
<1> QED
  BY <1>1, <1>2, CommandsStep, TypeCorrect, PTL DEF Spec

-----------------------------------------------------------------------------
(* Wake-ups *)

\* should_wake_client for one of several clients: an attempt is made now and,
\* if the client can be reached, sent, or the last attempt is within the cooldown.
LEMMA WakeEffect ==
  ASSUME TypeOK, WakesInv, NEW cls, WakeClients(cls), NEW cl \in Clients
  PROVE  /\ \/ wakes'[cl] = wakes[cl] /\ posted'[cl] = posted[cl]
            \/ /\ wakes'[cl] = now
               /\ posted'[cl] = IF cl \in reachable THEN now ELSE posted[cl]
               /\ wakes[cl] # None => now - wakes[cl] >= Cooldown
         /\ cl \in cls => wakes'[cl] # None /\ wakes'[cl] > now - Cooldown
<1>1. /\ now \in Int /\ Cooldown \in Nat /\ Cooldown > 0 /\ None \notin Int
      /\ wakes[cl] # None => wakes[cl] \in Int
  BY LimitAssumption DEF TypeOK, MaybeTime, Time
<1>2. CASE cl \in cls /\ ShouldWake(cl)
  <2>1. wakes'[cl] = now /\ posted'[cl] = IF cl \in reachable THEN now ELSE posted[cl]
    BY <1>2 DEF WakeClients, AttemptsOf
  <2>2. wakes[cl] # None => now - wakes[cl] >= Cooldown
    BY <1>2 DEF ShouldWake
  <2> QED
    BY <1>1, <2>1, <2>2
<1>3. CASE ~(cl \in cls /\ ShouldWake(cl))
  <2>1. wakes'[cl] = wakes[cl] /\ posted'[cl] = posted[cl]
    BY <1>3 DEF WakeClients, AttemptsOf
  <2>2. cl \in cls => wakes[cl] # None /\ wakes[cl] > now - Cooldown
    BY <1>1, <1>3 DEF ShouldWake
  <2> QED
    BY <2>1, <2>2
<1> QED
  BY <1>2, <1>3

\* Every step keeps the record of attempts.
LEMMA WakesStep == TypeOK /\ WakesInv /\ [Next]_vars => WakesInv'
<1> SUFFICES ASSUME TypeOK, WakesInv, [Next]_vars, NEW cl \in Clients
             PROVE  /\ wakes'[cl] # None => wakes'[cl] <= now'
                    /\ posted'[cl] # None => wakes'[cl] # None /\ posted'[cl] <= wakes'[cl]
  BY DEF WakesInv
<1>1. /\ now \in Int /\ now' \in Int /\ now' >= now /\ None \notin Int
      /\ wakes[cl] # None => wakes[cl] \in Int /\ wakes[cl] <= now
      /\ posted[cl] # None => posted[cl] \in Int /\ wakes[cl] # None /\ posted[cl] <= wakes[cl]
  BY TimeStep, LimitAssumption DEF TypeOK, MaybeTime, Time, WakesInv
<1>2. CASE UNCHANGED <<wakes, posted>>
  BY <1>1, <1>2
<1>3. ASSUME NEW cls, WakeClients(cls)
      PROVE  /\ wakes'[cl] # None => wakes'[cl] <= now'
             /\ posted'[cl] # None => wakes'[cl] # None /\ posted'[cl] <= wakes'[cl]
  BY <1>1, <1>3, WakeEffect
<1>4. CASE PruneWakes
  <2>1. \/ wakes'[cl] = wakes[cl] /\ posted'[cl] = posted[cl]
        \/ wakes'[cl] = None /\ posted'[cl] = None
    BY <1>4 DEF PruneWakes
  <2> QED
    BY <1>1, <2>1
<1>5. CASE (\E cls, message : BufferEvent(cls, message)) \/ ScheduledWakes
  BY <1>3, <1>5 DEF BufferEvent, ScheduledWakes
<1>6. CASE ~PruneWakes /\ ~ScheduledWakes /\ ~\E cls, message : BufferEvent(cls, message)
  <2>1. UNCHANGED <<wakes, posted>>
    BY <1>6 DEF Next, vars, wakeVars, AllowClientCommand, PulseTyping, PulseAnswered,
       ToggleRegistered, ToggleReachable, ToggleDue, ToggleConnected, SetClient,
       CleanupRead, PruneWindows, Tick
  <2> QED
    BY <1>2, <2>1
<1> QED
  BY <1>4, <1>5, <1>6

\* Attempts are recorded in every behaviour.
LEMMA WakesRecorded == Spec => []WakesInv
<1>1. Init => WakesInv
  BY DEF Init, WakesInv
<1> QED
  BY <1>1, WakesStep, TypeCorrect, PTL DEF Spec

\* A step that sends a wake-up comes a cooldown after the last one.
LEMMA SpacedStep ==
  ASSUME TypeOK, WakesInv, [Next]_vars, NEW cl \in Clients,
         posted[cl] # None, posted'[cl] \notin {None, posted[cl]}
  PROVE  posted'[cl] - posted[cl] >= Cooldown
<1>1. /\ now \in Int /\ Cooldown \in Int /\ posted[cl] \in Int /\ wakes[cl] \in Int
      /\ wakes[cl] # None /\ posted[cl] <= wakes[cl]
  BY LimitAssumption DEF TypeOK, MaybeTime, Time, WakesInv
<1>2. ASSUME NEW cls, WakeClients(cls)
      PROVE  posted'[cl] - posted[cl] >= Cooldown
  <2>1. posted'[cl] = now /\ now - wakes[cl] >= Cooldown
    BY <1>1, <1>2, WakeEffect
  <2> QED
    BY <1>1, <2>1
<1>3. CASE (\E cls, message : BufferEvent(cls, message)) \/ ScheduledWakes
  BY <1>2, <1>3 DEF BufferEvent, ScheduledWakes
<1>4. CASE ~ScheduledWakes /\ ~\E cls, message : BufferEvent(cls, message)
  <2>1. posted' = posted \/ PruneWakes
    BY <1>4 DEF Next, vars, wakeVars, AllowClientCommand, PulseTyping, PulseAnswered,
       ToggleRegistered, ToggleReachable, ToggleDue, ToggleConnected, SetClient,
       CleanupRead, PruneWindows, Tick
  <2> QED
    BY <2>1 DEF PruneWakes
<1> QED
  BY <1>3, <1>4

\* However dispatchers and the scheduled-wake task share should_wake_client, a
\* client gets no two wake-ups within the cooldown.
THEOREM WakesSpaced == Spec => WakesAreSpaced
<1>1. TypeOK /\ WakesInv /\ [Next]_vars
        => [\A cl \in Clients :
              posted[cl] # None /\ posted'[cl] \notin {None, posted[cl]} =>
                  posted'[cl] - posted[cl] >= Cooldown]_vars
  BY SpacedStep
<1> QED
  BY <1>1, TypeCorrect, WakesRecorded, PTL DEF Spec, WakesAreSpaced

-----------------------------------------------------------------------------
(* A due client is woken *)

\* The clock never passes the next poll.
LEMMA PollStep == TypeOK /\ PollInv /\ [Next]_vars => PollInv'
<1> SUFFICES ASSUME TypeOK, PollInv, [Next]_vars PROVE PollInv'
  OBVIOUS
<1>1. now \in Int /\ nextPoll \in Int /\ Poll \in Nat
  BY LimitAssumption DEF TypeOK, Time
<1>2. CASE Tick
  BY <1>1, <1>2 DEF Tick, PollInv
<1>3. CASE ScheduledWakes
  BY <1>1, <1>3 DEF ScheduledWakes, PollInv
<1>4. CASE ~Tick /\ ~ScheduledWakes
  <2>1. UNCHANGED <<now, nextPoll>>
    BY <1>4 DEF Next, vars, AllowClientCommand, PulseTyping, PulseAnswered, ToggleRegistered,
       ToggleReachable, ToggleDue, ToggleConnected, SetClient, BufferEvent, CleanupRead,
       PruneWakes, PruneWindows
  <2> QED
    BY <2>1 DEF PollInv
<1> QED
  BY <1>2, <1>3, <1>4

\* The bound on polls holds in every behaviour.
LEMMA PollBounded == Spec => []PollInv
<1>1. Init => PollInv
  BY LimitAssumption DEF Init, PollInv
<1> QED
  BY <1>1, PollStep, TypeCorrect, PTL DEF Spec

\* A wake-up round of the dispatchers or of the scheduled-wake task.
LEMMA SleepWake ==
  ASSUME TypeOK, WakesInv, PollInv, NEW cl \in Clients, SleepOK(cl), NEW cls, WakeClients(cls),
         UNCHANGED <<now, clientVars, cleanupVars>>,
         \/ nextPoll' = nextPoll
         \/ /\ nextPoll' = now + Poll
            /\ cls = (registered \cap due) \ connected
  PROVE  SleepOK(cl)'
<1> SUFFICES ASSUME asleep[cl] # None
             PROVE  /\ asleep[cl] < nextPoll' - Poll =>
                         wakes'[cl] # None /\ wakes'[cl] > nextPoll' - Poll - Cooldown
                    /\ wakes'[cl] # None /\ wakes'[cl] > asleep[cl] => posted'[cl] = wakes'[cl]
  BY DEF SleepOK, clientVars, cleanupVars
<1>1. /\ now \in Int /\ nextPoll \in Int /\ Poll \in Nat /\ Cooldown \in Nat /\ Cooldown > 0
      /\ None \notin Int /\ asleep[cl] \in Int
      /\ wakes[cl] # None => wakes[cl] \in Int /\ wakes[cl] <= now
  BY LimitAssumption DEF TypeOK, MaybeTime, Time, WakesInv
<1>2. cl \in (registered \cap reachable \cap due) \ connected
  BY DEF SleepOK
<1>3. /\ \/ wakes'[cl] = wakes[cl] /\ posted'[cl] = posted[cl]
         \/ wakes'[cl] = now /\ posted'[cl] = now
      /\ cl \in cls => wakes'[cl] # None /\ wakes'[cl] > now - Cooldown
  BY <1>2, WakeEffect
<1>4. wakes'[cl] # None /\ wakes'[cl] > asleep[cl] => posted'[cl] = wakes'[cl]
  BY <1>3 DEF SleepOK
<1>5. CASE nextPoll' = nextPoll
  <2>1. nextPoll - Poll <= now
    BY <1>1 DEF PollInv
  <2>2. asleep[cl] < nextPoll - Poll =>
          wakes[cl] # None /\ wakes[cl] > nextPoll - Poll - Cooldown
    BY DEF SleepOK
  <2> QED
    BY <1>1, <1>3, <1>4, <1>5, <2>1, <2>2
<1>6. CASE nextPoll' = now + Poll /\ cls = (registered \cap due) \ connected
  BY <1>1, <1>2, <1>3, <1>4, <1>6
<1> QED
  BY <1>5, <1>6

\* A client falls asleep now, goes on sleeping, or is awake.
LEMMA SleepClient ==
  ASSUME TypeOK, WakesInv, PollInv, NEW cl \in Clients, SleepOK(cl),
         NEW reg, NEW reach, NEW d, NEW conn, SetClient(reg, reach, d, conn)
  PROVE  SleepOK(cl)'
<1>1. /\ now \in Int /\ nextPoll \in Int /\ Poll \in Nat /\ None \notin Int
      /\ wakes[cl] # None => wakes[cl] \in Int /\ wakes[cl] <= now
      /\ nextPoll - Poll <= now
  BY LimitAssumption DEF TypeOK, MaybeTime, Time, WakesInv, PollInv
<1>2. UNCHANGED <<now, wakes, posted, nextPoll, cleanup, valid>>
  BY DEF SetClient, wakeVars, cleanupVars
<1>3. /\ asleep'[cl] # None => cl \in ((registered \cap reachable \cap due) \ connected)'
      /\ asleep'[cl] \in {None, now, asleep[cl]}
  BY DEF SetClient
<1>4. CASE asleep'[cl] = None
  BY <1>4 DEF SleepOK
<1>5. CASE asleep'[cl] = now
  BY <1>1, <1>2, <1>3, <1>5 DEF SleepOK
<1>6. CASE asleep'[cl] = asleep[cl] /\ asleep[cl] # None
  BY <1>2, <1>3, <1>6 DEF SleepOK
<1> QED
  BY <1>3, <1>4, <1>5, <1>6

\* The cleanup prunes the attempts of no client that slept through a poll.
LEMMA SleepCleanup ==
  ASSUME TypeOK, PollInv, NEW cl \in Clients, SleepOK(cl),
         CleanupRead \/ PruneWakes \/ PruneWindows
  PROVE  SleepOK(cl)'
<1>1. UNCHANGED <<now, registered, reachable, due, connected, asleep, nextPoll>>
  BY DEF CleanupRead, PruneWakes, PruneWindows, clientVars
<1>2. CASE CleanupRead
  <2>1. UNCHANGED <<wakes, posted>> /\ valid' = registered
    BY <1>2 DEF CleanupRead, wakeVars
  <2> QED
    BY <1>1, <2>1 DEF SleepOK
<1>3. CASE PruneWakes
  <2>1. cleanup = "wakes" /\ valid' = valid
    BY <1>3 DEF PruneWakes
  <2>2. CASE cl \in valid
    <3>1. wakes'[cl] = wakes[cl] /\ posted'[cl] = posted[cl]
      BY <1>3, <2>2 DEF PruneWakes
    <3> QED
      BY <1>1, <2>1, <2>2, <3>1 DEF SleepOK
  <2>3. CASE cl \notin valid
    <3>1. wakes'[cl] = None
      BY <1>3, <2>3 DEF PruneWakes
    <3>2. asleep[cl] # None => asleep[cl] = now
      BY <2>1, <2>3 DEF SleepOK
    <3>3. ~(now < nextPoll - Poll)
      BY LimitAssumption DEF PollInv, TypeOK, Time
    <3> QED
      BY <1>1, <2>1, <3>1, <3>2, <3>3 DEF SleepOK
  <2> QED
    BY <2>2, <2>3
<1>4. CASE PruneWindows
  <2>1. UNCHANGED <<wakes, posted>> /\ cleanup' = "idle"
    BY <1>4 DEF PruneWindows, wakeVars
  <2> QED
    BY <1>1, <2>1 DEF SleepOK
<1> QED
  BY <1>2, <1>3, <1>4

\* Every step keeps the invariant of the clients that sleep.
LEMMA SleepStep == TypeOK /\ WakesInv /\ PollInv /\ SleepInv /\ [Next]_vars => SleepInv'
<1> SUFFICES ASSUME TypeOK, WakesInv, PollInv, SleepInv, [Next]_vars, NEW cl \in Clients
             PROVE  SleepOK(cl)'
  BY DEF SleepInv
<1>0. SleepOK(cl)
  BY DEF SleepInv
<1>1. ASSUME NEW cls, NEW message, BufferEvent(cls, message)
      PROVE  SleepOK(cl)'
  <2>1. WakeClients(cls \ connected) /\ nextPoll' = nextPoll
        /\ UNCHANGED <<now, clientVars, cleanupVars>>
    BY <1>1 DEF BufferEvent
  <2> QED
    BY <1>0, <2>1, SleepWake
<1>2. CASE ScheduledWakes
  <2>1. /\ WakeClients((registered \cap due) \ connected) /\ nextPoll' = now + Poll
        /\ UNCHANGED <<now, clientVars, cleanupVars>>
    BY <1>2 DEF ScheduledWakes
  <2> QED
    BY <1>0, <2>1, SleepWake
<1>3. ASSUME NEW d \in Clients,
             \/ ToggleRegistered(d) \/ ToggleReachable(d) \/ ToggleDue(d) \/ ToggleConnected(d)
      PROVE  SleepOK(cl)'
  BY <1>0, <1>3, SleepClient DEF ToggleRegistered, ToggleReachable, ToggleDue, ToggleConnected
<1>4. CASE CleanupRead \/ PruneWakes \/ PruneWindows
  BY <1>0, <1>4, SleepCleanup
<1>5. CASE Tick
  <2>1. /\ UNCHANGED <<registered, reachable, due, connected, asleep, wakes, posted, nextPoll,
                       cleanup, valid>>
        /\ cleanup = "idle" /\ now' = now + 1
    BY <1>5 DEF Tick, clientVars, wakeVars, cleanupVars
  <2>2. now \in Int /\ (asleep[cl] # None => asleep[cl] \in Int)
    BY DEF TypeOK, MaybeTime, Time
  <2> QED
    BY <1>0, <2>1, <2>2 DEF SleepOK
<1>6. ASSUME \/ \E d \in Clients :
                   AllowClientCommand(d) \/ PulseTyping(d) \/ PulseAnswered(d)
             \/ UNCHANGED vars
      PROVE  SleepOK(cl)'
  <2>1. UNCHANGED <<now, clientVars, wakeVars, nextPoll, cleanupVars>>
    BY <1>6 DEF AllowClientCommand, PulseTyping, PulseAnswered, vars
  <2> QED
    BY <1>0, <2>1 DEF SleepOK, clientVars, wakeVars, cleanupVars
<1> QED
  BY <1>1, <1>2, <1>3, <1>4, <1>5, <1>6 DEF Next

\* The invariant leaves a client that is due no longer than a cooldown and a
\* poll without a wake-up.
LEMMA SleepBounds == TypeOK /\ WakesInv /\ PollInv /\ SleepInv => DueClientIsWoken
<1> SUFFICES ASSUME TypeOK, WakesInv, PollInv, SleepInv, NEW cl \in Clients,
                    asleep[cl] # None, now - asleep[cl] > Cooldown + Poll
             PROVE  posted[cl] # None /\ now - posted[cl] <= Cooldown + Poll
  BY DEF DueClientIsWoken
<1>1. /\ now \in Int /\ nextPoll \in Int /\ Poll \in Nat /\ Cooldown \in Nat /\ asleep[cl] \in Int
      /\ now <= nextPoll /\ None \notin Int
      /\ wakes[cl] # None => wakes[cl] \in Int
  BY LimitAssumption DEF TypeOK, MaybeTime, Time, PollInv
<1>2. asleep[cl] < nextPoll - Poll - Cooldown /\ asleep[cl] < nextPoll - Poll
  BY <1>1
<1>3. wakes[cl] # None /\ wakes[cl] > nextPoll - Poll - Cooldown
  BY <1>2 DEF SleepInv, SleepOK
<1>4. wakes[cl] > asleep[cl]
  BY <1>1, <1>2, <1>3
<1>5. posted[cl] = wakes[cl]
  BY <1>3, <1>4 DEF SleepInv, SleepOK
<1> QED
  BY <1>1, <1>3, <1>5

\* A client that is due, reachable and stays away is woken at least once in any
\* cooldown and poll, whatever events use up its cooldown and whenever the
\* cleanup runs.
THEOREM DueClientWoken == Spec => []DueClientIsWoken
<1>1. Init => SleepInv
  BY DEF Init, SleepInv, SleepOK
<1> QED
  BY <1>1, SleepStep, SleepBounds, TypeCorrect, WakesRecorded, PollBounded, PTL DEF Spec

-----------------------------------------------------------------------------
(* Typing *)

\* Every pulse takes its sleep at least: a task that sleeps has let them all pass, one
\* that awaits Discord all but the last, and it started the last before its maximum.
Paced(cl) ==
    LET t == typing[cl]
    IN  t # NoTyping =>
          /\ t.next # None => t.started + t.pulses * Pulse <= t.next
          /\ t.next = None => t.pulses > 0 /\ t.started + (t.pulses - 1) * Pulse <= now
          /\ t.pulses > 0 => (t.pulses - 1) * Pulse < TypingMax

PaceInv == \A cl \in Clients : Paced(cl)

\* A call is started a pulse after the one before, or later, and never after the
\* maximum.
LEMMA PaceStep == TypeOK /\ PaceInv /\ [Next]_vars => PaceInv'
<1> SUFFICES ASSUME TypeOK, PaceInv, [Next]_vars, NEW cl \in Clients PROVE Paced(cl)'
  BY DEF PaceInv
<1> DEFINE t == typing[cl]
           u == typing'[cl]
<1>1. /\ now \in Int /\ Pulse \in Nat /\ TypingMax \in Nat /\ None \notin Int
      /\ t # NoTyping => t \in Typing
      /\ Paced(cl)
  BY LimitAssumption DEF TypeOK, Time, PaceInv
<1>2. t # NoTyping => /\ t.started \in Int /\ t.pulses \in Nat
                      /\ t.next # None => t.next \in Int
  BY <1>1 DEF Typing, MaybeTime, Time
<1>3. \A p \in Nat : p * Pulse \in Nat /\ (p - 1) * Pulse \in Int
                    /\ (p - 1) * Pulse + Pulse = p * Pulse
  BY <1>1
<1>4. CASE u = t
  <2>1. now' \in Int /\ now' >= now
    BY <1>1, TimeStep
  <2>2. t # NoTyping => (t.pulses - 1) * Pulse \in Int
    BY <1>2, <1>3
  <2> QED
    BY <1>1, <1>2, <1>4, <2>1, <2>2 DEF Paced
<1>5. CASE PulseTyping(cl)
  <2> DEFINE called == [t EXCEPT !.next = None, !.pulses = t.pulses + 1]
  <2>1. /\ now' = now /\ t # NoTyping /\ t.next = now
        /\ u = NoTyping \/ (~TypingEnds(cl) /\ u = called)
    <3>1. typing' = [typing EXCEPT ![cl] = IF TypingEnds(cl) THEN NoTyping ELSE called]
      BY <1>5 DEF PulseTyping
    <3> HIDE DEF called
    <3> QED
      BY <1>5, <3>1 DEF PulseTyping, TypeOK
  <2>2. CASE ~TypingEnds(cl) /\ u = called
    <3>1. u.next = None /\ u.pulses = t.pulses + 1 /\ u.started = t.started
      BY <1>1, <2>1, <2>2 DEF Typing
    <3>2. now - t.started < TypingMax
      BY <1>1, <1>2, <2>1, <2>2 DEF TypingEnds
    <3>3. t.started + t.pulses * Pulse <= now /\ t.pulses * Pulse \in Nat
      BY <1>1, <1>2, <1>3, <2>1 DEF Paced
    <3>4. u.pulses > 0 /\ u.pulses - 1 = t.pulses
      BY <1>2, <2>1, <3>1
    <3>5. t.pulses * Pulse < TypingMax
      BY <1>1, <1>2, <2>1, <3>2, <3>3
    <3> QED
      BY <2>1, <3>1, <3>3, <3>4, <3>5 DEF Paced
  <2> QED
    BY <2>1, <2>2 DEF Paced
<1>6. CASE PulseAnswered(cl)
  <2>1. /\ now' = now /\ t # NoTyping /\ t.next = None /\ u = [t EXCEPT !.next = now + Pulse]
    BY <1>6 DEF PulseAnswered, TypeOK
  <2>2. u.next = now + Pulse /\ u.pulses = t.pulses /\ u.started = t.started
    BY <1>1, <2>1 DEF Typing
  <2>3. t.pulses > 0 /\ t.started + (t.pulses - 1) * Pulse <= now
        /\ (t.pulses - 1) * Pulse < TypingMax
    BY <1>1, <2>1 DEF Paced
  <2>4. t.started + t.pulses * Pulse <= now + Pulse
    BY <1>1, <1>2, <1>3, <2>1, <2>3
  <2>5. now + Pulse # None
    BY <1>1
  <2> QED
    BY <2>2, <2>3, <2>4, <2>5 DEF Paced
<1>7. ASSUME NEW cls, NEW message, BufferEvent(cls, message)
      PROVE  u = t \/ Paced(cl)'
  <2>1. now' = now /\ (u = t \/ u = [started |-> now, next |-> now, pulses |-> 0])
    BY <1>7 DEF BufferEvent
  <2>2. ASSUME u = [started |-> now, next |-> now, pulses |-> 0]
        PROVE  Paced(cl)'
    <3>1. u.next = now /\ u.started = now /\ u.pulses = 0
      BY <2>2
    <3>2. 0 * Pulse = 0
      BY <1>1
    <3> QED
      BY <1>1, <2>1, <3>1, <3>2 DEF Paced
  <2> QED
    BY <2>1, <2>2
<1>8. CASE ~PulseTyping(cl) /\ ~PulseAnswered(cl) /\ ~\E cls, message : BufferEvent(cls, message)
  <2>1. u = t
    BY <1>8 DEF Next, vars, AllowClientCommand, PulseTyping, PulseAnswered, ToggleRegistered,
       ToggleReachable, ToggleDue, ToggleConnected, SetClient, ScheduledWakes, CleanupRead,
       PruneWakes, PruneWindows, Tick, TypeOK
  <2> QED
    BY <1>4, <2>1
<1> QED
  BY <1>4, <1>5, <1>6, <1>7, <1>8

\* A typing task that never meets its client connected asks for no more indicators than
\* fit into TYPING_MAX, whatever Discord does.
THEOREM TypingEnded == Spec => []PulsesAreBounded
<1>1. Init => PaceInv
  BY DEF Init, PaceInv, Paced
<1>2. TypeOK /\ PaceInv => PulsesAreBounded
  BY DEF TypeOK, PaceInv, Paced, PulsesAreBounded, NoTyping
<1> QED
  BY <1>1, <1>2, PaceStep, TypeCorrect, PTL DEF Spec
=============================================================================
