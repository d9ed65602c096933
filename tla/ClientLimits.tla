---------------------------- MODULE ClientLimits ----------------------------
(***************************************************************************)
(* What the proxy limits in time for every client: the commands it may send *)
(* upstream (state.rs, allow_client_command), the wake-ups it gets while it *)
(* is away (should_wake_client, asked by the dispatchers and by the         *)
(* scheduled-wake task of wake.rs), and the typing indicator shown          *)
(* meanwhile.  The cleanup task of main.rs prunes the state of clients that *)
(* left the registry, in three steps.                                       *)
(*                                                                          *)
(* now is the monotonic clock.  Timers are on time: the clock does not pass *)
(* a timer that has not run.  Discord answers after any time, or never.  A  *)
(* limit reads the clock and takes its lock in one step: no thread is held  *)
(* up between the two as long as a window.                                  *)
(***************************************************************************)
EXTENDS Integers, Sequences

CONSTANTS
    Clients,
    Limit,      \* CLIENT_COMMAND_LIMIT
    Window,     \* CLIENT_COMMAND_WINDOW
    Cooldown,   \* WAKE_COOLDOWN
    Poll,       \* TASK_WAKE_POLL
    Pulse,      \* TYPING_PULSE
    TypingMax,  \* TYPING_MAX
    MaxTime,    \* bound: the clock
    None        \* Option::None

ASSUME LimitAssumption ==
    /\ Limit \in Nat \ {0}
    /\ Window \in Nat \ {0}
    /\ Cooldown \in Nat \ {0}
    /\ Poll \in Nat \ {0}
    /\ Pulse \in Nat \ {0}
    /\ TypingMax \in Nat
    /\ MaxTime \in Nat
    /\ None \notin Int

VARIABLES
    now,
    registered, \* CLIENTS
    reachable,  \* the clients with a reachable_url
    due,        \* the clients whose next_wake_at is less than TASK_WAKE_LEAD ahead
    connected,  \* is_client_connected
    windows,    \* client_command_windows
    wakes,      \* last_wake_attempts
    nextPoll,   \* the next tick of the scheduled-wake task
    typing,     \* a typing task for the client
    cleanup,    \* the step of the cleanup task
    valid,      \* its valid_ids
    \* history
    accepted,   \* when a client's commands were accepted, since its window was pruned
    posted,     \* when a client was last sent a wake-up, since its entry was pruned
    asleep      \* since when a client is registered, away, reachable and due

limitVars == <<windows, accepted>>
wakeVars == <<wakes, posted>>
cleanupVars == <<cleanup, valid>>
clientVars == <<registered, reachable, due, connected, asleep>>
vars == <<now, clientVars, limitVars, wakeVars, nextPoll, typing, cleanupVars>>

-----------------------------------------------------------------------------
(* Types *)

Time == Int
MaybeTime == Time \cup {None}

CommandWindow == [start : Time, count : 0..Limit]
NoWindow == [start |-> None, count |-> 0]

\* A typing task: when it started, when it wakes from its sleep (None while it awaits
\* Discord), and how many indicators it has asked for.
Typing == [started : Time, next : MaybeTime, pulses : Nat]
NoTyping == [started |-> None, next |-> None, pulses |-> 0]

-----------------------------------------------------------------------------
(* The command limit *)

\* Mutant: a window that is over gets a new count and keeps its start.
CurrentWindowKeepsStart(cl) ==
    IF windows[cl].start = None THEN [start |-> now, count |-> 0]
    ELSE IF now - windows[cl].start >= Window THEN [windows[cl] EXCEPT !.count = 0]
    ELSE windows[cl]

\* The window a command falls in: a new one if there is none, or it is over.
CurrentWindow(cl) ==
    IF windows[cl].start = None \/ now - windows[cl].start >= Window
    THEN [start |-> now, count |-> 0] ELSE windows[cl]

\* Mutant: one command too many.
AllowsOneMore(w) == w.count <= Limit

Allows(w) == w.count < Limit

\* A command of a connected client that passed the filter, and so is of a
\* registered client (handle_client, allow_client_command).
AllowClientCommand(cl) ==
    LET w == CurrentWindow(cl)
    IN  /\ cl \in connected \cap registered
        /\ \/ /\ ~Allows(w)
              /\ windows' = [windows EXCEPT ![cl] = w]
              /\ UNCHANGED accepted
           \/ /\ Allows(w)
              /\ windows' = [windows EXCEPT ![cl] = [w EXCEPT !.count = @ + 1]]
              /\ accepted' = [accepted EXCEPT ![cl] = Append(@, now)]
        /\ UNCHANGED <<now, clientVars, wakeVars, nextPoll, typing, cleanupVars>>

-----------------------------------------------------------------------------
(* Wake-ups *)

\* Mutant: the cooldown is not looked at.
ShouldWakeAlways(cl) == TRUE

\* should_wake_client, what it answers
ShouldWake(cl) == wakes[cl] = None \/ now - wakes[cl] >= Cooldown

\* Mutant: an attempt that is refused moves the cooldown.
AttemptsOfAll(cls) == cls

\* The clients whose attempt is recorded.
AttemptsOf(cls) == {cl \in cls : ShouldWake(cl)}

\* should_wake_client for some clients, and the POST to those with a URL.
WakeClients(cls) ==
    /\ wakes' = [cl \in Clients |-> IF cl \in AttemptsOf(cls) THEN now ELSE wakes[cl]]
    /\ posted' = [cl \in Clients |->
                    IF cl \in cls \cap reachable /\ ShouldWake(cl) THEN now ELSE posted[cl]]

\* A dispatcher buffers an event of a guild these clients have, and for a
\* message it starts typing for those that can be reached.  Typing tasks do not
\* see each other: one of a client's is followed at a time.
BufferEvent(cls, message) ==
    LET away == cls \ connected
    IN  /\ WakeClients(away)
        /\ typing' = [cl \in Clients |->
                        IF message /\ cl \in away \cap reachable /\ typing[cl] = NoTyping
                        THEN [started |-> now, next |-> now, pulses |-> 0] ELSE typing[cl]]
        /\ UNCHANGED <<now, clientVars, limitVars, nextPoll, cleanupVars>>

\* A tick of the scheduled-wake task.
ScheduledWakes ==
    /\ now = nextPoll
    /\ WakeClients((registered \cap due) \ connected)
    /\ nextPoll' = now + Poll
    /\ UNCHANGED <<now, clientVars, limitVars, typing, cleanupVars>>

\* Mutant: only a connect ends the typing.
TypingEndsConnected(cl) == cl \in connected

\* The checks at the top of the loop of spawn_wake_typing.
TypingEnds(cl) == cl \in connected \/ now - typing[cl].started >= TypingMax

\* A typing task wakes up: it ends, or calls create_typing_trigger.
PulseTyping(cl) ==
    /\ typing[cl] # NoTyping
    /\ typing[cl].next = now
    /\ typing' = [typing EXCEPT ![cl] =
                    IF TypingEnds(cl) THEN NoTyping
                    ELSE [@ EXCEPT !.next = None, !.pulses = typing[cl].pulses + 1]]
    /\ UNCHANGED <<now, clientVars, limitVars, wakeVars, nextPoll, cleanupVars>>

\* The call succeeded or failed; the task sleeps.
PulseAnswered(cl) ==
    /\ typing[cl] # NoTyping
    /\ typing[cl].next = None
    /\ typing' = [typing EXCEPT ![cl].next = now + Pulse]
    /\ UNCHANGED <<now, clientVars, limitVars, wakeVars, nextPoll, cleanupVars>>

-----------------------------------------------------------------------------
(* The cleanup task *)

CleanupRead ==
    /\ cleanup = "idle"
    /\ valid' = registered
    /\ cleanup' = "wakes"
    /\ UNCHANGED <<now, clientVars, limitVars, wakeVars, nextPoll, typing>>

\* prune_stale_client_state; its offline buffers are in EventDelivery.
PruneWakes ==
    /\ cleanup = "wakes"
    /\ wakes' = [cl \in Clients |-> IF cl \in valid THEN wakes[cl] ELSE None]
    /\ posted' = [cl \in Clients |-> IF cl \in valid THEN posted[cl] ELSE None]
    /\ cleanup' = "windows"
    /\ UNCHANGED <<now, clientVars, limitVars, nextPoll, typing, valid>>

PruneWindows ==
    /\ cleanup = "windows"
    /\ windows' = [cl \in Clients |-> IF cl \in valid THEN windows[cl] ELSE NoWindow]
    /\ accepted' = [cl \in Clients |-> IF cl \in valid THEN accepted[cl] ELSE <<>>]
    /\ cleanup' = "idle"
    /\ valid' = {}
    /\ UNCHANGED <<now, clientVars, wakeVars, nextPoll, typing>>

-----------------------------------------------------------------------------
(* Clients, the registry (external) and time *)

SetClient(reg, reach, d, conn) ==
    /\ registered' = reg
    /\ reachable' = reach
    /\ due' = d
    /\ connected' = conn
    /\ asleep' = [cl \in Clients |->
                    IF cl \notin (reg \cap reach \cap d) \ conn THEN None
                    ELSE IF asleep[cl] = None THEN now ELSE asleep[cl]]
    /\ UNCHANGED <<now, limitVars, wakeVars, nextPoll, typing, cleanupVars>>

Toggled(set, cl) == IF cl \in set THEN set \ {cl} ELSE set \cup {cl}

\* The registry sync adds or removes a client, sets its URL, or its next wake.
ToggleRegistered(cl) == SetClient(Toggled(registered, cl), reachable, due, connected)
ToggleReachable(cl) == SetClient(registered, Toggled(reachable, cl), due, connected)
ToggleDue(cl) == SetClient(registered, reachable, Toggled(due, cl), connected)
ToggleConnected(cl) == SetClient(registered, reachable, due, Toggled(connected, cl))

\* The clock passes no timer, and a cleanup takes no time.
Tick ==
    /\ now < MaxTime
    /\ now < nextPoll
    /\ \A cl \in Clients : typing[cl].next # None => now < typing[cl].next
    /\ cleanup = "idle"
    /\ now' = now + 1
    /\ UNCHANGED <<clientVars, limitVars, wakeVars, nextPoll, typing, cleanupVars>>

-----------------------------------------------------------------------------
(* The specification *)

Init ==
    /\ now = 0
    /\ registered = Clients
    /\ reachable = {}
    /\ due = {}
    /\ connected = {}
    /\ windows = [cl \in Clients |-> NoWindow]
    /\ wakes = [cl \in Clients |-> None]
    /\ nextPoll = Poll
    /\ typing = [cl \in Clients |-> NoTyping]
    /\ cleanup = "idle"
    /\ valid = {}
    /\ accepted = [cl \in Clients |-> <<>>]
    /\ posted = [cl \in Clients |-> None]
    /\ asleep = [cl \in Clients |-> None]

Next ==
    \/ \E cl \in Clients :
         \/ AllowClientCommand(cl)
         \/ PulseTyping(cl)
         \/ PulseAnswered(cl)
         \/ ToggleRegistered(cl)
         \/ ToggleReachable(cl)
         \/ ToggleDue(cl)
         \/ ToggleConnected(cl)
    \/ \E cls \in SUBSET registered, message \in BOOLEAN : BufferEvent(cls, message)
    \/ ScheduledWakes
    \/ CleanupRead
    \/ PruneWakes
    \/ PruneWindows
    \/ Tick

Spec == Init /\ [][Next]_vars

-----------------------------------------------------------------------------
(* Properties *)

\* Every variable has its type: no window counts more than its limit.
TypeOK ==
    /\ now \in Time
    /\ nextPoll \in Time
    /\ registered \subseteq Clients
    /\ reachable \subseteq Clients
    /\ due \subseteq Clients
    /\ connected \subseteq Clients
    /\ windows \in [Clients -> CommandWindow \cup {NoWindow}]
    /\ wakes \in [Clients -> MaybeTime]
    /\ typing \in [Clients -> Typing \cup {NoTyping}]
    /\ cleanup \in {"idle", "wakes", "windows"}
    /\ valid \subseteq Clients
    /\ accepted \in [Clients -> Seq(Time)]
    /\ posted \in [Clients -> MaybeTime]
    /\ asleep \in [Clients -> MaybeTime]

\* The fixed window lets at most two limits of commands through in any span as long as
\* the window, around its end too: 2 * Limit commands later, a window has passed
\* (allow_client_command).
AtMostTwiceTheLimit ==
    \A cl \in Clients : \A i \in 1..Len(accepted[cl]) :
        i + 2 * Limit <= Len(accepted[cl]) =>
            accepted[cl][i + 2 * Limit] - accepted[cl][i] >= Window

\* Dispatchers and the scheduled-wake task together send a client no two wake-ups
\* within the cooldown, unless its entry was pruned in between (should_wake_client).
WakesAreSpaced ==
    [][\A cl \in Clients :
         posted[cl] # None /\ posted'[cl] \notin {None, posted[cl]} =>
             posted'[cl] - posted[cl] >= Cooldown]_vars

\* A client that is due, reachable and stays away is woken again and again: however
\* many events use up its cooldown, never more than a cooldown and a poll go by without a
\* wake-up (spawn_scheduled_wakes).
DueClientIsWoken ==
    \A cl \in Clients :
        asleep[cl] # None /\ now - asleep[cl] > Cooldown + Poll =>
            posted[cl] # None /\ now - posted[cl] <= Cooldown + Poll

\* However long Discord takes to answer a call, a typing task asks for no more
\* indicators than fit into its maximum a pulse apart (spawn_wake_typing).
PulsesAreBounded ==
    \A cl \in Clients :
        typing[cl].pulses > 0 => (typing[cl].pulses - 1) * Pulse < TypingMax
=============================================================================
