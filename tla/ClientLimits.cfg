CONSTANTS
    a = a
    None = None
    Clients <- OneClient
    Limit = 2
    Window = 3
    Cooldown = 2
    Poll = 1
    Pulse = 2
    TypingMax = 3
    MaxTime = 4
SPECIFICATION Spec
INVARIANTS TypeOK AtMostTwiceTheLimit DueClientIsWoken PulsesAreBounded
PROPERTY WakesAreSpaced
