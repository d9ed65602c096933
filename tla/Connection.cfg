CONSTANTS
    a = a
    b = b
    Bot = Bot
    None = None
    Clients <- TwoClients
    MaxQueue = 2
SPECIFICATION FairSpec
CHECK_DEADLOCK FALSE
INVARIANTS TypeOK CountedWhileActive OneScope TextClosesWithCode
PROPERTIES NeverBackToText HeartbeatAcked DeadClientIsDropped
