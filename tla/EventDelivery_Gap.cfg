CONSTANTS
    a = a
    g0 = g0
    c1 = c1
    c2 = c2
    Bot = Bot
    None = None
    Clients <- OneClient
    Guilds <- OneGuild
    Conns <- OneConn
    ShardCount = 1
    ShardStart = 0
    ShardEnd = 1
    ShardOf <- OneGuildShard
    Backpressure = 2
    BufferLimit = 2
    Inputs <- TwoInputs
    ResumeSeqs <- OneSeq
    MaxEvents = 3
    MaxChanges = 0
    MaxConnects = 3
SPECIFICATION Spec
INVARIANT RelaysAll
