CONSTANTS
    a = a
    g0 = g0
    c1 = c1
    c2 = c2
    Bot = Bot
    None = None
    Clients <- OneClient
    Guilds <- OneGuild
    Conns <- TwoConns
    ShardCount = 1
    ShardStart = 0
    ShardEnd = 1
    ShardOf <- OneGuildShard
    Backpressure = 1
    BufferLimit = 2
    Inputs <- TwoInputs
    ResumeSeqs <- OneSeq
    MaxEvents = 2
    MaxChanges = 1
    MaxConnects = 2
SPECIFICATION Spec
INVARIANTS TypeOK InOrderOnce NoSequenceGap ReplayedOnce
PROPERTIES OnlyCurrentGuilds MissesOnlyByLag
SYMMETRY ConnSymmetry
