CONSTANTS
    a = a
    b = b
    g1 = g1
    c1 = c1
    c2 = c2
    None = None
    Clients <- TwoClients
    Guilds <- OneGuild
    Conns <- TwoConns
    Shards <- OneShard
    LocalShards <- OneShard
    ShardOf <- OneGuildShard
    VoiceStatesCache = TRUE
    Workers = 2
    Revocable <- TwoClients
    MaxUpstream = 1
    MaxEvents = 2
SPECIFICATION Spec
INVARIANT LiveOwnerIsNotTimed
SYMMETRY Symmetry
