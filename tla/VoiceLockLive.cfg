CONSTANTS
    a = a
    b = b
    g1 = g1
    c1 = c1
    c2 = c2
    None = None
    Clients <- TwoClients
    Guilds <- OneGuild
    Conns <- OneConn
    Shards <- OneShard
    LocalShards <- OneShard
    ShardOf <- OneGuildShard
    VoiceStatesCache = TRUE
    Workers = 1
    Revocable <- TwoClients
    MaxUpstream = 1
    MaxEvents = 2
SPECIFICATION FairSpec
PROPERTIES GivenUpGuildIsFreed DeadOwnerGivesUp
