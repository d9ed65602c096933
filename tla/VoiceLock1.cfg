CONSTANTS
    a = a
    b = b
    g1 = g1
    c1 = c1
    c2 = c2
    None = None
    Clients <- TwoClients
    Guilds <- OneGuild
    Conns <- TwoConns
    Shards <- TwoShards
    LocalShards <- TwoShards
    ShardOf <- OneGuildShard
    VoiceStatesCache = TRUE
    Workers = 1
    Revocable <- TwoClients
    MaxUpstream = 2
    MaxEvents = 3
SPECIFICATION Spec
INVARIANTS TypeOK ActiveIsExact DeadOwnerIsTimed CallsSettleOnOwner
PROPERTIES WantingOwnerKeepsGuild ImplementsOwnership
SYMMETRY Symmetry
