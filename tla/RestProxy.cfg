CONSTANTS
    a = a
    b = b
    g1 = g1
    g2 = g2
    c1 = c1
    user = user
    hook = hook
    BotUser = BotUser
    EncodedBotUser = EncodedBotUser
    Bot = Bot
    Stranger = Stranger
    None = None
    Clients <- TwoClients
    Revocable <- OneClient
    Guilds <- TwoGuilds
    Channels <- OneChannel
    OtherIds <- Others
    ValidateToken = TRUE
    Words <- OtherWords
    Paths <- AllPaths
    Methods <- TwoMethods
SPECIFICATION Spec
INVARIANTS TypeOK BotTokenStaysInScope GatewayUrlIsTheProxys
PROPERTIES VoiceChangeByOwner ChannelAnswerIsTrue
