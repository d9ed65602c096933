----------------------------- MODULE RestProxy -----------------------------
(***************************************************************************)
(* The REST proxy (rest_proxy.rs): a request from its arrival to its        *)
(* answer.  handle_rest_request awaits three times: a channel lookup at     *)
(* Discord, the body, and the upstream answer.  Between two awaits it is    *)
(* one step; during an await grants, voice owners, channels and the cache   *)
(* change.  Requests share nothing else, so one is in flight at a time.     *)
(*                                                                          *)
(* A path is the sequence of its segments.  IDs (guilds, channels, users,   *)
(* webhooks) are the segments parse_snowflake accepts; ".." stands for      *)
(* every segment the upstream client would rewrite.  A percent-encoded      *)
(* spelling is a segment of its own: the proxy compares what was sent and   *)
(* sends it on undecoded.  Discord is external.                             *)
(***************************************************************************)
EXTENDS Naturals, Sequences

CONSTANTS
    Clients,        \* multi-tenant client IDs
    Guilds,
    Channels,
    OtherIds,       \* snowflakes of users, webhooks and interactions
    BotUser,        \* the user ID of the bot
    EncodedBotUser, \* the same, percent-encoded
    Bot,            \* SessionPrincipal::BotToken, and its credential
    Stranger,       \* a credential nobody has; SessionPrincipal::Unvalidated
    ValidateToken,  \* CONFIG.validate_token
    Words,          \* segments that mean nothing to the proxy
    Paths,          \* the request paths
    Methods,
    Revocable,      \* bound: the clients whose grants change
    None            \* Option::None

Snowflakes == Guilds \cup Channels \cup OtherIds \cup {BotUser}

ASSUME IdAssumption ==
    /\ Guilds \cap Channels = {}
    /\ None \notin Snowflakes \cup Clients \cup {Bot, Stranger}
    /\ Bot # Stranger /\ {Bot, Stranger} \cap Clients = {}
    /\ BotUser \notin Guilds \cup Channels
    /\ ValidateToken \in BOOLEAN

Encoded == {"%40me", "%67uilds", "%6dembers", EncodedBotUser}

Keywords == {"api", "v10", "gateway", "bot", "users", "@me", "interactions",
             "webhooks", "guilds", "channels", "applications", "members", "voice-states",
             ".."}

Segments == Snowflakes \cup Keywords \cup Encoded \cup Words

ASSUME PathAssumption ==
    /\ Snowflakes \cap (Keywords \cup Encoded \cup Words) = {}
    /\ EncodedBotUser \notin Keywords \cup {"%40me", "%67uilds", "%6dembers"}
    /\ Paths \subseteq Seq(Segments)
    /\ "GET" \in Methods
    /\ Revocable \subseteq Clients

ASSUME PlaceAssumption == {"dm", "deleted"} \cap Guilds = {}

VARIABLES
    pc,         \* the await the handler is at
    method,
    requested,  \* request.uri().path()
    path,       \* normalized_path
    scope,      \* RouteScope of the path
    context,    \* auth_context: its principal, or None
    guilds,     \* auth_context.authorized_guilds
    answer,     \* the response
    granted,    \* CLIENTS: the guilds of every client
    owner,      \* state.voice_owner
    botKnown,   \* state.bot_user_id is some: a shard was READY
    cached,     \* the guild of a channel in the shard caches
    located     \* the guild of a channel at Discord; "dm"; "deleted"

requestVars == <<method, requested, path, scope, context, guilds>>
worldVars == <<granted, owner, botKnown, cached, located>>
vars == <<pc, requestVars, answer, worldVars>>

-----------------------------------------------------------------------------
(* Types *)

Credentials == Clients \cup {Bot, Stranger}
Places == Guilds \cup {"dm", "deleted"}

\* The keys of a body: voice fields, others, no JSON object, or over the limit.
Bodies == {"voice", "other", "unreadable", "tooLarge"}

\* "200" is any success, "other" any failure of Discord's but 403 and 404.
Statuses == {"200", "400", "401", "403", "404", "413", "502", "503", "other"}

\* url is the gateway URL a response carries: Discord's, the proxy's, or none.
Answer == [status : Statuses, url : {"discord", "proxy", "none"}]
Status(s) == [status |-> s, url |-> "none"]
NoAnswer == [status |-> "none", url |-> "none"]

-----------------------------------------------------------------------------
(* Paths *)

\* Mutant: no path is refused.
IsCanonicalAny(p) == TRUE

\* is_canonical_path; other encoded segments pass.
IsCanonical(p) == \A i \in DOMAIN p : p[i] # ".."

\* The /v10/ prefix is short for /api/v10/, and @me may be percent-encoded.
Prefixed(p) == IF Len(p) > 1 /\ p[1] = "v10" THEN <<"api">> \o p ELSE p

Normalize(p) ==
    LET q == Prefixed(p)
    IN  [i \in DOMAIN q |->
           IF i > 1 /\ q[i] = "%40me" /\ q[i - 1] = "users" THEN "@me" ELSE q[i]]

\* The segments after /api/v10.
HasBase(p) == Len(p) > 2 /\ p[1] = "api" /\ p[2] = "v10"

RouteScope(kind, id) == [kind |-> kind, id |-> id]
Denied == RouteScope("DeniedWithoutGuild", None)

ScopeOfId(kind, segment) == IF segment \in Snowflakes THEN RouteScope(kind, segment) ELSE Denied

\* resolve_route_scope, for a normalized path.
ResolveRouteScope(p) ==
    LET n == Len(p) - 2
        route == [i \in 1..n |-> p[i + 2]]
    IN  IF ~HasBase(p) THEN Denied
        ELSE CASE route \in {<<"gateway", "bot">>, <<"users", "@me">>} ->
                    RouteScope("AllowedWithoutGuild", None)
               [] n > 2 /\ route[1] \in {"interactions", "webhooks"} ->
                    ScopeOfId("AllowedWithoutAuth", route[2])
               [] n > 1 /\ route[1] = "guilds" -> ScopeOfId("Guild", route[2])
               [] n > 1 /\ route[1] = "channels" -> ScopeOfId("Channel", route[2])
               [] n > 3 /\ route[1] = "applications" /\ route[3] = "guilds" ->
                    ScopeOfId("Guild", route[4])
               [] OTHER -> Denied

-----------------------------------------------------------------------------
(* Decisions *)

\* is_client_authorized_for_route; channel routes are decided by their guild.
IsClientAuthorizedForRoute(sc, m, authorized) ==
    \/ sc.kind = "Guild" /\ sc.id \in authorized
    \/ sc.kind = "AllowedWithoutGuild" /\ m = "GET"
    \/ sc.kind = "AllowedWithoutAuth"

\* What a lookup of a channel finds: the guild, or why there is none
\* (classify_channel_lookup_response).
Lookup(place) ==
    CASE place \in Guilds -> [kind |-> "Found", guild |-> place]
      [] place = "dm" -> [kind |-> "MissingGuild", guild |-> None]
      [] place = "deleted" -> [kind |-> "UnknownChannel", guild |-> None]

LookupFailed == [kind |-> "LookupFailed", guild |-> None]

\* Mutant: an unknown channel is outside every guild.
ResponseForChannelScopeRemaps(lookup, authorized) ==
    CASE lookup.kind = "LookupFailed" -> Status("502")
      [] lookup.kind = "Found" /\ lookup.guild \in authorized -> NoAnswer
      [] OTHER -> Status("403")

\* channel_scope_decision and response_for_channel_scope; NoAnswer is Allow.
ResponseForChannelScope(lookup, authorized) ==
    CASE lookup.kind = "UnknownChannel" -> Status("404")
      [] lookup.kind = "LookupFailed" -> Status("502")
      [] lookup.kind = "Found" /\ lookup.guild \in authorized -> NoAnswer
      [] OTHER -> Status("403")

\* Mutant: while the ID is unknown, only @me is the bot.
IsBotOpen(segment) ==
    segment \in {"@me", "%40me"} \/ (botKnown /\ segment = BotUser)

\* An unknown bot ID may be any.
IsBot(segment) == segment \in {"@me", "%40me", BotUser} \/ ~botKnown

\* bot_voice_change_guild, for a path with a guild: Modify Guild Member with a
\* voice field, Modify User Voice State, and a body that cannot be read.
BotVoiceChange(m, p, body) ==
    /\ m = "PATCH"
    /\ HasBase(p) /\ Len(p) = 6
    /\ p[3] = "guilds" /\ p[4] \in Snowflakes
    /\ IsBot(p[6])
    /\ \/ p[5] = "voice-states"
       \/ p[5] = "members" /\ body \in {"voice", "unreadable"}

\* should_attach_bot_authorization
AttachesBotAuthorization == context # None /\ scope.kind # "AllowedWithoutAuth"

-----------------------------------------------------------------------------
(* handle_rest_request *)

Reply(a) == pc' = "answered" /\ answer' = a

Await(point) == pc' = point /\ answer' = NoAnswer

\* authenticate_gateway_token: the registry's verdict (ClientRegistry), then the bot token.
Principal(credential, verdict) ==
    CASE verdict = "Ok" -> credential
      [] verdict = "Invalid" /\ credential = Bot -> Bot
      [] verdict = "Invalid" /\ credential # Bot /\ ~ValidateToken -> Stranger
      [] OTHER -> None

\* A client may ask for this route; a channel that is not cached is looked up.
AuthorizeClient(cl, sc, m) ==
    IF sc.kind # "Channel"
    THEN IF IsClientAuthorizedForRoute(sc, m, granted[cl])
         THEN Await("body") ELSE Reply(Status("403"))
    ELSE IF sc.id \in Channels /\ cached[sc.id] # None
    THEN LET error == ResponseForChannelScope(Lookup(cached[sc.id]), granted[cl])
         IN  IF error = NoAnswer THEN Await("body") ELSE Reply(error)
    ELSE Await("lookup")

\* Up to the first await.
Receive(m, uri, credential, verdict) ==
    LET p == Normalize(uri)
        sc == ResolveRouteScope(p)
        principal == Principal(credential, verdict)
        authenticates == IsCanonical(p) /\ sc.kind # "AllowedWithoutAuth"
    IN  /\ pc = "idle"
        /\ verdict = "Ok" => credential \in Clients
        /\ method' = m
        /\ requested' = uri
        /\ path' = p
        /\ scope' = sc
        /\ context' = IF authenticates THEN principal ELSE None
        /\ guilds' = IF authenticates /\ principal \in Clients THEN granted[principal] ELSE {}
        /\ CASE ~IsCanonical(p) -> Reply(Status("400"))
             [] authenticates /\ verdict = "Stale" -> Reply(Status("503"))
             [] authenticates /\ verdict # "Stale" /\ principal = None -> Reply(Status("401"))
             [] authenticates /\ principal \in Clients -> AuthorizeClient(principal, sc, m)
             [] OTHER -> Await("body")
        /\ UNCHANGED worldVars

\* lookup_channel_guild_id: Discord answers with what it knows now, or not at all.
LookupChannel ==
    LET c == scope.id
        found == IF c \in Channels THEN Lookup(located[c]) ELSE Lookup("deleted")
    IN  /\ pc = "lookup"
        /\ \E lookup \in {found, LookupFailed} :
             LET error == ResponseForChannelScope(lookup, guilds)
             IN  IF error = NoAnswer THEN Await("body") ELSE Reply(error)
        /\ UNCHANGED <<requestVars, worldVars>>

\* The owner is read when the body is here.
MayChangeVoice(body) ==
    context \in Clients /\ BotVoiceChange(method, path, body)
        => path[4] \in Guilds /\ owner[path[4]] = context

\* The body arrives: limit, voice owner, and the request goes upstream.
ReadBody(body) ==
    /\ pc = "body"
    /\ IF body = "tooLarge" THEN Reply(Status("413"))
       ELSE IF MayChangeVoice(body) THEN Await("sending")
       ELSE Reply(Status("403"))
    /\ UNCHANGED <<requestVars, worldVars>>

\* Mutant: the path is compared as it came.
IsGatewayBotUnnormalized == requested = <<"api", "v10", "gateway", "bot">>

IsGatewayBot == path = <<"api", "v10", "gateway", "bot">>

\* The url of the answer: rewritten to the proxy's for gateway/bot.
RewriteGatewayBotPayload(url) == IF IsGatewayBot THEN "proxy" ELSE url

\* What Discord may answer: any failure, or success unless the channel is deleted.
DiscordAnswers ==
    LET known == scope.kind = "Channel" => scope.id \in Channels /\ located[scope.id] # "deleted"
        url == IF HasBase(path) /\ path[3] = "gateway" THEN "discord" ELSE "none"
    IN  {Status(s) : s \in {"403", "404", "other"}}
        \cup (IF known THEN {[status |-> "200", url |-> url]} ELSE {})

Relay ==
    /\ pc = "sending"
    /\ \E a \in DiscordAnswers :
         Reply(IF a.status = "200" THEN [a EXCEPT !.url = RewriteGatewayBotPayload(@)] ELSE a)
    /\ UNCHANGED <<requestVars, worldVars>>

\* The upstream fails, or its answer cannot be read or rewritten.
UpstreamFails ==
    /\ pc = "sending"
    /\ Reply(Status("502"))
    /\ UNCHANGED <<requestVars, worldVars>>

\* The handler returns; the next request starts afresh.
Finish ==
    /\ pc = "answered"
    /\ pc' = "idle"
    /\ answer' = NoAnswer
    /\ method' = "GET"
    /\ requested' = <<>>
    /\ path' = <<>>
    /\ scope' = Denied
    /\ context' = None
    /\ guilds' = {}
    /\ UNCHANGED worldVars

-----------------------------------------------------------------------------
(* The rest of the proxy, and Discord (external) *)

SetGranted(cl, g) ==
    /\ granted' = [granted EXCEPT ![cl] = IF g \in @ THEN @ \ {g} ELSE @ \cup {g}]
    /\ UNCHANGED <<pc, requestVars, answer, owner, botKnown, cached, located>>

SetOwner(g, o) ==
    /\ owner' = [owner EXCEPT ![g] = o]
    /\ UNCHANGED <<pc, requestVars, answer, granted, botKnown, cached, located>>

\* A shard's READY: startup waits only 30 s for it.
BotReady ==
    /\ ~botKnown
    /\ botKnown' = TRUE
    /\ UNCHANGED <<pc, requestVars, answer, granted, owner, cached, located>>

\* A channel is deleted; the cache hears of it later.
DeleteChannel(c) ==
    /\ located' = [located EXCEPT ![c] = "deleted"]
    /\ UNCHANGED <<pc, requestVars, answer, granted, owner, botKnown, cached>>

\* Mutant: a channel without a guild is cached too.
UpdateCacheWithoutGuild(c) ==
    /\ cached' = [cached EXCEPT ![c] = located[c]]
    /\ UNCHANGED <<pc, requestVars, answer, granted, owner, botKnown, located>>

\* The shard's cache takes an event: a guild channel, or its deletion.
UpdateCache(c) ==
    /\ cached' = [cached EXCEPT ![c] = IF located[c] \in Guilds THEN located[c] ELSE None]
    /\ UNCHANGED <<pc, requestVars, answer, granted, owner, botKnown, located>>

-----------------------------------------------------------------------------
(* The specification *)

Init ==
    /\ pc = "idle"
    /\ method = "GET"
    /\ requested = <<>>
    /\ path = <<>>
    /\ scope = Denied
    /\ context = None
    /\ guilds = {}
    /\ answer = NoAnswer
    /\ granted = [cl \in Clients |-> Guilds]
    /\ owner = [g \in Guilds |-> None]
    /\ botKnown = FALSE
    /\ cached = [c \in Channels |-> None]
    /\ located \in [Channels -> Places]

Next ==
    \/ \E m \in Methods, uri \in Paths, credential \in Credentials,
          verdict \in {"Ok", "Stale", "Invalid"} : Receive(m, uri, credential, verdict)
    \/ LookupChannel
    \/ \E body \in Bodies : ReadBody(body)
    \/ Relay
    \/ UpstreamFails
    \/ Finish
    \/ \E cl \in Revocable, g \in Guilds : SetGranted(cl, g)
    \/ \E g \in Guilds, o \in Clients \cup {None} : SetOwner(g, o)
    \/ BotReady
    \/ \E c \in Channels : DeleteChannel(c) \/ UpdateCache(c)

Spec == Init /\ [][Next]_vars

-----------------------------------------------------------------------------
(* Properties *)

\* Every variable has its type.
TypeOK ==
    /\ pc \in {"idle", "lookup", "body", "sending", "answered"}
    /\ method \in Methods
    /\ requested \in Paths \cup {<<>>}
    /\ path \in Seq(Segments)
    /\ scope = ResolveRouteScope(path)
    /\ context \in Credentials \cup {None}
    /\ guilds \subseteq Guilds
    /\ answer \in Answer \cup {NoAnswer}
    /\ granted \in [Clients -> SUBSET Guilds]
    /\ owner \in [Guilds -> Clients \cup {None}]
    /\ botKnown \in BOOLEAN
    /\ cached \in [Channels -> Guilds \cup {None}]
    /\ located \in [Channels -> Places]

\* A segment as a server reads it that decodes the path.
Decoded(segment) ==
    CASE segment = "%40me" -> "@me"
      [] segment = "%67uilds" -> "guilds"
      [] segment = "%6dembers" -> "members"
      [] segment = EncodedBotUser -> BotUser
      [] OTHER -> segment

\* What a request with the bot's token reaches at Discord, written from Discord's
\* routes and not from the proxy's, and decoded: guilds, and "dm" for what is in none.
\* A path that is rewritten on its way may end anywhere.
Everything == Guilds \cup {"dm"}

Reaches(m, p) ==
    LET AfterBase(i) == Decoded(p[i + 2])
        n == Len(p) - 2
    IN  CASE ~HasBase(p) \/ \E i \in DOMAIN p : p[i] = ".." -> Everything
          [] n > 1 /\ AfterBase(1) = "guilds" -> {AfterBase(2)} \cap Guilds
          [] n > 1 /\ AfterBase(1) = "channels" ->
               IF AfterBase(2) \in Channels THEN {located[AfterBase(2)]} \ {"deleted"} ELSE {}
          [] n > 3 /\ AfterBase(1) = "applications" /\ AfterBase(3) = "guilds" ->
               {AfterBase(4)} \cap Guilds
          [] n = 2 /\ AfterBase(1) = "gateway" -> {}
          [] n = 2 /\ AfterBase(1) = "users" /\ m = "GET" -> {}
          [] OTHER -> Everything

\* Whenever a request is on its way with the bot's token, its sender was
\* authenticated, and what it reaches at Discord now lies in the guilds the sender had
\* when it was authenticated: whatever path it takes, and whatever changes while the
\* handler awaits (resolve_route_scope, channel_scope_decision, is_canonical_path:
\* "The scope check must see the same path Discord sees").
BotTokenStaysInScope ==
    pc = "sending" /\ AttachesBotAuthorization =>
        /\ context # Stranger \/ ~ValidateToken
        /\ context \in Clients => Reaches(method, path) \subseteq guilds

\* A change of the bot's own voice state with every segment spelt as in Discord's
\* documentation, or @me as %40me.  What other encoded spellings of members and of the
\* bot's ID reach is not in the sources: the code compares neither.
ChangesBotVoice(m, p, body) ==
    /\ m = "PATCH"
    /\ Len(p) = 6 /\ p[3] = "guilds"
    /\ p[6] \in {"@me", "%40me", BotUser}
    /\ p[5] = "voice-states" \/ (p[5] = "members" /\ body # "other")

\* A client's request that moves, mutes or disconnects the bot, in these spellings, goes
\* upstream only while the client owns the guild's voice, however long its body took and
\* whether or not the bot's ID is known (bot_voice_change_guild: "Only the guild's voice
\* owner may do that, otherwise a tenant could move or end another tenant's call").
VoiceChangeByOwner ==
    [][\A body \in Bodies :
         /\ ReadBody(body) /\ pc' = "sending"
         /\ context \in Clients /\ ChangesBotVoice(method, path, body)
         => owner[path[4]] = context]_vars

\* Where the channel of a channel route is.
Place == IF scope.id \in Channels THEN located[scope.id] ELSE "deleted"

\* What the proxy answers to a client's channel route without asking it of Discord is
\* right at Discord too: 404 only if Discord does not know the channel, 403 only if it is
\* in none of the client's guilds, and after a lookup only if it is somewhere, whatever
\* fails or lags ("Discord 404/10003 must stay 404. Remapping it to 403 made `kimaki
\* project list --prune` keep stale rows", classify_channel_lookup_response).
ChannelAnswerIsTrue ==
    [][pc \notin {"sending", "answered"}
       /\ (pc = "answered" /\ context \in Clients /\ scope.kind = "Channel")' =>
         /\ answer'.status = "404" => Place' = "deleted"
         /\ answer'.status = "403" => /\ Place' \notin guilds'
                                      /\ pc = "lookup" => Place' # "deleted"]_vars

\* A successful GET of gateway/bot never tells Discord's own URL, by either prefix:
\* a client that follows it would leave the proxy (rewrite_gateway_bot_payload).
GatewayUrlIsTheProxys ==
    /\ requested \in {<<"api", "v10", "gateway", "bot">>, <<"v10", "gateway", "bot">>}
    /\ answer.status = "200"
    => answer.url = "proxy"
=============================================================================
