-------------------------- MODULE RestProxyProofs --------------------------
(***************************************************************************)
(* Theorems about RestProxy for every set of clients, guilds, channels and  *)
(* paths: type correctness, that the bot's token stays in the sender's      *)
(* guilds, that only the voice owner changes the bot's voice state, that    *)
(* answers to channel routes are true at Discord, and that gateway/bot      *)
(* tells the proxy's URL.                                                   *)
(***************************************************************************)
EXTENDS RestProxy, SequenceTheorems, TLAPS

-----------------------------------------------------------------------------
(* Helpers *)

\* A normalized path is a path.
LEMMA NormalizeType ==
  ASSUME NEW p \in Seq(Segments)
  PROVE  Normalize(p) \in Seq(Segments)
<1> DEFINE q == Prefixed(p)
<1>1. "api" \in Segments /\ "@me" \in Segments
  BY DEF Segments, Keywords
<1>2. q \in Seq(Segments)
  BY <1>1 DEF Prefixed
<1> HIDE DEF q
<1>3. Len(q) \in Nat /\ DOMAIN q = 1..Len(q) /\ \A i \in 1..Len(q) : q[i] \in Segments
  BY <1>2
<1> DEFINE r == [i \in DOMAIN q |->
                   IF i > 1 /\ q[i] = "%40me" /\ q[i - 1] = "users" THEN "@me" ELSE q[i]]
<1>4. r \in [1..Len(q) -> Segments]
  BY <1>1, <1>3
<1>5. r \in Seq(Segments)
  BY <1>3, <1>4, IsASeq
<1> QED
  BY <1>5 DEF Normalize, q

\* The answers the proxy gives by itself.
LEMMA StatusType == \A s \in Statuses : Status(s) \in Answer
BY DEF Status, Answer

\* The answer to a channel route of a client.
LEMMA ChannelAnswerType ==
  ASSUME NEW lookup, NEW authorized
  PROVE  ResponseForChannelScope(lookup, authorized) \in Answer \cup {NoAnswer}
<1>1. {Status("404"), Status("502"), Status("403")} \subseteq Answer
  BY StatusType DEF Statuses
<1> QED
  BY <1>1 DEF ResponseForChannelScope

\* A client's request waits or is answered.
LEMMA AuthorizeType ==
  ASSUME NEW cl, NEW sc, NEW m, AuthorizeClient(cl, sc, m)
  PROVE  pc' \in {"lookup", "body", "answered"} /\ answer' \in Answer \cup {NoAnswer}
<1>1. Status("403") \in Answer
  BY StatusType DEF Statuses
<1> QED
  BY <1>1, ChannelAnswerType DEF AuthorizeClient, Reply, Await

-----------------------------------------------------------------------------
(* Type correctness *)

\* A proxy without requests.
LEMMA TypeInit == Init => TypeOK
<1> SUFFICES ASSUME Init PROVE TypeOK
  OBVIOUS
<1>1. scope = ResolveRouteScope(path)
  BY DEF Init, ResolveRouteScope, HasBase
<1>2. path \in Seq(Segments) /\ method \in Methods /\ guilds \subseteq Guilds
  BY PathAssumption DEF Init
<1>3. /\ granted \in [Clients -> SUBSET Guilds]
      /\ owner \in [Guilds -> Clients \cup {None}]
      /\ cached \in [Channels -> Guilds \cup {None}]
  BY DEF Init
<1> QED
  BY <1>1, <1>2, <1>3 DEF Init, TypeOK

\* The arrival of a request, up to its first await.
LEMMA TypeReceive ==
  ASSUME TypeOK, NEW m \in Methods, NEW uri \in Paths, NEW credential \in Credentials,
         NEW verdict \in {"Ok", "Stale", "Invalid"}, Receive(m, uri, credential, verdict)
  PROVE  TypeOK'
<1> DEFINE p == Normalize(uri)
           sc == ResolveRouteScope(p)
           principal == Principal(credential, verdict)
           authenticates == IsCanonical(p) /\ sc.kind # "AllowedWithoutAuth"
<1>1. path' = p /\ p \in Seq(Segments) /\ scope' = sc /\ requested' = uri /\ method' = m
  BY NormalizeType, PathAssumption DEF Receive
<1>2. principal \in Credentials \cup {None}
  BY DEF Principal, Credentials
<1>3. /\ context' = IF authenticates THEN principal ELSE None
      /\ guilds' = IF authenticates /\ principal \in Clients THEN granted[principal] ELSE {}
  BY DEF Receive
<1>4. UNCHANGED <<granted, owner, botKnown, cached, located>>
  BY DEF Receive, worldVars
<1>5. \/ \E s \in {"400", "503", "401"} : Reply(Status(s))
      \/ AuthorizeClient(principal, sc, m)
      \/ Await("body")
  BY DEF Receive
<1>6. pc' \in {"lookup", "body", "answered"} /\ answer' \in Answer \cup {NoAnswer}
  <2>1. \A s \in {"400", "503", "401"} : Status(s) \in Answer
    BY StatusType DEF Statuses
  <2> QED
    BY <1>5, <2>1, AuthorizeType DEF Reply, Await
<1> HIDE DEF p, sc, principal, authenticates
<1>7. context' \in Credentials \cup {None} /\ guilds' \subseteq Guilds
  BY <1>2, <1>3 DEF TypeOK
<1>8. scope' = ResolveRouteScope(path')
  BY <1>1 DEF sc
<1> QED
  BY <1>1, <1>4, <1>6, <1>7, <1>8 DEF TypeOK

\* The later steps of a request change where it waits and its answer.
LEMMA TypeRequest ==
  ASSUME TypeOK, UNCHANGED <<requestVars, worldVars>>,
         pc' \in {"lookup", "body", "sending", "answered"}, answer' \in Answer \cup {NoAnswer}
  PROVE  TypeOK'
BY DEF TypeOK, requestVars, worldVars

\* The lookup, the body and the upstream's answer.
LEMMA TypeHandler ==
  ASSUME TypeOK,
         LookupChannel \/ (\E body \in Bodies : ReadBody(body)) \/ Relay \/ UpstreamFails
  PROVE  TypeOK'
<1>0. UNCHANGED <<requestVars, worldVars>>
  BY DEF LookupChannel, ReadBody, Relay, UpstreamFails
<1>1. \A s \in {"413", "403", "502", "404"} : Status(s) \in Answer
  BY StatusType DEF Statuses
<1>2. CASE LookupChannel
  <2>1. pc' \in {"body", "answered"} /\ answer' \in Answer \cup {NoAnswer}
    BY <1>2, ChannelAnswerType DEF LookupChannel, Reply, Await
  <2> QED
    BY <1>0, <2>1, TypeRequest
<1>3. ASSUME NEW body \in Bodies, ReadBody(body)
      PROVE  TypeOK'
  <2>1. pc' \in {"sending", "answered"} /\ answer' \in Answer \cup {NoAnswer}
    BY <1>1, <1>3 DEF ReadBody, Reply, Await
  <2> QED
    BY <1>0, <2>1, TypeRequest
<1>4. CASE Relay \/ UpstreamFails
  <2>1. \A a \in DiscordAnswers : a \in Answer
    <3>1. \A x \in {"403", "404", "other"} : Status(x) \in Answer
      BY StatusType DEF Statuses
    <3>2. \A url \in {"discord", "none"} : [status |-> "200", url |-> url] \in Answer
      BY DEF Answer, Statuses
    <3> QED
      BY <3>1, <3>2 DEF DiscordAnswers
  <2>2. \A a \in Answer : [a EXCEPT !.url = RewriteGatewayBotPayload(@)] \in Answer
    BY DEF RewriteGatewayBotPayload, Answer
  <2>3. ASSUME Relay PROVE pc' = "answered" /\ answer' \in Answer
    <3>1. PICK a \in DiscordAnswers :
            Reply(IF a.status = "200" THEN [a EXCEPT !.url = RewriteGatewayBotPayload(@)] ELSE a)
      BY <2>3 DEF Relay
    <3>2. a \in Answer /\ [a EXCEPT !.url = RewriteGatewayBotPayload(@)] \in Answer
      BY <2>1, <2>2
    <3>3. \A x, y, z : Reply(IF x THEN y ELSE z) => pc' = "answered" /\ answer' \in {y, z}
      BY DEF Reply
    <3> QED
      BY <3>1, <3>2, <3>3
  <2>4. pc' = "answered" /\ answer' \in Answer
    BY <1>1, <1>4, <2>3 DEF Relay, UpstreamFails, Reply
  <2> QED
    BY <1>0, <2>4, TypeRequest
<1> QED
  BY <1>2, <1>3, <1>4

\* What changes around a request.
LEMMA TypeWorld ==
  ASSUME TypeOK,
         \/ \E cl \in Revocable, g \in Guilds : SetGranted(cl, g)
         \/ \E g \in Guilds, o \in Clients \cup {None} : SetOwner(g, o)
         \/ BotReady
         \/ \E c \in Channels : DeleteChannel(c) \/ UpdateCache(c)
  PROVE  TypeOK'
<1>0. UNCHANGED <<pc, requestVars, answer>>
  BY DEF SetGranted, SetOwner, BotReady, DeleteChannel, UpdateCache
<1>1. ASSUME NEW cl \in Revocable, NEW g \in Guilds, SetGranted(cl, g)
      PROVE  TypeOK'
  BY <1>0, <1>1, PathAssumption DEF SetGranted, TypeOK, requestVars
<1>2. ASSUME NEW g \in Guilds, NEW o \in Clients \cup {None}, SetOwner(g, o)
      PROVE  TypeOK'
  BY <1>0, <1>2 DEF SetOwner, TypeOK, requestVars
<1>3. CASE BotReady
  BY <1>0, <1>3 DEF BotReady, TypeOK, requestVars
<1>4. ASSUME NEW c \in Channels, DeleteChannel(c)
      PROVE  TypeOK'
  BY <1>0, <1>4 DEF DeleteChannel, TypeOK, requestVars, Places
<1>5. ASSUME NEW c \in Channels, UpdateCache(c)
      PROVE  TypeOK'
  BY <1>0, <1>5 DEF UpdateCache, TypeOK, requestVars
<1> QED
  BY <1>1, <1>2, <1>3, <1>4, <1>5

\* The end of a request.
LEMMA TypeFinish ==
  ASSUME TypeOK, Finish
  PROVE  TypeOK'
<1>1. scope' = ResolveRouteScope(path')
  BY DEF Finish, ResolveRouteScope, HasBase
<1> QED
  BY <1>1, PathAssumption DEF Finish, TypeOK, worldVars

\* Every step keeps the types.
LEMMA TypeStep == TypeOK /\ [Next]_vars => TypeOK'
<1>1. TypeOK /\ UNCHANGED vars => TypeOK'
  BY DEF TypeOK, vars, requestVars, worldVars
<1> QED
  BY <1>1, TypeReceive, TypeHandler, TypeWorld, TypeFinish DEF Next

\* Every variable keeps its type in every behaviour.
THEOREM TypeCorrect == Spec => []TypeOK
BY TypeInit, TypeStep, PTL DEF Spec

-----------------------------------------------------------------------------
(* Routes *)

\* What the scope of a path says of its segments.
LEMMA ScopeShape ==
  ASSUME NEW p \in Seq(Segments), NEW sc, sc = ResolveRouteScope(p)
  PROVE  /\ sc # Denied => HasBase(p)
         /\ HasBase(p) /\ Len(p) > 3 /\ p[3] = "guilds" => sc = ScopeOfId("Guild", p[4])
         /\ sc.kind = "Guild" => \/ Len(p) > 3 /\ p[3] = "guilds" /\ sc.id = p[4]
                                 \/ /\ Len(p) > 5 /\ p[3] = "applications" /\ p[5] = "guilds"
                                    /\ sc.id = p[6]
         /\ sc.kind = "Channel" => Len(p) > 3 /\ p[3] = "channels" /\ sc.id = p[4]
         /\ sc.kind = "AllowedWithoutGuild" => Len(p) = 4 /\ p[3] \in {"gateway", "users"}
<1> DEFINE n == Len(p) - 2
           route == [i \in 1..n |-> p[i + 2]]
<1>1. CASE ~HasBase(p)
  <2>1. sc = Denied
    BY <1>1 DEF ResolveRouteScope
  <2> QED
    BY <1>1, <2>1 DEF Denied, RouteScope
<1>2. CASE HasBase(p)
  <2>0. Len(p) \in Nat /\ n \in Nat /\ n > 0
    BY <1>2 DEF HasBase
  <2>1. /\ route[1] = p[3]
        /\ n > 1 => route[2] = p[4]
        /\ n > 2 => route[3] = p[5]
        /\ n > 3 => route[4] = p[6]
    BY <2>0
  <2>2. route \in {<<"gateway", "bot">>, <<"users", "@me">>}
          => n = 2 /\ p[3] \in {"gateway", "users"}
    <3> SUFFICES ASSUME route \in {<<"gateway", "bot">>, <<"users", "@me">>}
                 PROVE  n = 2 /\ p[3] \in {"gateway", "users"}
      OBVIOUS
    <3>0. DOMAIN route = 1..n /\ Len(route) = n
      BY <2>0
    <3>1. CASE route = <<"gateway", "bot">>
      <4>1. Len(route) = 2 /\ route[1] = "gateway" /\ route[2] = "bot"
        BY <3>1
      <4> HIDE DEF route
      <4> QED
        BY <2>0, <2>1, <3>0, <3>1, <4>1
    <3>2. CASE route = <<"users", "@me">>
      <4>1. Len(route) = 2 /\ route[1] = "users" /\ route[2] = "@me"
        BY <3>2
      <4> HIDE DEF route
      <4> QED
        BY <2>0, <2>1, <3>0, <3>2, <4>1
    <3> QED
      BY <3>1, <3>2
  <2> HIDE DEF n, route
  <2>3. \/ n = 2 /\ p[3] \in {"gateway", "users"} /\ sc = RouteScope("AllowedWithoutGuild", None)
        \/ n > 2 /\ p[3] \in {"interactions", "webhooks"} /\ sc = ScopeOfId("AllowedWithoutAuth", p[4])
        \/ n > 1 /\ p[3] = "guilds" /\ sc = ScopeOfId("Guild", p[4])
        \/ n > 1 /\ p[3] = "channels" /\ sc = ScopeOfId("Channel", p[4])
        \/ /\ n > 3 /\ p[3] = "applications" /\ p[5] = "guilds"
           /\ sc = ScopeOfId("Guild", p[6])
        \/ sc = Denied /\ ~(n > 1 /\ p[3] = "guilds")
    <3>1. sc = CASE route \in {<<"gateway", "bot">>, <<"users", "@me">>} ->
                    RouteScope("AllowedWithoutGuild", None)
               [] n > 2 /\ route[1] \in {"interactions", "webhooks"} ->
                    ScopeOfId("AllowedWithoutAuth", route[2])
               [] n > 1 /\ route[1] = "guilds" -> ScopeOfId("Guild", route[2])
               [] n > 1 /\ route[1] = "channels" -> ScopeOfId("Channel", route[2])
               [] n > 3 /\ route[1] = "applications" /\ route[3] = "guilds" ->
                    ScopeOfId("Guild", route[4])
               [] OTHER -> Denied
      BY <1>2 DEF ResolveRouteScope, n, route
    <3> QED
      BY <2>0, <2>1, <2>2, <3>1
  <2>4. n = Len(p) - 2
    BY DEF n
  <2> QED
    BY <1>2, <2>0, <2>3, <2>4 DEF ScopeOfId, Denied, RouteScope
<1> QED
  BY <1>1, <1>2

-----------------------------------------------------------------------------
(* The bot's token stays in the sender's guilds *)

\* A cached channel is in its cached guild, or deleted meanwhile.
CacheInv ==
    \A c \in Channels : cached[c] # None => located[c] \in {cached[c], "deleted"}

\* Why a client's request may go on: its guild was granted, or its route has none.
Cleared ==
    \/ scope.kind = "Guild" /\ scope.id \in guilds
    \/ scope.kind = "AllowedWithoutGuild" /\ method = "GET"
    \/ scope.kind = "AllowedWithoutAuth"
    \/ /\ scope.kind = "Channel" /\ scope.id \in Channels
       /\ located[scope.id] \in guilds \cup {"deleted"}

\* A request under way has a canonical path and an authenticated sender; a client's
\* awaits the lookup of its channel or is cleared.
RequestInv ==
    pc \in {"lookup", "body", "sending"} =>
        /\ IsCanonical(path)
        /\ context = Stranger => ~ValidateToken
        /\ pc = "lookup" => scope.kind = "Channel" /\ context \in Clients
        /\ pc # "lookup" /\ context \in Clients => Cleared

ScopedInv == CacheInv /\ RequestInv

\* A word of a route, and an ID, is its own decoding.
LEMMA DecodedPlain ==
  ASSUME NEW segment \in Snowflakes \cup Keywords
  PROVE  Decoded(segment) = segment
<1>1. segment \notin {"%40me", "%67uilds", "%6dembers", EncodedBotUser}
  BY PathAssumption DEF Keywords, Encoded
<1> QED
  BY <1>1 DEF Decoded

\* A cleared request reaches granted guilds only.
LEMMA ClearedReaches ==
  ASSUME TypeOK, IsCanonical(path), Cleared, scope.kind # "AllowedWithoutAuth"
  PROVE  Reaches(method, path) \subseteq guilds
<1> DEFINE n == Len(path) - 2
           at(i) == Decoded(path[i + 2])
<1>0. path \in Seq(Segments) /\ scope = ResolveRouteScope(path) /\ Len(path) \in Nat
  BY DEF TypeOK
<1>1. scope # Denied
  BY DEF Cleared, Denied, RouteScope
<1>2. HasBase(path) /\ ~(\E i \in DOMAIN path : path[i] = "..")
  BY <1>0, <1>1, ScopeShape DEF IsCanonical
<1>3. /\ \A i \in 1..4 : path[i + 2] \in Snowflakes \cup Keywords => at(i) = path[i + 2]
      /\ {"guilds", "channels", "applications", "gateway", "users"} \subseteq Keywords
      /\ guilds \subseteq Snowflakes /\ Channels \subseteq Snowflakes
  BY DecodedPlain DEF TypeOK, Snowflakes, Keywords
<1>4. Reaches(method, path) =
        CASE n > 1 /\ at(1) = "guilds" -> {at(2)} \cap Guilds
          [] n > 1 /\ at(1) = "channels" ->
               IF at(2) \in Channels THEN {located[at(2)]} \ {"deleted"} ELSE {}
          [] n > 3 /\ at(1) = "applications" /\ at(3) = "guilds" -> {at(4)} \cap Guilds
          [] n = 2 /\ at(1) = "gateway" -> {}
          [] n = 2 /\ at(1) = "users" /\ method = "GET" -> {}
          [] OTHER -> Everything
  BY <1>2 DEF Reaches
<1> HIDE DEF at
<1>5. CASE scope.kind = "Guild"
  <2>1. scope.id \in guilds
    BY <1>5 DEF Cleared
  <2>2. CASE Len(path) > 3 /\ path[3] = "guilds" /\ scope.id = path[4]
    <3>1. at(1) = path[1 + 2] /\ at(2) = path[2 + 2] /\ n > 1
      BY <1>0, <1>3, <2>1, <2>2
    <3>2. Reaches(method, path) = {path[4]} \cap Guilds
      BY <1>4, <2>2, <3>1
    <3> QED
      BY <2>1, <2>2, <3>2
  <2>3. CASE Len(path) > 5 /\ path[3] = "applications" /\ path[5] = "guilds" /\ scope.id = path[6]
    <3>1. at(1) = path[1 + 2] /\ at(3) = path[3 + 2] /\ at(4) = path[4 + 2] /\ n > 3
      BY <1>0, <1>3, <2>1, <2>3
    <3>2. Reaches(method, path) = {path[6]} \cap Guilds
      BY <1>4, <2>3, <3>1
    <3> QED
      BY <2>1, <2>3, <3>2
  <2> QED
    BY <1>0, <1>5, <2>2, <2>3, ScopeShape
<1>6. CASE scope.kind = "Channel"
  <2>1. scope.id \in Channels /\ located[scope.id] \in guilds \cup {"deleted"}
    BY <1>6 DEF Cleared
  <2>2. Len(path) > 3 /\ path[3] = "channels" /\ scope.id = path[4]
    BY <1>0, <1>6, ScopeShape
  <2>3. at(1) = path[1 + 2] /\ at(2) = path[2 + 2] /\ n > 1
    BY <1>0, <1>3, <2>1, <2>2
  <2>4. Reaches(method, path) = {located[path[4]]} \ {"deleted"}
    BY <1>4, <2>1, <2>2, <2>3
  <2> QED
    BY <2>1, <2>2, <2>4
<1>7. CASE scope.kind = "AllowedWithoutGuild"
  <2>1. method = "GET"
    BY <1>7 DEF Cleared
  <2>2. Len(path) = 4 /\ path[3] \in {"gateway", "users"}
    BY <1>0, <1>7, ScopeShape
  <2>3. at(1) = path[1 + 2] /\ n = 2
    BY <1>0, <1>3, <2>2
  <2>4. Reaches(method, path) = {}
    BY <1>4, <2>1, <2>2, <2>3
  <2> QED
    BY <2>4
<1> QED
  BY <1>5, <1>6, <1>7 DEF Cleared

\* The answer that lets a channel request go on.
LEMMA ChannelAllowed ==
  ASSUME NEW lookup, NEW authorized, ResponseForChannelScope(lookup, authorized) = NoAnswer
  PROVE  lookup.kind = "Found" /\ lookup.guild \in authorized
BY DEF ResponseForChannelScope, Status, NoAnswer

\* A lookup that finds a guild finds the channel's.
LEMMA LookupFinds ==
  ASSUME NEW place \in Places, Lookup(place).kind = "Found"
  PROVE  Lookup(place).guild = place
BY DEF Lookup, Places

\* A client's request that arrives waits for its lookup or is cleared.
LEMMA ScopedReceive ==
  ASSUME TypeOK, ScopedInv, NEW m \in Methods, NEW uri \in Paths, NEW credential \in Credentials,
         NEW verdict \in {"Ok", "Stale", "Invalid"}, Receive(m, uri, credential, verdict)
  PROVE  ScopedInv'
<1> DEFINE p == Normalize(uri)
           sc == ResolveRouteScope(p)
           principal == Principal(credential, verdict)
           authenticates == IsCanonical(p) /\ sc.kind # "AllowedWithoutAuth"
<1>1. path' = p /\ scope' = sc /\ method' = m /\ UNCHANGED worldVars
  BY DEF Receive
<1>2. /\ context' = IF authenticates THEN principal ELSE None
      /\ guilds' = IF authenticates /\ principal \in Clients THEN granted[principal] ELSE {}
  BY DEF Receive
<1>3. principal = Stranger => ~ValidateToken
  <2>1. verdict = "Ok" => principal = credential /\ credential \in Clients
    BY DEF Principal, Receive
  <2>2. verdict # "Ok" /\ ValidateToken => principal \in {Bot, None}
    BY DEF Principal
  <2> QED
    BY <2>1, <2>2, IdAssumption
<1>4. CacheInv'
  BY <1>1 DEF ScopedInv, CacheInv, worldVars
<1>5. /\ ~IsCanonical(p) => pc' = "answered"
      /\ authenticates /\ principal \in Clients
           => pc' = "answered" \/ AuthorizeClient(principal, sc, m)
      /\ ~(authenticates /\ principal \in Clients) => pc' \in {"answered", "body"}
  BY IdAssumption DEF Receive, Reply, Await
<1> HIDE DEF p, sc, principal, authenticates
<1>6. CASE ~(authenticates /\ principal \in Clients)
  <2>1. context' \notin Clients /\ (context' = Stranger => ~ValidateToken)
    BY <1>2, <1>3, <1>6, IdAssumption
  <2> QED
    BY <1>1, <1>4, <1>5, <1>6, <2>1 DEF ScopedInv, RequestInv
<1>7. CASE authenticates /\ principal \in Clients /\ pc' # "answered"
  <2>1. context' = principal /\ guilds' = granted[principal] /\ context' # Stranger
    BY <1>2, <1>7, IdAssumption
  <2>2. AuthorizeClient(principal, sc, m) /\ IsCanonical(path')
    BY <1>1, <1>5, <1>7
  <2>3. (pc' = "lookup" => sc.kind = "Channel") /\ (pc' # "lookup" => Cleared')
    <3>1. CASE sc.kind # "Channel"
      BY <1>1, <1>7, <2>1, <2>2, <3>1
      DEF AuthorizeClient, Await, Reply, IsClientAuthorizedForRoute, Cleared
    <3>2. CASE sc.kind = "Channel" /\ sc.id \in Channels /\ cached[sc.id] # None
      <4> DEFINE lookup == Lookup(cached[sc.id])
      <4>1. cached[sc.id] \in Guilds /\ cached[sc.id] \in Places
        BY <3>2 DEF TypeOK, Places
      <4>2. pc' = "body" /\ ResponseForChannelScope(lookup, granted[principal]) = NoAnswer
        BY <1>7, <2>2, <3>2 DEF AuthorizeClient, Await, Reply
      <4>3. cached[sc.id] \in granted[principal]
        BY <4>1, <4>2, ChannelAllowed, LookupFinds
      <4>4. located[sc.id] \in {cached[sc.id], "deleted"}
        BY <3>2 DEF ScopedInv, CacheInv
      <4> QED
        BY <1>1, <2>1, <3>2, <4>2, <4>3, <4>4 DEF Cleared, worldVars
    <3>3. CASE sc.kind = "Channel" /\ ~(sc.id \in Channels /\ cached[sc.id] # None)
      BY <2>2, <3>3 DEF AuthorizeClient, Await
    <3> QED
      BY <3>1, <3>2, <3>3
  <2> QED
    BY <1>1, <1>4, <1>7, <2>1, <2>2, <2>3 DEF ScopedInv, RequestInv
<1>8. CASE pc' = "answered"
  BY <1>4, <1>8 DEF ScopedInv, RequestInv
<1> QED
  BY <1>6, <1>7, <1>8

\* The lookup clears the request it lets go on.
LEMMA ScopedLookup ==
  ASSUME TypeOK, ScopedInv, LookupChannel
  PROVE  ScopedInv'
<1> DEFINE c == scope.id
           found == IF c \in Channels THEN Lookup(located[c]) ELSE Lookup("deleted")
<1>1. UNCHANGED <<requestVars, worldVars>> /\ pc = "lookup"
  BY DEF LookupChannel
<1>2. CacheInv'
  BY <1>1 DEF ScopedInv, CacheInv, worldVars
<1>3. CASE pc' = "answered"
  BY <1>2, <1>3 DEF ScopedInv, RequestInv
<1>4. CASE pc' # "answered"
  <2>1. PICK lookup \in {found, LookupFailed} :
          pc' = "body" /\ ResponseForChannelScope(lookup, guilds) = NoAnswer
    BY <1>4 DEF LookupChannel, Await, Reply
  <2>2. lookup.kind = "Found" /\ lookup.guild \in guilds
    BY <2>1, ChannelAllowed
  <2>3. lookup = found
    BY <2>1, <2>2 DEF LookupFailed
  <2>4. CASE c \in Channels
    <3>1. located[c] \in Places
      BY <2>4 DEF TypeOK
    <3>2. located[c] \in guilds
      BY <2>2, <2>3, <2>4, <3>1, LookupFinds
    <3>3. Cleared'
      BY <1>1, <2>4, <3>2 DEF Cleared, ScopedInv, RequestInv, requestVars, worldVars
    <3> QED
      BY <1>1, <1>2, <2>1, <3>3 DEF ScopedInv, RequestInv, requestVars, worldVars
  <2>5. c \in Channels
    <3> SUFFICES ASSUME c \notin Channels PROVE FALSE
      OBVIOUS
    <3>1. Lookup("deleted").kind = "Found" /\ Lookup("deleted").guild \in guilds
      BY <2>2, <2>3
    <3> QED
      BY <3>1, LookupFinds, PlaceAssumption DEF Lookup
  <2> QED
    BY <2>4, <2>5
<1> QED
  BY <1>3, <1>4

\* A request that goes on takes its clearance along.
LEMMA ScopedOn ==
  ASSUME TypeOK, ScopedInv, UNCHANGED <<requestVars, worldVars>>,
         pc = "body" \/ pc' = "answered", pc' \in {"sending", "answered"}
  PROVE  ScopedInv'
BY DEF ScopedInv, CacheInv, RequestInv, Cleared, requestVars, worldVars

\* A channel that is deleted is in no guild.
LEMMA ScopedWorld ==
  ASSUME TypeOK, ScopedInv,
         \/ \E cl \in Revocable, g \in Guilds : SetGranted(cl, g)
         \/ \E g \in Guilds, o \in Clients \cup {None} : SetOwner(g, o)
         \/ BotReady
         \/ \E c \in Channels : DeleteChannel(c) \/ UpdateCache(c)
  PROVE  ScopedInv'
<1>0. UNCHANGED <<pc, requestVars>>
  BY DEF SetGranted, SetOwner, BotReady, DeleteChannel, UpdateCache
<1>1. CASE UNCHANGED <<cached, located>>
  BY <1>0, <1>1 DEF ScopedInv, CacheInv, RequestInv, Cleared, requestVars
<1>2. ASSUME NEW c \in Channels, DeleteChannel(c)
      PROVE  ScopedInv'
  <2>1. located' = [located EXCEPT ![c] = "deleted"] /\ UNCHANGED cached
    BY <1>2 DEF DeleteChannel
  <2>2. \A d \in Channels : located'[d] \in {located[d], "deleted"}
    BY <2>1 DEF TypeOK
  <2>3. CacheInv'
    BY <2>1, <2>2 DEF ScopedInv, CacheInv
  <2>4. Cleared => Cleared'
    BY <1>0, <2>2 DEF Cleared, requestVars
  <2> QED
    BY <1>0, <2>3, <2>4 DEF ScopedInv, RequestInv, requestVars
<1>3. ASSUME NEW c \in Channels, UpdateCache(c)
      PROVE  ScopedInv'
  <2>1. CacheInv'
    BY <1>3 DEF UpdateCache, TypeOK, ScopedInv, CacheInv
  <2>2. UNCHANGED located
    BY <1>3 DEF UpdateCache
  <2> QED
    BY <1>0, <2>1, <2>2 DEF ScopedInv, RequestInv, Cleared, requestVars
<1>4. ASSUME NEW cl \in Revocable, NEW g \in Guilds, SetGranted(cl, g)
      PROVE  UNCHANGED <<cached, located>>
  BY <1>4 DEF SetGranted
<1>5. ASSUME NEW g \in Guilds, NEW o \in Clients \cup {None}, SetOwner(g, o)
      PROVE  UNCHANGED <<cached, located>>
  BY <1>5 DEF SetOwner
<1>6. BotReady => UNCHANGED <<cached, located>>
  BY DEF BotReady
<1> QED
  BY <1>1, <1>2, <1>3, <1>4, <1>5, <1>6

\* Every step keeps the invariant.
LEMMA ScopedStep == TypeOK /\ ScopedInv /\ [Next]_vars => ScopedInv'
<1> SUFFICES ASSUME TypeOK, ScopedInv, [Next]_vars PROVE ScopedInv'
  OBVIOUS
<1>1. CASE UNCHANGED vars
  BY <1>1 DEF vars, ScopedInv, CacheInv, RequestInv, Cleared, requestVars, worldVars
<1>2. CASE \E body \in Bodies : ReadBody(body)
  BY <1>2, ScopedOn DEF ReadBody, Reply, Await
<1>3. CASE Relay \/ UpstreamFails
  BY <1>3, ScopedOn DEF Relay, UpstreamFails, Reply
<1>4. CASE Finish
  BY <1>4 DEF Finish, ScopedInv, CacheInv, RequestInv, worldVars
<1> QED
  BY <1>1, <1>2, <1>3, <1>4, ScopedReceive, ScopedLookup, ScopedWorld DEF Next

\* Every behaviour keeps the invariant.
LEMMA ScopedCorrect == Spec => []ScopedInv
<1>1. Init => ScopedInv
  BY DEF Init, ScopedInv, CacheInv, RequestInv
<1> QED
  BY <1>1, ScopedStep, TypeCorrect, PTL DEF Spec

\* A request with the bot's token has an authenticated sender and reaches only the
\* guilds that sender had, for every path and whatever changes while the handler awaits.
THEOREM TokenStaysInScope == Spec => []BotTokenStaysInScope
<1>1. TypeOK /\ ScopedInv => BotTokenStaysInScope
  <2> SUFFICES ASSUME TypeOK, ScopedInv, pc = "sending", AttachesBotAuthorization
               PROVE  /\ context # Stranger \/ ~ValidateToken
                      /\ context \in Clients => Reaches(method, path) \subseteq guilds
    BY DEF BotTokenStaysInScope
  <2>1. IsCanonical(path) /\ (context \in Clients => Cleared)
    BY DEF ScopedInv, RequestInv
  <2>2. scope.kind # "AllowedWithoutAuth"
    BY DEF AttachesBotAuthorization
  <2> QED
    BY <2>1, <2>2, ClearedReaches DEF ScopedInv, RequestInv
<1> QED
  BY <1>1, TypeCorrect, ScopedCorrect, PTL

-----------------------------------------------------------------------------
(* Only the owner changes the bot's voice state *)

\* A client's guild route that was cleared names a guild, so the owner is looked up.
LEMMA VoiceRouteIsSeen ==
  ASSUME TypeOK, Cleared, NEW body \in Bodies \ {"tooLarge"}, ChangesBotVoice(method, path, body)
  PROVE  BotVoiceChange(method, path, body)
<1>1. path \in Seq(Segments) /\ scope = ResolveRouteScope(path) /\ Len(path) = 6 /\ path[3] = "guilds"
  BY DEF TypeOK, ChangesBotVoice
<1>2. scope # Denied
  BY DEF Cleared, Denied, RouteScope
<1>3. HasBase(path) /\ scope = ScopeOfId("Guild", path[4])
  BY <1>1, <1>2, ScopeShape
<1>4. path[4] \in Snowflakes
  BY <1>2, <1>3 DEF ScopeOfId
<1> QED
  BY <1>1, <1>3, <1>4 DEF BotVoiceChange, ChangesBotVoice, IsBot, Bodies

\* A client's request that changes the bot's voice state goes upstream only while the
\* client owns the guild's voice, for every path, body and change of owner.
THEOREM VoiceChangedByOwner == Spec => VoiceChangeByOwner
<1> DEFINE Step == \A body \in Bodies :
                     /\ ReadBody(body) /\ pc' = "sending"
                     /\ context \in Clients /\ ChangesBotVoice(method, path, body)
                     => owner[path[4]] = context
<1>1. TypeOK /\ ScopedInv /\ [Next]_vars => [Step]_vars
  <2> SUFFICES ASSUME TypeOK, ScopedInv, NEW body \in Bodies,
                      ReadBody(body), pc' = "sending", context \in Clients,
                      ChangesBotVoice(method, path, body)
               PROVE  owner[path[4]] = context
    OBVIOUS
  <2>1. body # "tooLarge" /\ MayChangeVoice(body)
    BY DEF ReadBody, Reply
  <2>2. Cleared
    BY DEF ReadBody, ScopedInv, RequestInv
  <2> QED
    BY <2>1, <2>2, VoiceRouteIsSeen DEF MayChangeVoice
<1> QED
  BY <1>1, TypeCorrect, ScopedCorrect, PTL DEF Spec, VoiceChangeByOwner

-----------------------------------------------------------------------------
(* Answers to channel routes *)

\* What an answer of the proxy's own to a client's channel route says is so; after a
\* lookup a 403 also means that the channel exists.
AnswerStep ==
    pc \notin {"sending", "answered"}
    /\ (pc = "answered" /\ context \in Clients /\ scope.kind = "Channel")' =>
        /\ answer'.status = "404" => Place' = "deleted"
        /\ answer'.status = "403" => /\ Place' \notin guilds'
                                     /\ pc = "lookup" => Place' # "deleted"

\* What a refusal of a channel route says of the lookup.
LEMMA ChannelRefused ==
  ASSUME NEW lookup, NEW authorized
  PROVE  LET a == ResponseForChannelScope(lookup, authorized)
         IN  /\ a.status = "404" => lookup.kind = "UnknownChannel"
             /\ a.status = "403" => /\ lookup.kind \notin {"UnknownChannel", "LookupFailed"}
                                    /\ ~(lookup.kind = "Found" /\ lookup.guild \in authorized)
BY DEF ResponseForChannelScope, Status, NoAnswer

\* What a lookup says of a place.
LEMMA LookupTells ==
  ASSUME NEW place \in Places
  PROVE  /\ Lookup(place).kind = "UnknownChannel" <=> place = "deleted"
         /\ place \in Guilds => Lookup(place).kind = "Found" /\ Lookup(place).guild = place
BY PlaceAssumption DEF Lookup, Places

\* A request that is refused on arrival.
LEMMA AnswerReceive ==
  ASSUME TypeOK, ScopedInv, NEW m \in Methods, NEW uri \in Paths, NEW credential \in Credentials,
         NEW verdict \in {"Ok", "Stale", "Invalid"}, Receive(m, uri, credential, verdict)
  PROVE  AnswerStep
<1> DEFINE p == Normalize(uri)
           sc == ResolveRouteScope(p)
           principal == Principal(credential, verdict)
           authenticates == IsCanonical(p) /\ sc.kind # "AllowedWithoutAuth"
<1>1. scope' = sc /\ UNCHANGED worldVars /\ pc = "idle"
  BY DEF Receive
<1>2. /\ context' = IF authenticates THEN principal ELSE None
      /\ guilds' = IF authenticates /\ principal \in Clients THEN granted[principal] ELSE {}
  BY DEF Receive
<1>3. authenticates /\ principal \in Clients
        => answer'.status \in {"400", "503", "401"} \/ AuthorizeClient(principal, sc, m)
  BY IdAssumption DEF Receive, Reply, Await, Status
<1> HIDE DEF p, sc, principal, authenticates
<1> SUFFICES ASSUME pc' = "answered", context' \in Clients, sc.kind = "Channel",
                    answer'.status \in {"404", "403"}
             PROVE  answer'.status = "403" /\ Place' \notin guilds'
  BY <1>1 DEF AnswerStep
<1>4. authenticates /\ principal \in Clients /\ guilds' = granted[principal]
  BY <1>2, IdAssumption
<1>5. AuthorizeClient(principal, sc, m)
  BY <1>3, <1>4
<1> DEFINE place == cached[sc.id]
<1>6. sc.id \in Channels /\ place # None /\ answer' = ResponseForChannelScope(Lookup(place), granted[principal])
  BY <1>5 DEF AuthorizeClient, Reply, Await
<1>7. place \in Guilds /\ place \in Places /\ granted[principal] \subseteq Guilds
  BY <1>4, <1>6 DEF TypeOK, Places
<1>8. Lookup(place).kind = "Found" /\ Lookup(place).guild = place
  BY <1>7, LookupTells
<1>9. answer'.status = "403" /\ place \notin granted[principal]
  BY <1>6, <1>8, ChannelRefused
<1>10. Place' \in {place, "deleted"}
  BY <1>1, <1>6 DEF Place, ScopedInv, CacheInv, worldVars
<1> QED
  BY <1>4, <1>7, <1>9, <1>10, PlaceAssumption

\* A request that is refused after its lookup.
LEMMA AnswerLookup ==
  ASSUME TypeOK, LookupChannel
  PROVE  AnswerStep
<1> DEFINE found == Lookup(Place)
<1>1. UNCHANGED <<requestVars, worldVars>>
  BY DEF LookupChannel
<1>2. UNCHANGED Place
  BY <1>1 DEF Place, requestVars, worldVars
<1>3. Place \in Places
  BY DEF Place, Places, TypeOK
<1> SUFFICES ASSUME pc' = "answered", answer'.status \in {"404", "403"}
             PROVE  /\ answer'.status = "404" => Place = "deleted"
                    /\ answer'.status = "403" => Place \notin guilds /\ Place # "deleted"
  BY <1>1, <1>2 DEF AnswerStep, requestVars
<1>4. PICK lookup \in {found, LookupFailed} : answer' = ResponseForChannelScope(lookup, guilds)
  BY DEF LookupChannel, Reply, Await, Place
<1>5. lookup = found
  BY <1>4, ChannelRefused DEF LookupFailed
<1> QED
  BY <1>3, <1>4, <1>5, ChannelRefused, LookupTells DEF TypeOK

\* A body is too large, or goes on: a voice change is no channel route.
LEMMA AnswerBody ==
  ASSUME TypeOK, NEW body \in Bodies, ReadBody(body)
  PROVE  AnswerStep
<1> SUFFICES ASSUME scope.kind = "Channel", pc' = "answered"
             PROVE  answer'.status = "413"
  BY DEF ReadBody, AnswerStep, requestVars
<1>1. path \in Seq(Segments) /\ scope = ResolveRouteScope(path)
  BY DEF TypeOK
<1>2. path[3] = "channels"
  BY <1>1, ScopeShape
<1>3. ~BotVoiceChange(method, path, body)
  BY <1>2 DEF BotVoiceChange
<1> QED
  BY <1>3 DEF ReadBody, MayChangeVoice, Reply, Await, Status

\* Every answer of the proxy's own is true.
LEMMA AnswerNext == TypeOK /\ ScopedInv /\ [Next]_vars => AnswerStep
<1>1. Relay \/ UpstreamFails \/ Finish => AnswerStep
  BY DEF Relay, UpstreamFails, Finish, AnswerStep
<1>2. ASSUME \/ \E cl \in Revocable, g \in Guilds : SetGranted(cl, g)
             \/ \E g \in Guilds, o \in Clients \cup {None} : SetOwner(g, o)
             \/ BotReady
             \/ \E c \in Channels : DeleteChannel(c) \/ UpdateCache(c)
             \/ UNCHANGED vars
      PROVE  AnswerStep
  BY <1>2 DEF SetGranted, SetOwner, BotReady, DeleteChannel, UpdateCache, vars, AnswerStep
<1> QED
  BY <1>1, <1>2, AnswerReceive, AnswerLookup, AnswerBody DEF Next

\* What the proxy itself answers to a client's channel route is right at Discord too, for
\* every interleaving of lookups, failures, deletions and a cache that lags.
THEOREM ChannelAnswersTrue == Spec => ChannelAnswerIsTrue
<1>1. TypeOK /\ ScopedInv /\ [Next]_vars => [AnswerStep]_vars
  BY AnswerNext
<1>2. Spec => [][AnswerStep]_vars
  BY <1>1, TypeCorrect, ScopedCorrect, PTL DEF Spec
<1> QED
  BY <1>2 DEF ChannelAnswerIsTrue, AnswerStep

-----------------------------------------------------------------------------
(* gateway/bot *)

GatewayPaths == {<<"api", "v10", "gateway", "bot">>, <<"v10", "gateway", "bot">>}

\* Both ways to ask for gateway/bot are seen as one, and its answer is rewritten.
GatewayInv ==
    /\ requested \in GatewayPaths => IsGatewayBot
    /\ IsGatewayBot /\ answer.status = "200" => answer.url = "proxy"

\* Both paths have one normal form.
LEMMA GatewayNormal ==
  ASSUME NEW uri \in GatewayPaths
  PROVE  Normalize(uri) = <<"api", "v10", "gateway", "bot">>
<1> DEFINE q == Prefixed(uri)
           r == Normalize(uri)
<1> DEFINE long == <<"api", "v10", "gateway", "bot">>
           short == <<"v10", "gateway", "bot">>
<1>1. /\ DOMAIN q = 1..4 /\ q[1] = "api" /\ q[2] = "v10" /\ q[3] = "gateway" /\ q[4] = "bot"
  <2>1. CASE uri = long
    <3>1. q = long
      BY <2>1 DEF Prefixed
    <3> QED
      BY <3>1
  <2>2. CASE uri = short
    <3>1. q = <<"api">> \o short
      BY <2>2 DEF Prefixed
    <3> DEFINE prefix == <<"api">>
               S == {"api", "v10", "gateway", "bot"}
    <3>2. prefix \in Seq(S) /\ short \in Seq(S)
      OBVIOUS
    <3>3. Len(prefix) = 1 /\ Len(short) = 3
      OBVIOUS
    <3> HIDE DEF short, prefix, S
    <3>4. /\ q \in Seq(S) /\ Len(q) = 1 + 3
          /\ \A i \in 1..(1 + 3) : q[i] = IF i <= 1 THEN prefix[i] ELSE short[i - 1]
      <4>1. q = prefix \o short
        BY <3>1 DEF prefix
      <4>2. /\ prefix \o short \in Seq(S)
            /\ Len(prefix \o short) = Len(prefix) + Len(short)
            /\ \A i \in 1..Len(prefix) + Len(short) :
                 (prefix \o short)[i] =
                    IF i <= Len(prefix) THEN prefix[i] ELSE short[i - Len(prefix)]
        BY <3>2, ConcatProperties
      <4> QED
        BY <3>3, <4>1, <4>2
    <3> HIDE DEF q
    <3>5. Len(q) = 4 /\ DOMAIN q = 1..4
      BY <3>4
    <3>6. q[1] = prefix[1] /\ q[2] = short[1] /\ q[3] = short[2] /\ q[4] = short[3]
      BY <3>4
    <3> QED
      BY <3>5, <3>6 DEF short, prefix
  <2> QED
    BY <2>1, <2>2 DEF GatewayPaths
<1>2. r = [i \in 1..4 |-> q[i]]
  <2>1. \A i \in 1..4 : q[i] # "%40me"
    BY <1>1
  <2> HIDE DEF q
  <2> QED
    BY <1>1, <2>1 DEF Normalize, q
<1> HIDE DEF q
<1> QED
  BY <1>1, <1>2

\* The only answers with status 200 are relayed.
LEMMA GatewayStep == TypeOK /\ GatewayInv /\ [Next]_vars => GatewayInv'
<1> SUFFICES ASSUME TypeOK, GatewayInv, [Next]_vars PROVE GatewayInv'
  OBVIOUS
<1>1. ASSUME UNCHANGED <<requested, path>>, UNCHANGED answer \/ answer'.status # "200"
      PROVE  GatewayInv'
  BY <1>1 DEF GatewayInv, IsGatewayBot
<1>2. ASSUME NEW m \in Methods, NEW uri \in Paths, NEW credential \in Credentials,
             NEW verdict \in {"Ok", "Stale", "Invalid"}, Receive(m, uri, credential, verdict)
      PROVE  GatewayInv'
  <2>1. requested' = uri /\ path' = Normalize(uri)
    BY <1>2 DEF Receive
  <2>2. answer'.status # "200"
    BY <1>2 DEF Receive, AuthorizeClient, ResponseForChannelScope, Reply, Await, Status, NoAnswer
  <2> QED
    BY <2>1, <2>2, GatewayNormal DEF GatewayInv, IsGatewayBot
<1>3. CASE LookupChannel
  <2>1. answer'.status # "200"
    BY <1>3 DEF LookupChannel, ResponseForChannelScope, Reply, Await, Status, NoAnswer
  <2> QED
    BY <1>1, <1>3, <2>1 DEF LookupChannel, requestVars
<1>4. CASE (\E body \in Bodies : ReadBody(body)) \/ UpstreamFails
  <2>1. answer'.status # "200"
    BY <1>4 DEF ReadBody, UpstreamFails, Reply, Await, Status, NoAnswer
  <2> QED
    BY <1>1, <1>4, <2>1 DEF ReadBody, UpstreamFails, requestVars
<1>5. CASE Relay
  <2>1. UNCHANGED <<requested, path>>
    BY <1>5 DEF Relay, requestVars
  <2>2. PICK a \in DiscordAnswers :
          Reply(IF a.status = "200" THEN [a EXCEPT !.url = RewriteGatewayBotPayload(@)] ELSE a)
    BY <1>5 DEF Relay
  <2>3. CASE a.status = "200"
    <3>1. answer' = [a EXCEPT !.url = RewriteGatewayBotPayload(@)]
      BY <2>2, <2>3 DEF Reply
    <3>2. "url" \in DOMAIN a
      BY DEF DiscordAnswers, Status
    <3>3. IsGatewayBot => answer'.url = "proxy"
      BY <3>1, <3>2 DEF RewriteGatewayBotPayload
    <3> QED
      BY <2>1, <3>3 DEF GatewayInv, IsGatewayBot
  <2>4. CASE a.status # "200"
    <3>1. answer' = a
      BY <2>2, <2>4 DEF Reply
    <3> QED
      BY <1>1, <2>1, <2>4, <3>1
  <2> QED
    BY <2>3, <2>4
<1>6. CASE Finish
  <2>1. requested' = <<>> /\ answer'.status # "200"
    BY <1>6 DEF Finish, NoAnswer
  <2>2. <<>> \notin GatewayPaths
    BY DEF GatewayPaths
  <2> QED
    BY <2>1, <2>2 DEF GatewayInv
<1>7. CASE \/ \E cl \in Revocable, g \in Guilds : SetGranted(cl, g)
           \/ \E g \in Guilds, o \in Clients \cup {None} : SetOwner(g, o)
           \/ BotReady
           \/ \E c \in Channels : DeleteChannel(c) \/ UpdateCache(c)
           \/ UNCHANGED vars
  <2>1. UNCHANGED <<requested, path, answer>>
    BY <1>7 DEF SetGranted, SetOwner, BotReady, DeleteChannel, UpdateCache, vars, requestVars
  <2> QED
    BY <1>1, <2>1
<1> QED
  BY <1>2, <1>3, <1>4, <1>5, <1>6, <1>7 DEF Next

\* A successful gateway/bot tells the proxy's URL, by either prefix.
THEOREM GatewayUrlRewritten == Spec => []GatewayUrlIsTheProxys
<1>1. Init => GatewayInv
  BY DEF Init, GatewayInv, GatewayPaths, NoAnswer
<1>2. GatewayInv => GatewayUrlIsTheProxys
  BY DEF GatewayInv, GatewayPaths, GatewayUrlIsTheProxys
<1> QED
  BY <1>1, <1>2, GatewayStep, TypeCorrect, PTL DEF Spec
=============================================================================
