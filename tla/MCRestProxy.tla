---------------------------- MODULE MCRestProxy ----------------------------
(* Instances of RestProxy for TLC. *)
EXTENDS RestProxy

CONSTANTS a, b, g1, g2, c1, user, hook

TwoClients == {a, b}
TwoGuilds == {g1, g2}
OneClient == {a}
OneChannel == {c1}
Others == {user, hook}
OtherWords == {"extra", "token", "messages", "commands", "roles", "voice", "v9"}
TwoMethods == {"GET", "PATCH"}

\* Every kind of route, in and out of scope, and the ways they are misspelt.
Routes == {
    <<"gateway", "bot">>, <<"gateway", "bot", "extra">>, <<"gateway">>,
    <<"users", "@me">>, <<"users", "%40me">>, <<"users", "@me", "guilds">>,
    <<"users", user>>,
    <<"interactions", hook, "token">>, <<"interactions", hook>>,
    <<"webhooks", hook, "token">>, <<"webhooks", "token", "token">>,
    <<"guilds", g1>>, <<"guilds", g2, "channels">>, <<"guilds">>, <<"guilds", "@me">>,
    <<"guilds", g1, "..", g2>>, <<"guilds", c1>>,
    <<"channels", c1>>, <<"channels", user, "messages">>, <<"channels", "@me">>,
    <<"applications", user, "guilds", g1>>, <<"applications", user, "guilds">>,
    <<"applications", user, "commands", g1>>,
    <<"guilds", g1, "members", "@me">>, <<"guilds", g1, "members", BotUser>>,
    <<"guilds", g1, "members", user>>, <<"guilds", g1, "voice-states", "%40me">>,
    <<"guilds", g1, "roles", "@me">>, <<"voice">>,
    <<"%67uilds", g2>>, <<"guilds", g1, "%6dembers", "@me">>,
    <<"guilds", g1, "members", EncodedBotUser>>}

AllPaths ==
    {<<"api", "v10">> \o r : r \in Routes}
    \cup {<<"v10">> \o r : r \in {<<"gateway", "bot">>, <<"guilds", g1, "members", "@me">>,
                                    <<"channels", c1>>}}
    \cup {<<"api", "v9", "guilds", g1>>, <<"v10">>, <<"api", "v10">>}
=============================================================================
