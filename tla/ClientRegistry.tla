--------------------------- MODULE ClientRegistry ---------------------------
(***************************************************************************)
(* The client registry CLIENTS (db_config.rs): one task keeps it in step    *)
(* with the table gateway_clients, by LISTEN/NOTIFY with a periodic full    *)
(* reconcile, or by polling after an error; every IDENTIFY, RESUME and REST *)
(* request authenticates against it.  Writers of the table and Postgres are *)
(* external.                                                                *)
(*                                                                          *)
(* The content of a client's rows (secret, guilds, reachable_url) is its    *)
(* secret and a version, which every change of the rows increments; the     *)
(* entries seeded from config.json have version 0.                          *)
(***************************************************************************)
EXTENDS Naturals, Sequences

CONSTANTS
    Ids,           \* client IDs
    Secrets,
    Seed,          \* secrets of the clients in config.json, None if not there
    Logins,        \* bound: the credentials <<id, secret>> that are tried
    MaxVersion,    \* bound: changes of one client's rows
    MaxNotify,     \* bound: the table changes while fewer notifications queue
    MaxFailures,   \* bound: database errors
    None           \* Option::None

ASSUME NoneAssumption == None \notin Ids \cup Secrets
ASSUME SeedAssumption == Seed \in [Ids -> Secrets \cup {None}]
ASSUME LoginAssumption == Logins \subseteq Ids \X Secrets
ASSUME BoundAssumption == MaxVersion \in Nat /\ MaxNotify \in Nat /\ MaxFailures \in Nat

VARIABLES
    db,           \* the table, grouped by client
    unannounced,  \* clients changed without a notification since the last full load
    listener,     \* the listener connection
    notified,     \* its notifications: client IDs, or None for an empty one
    failures,
    \* the sync task
    pc, mode,
    dirty,        \* dirty_client_ids
    result,       \* the rows a query returned
    \* shared state
    registry,     \* CLIENTS
    lastSync,     \* LAST_SUCCESSFUL_SYNC_UNIX_SECS
    loaded,       \* some database content has been written to CLIENTS
    serving,      \* the server accepts requests
    \* one authentication
    auth

dbVars == <<db, unannounced>>
listenVars == <<listener, notified>>
syncVars == <<pc, mode, dirty, result>>
vars == <<dbVars, listenVars, failures, syncVars, registry, lastSync, loaded, serving, auth>>

-----------------------------------------------------------------------------
(* Types *)

Entry == [version : Nat, secret : Secrets \cup {None}]

\* client_data_state with a database configured.
ClientDataState == CASE lastSync = "never" -> "NeverSynced"
                     [] lastSync = "old" -> "Stale"
                     [] OTHER -> "Fresh"

\* Mutant: the data state passes for the verdict.
UnverifiedState(state) == state

\* Mutant: a registry that was never synced counts as known good.
UnverifiedNeverSynced(state) == IF state = "Stale" THEN "Stale" ELSE "Invalid"

\* unverified
Unverified(state) == IF state \in {"NeverSynced", "Stale"} THEN "Stale" ELSE "Invalid"

NoAuth == [id |-> None, secret |-> None, state |-> "Fresh", verdict |-> "none"]

-----------------------------------------------------------------------------
(* Writers of the table (external), and the trigger on it *)

\* A transaction inserts, updates or deletes rows of a client.
Changed(id, secret) == [version |-> db[id].version + 1, secret |-> secret]

CanChange(id) == db[id].version < MaxVersion /\ Len(notified) < MaxNotify

\* Postgres delivers the notification of a commit to the sessions that listen.
Notify(id) ==
    notified' = IF listener = "on" THEN Append(notified, id) ELSE notified

Commit(id, secret) ==
    /\ CanChange(id)
    /\ db' = [db EXCEPT ![id] = Changed(id, secret)]
    /\ Notify(id)
    /\ UNCHANGED <<unannounced, listener, failures, syncVars, registry, lastSync,
                   loaded, serving, auth>>

\* An UPDATE that changes client_id: the trigger announces NEW.client_id only.
Rename(old, new) ==
    /\ old # new
    /\ db[old].secret # None
    /\ CanChange(old) /\ CanChange(new)
    /\ db' = [db EXCEPT ![old] = Changed(old, None), ![new] = Changed(new, db[old].secret)]
    /\ unannounced' = unannounced \cup {old}
    /\ Notify(new)
    /\ UNCHANGED <<listener, failures, syncVars, registry, lastSync, loaded, serving, auth>>

\* A notification without a client ID.
EmptyNotify ==
    /\ listener = "on"
    /\ Len(notified) < MaxNotify
    /\ Notify(None)
    /\ UNCHANGED <<dbVars, listener, failures, syncVars, registry, lastSync, loaded,
                   serving, auth>>

-----------------------------------------------------------------------------
(* run_realtime_loop: start *)

Goto(label) == pc' = label

\* Both connections, and install_database_objects.
Connect ==
    /\ pc = "connect"
    /\ Goto("listen")
    /\ mode' = "realtime"
    /\ UNCHANGED <<dbVars, listenVars, failures, dirty, result, registry, lastSync,
                   loaded, serving, auth>>

\* LISTEN is committed before the initial snapshot.
Listen ==
    /\ pc = "listen"
    /\ listener' = "on"
    /\ Goto("query")
    /\ UNCHANGED <<dbVars, notified, failures, mode, dirty, result, registry, lastSync,
                   loaded, serving, auth>>

-----------------------------------------------------------------------------
(* A full load: initial snapshot, reconcile and every poll *)

\* load_clients_snapshot
LoadClientsSnapshot ==
    /\ pc = "query"
    /\ result' = db
    /\ unannounced' = {}
    /\ Goto("loaded")
    /\ UNCHANGED <<db, listenVars, failures, mode, dirty, registry, lastSync, loaded,
                   serving, auth>>

\* mark_sync_success, before the registry is written.
MarkSyncSuccess ==
    /\ pc = "loaded"
    /\ lastSync' = "recent"
    /\ Goto("marked")
    /\ UNCHANGED <<dbVars, listenVars, failures, mode, dirty, result, registry, loaded,
                   serving, auth>>

\* CLIENTS is replaced; signal_initial_sync_ready lets the server start.
WriteClients ==
    /\ pc = "marked"
    /\ registry' = result
    /\ loaded' = TRUE
    /\ serving' = TRUE
    /\ dirty' = {}
    /\ Goto(IF mode = "poll" THEN "sleep" ELSE "loop")
    /\ UNCHANGED <<dbVars, listenVars, failures, mode, result, lastSync, auth>>

-----------------------------------------------------------------------------
(* run_realtime_loop: the arms of select! *)

\* A notification marks its client dirty; one without a client asks for a
\* full reconcile.
ReceiveNotification ==
    /\ pc = "loop"
    /\ notified # <<>>
    /\ notified' = Tail(notified)
    /\ IF Head(notified) = None
       THEN Goto("query") /\ UNCHANGED dirty
       ELSE dirty' = dirty \cup {Head(notified)} /\ UNCHANGED pc
    /\ UNCHANGED <<dbVars, listener, failures, mode, result, registry, lastSync, loaded,
                   serving, auth>>

\* refresh_clients_by_ids: the query, the write, then the flush is marked.
RefreshQuery ==
    /\ pc = "loop"
    /\ dirty # {}
    /\ result' = db
    /\ Goto("refresh")
    /\ UNCHANGED <<dbVars, listenVars, failures, mode, dirty, registry, lastSync, loaded,
                   serving, auth>>

\* Mutant: a client without rows stays in the registry.
RefreshedKeepsDeleted ==
    [id \in Ids |-> IF id \in dirty /\ result[id].secret # None
                    THEN result[id] ELSE registry[id]]

\* The registry with the dirty clients replaced, or removed.
Refreshed == [id \in Ids |-> IF id \in dirty THEN result[id] ELSE registry[id]]

RefreshClientsByIds ==
    /\ pc = "refresh"
    /\ registry' = Refreshed
    /\ Goto("refreshed")
    /\ UNCHANGED <<dbVars, listenVars, failures, mode, dirty, result, lastSync, loaded,
                   serving, auth>>

ClearDirty ==
    /\ pc = "refreshed"
    /\ lastSync' = "recent"
    /\ dirty' = {}
    /\ Goto("loop")
    /\ UNCHANGED <<dbVars, listenVars, failures, mode, result, registry, loaded, serving,
                   auth>>

\* Mutant: the tick does not load.
ReconcileTickSkips ==
    /\ pc = "loop"
    /\ lastSync' = "recent"
    /\ UNCHANGED <<dbVars, listenVars, failures, syncVars, registry, loaded, serving, auth>>

ReconcileTick ==
    /\ pc = "loop"
    /\ Goto("query")
    /\ UNCHANGED <<dbVars, listenVars, failures, mode, dirty, result, registry, lastSync,
                   loaded, serving, auth>>

HealthCheck ==
    /\ pc = "loop"
    /\ lastSync' = "recent"
    /\ UNCHANGED <<dbVars, listenVars, failures, syncVars, registry, loaded, serving, auth>>

-----------------------------------------------------------------------------
(* Errors: start_polling falls back to run_poll_loop, and back *)

CanFail == failures < MaxFailures /\ failures' = failures + 1

\* The listener connection ends.  Its error comes after its notifications.
ListenerFails ==
    /\ CanFail
    /\ listener = "on"
    /\ listener' = "broken"
    /\ UNCHANGED <<dbVars, notified, syncVars, registry, lastSync, loaded, serving, auth>>

\* Mutant: the fallback starts over from config.json.
FallbackReseeds ==
    /\ Goto("pollConnect")
    /\ mode' = "poll"
    /\ dirty' = {}
    /\ listener' = "off"
    /\ notified' = <<>>
    /\ registry' = [id \in Ids |-> [version |-> 0, secret |-> Seed[id]]]
    /\ UNCHANGED <<dbVars, result, lastSync, loaded, serving, auth>>

\* run_realtime_loop returns: its connections and dirty IDs are dropped.
Fallback ==
    /\ Goto("pollConnect")
    /\ mode' = "poll"
    /\ dirty' = {}
    /\ listener' = "off"
    /\ notified' = <<>>
    /\ UNCHANGED <<dbVars, result, registry, lastSync, loaded, serving, auth>>

RealtimeFails ==
    /\ mode = "realtime"
    /\ pc \in {"connect", "listen", "query", "loop"}
    /\ CanFail
    /\ Fallback

ReceiveError ==
    /\ pc = "loop"
    /\ listener = "broken"
    /\ notified = <<>>
    /\ UNCHANGED failures
    /\ Fallback

PollConnect ==
    /\ pc = "pollConnect"
    /\ Goto("query")
    /\ UNCHANGED <<dbVars, listenVars, failures, mode, dirty, result, registry, lastSync,
                   loaded, serving, auth>>

PollAgain ==
    /\ pc = "sleep"
    /\ Goto("query")
    /\ UNCHANGED <<dbVars, listenVars, failures, mode, dirty, result, registry, lastSync,
                   loaded, serving, auth>>

\* run_poll_loop returns: LISTEN/NOTIFY is tried again after 5 s.
PollFails ==
    /\ mode = "poll"
    /\ pc \in {"pollConnect", "query"}
    /\ CanFail
    /\ Goto("connect")
    /\ mode' = "realtime"
    /\ UNCHANGED <<dbVars, listenVars, dirty, result, registry, lastSync, loaded,
                   serving, auth>>

-----------------------------------------------------------------------------
(* Time *)

\* CLIENT_DATA_STALE_AFTER_SECS pass without a successful sync.
Age ==
    /\ lastSync = "recent"
    /\ lastSync' = "old"
    /\ UNCHANGED <<dbVars, listenVars, failures, syncVars, registry, loaded, serving, auth>>

\* main.rs waits 10 s for the first sync, then serves without it.
StartWithoutSync ==
    /\ ~serving
    /\ serving' = TRUE
    /\ UNCHANGED <<dbVars, listenVars, failures, syncVars, registry, lastSync, loaded, auth>>

-----------------------------------------------------------------------------
(* authenticate_client_with_id: first the data state, then the registry *)

AuthState(id, secret) ==
    LET state == ClientDataState
    IN  /\ serving
        /\ auth = NoAuth
        /\ auth' = [id |-> id, secret |-> secret, state |-> state,
                    verdict |-> IF state = "Stale" THEN "Stale" ELSE "none"]
        /\ UNCHANGED <<dbVars, listenVars, failures, syncVars, registry, lastSync, loaded,
                       serving>>

AuthRegistry ==
    /\ auth.id # None
    /\ auth.verdict = "none"
    /\ auth' = [auth EXCEPT !.verdict = IF registry[auth.id].secret = auth.secret
                                        THEN "Ok" ELSE Unverified(auth.state)]
    /\ UNCHANGED <<dbVars, listenVars, failures, syncVars, registry, lastSync, loaded,
                   serving>>

AuthDone ==
    /\ auth.verdict # "none"
    /\ auth' = NoAuth
    /\ UNCHANGED <<dbVars, listenVars, failures, syncVars, registry, lastSync, loaded,
                   serving>>

-----------------------------------------------------------------------------
(* The specification *)

Init ==
    /\ db \in [Ids -> [version : {1}, secret : Secrets \cup {None}]]
    /\ unannounced = {}
    /\ listener = "off"
    /\ notified = <<>>
    /\ failures = 0
    /\ pc = "connect"
    /\ mode = "realtime"
    /\ dirty = {}
    /\ registry = [id \in Ids |-> [version |-> 0, secret |-> Seed[id]]]
    /\ result = registry
    /\ lastSync = "never"
    /\ loaded = FALSE
    /\ serving = FALSE
    /\ auth = NoAuth

Sync ==
    \/ Connect \/ Listen
    \/ LoadClientsSnapshot \/ MarkSyncSuccess \/ WriteClients
    \/ ReceiveNotification
    \/ RefreshQuery \/ RefreshClientsByIds \/ ClearDirty
    \/ ReceiveError \/ PollConnect \/ PollAgain

Next ==
    \/ Sync
    \/ ReconcileTick
    \/ HealthCheck
    \/ \E id \in Ids, secret \in Secrets \cup {None} : Commit(id, secret)
    \/ \E old, new \in Ids : Rename(old, new)
    \/ EmptyNotify
    \/ ListenerFails \/ RealtimeFails \/ PollFails
    \/ Age
    \/ StartWithoutSync
    \/ \E login \in Logins : AuthState(login[1], login[2])
    \/ AuthRegistry \/ AuthDone

Spec == Init /\ [][Next]_vars

\* The task runs when it can.  select! polls its arms in random order and the
\* ticks recur, so an arm that is ready again and again is taken.
Fairness ==
    /\ WF_vars(Sync)
    /\ SF_vars(ReceiveNotification)
    /\ SF_vars(RefreshQuery)
    /\ SF_vars(ReceiveError)
    /\ SF_vars(ReconcileTick)

FairSpec == Spec /\ Fairness

-----------------------------------------------------------------------------
(* Properties *)

\* Every variable has its type.
TypeOK ==
    /\ db \in [Ids -> Entry]
    /\ unannounced \subseteq Ids
    /\ listener \in {"off", "on", "broken"}
    /\ notified \in Seq(Ids \cup {None})
    /\ failures \in Nat
    /\ pc \in {"connect", "listen", "query", "loaded", "marked", "loop", "refresh",
               "refreshed", "pollConnect", "sleep"}
    /\ mode \in {"realtime", "poll"}
    /\ dirty \subseteq Ids
    /\ result \in [Ids -> Entry]
    /\ registry \in [Ids -> Entry]
    /\ lastSync \in {"never", "recent", "old"}
    /\ loaded \in BOOLEAN
    /\ serving \in BOOLEAN
    /\ auth \in [id : Ids \cup {None}, secret : Secrets \cup {None},
                 state : {"NeverSynced", "Fresh", "Stale"},
                 verdict : {"none", "Ok", "Stale", "Invalid"}]

\* What the registry holds of a client once the load under way is written.
Upcoming(id) ==
    IF pc \in {"loaded", "marked"} \/ (pc = "refresh" /\ id \in dirty)
    THEN result[id] ELSE registry[id]

\* The client will be queried again: its notification waits, or it is dirty
\* and the query that clears it is yet to come.
Announced(id) ==
    \/ \E i \in 1 .. Len(notified) : notified[i] = id
    \/ id \in dirty /\ pc \in {"loop", "query"}

Synced == mode = "realtime" /\ pc \in {"loaded", "marked", "loop", "refresh", "refreshed"}

\* While the listener is up, a client whose entry differs from its rows is
\* announced, or was changed by an UPDATE of its client_id: no interleaving of
\* commits with LISTEN, the queries and the clearing of dirty_client_ids loses
\* a change.
NoLostUpdate ==
    Synced /\ listener = "on" =>
        \A id \in Ids : Upcoming(id) # db[id] => Announced(id) \/ id \in unannounced

\* No load, refresh or change of mode puts an older state of a client's rows
\* back into the registry: a revoked guild or secret does not come back.
NeverStepsBack ==
    [][\A id \in Ids : registry'[id].version >= registry[id].version]_vars

\* Credentials are refused for good (401, which makes clients drop their token) only once a
\* snapshot of the table has been read, and the registry is at most its own write behind:
\* mark_sync_success precedes the write of CLIENTS (unverified, authenticate_client_with_id).
InvalidNeedsSnapshot == auth.verdict = "Invalid" => loaded \/ pc = "marked"

\* Once the table and the connections are quiet, the registry holds the table.
EventuallyInStep == <>[](registry = db)
=============================================================================
