------------------------ MODULE ClientRegistryProofs ------------------------
(***************************************************************************)
(* Theorems about ClientRegistry for every set of clients and any number of *)
(* changes, notifications and failures: type correctness, that no change of *)
(* the table is lost, and that the registry never goes back to an older     *)
(* state of a client.                                                       *)
(***************************************************************************)
EXTENDS ClientRegistry, TLAPS

-----------------------------------------------------------------------------
(* Type correctness *)

\* A change of the table leaves every row a well-formed entry.
LEMMA ChangedType ==
  ASSUME TypeOK, NEW id \in Ids, NEW secret \in Secrets \cup {None}
  PROVE  /\ Changed(id, secret) \in Entry
         /\ Changed(id, secret).version = db[id].version + 1
         /\ db[id].version \in Nat
BY DEF TypeOK, Changed, Entry

\* An announced ID is queued behind the others, or dropped if nobody listens.
LEMMA NotifyType ==
  ASSUME TypeOK, NEW id \in Ids \cup {None}, Notify(id)
  PROVE  notified' \in Seq(Ids \cup {None})
BY DEF TypeOK, Notify

\* The seeded registry the proxy starts with is well typed.
LEMMA TypeInit == Init => TypeOK
<1> SUFFICES ASSUME Init
             PROVE  TypeOK
  OBVIOUS
<1>1. ASSUME NEW id \in Ids
      PROVE  db[id] \in Entry
  <2>1. db[id] \in [version : {1}, secret : Secrets \cup {None}]
    BY DEF Init
  <2> QED
    BY <2>1 DEF Entry
<1>2. db \in [Ids -> Entry]
  BY <1>1 DEF Init
<1>3. \A id \in Ids : [version |-> 0, secret |-> Seed[id]] \in Entry
  BY SeedAssumption DEF Entry
<1>4. registry \in [Ids -> Entry] /\ result \in [Ids -> Entry]
  BY <1>3 DEF Init
<1>5. auth \in [id : Ids \cup {None}, secret : Secrets \cup {None},
               state : {"NeverSynced", "Fresh", "Stale"},
               verdict : {"none", "Ok", "Stale", "Invalid"}]
  BY DEF Init, NoAuth
<1>6. notified \in Seq(Ids \cup {None})
  BY DEF Init
<1> QED
  BY <1>2, <1>4, <1>5, <1>6 DEF Init, TypeOK

\* The steps of the sync task.
LEMMA TypeSync ==
  ASSUME TypeOK,
         \/ Sync \/ ReconcileTick \/ HealthCheck
         \/ ListenerFails \/ RealtimeFails \/ PollFails
  PROVE  TypeOK'
<1> USE DEF TypeOK, Goto, dbVars, listenVars, syncVars
<1>1. CASE Connect \/ Listen \/ PollConnect \/ PollAgain \/ ReconcileTick \/ HealthCheck
  BY <1>1 DEF Connect, Listen, PollConnect, PollAgain, ReconcileTick, HealthCheck
<1>2. CASE LoadClientsSnapshot \/ MarkSyncSuccess \/ WriteClients
  BY <1>2 DEF LoadClientsSnapshot, MarkSyncSuccess, WriteClients
<1>3. CASE ReceiveNotification
  <2>1. Head(notified) \in Ids \cup {None} /\ Tail(notified) \in Seq(Ids \cup {None})
    BY <1>3 DEF ReceiveNotification
  <2> QED
    BY <1>3, <2>1 DEF ReceiveNotification
<1>4. CASE RefreshQuery \/ ClearDirty
  BY <1>4 DEF RefreshQuery, ClearDirty
<1>6. CASE RefreshClientsByIds
  <2>1. registry' \in [Ids -> Entry]
    BY <1>6 DEF RefreshClientsByIds, Refreshed
  <2> QED
    BY <1>6, <2>1 DEF RefreshClientsByIds, Refreshed
<1>5. CASE ListenerFails \/ PollFails
  BY <1>5 DEF ListenerFails, PollFails, CanFail
<1>7. CASE ReceiveError \/ RealtimeFails
  <2>1. Fallback /\ failures' \in Nat
    BY <1>7 DEF ReceiveError, RealtimeFails, CanFail
  <2>2. notified' \in Seq(Ids \cup {None})
    BY <2>1 DEF Fallback
  <2> QED
    BY <2>1, <2>2 DEF Fallback
<1> QED
  BY <1>1, <1>2, <1>3, <1>4, <1>5, <1>6, <1>7 DEF Sync

\* The steps of the table's writers.
LEMMA TypeWriters ==
  ASSUME TypeOK,
         \/ \E id \in Ids, secret \in Secrets \cup {None} : Commit(id, secret)
         \/ \E old, new \in Ids : Rename(old, new)
         \/ EmptyNotify
  PROVE  TypeOK'
<1> USE DEF syncVars
<1>1. ASSUME NEW id \in Ids, NEW secret \in Secrets \cup {None}, Commit(id, secret)
      PROVE  TypeOK'
  <2>1. notified' \in Seq(Ids \cup {None}) /\ db' \in [Ids -> Entry]
    BY <1>1, ChangedType, NotifyType DEF Commit, TypeOK
  <2> QED
    BY <1>1, <2>1 DEF Commit, TypeOK
<1>2. ASSUME NEW old \in Ids, NEW new \in Ids, Rename(old, new)
      PROVE  TypeOK'
  <2>1. db[old].secret \in Secrets \cup {None}
    BY DEF TypeOK, Entry
  <2>2. notified' \in Seq(Ids \cup {None}) /\ db' \in [Ids -> Entry]
    BY <1>2, <2>1, ChangedType, NotifyType DEF Rename, TypeOK
  <2> QED
    BY <1>2, <2>2 DEF Rename, TypeOK
<1>3. ASSUME EmptyNotify
      PROVE  TypeOK'
  BY <1>3, NotifyType DEF EmptyNotify, TypeOK, dbVars
<1> QED
  BY <1>1, <1>2, <1>3

\* The steps of time and of an authentication.
LEMMA TypeAuth ==
  ASSUME TypeOK,
         \/ Age \/ StartWithoutSync \/ AuthRegistry \/ AuthDone
         \/ \E login \in Logins : AuthState(login[1], login[2])
  PROVE  TypeOK'
<1> USE DEF TypeOK, dbVars, listenVars, syncVars
<1>1. CASE Age \/ StartWithoutSync
  BY <1>1 DEF Age, StartWithoutSync
<1>2. ASSUME NEW login \in Logins, AuthState(login[1], login[2])
      PROVE  TypeOK'
  <2>1. login[1] \in Ids /\ login[2] \in Secrets
    BY LoginAssumption
  <2>2. ClientDataState \in {"NeverSynced", "Fresh", "Stale"}
    BY DEF ClientDataState
  <2> QED
    BY <1>2, <2>1, <2>2 DEF AuthState
<1>3. CASE AuthRegistry
  BY <1>3 DEF AuthRegistry, Unverified
<1>4. CASE AuthDone
  BY <1>4 DEF AuthDone, NoAuth
<1> QED
  BY <1>1, <1>2, <1>3, <1>4

\* Every step keeps every variable in its type.
LEMMA TypeStep == TypeOK /\ [Next]_vars => TypeOK'
<1>1. TypeOK /\ UNCHANGED vars => TypeOK'
  BY DEF TypeOK, vars, dbVars, listenVars, syncVars
<1>2. TypeOK /\ Next => TypeOK'
  BY TypeSync, TypeWriters, TypeAuth DEF Next
<1> QED
  BY <1>1, <1>2

\* Type correctness: every variable keeps its type in every behaviour.
THEOREM TypeCorrect == Spec => []TypeOK
BY TypeInit, TypeStep, PTL DEF Spec

-----------------------------------------------------------------------------
(* No change of the table is lost *)

\* A notification announces its client and every client announced before.
LEMMA NotifyAnnounces ==
  ASSUME TypeOK, NEW id \in Ids \cup {None}, listener = "on", Notify(id)
  PROVE  /\ \E i \in 1 .. Len(notified') : notified'[i] = id
         /\ \A i \in 1 .. Len(notified) : i \in 1 .. Len(notified') /\ notified'[i] = notified[i]
<1>1. notified \in Seq(Ids \cup {None}) /\ notified' = Append(notified, id)
  BY DEF TypeOK, Notify
<1>2. Len(notified') = Len(notified) + 1 /\ Len(notified) \in Nat
  BY <1>1
<1>3. notified'[Len(notified) + 1] = id /\ Len(notified) + 1 \in 1 .. Len(notified')
  BY <1>1, <1>2
<1>4. \A i \in 1 .. Len(notified) : i \in 1 .. Len(notified') /\ notified'[i] = notified[i]
  BY <1>1, <1>2
<1> QED
  BY <1>3, <1>4

\* Every step keeps each change of the table in the registry or on its way to it.
LEMMA NoLostUpdateStep == TypeOK /\ NoLostUpdate /\ [Next]_vars => NoLostUpdate'
<1> SUFFICES ASSUME TypeOK, NoLostUpdate, [Next]_vars, Synced', listener' = "on",
                    NEW id \in Ids, Upcoming(id)' # db'[id]
             PROVE  Announced(id)' \/ id \in unannounced'
  BY DEF NoLostUpdate
<1>0. ASSUME Synced, listener = "on", Upcoming(id) # db[id]
      PROVE  Announced(id) \/ id \in unannounced
  BY <1>0 DEF NoLostUpdate
<1>1. ASSUME LoadClientsSnapshot
      PROVE  FALSE
  BY <1>1 DEF LoadClientsSnapshot, Goto, Upcoming
<1>2. CASE MarkSyncSuccess
  BY <1>0, <1>2 DEF MarkSyncSuccess, Goto, Upcoming, Announced, Synced, dbVars, listenVars
<1>3. CASE WriteClients
  BY <1>0, <1>3 DEF WriteClients, Goto, Upcoming, Announced, Synced, dbVars, listenVars
<1>4. CASE ReceiveNotification
  <2>1. /\ notified \in Seq(Ids \cup {None}) /\ notified # <<>>
        /\ notified' = Tail(notified) /\ listener = "on" /\ pc = "loop"
    BY <1>4 DEF ReceiveNotification, TypeOK
  <2>2. pc' = "loop" /\ dirty' = dirty \cup {Head(notified)}
    BY <1>4 DEF ReceiveNotification, Goto, Synced
  <2>3. Announced(id) \/ id \in unannounced
    BY <1>0, <1>4, <2>1, <2>2 DEF ReceiveNotification, Upcoming, Synced, dbVars
  <2>4. ASSUME NEW i \in 1 .. Len(notified), notified[i] = id
        PROVE  Announced(id)'
    <3>1. CASE i = 1
      BY <2>1, <2>2, <2>4, <3>1 DEF Announced
    <3>2. CASE i # 1
      <4>1. i - 1 \in 1 .. Len(Tail(notified)) /\ Tail(notified)[i - 1] = id
        BY <2>1, <2>4, <3>2
      <4> QED
        BY <2>1, <4>1 DEF Announced
    <3> QED
      BY <3>1, <3>2
  <2> QED
    BY <1>4, <2>1, <2>2, <2>3, <2>4 DEF ReceiveNotification, Announced, dbVars
<1>5. CASE RefreshQuery
  BY <1>0, <1>5 DEF RefreshQuery, Goto, Upcoming, Announced, Synced, dbVars, listenVars
<1>6. CASE RefreshClientsByIds
  BY <1>0, <1>6 DEF RefreshClientsByIds, Refreshed, Goto, Upcoming, Announced, Synced, dbVars, listenVars
<1>7. CASE ClearDirty
  BY <1>0, <1>7 DEF ClearDirty, Goto, Upcoming, Announced, Synced, dbVars, listenVars
\* Steps after which the task is not in step with the table, or the listener is off.
<1>8. ASSUME \/ Connect \/ Listen \/ PollConnect \/ PollAgain \/ ReconcileTick
             \/ ListenerFails \/ RealtimeFails \/ ReceiveError \/ PollFails
      PROVE  FALSE
  BY <1>8 DEF Connect, Listen, PollConnect, PollAgain, ReconcileTick, ListenerFails,
     RealtimeFails, ReceiveError, PollFails, Fallback, Goto, Synced
<1>9. ASSUME NEW x \in Ids, NEW secret \in Secrets \cup {None}, Commit(x, secret)
      PROVE  Announced(id)' \/ id \in unannounced'
  <2>1. Notify(x) /\ UNCHANGED <<unannounced, listener, syncVars, registry>>
    BY <1>9 DEF Commit
  <2>2. CASE id = x
    BY <2>1, <2>2, NotifyAnnounces DEF Announced
  <2>3. CASE id # x
    <3>1. Announced(id) \/ id \in unannounced
      BY <1>0, <1>9, <2>1, <2>3 DEF Commit, Upcoming, Synced, syncVars, TypeOK
    <3> QED
      BY <2>1, <3>1, NotifyAnnounces DEF Announced, syncVars
  <2> QED
    BY <2>2, <2>3
<1>10. ASSUME NEW old \in Ids, NEW new \in Ids, Rename(old, new)
       PROVE  Announced(id)' \/ id \in unannounced'
  <2>1. Notify(new) /\ UNCHANGED <<listener, syncVars, registry>>
    BY <1>10 DEF Rename
  <2>2. CASE id = new
    BY <2>1, <2>2, NotifyAnnounces DEF Announced
  <2>3. CASE id = old
    BY <1>10, <2>3 DEF Rename
  <2>4. CASE id # new /\ id # old
    <3>1. Announced(id) \/ id \in unannounced
      BY <1>0, <1>10, <2>1, <2>4 DEF Rename, Upcoming, Synced, syncVars, TypeOK
    <3> QED
      BY <1>10, <2>1, <3>1, NotifyAnnounces DEF Rename, Announced, syncVars
  <2> QED
    BY <2>2, <2>3, <2>4
<1>11. CASE EmptyNotify
  <2>1. Notify(None) /\ UNCHANGED <<dbVars, listener, syncVars, registry>>
    BY <1>11 DEF EmptyNotify
  <2>2. Announced(id) \/ id \in unannounced
    BY <1>0, <2>1 DEF Upcoming, Synced, syncVars, dbVars
  <2> QED
    BY <2>1, <2>2, NotifyAnnounces DEF Announced, syncVars, dbVars
<1>12. CASE UNCHANGED <<dbVars, listenVars, syncVars, registry>>
  BY <1>0, <1>12 DEF Upcoming, Announced, Synced, dbVars, listenVars, syncVars
<1>13. ASSUME \/ HealthCheck \/ Age \/ StartWithoutSync \/ AuthRegistry \/ AuthDone
              \/ \E login \in Logins : AuthState(login[1], login[2])
              \/ UNCHANGED vars
       PROVE  UNCHANGED <<dbVars, listenVars, syncVars, registry>>
  BY <1>13 DEF HealthCheck, Age, StartWithoutSync, AuthRegistry, AuthDone, AuthState, vars
<1> QED
  BY <1>1, <1>2, <1>3, <1>4, <1>5, <1>6, <1>7, <1>8, <1>9, <1>10, <1>11, <1>12, <1>13
     DEF Next, Sync

\* No interleaving of commits with LISTEN, the loads and the clearing of the
\* dirty IDs loses a change of the table.
THEOREM NothingLost == Spec => []NoLostUpdate
<1>1. Init => NoLostUpdate
  BY DEF Init, NoLostUpdate, Synced
<1> QED
  BY <1>1, NoLostUpdateStep, TypeCorrect, PTL DEF Spec

-----------------------------------------------------------------------------
(* The registry never goes back *)

\* The registry is no newer than the rows a query returned, which are no newer
\* than the table.
VersionsOrdered ==
  \A id \in Ids :
    /\ registry[id].version <= db[id].version
    /\ pc \in {"loaded", "marked", "refresh"} =>
         /\ registry[id].version <= result[id].version
         /\ result[id].version <= db[id].version

\* Every step keeps registry, query result and table in this order.
LEMMA VersionsStep ==
  TypeOK /\ VersionsOrdered /\ [Next]_vars
    => VersionsOrdered' /\ \A id \in Ids : registry'[id].version >= registry[id].version
<1> SUFFICES ASSUME TypeOK, VersionsOrdered, [Next]_vars, NEW id \in Ids
             PROVE  /\ registry'[id].version <= db'[id].version
                    /\ pc' \in {"loaded", "marked", "refresh"} =>
                         /\ registry'[id].version <= result'[id].version
                         /\ result'[id].version <= db'[id].version
                    /\ registry'[id].version >= registry[id].version
  BY DEF VersionsOrdered
<1>0. /\ registry[id].version \in Nat /\ db[id].version \in Nat /\ result[id].version \in Nat
      /\ registry[id].version <= db[id].version
      /\ pc \in {"loaded", "marked", "refresh"} =>
           /\ registry[id].version <= result[id].version
           /\ result[id].version <= db[id].version
  BY DEF TypeOK, Entry, VersionsOrdered
<1>1. CASE LoadClientsSnapshot \/ RefreshQuery
  BY <1>0, <1>1 DEF LoadClientsSnapshot, RefreshQuery, Goto, dbVars
<1>2. CASE WriteClients \/ RefreshClientsByIds
  BY <1>0, <1>2 DEF WriteClients, RefreshClientsByIds, Refreshed, Goto, dbVars, TypeOK
<1>3. CASE MarkSyncSuccess
  BY <1>0, <1>3 DEF MarkSyncSuccess, Goto, dbVars
<1>4. ASSUME UNCHANGED <<db, registry, result>>,
             pc' = pc \/ pc' \notin {"loaded", "marked", "refresh"}
      PROVE  /\ registry'[id].version <= db'[id].version
             /\ pc' \in {"loaded", "marked", "refresh"} =>
                  /\ registry'[id].version <= result'[id].version
                  /\ result'[id].version <= db'[id].version
             /\ registry'[id].version >= registry[id].version
  BY <1>0, <1>4
<1>5. ASSUME \/ Connect \/ Listen \/ ReceiveNotification \/ ClearDirty \/ ReceiveError
             \/ PollConnect \/ PollAgain \/ ReconcileTick \/ HealthCheck \/ EmptyNotify
             \/ ListenerFails \/ RealtimeFails \/ PollFails \/ Age \/ StartWithoutSync
             \/ \E login \in Logins : AuthState(login[1], login[2])
             \/ AuthRegistry \/ AuthDone
             \/ UNCHANGED vars
      PROVE  /\ UNCHANGED <<db, registry, result>>
             /\ pc' = pc \/ pc' \notin {"loaded", "marked", "refresh"}
  BY <1>5 DEF Connect, Listen, ReceiveNotification, ClearDirty, ReceiveError, PollConnect,
     PollAgain, ReconcileTick, HealthCheck, EmptyNotify, ListenerFails, RealtimeFails,
     PollFails, Fallback, Age, StartWithoutSync, AuthState, AuthRegistry, AuthDone, Goto,
     vars, dbVars, syncVars
<1>6. ASSUME UNCHANGED <<registry, result, pc>>, db'[id].version >= db[id].version,
             db'[id].version \in Nat
      PROVE  /\ registry'[id].version <= db'[id].version
             /\ pc' \in {"loaded", "marked", "refresh"} =>
                  /\ registry'[id].version <= result'[id].version
                  /\ result'[id].version <= db'[id].version
             /\ registry'[id].version >= registry[id].version
  BY <1>0, <1>6
<1>7. ASSUME NEW x \in Ids, NEW secret \in Secrets \cup {None}, Commit(x, secret)
      PROVE  /\ UNCHANGED <<registry, result, pc>>
             /\ db'[id].version >= db[id].version /\ db'[id].version \in Nat
  BY <1>0, <1>7, ChangedType DEF Commit, syncVars, TypeOK
<1>8. ASSUME NEW old \in Ids, NEW new \in Ids, Rename(old, new)
      PROVE  /\ UNCHANGED <<registry, result, pc>>
             /\ db'[id].version >= db[id].version /\ db'[id].version \in Nat
  <2>1. db[old].secret \in Secrets \cup {None}
    BY DEF TypeOK, Entry
  <2> QED
    BY <1>0, <1>8, <2>1, ChangedType DEF Rename, syncVars, TypeOK
<1> QED
  BY <1>1, <1>2, <1>3, <1>4, <1>5, <1>6, <1>7, <1>8 DEF Next, Sync

\* No load, refresh or change of mode puts an older state of a client's rows
\* back into the registry.
THEOREM RegistryNeverStepsBack == Spec => NeverStepsBack
<1>1. Init => VersionsOrdered
  <2> SUFFICES ASSUME Init, NEW id \in Ids
               PROVE  registry[id].version <= db[id].version
    BY DEF Init, VersionsOrdered
  <2>1. registry[id] = [version |-> 0, secret |-> Seed[id]]
    BY DEF Init
  <2>2. db[id] \in [version : {1}, secret : Secrets \cup {None}]
    BY DEF Init
  <2>3. registry[id].version = 0 /\ db[id].version = 1
    BY <2>1, <2>2
  <2> QED
    BY <2>3
<1>2. TypeOK /\ VersionsOrdered /\ [Next]_vars => VersionsOrdered'
  BY VersionsStep
<1>3. TypeOK /\ VersionsOrdered /\ [Next]_vars
        => [\A id \in Ids : registry'[id].version >= registry[id].version]_vars
  BY VersionsStep
<1> QED
  BY <1>1, <1>2, <1>3, TypeCorrect, PTL DEF Spec, NeverStepsBack

-----------------------------------------------------------------------------
(* A refusal for good needs a snapshot *)

Snapshot == loaded \/ pc = "marked"

\* The data is never fresh before a snapshot, the loops run after one, and an
\* authentication that found the data fresh found it so after one.
SnapshotInv ==
    /\ lastSync # "never" => Snapshot
    /\ pc \in {"loop", "refresh", "refreshed", "sleep"} => loaded
    /\ auth.id # None /\ auth.state = "Fresh" => Snapshot
    /\ InvalidNeedsSnapshot

\* Steps of the tasks: what a snapshot allows is not taken back.
LEMMA SnapshotKept ==
  ASSUME SnapshotInv, auth' = auth, Snapshot => Snapshot',
         lastSync' # "never" => Snapshot',
         pc' \in {"loop", "refresh", "refreshed", "sleep"} => loaded'
  PROVE  SnapshotInv'
BY DEF SnapshotInv, InvalidNeedsSnapshot, Snapshot

\* Every step keeps the invariant.
LEMMA SnapshotStep == TypeOK /\ SnapshotInv /\ [Next]_vars => SnapshotInv'
<1> SUFFICES ASSUME TypeOK, SnapshotInv, [Next]_vars PROVE SnapshotInv'
  OBVIOUS
<1>1. CASE \/ Connect \/ Listen \/ LoadClientsSnapshot \/ MarkSyncSuccess \/ WriteClients
           \/ ReceiveNotification \/ RefreshQuery \/ RefreshClientsByIds \/ ClearDirty
           \/ PollConnect \/ PollAgain \/ ReconcileTick \/ HealthCheck
  BY <1>1, SnapshotKept DEF SnapshotInv, Snapshot, Connect, Listen, LoadClientsSnapshot,
     MarkSyncSuccess, WriteClients, ReceiveNotification, RefreshQuery, RefreshClientsByIds,
     ClearDirty, PollConnect, PollAgain, ReconcileTick, HealthCheck, Goto, TypeOK, syncVars
<1>2. CASE ReceiveError \/ RealtimeFails \/ PollFails
  BY <1>2, SnapshotKept DEF SnapshotInv, Snapshot, ReceiveError, RealtimeFails, PollFails,
     Fallback, Goto
<1>3. CASE \/ \E id \in Ids, secret \in Secrets \cup {None} : Commit(id, secret)
           \/ \E old, new \in Ids : Rename(old, new)
           \/ EmptyNotify \/ ListenerFails \/ Age \/ StartWithoutSync
           \/ UNCHANGED vars
  <2>1. UNCHANGED <<pc, loaded, auth>> /\ (lastSync' # "never" => lastSync # "never")
    BY <1>3 DEF Commit, Rename, EmptyNotify, ListenerFails, Age, StartWithoutSync, vars, syncVars
  <2> QED
    BY <2>1, SnapshotKept DEF SnapshotInv, Snapshot
<1>4. ASSUME NEW login \in Logins, AuthState(login[1], login[2])
      PROVE  SnapshotInv'
  <2>1. /\ UNCHANGED <<pc, loaded, lastSync>>
        /\ auth' = [id |-> login[1], secret |-> login[2], state |-> ClientDataState,
                    verdict |-> IF ClientDataState = "Stale" THEN "Stale" ELSE "none"]
    BY <1>4 DEF AuthState, syncVars
  <2>2. ClientDataState = "Fresh" => lastSync # "never"
    BY DEF ClientDataState
  <2>3. auth'.state = ClientDataState /\ auth'.verdict # "Invalid"
    BY <2>1
  <2> QED
    BY <2>1, <2>2, <2>3 DEF SnapshotInv, InvalidNeedsSnapshot, Snapshot
<1>5. CASE AuthRegistry
  <2> DEFINE v == IF registry[auth.id].secret = auth.secret THEN "Ok" ELSE Unverified(auth.state)
  <2>1. UNCHANGED <<pc, loaded, lastSync>> /\ auth' = [auth EXCEPT !.verdict = v] /\ auth.id # None
    BY <1>5 DEF AuthRegistry, syncVars
  <2>2. v = "Invalid" => auth.state = "Fresh"
    BY DEF Unverified, TypeOK
  <2>3. auth'.id = auth.id /\ auth'.state = auth.state /\ auth'.verdict = v
    BY <2>1 DEF TypeOK
  <2> HIDE DEF v
  <2> QED
    BY <2>1, <2>2, <2>3 DEF SnapshotInv, InvalidNeedsSnapshot, Snapshot
<1>6. CASE AuthDone
  BY <1>6 DEF AuthDone, NoAuth, SnapshotInv, InvalidNeedsSnapshot, Snapshot, syncVars
<1> QED
  BY <1>1, <1>2, <1>3, <1>4, <1>5, <1>6 DEF Next, Sync

\* Credentials are refused for good only after a snapshot of the table was read,
\* whatever the sync task and the authentication do in between.
THEOREM InvalidAfterSnapshot == Spec => []InvalidNeedsSnapshot
<1>1. Init => SnapshotInv
  BY DEF Init, SnapshotInv, InvalidNeedsSnapshot, NoAuth
<1>2. SnapshotInv => InvalidNeedsSnapshot
  BY DEF SnapshotInv
<1> QED
  BY <1>1, <1>2, SnapshotStep, TypeCorrect, PTL DEF Spec
=============================================================================
