------------------------- MODULE BrowserPublication -------------------------
(***************************************************************************)
(* The publish panel of the web page: a tab keeps one publication in its    *)
(* session storage, sends it, recovers it after a failure or a reload, and  *)
(* forgets it when the host says so.  A tab may be reloaded or closed at    *)
(* any moment, also duplicated with its storage; requests and replies may   *)
(* be lost, or arrive when nobody waits for them any more.                  *)
(***************************************************************************)
EXTENDS RoomService

CONSTANTS
    Tabs,       \* browser tabs
    Nowhere,    \* the sender of a request nobody waits for any more
    Nothing     \* no saved publication, no result

VARIABLES
    storage,    \* session storage, by tab
    page,       \* the component's state and its running publish(), by tab
    net,        \* requests sent and not yet handled
    forgotten   \* history: capabilities discarded, or lost with their tab

service == <<now, rooms, minted, publication, answered, decisions>>
allVars == <<service, storage, page, net, forgotten>>

Attempt == [cap : Caps, payload : Payloads]

ASSUME PageAssumption == Nothing \notin Attempt

Loading == [pc |-> "loading", attempt |-> Nothing, saved |-> FALSE, result |-> Nothing]

At(t, pc) == page[t].pc = pc
Orphaned(t) == {IF m.from = t THEN [m EXCEPT !.from = Nowhere] ELSE m : m \in net}
Known == {storage[t].cap : t \in {u \in Tabs : storage[u] # Nothing}} \cup {m.cap : m \in net}
         \cup {h \in Caps : publication[h] # NoRoom} \cup forgotten

PageInit == /\ Init
            /\ storage = [t \in Tabs |-> Nothing]
            /\ page = [t \in Tabs |-> Loading]
            /\ net = {} /\ forgotten = {}

\* Faulty: a publication that cannot be read counts as none.
LoadIgnoringErrors(t) ==
    /\ At(t, "loading")
    /\ \E found \in {storage[t], Nothing} :
          page' = [page EXCEPT ![t] = [@ EXCEPT !.pc = "ready", !.attempt = found, !.saved = found # Nothing]]
    /\ UNCHANGED <<service, storage, net, forgotten>>

\* The effect that loads the saved publication; it may fail to read one.
Load(t) ==
    /\ At(t, "loading")
    /\ \/ page' = [page EXCEPT ![t] = [@ EXCEPT !.pc = "ready", !.attempt = storage[t], !.saved = storage[t] # Nothing]]
       \/ page' = [page EXCEPT ![t] = [@ EXCEPT !.pc = "ready", !.saved = TRUE]]
    /\ UNCHANGED <<service, storage, net, forgotten>>

\* publish(input) while nothing is pending or saved: the file is read.
Choose(t) ==
    /\ At(t, "ready") /\ ~page[t].saved /\ page[t].result = Nothing
    /\ page' = [page EXCEPT ![t].pc = "reading"]
    /\ UNCHANGED <<service, storage, net, forgotten>>

Sent(t, a) == net \cup {[from |-> t, cap |-> a.cap, payload |-> a.payload]}

\* Then, without a pause, a capability is minted, saved and sent; an invalid
\* file or a storage that refuses stops it before.
SaveAndSend(t) ==
    /\ At(t, "reading")
    /\ \/ page' = [page EXCEPT ![t].pc = "ready"] /\ UNCHANGED <<storage, net>>
       \/ \E h \in {x \in Caps \ Known : Issued[x] = now}, p \in Payloads :
             LET a == [cap |-> h, payload |-> p]
             IN  /\ storage' = [storage EXCEPT ![t] = a]
                 /\ page' = [page EXCEPT ![t] = [@ EXCEPT !.pc = "sending", !.attempt = a, !.saved = TRUE]]
                 /\ net' = Sent(t, a)
    /\ UNCHANGED <<service, forgotten>>

\* publish() again, while the saved publication's window is open.
Recover(t) ==
    /\ At(t, "ready") /\ page[t].attempt # Nothing /\ page[t].result = Nothing
    /\ InWindow(page[t].attempt.cap, now)
    /\ page' = [page EXCEPT ![t].pc = "sending"]
    /\ net' = Sent(t, page[t].attempt)
    /\ UNCHANGED <<service, storage, forgotten>>

\* A valid acknowledgement becomes the result of whoever still waits.
Reply(m, creds) ==
    \/ UNCHANGED page
    \/ /\ m.from # Nowhere
       /\ page' = [page EXCEPT ![m.from] = [@ EXCEPT !.pc = "ready", !.result = creds]]

Serve(m) ==
    /\ \/ \E i \in Ids, k \in Keys :
             /\ Publish(m.cap, i, k, m.payload, now)
             /\ Reply(m, <<k, i>>)
       \/ /\ Replay(m.cap, m.payload)
          /\ LET i == publication[m.cap].room IN Reply(m, <<rooms[i].key, i>>)
    /\ net' = net \ {m}
    /\ UNCHANGED <<storage, forgotten>>

Drop(m) == net' = net \ {m} /\ UNCHANGED <<service, storage, page, forgotten>>

\* Faulty: the exchange goes on when browserJson has given up.
GiveUpWithoutAbort(t) ==
    /\ At(t, "sending")
    /\ page' = [page EXCEPT ![t].pc = "ready"]
    /\ UNCHANGED <<service, storage, net, forgotten>>

\* browserJson fails, by its deadline or otherwise, or the service refuses.
GiveUp(t) ==
    /\ At(t, "sending")
    /\ net' = Orphaned(t)
    /\ page' = [page EXCEPT ![t].pc = "ready"]
    /\ UNCHANGED <<service, storage, forgotten>>

Stored(t) == IF storage[t] = Nothing THEN {} ELSE {storage[t].cap}

\* The host discards the saved publication, with or without a result.
ForgetPublication(t) ==
    /\ At(t, "ready") /\ page[t].saved
    /\ storage' = [storage EXCEPT ![t] = Nothing]
    /\ page' = [page EXCEPT ![t] = [@ EXCEPT !.attempt = Nothing, !.saved = FALSE]]
    /\ forgotten' = forgotten \cup Stored(t)
    /\ UNCHANGED <<service, net>>

Reload(t) == /\ page' = [page EXCEPT ![t] = Loading]
             /\ net' = Orphaned(t)
             /\ UNCHANGED <<service, storage, forgotten>>

\* The tab is closed, and perhaps opened anew.
Close(t) == /\ page' = [page EXCEPT ![t] = Loading]
            /\ net' = Orphaned(t)
            /\ storage' = [storage EXCEPT ![t] = Nothing]
            /\ forgotten' = forgotten \cup Stored(t)
            /\ UNCHANGED service

\* A tab opened as a copy of another starts with a copy of its storage.
Duplicate(t, u) == /\ At(u, "loading") /\ storage[u] = Nothing
                   /\ storage' = [storage EXCEPT ![u] = storage[t]]
                   /\ UNCHANGED <<service, page, net, forgotten>>

\* Everyone else uses the service, each route with one call of the store:
\* an old client that publishes without a capability, ...
PostRoom == \E i \in Ids, k \in Keys, p \in Payloads : Create(i, k, p, now)

\* ... a member, with any name and no proof, ...
PostClaim == \E i \in Ids, r \in Roles, n \in Names : Claim(i, r, n)

\* ... a host that presents the room's token, ...
PostRepublish == \E i \in Ids, p \in Payloads : Republish(i, p)
DeleteRoom    == \E i \in Ids : Remove({i})

\* ... and maintenance.
PurgeRooms == \E S \in SUBSET Ids : Remove({i \in S : i \in DOMAIN rooms /\ rooms[i].expires <= now})

ServiceStep == /\ Tick \/ PostRoom \/ PostClaim \/ PostRepublish \/ DeleteRoom \/ PurgeRooms
               /\ UNCHANGED <<storage, page, net, forgotten>>

PageNext ==
    \/ \E t \in Tabs : \/ Load(t) \/ Choose(t) \/ SaveAndSend(t) \/ Recover(t) \/ GiveUp(t)
                       \/ ForgetPublication(t) \/ Reload(t) \/ Close(t)
                       \/ \E u \in Tabs \ {t} : Duplicate(t, u)
    \/ \E m \in net : Serve(m) \/ Drop(m)
    \/ ServiceStep

PageSpec == PageInit /\ [][PageNext]_allVars

-----------------------------------------------------------------------------
(* Type correctness; a tab waits for at most one request, its own attempt's. *)
PageTypeOK ==
    /\ storage \in [Tabs -> Attempt \cup {Nothing}]
    /\ \A t \in Tabs : /\ page[t].pc \in {"loading", "ready", "reading", "sending"}
                       /\ page[t].attempt \in Attempt \cup {Nothing}
                       /\ page[t].result \in (Keys \X Ids) \cup {Nothing}
    /\ net \subseteq [from : Tabs \cup {Nowhere}, cap : Caps, payload : Payloads]
    /\ \A m \in net : m.from # Nowhere =>
          At(m.from, "sending") /\ page[m.from].attempt = [cap |-> m.cap, payload |-> m.payload]

(* Types; and a capability that is on its way or has created a room is in    *)
(* some tab's session storage, until the host discards it or closes the tab: *)
(* no second click, reload or failure forgets what may have happened.        *)
AttemptKept ==
    /\ PageTypeOK
    /\ \A h \in Caps : publication[h] # NoRoom \/ (\E m \in net : m.cap = h) =>
        h \in forgotten \/ \E t \in Tabs : storage[t] # Nothing /\ storage[t].cap = h

(* The token a tab shows is that of the publication it has saved: what the   *)
(* host is told to keep before clearing the attempt opens the room of that   *)
(* attempt, whatever replies were late and whatever was discarded before.    *)
ShownOwn ==
    \A t \in Tabs : page[t].result # Nothing /\ storage[t] # Nothing =>
        /\ publication[storage[t].cap] # NoRoom
        /\ page[t].result[2] = publication[storage[t].cap].room
=============================================================================
