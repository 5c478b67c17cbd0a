---------------------------- MODULE MemoryStore ----------------------------
(***************************************************************************)
(* class MemoryStore of lib/store.ts: two Maps and no awaits, so that every *)
(* method is one step and reads the clock at the instant it takes effect.   *)
(* Expired rooms stay in the map until maintenance purges them, and a       *)
(* publication is forgotten once its window has closed.                     *)
(*                                                                          *)
(* Failures (NotFoundError, ForbiddenError, PublicationError, five key      *)
(* collisions in a row) change nothing and are not steps.                   *)
(***************************************************************************)
EXTENDS RoomData, FiniteSets

CONSTANTS PurgeLimit   \* how many entries one purge call may delete

VARIABLES
    now,
    rooms,         \* Map: key -> stored room
    publications,  \* Map: capability hash -> publication and the room it points to
    minted, publication, answered   \* history, as in RoomService

vars == <<now, rooms, publications, minted, publication, answered>>

Expired(k) == rooms[k].expires <= now

Init == /\ now = 0
        /\ rooms = [k \in {} |-> k]
        /\ publications = [h \in {} |-> h]
        /\ minted = {}
        /\ publication = [h \in Caps |-> NoRoom]
        /\ answered = [h \in Caps |-> {}]

Tick == /\ now < MaxNow
        /\ now' = now + 1
        /\ UNCHANGED <<rooms, publications, minted, publication, answered>>

\* Faulty: a key whose room has expired is taken over.
InsertOverExpired(k, i, p) ==
    /\ k \in DOMAIN rooms => Expired(k)
    /\ i \notin minted
    /\ minted' = minted \cup {i}
    /\ rooms' = [l \in DOMAIN rooms \cup {k} |-> IF l = k THEN NewRow(k, i, p, now) ELSE rooms[l]]

\* The loop over random keys ends on one no entry owns, with a fresh token.
Insert(k, i, p) ==
    /\ k \notin DOMAIN rooms
    /\ i \notin minted
    /\ minted' = minted \cup {i}
    /\ rooms' = [l \in DOMAIN rooms \cup {k} |-> IF l = k THEN NewRow(k, i, p, now) ELSE rooms[l]]

CreatePlain(k, i, p) ==
    /\ Insert(k, i, p)
    /\ UNCHANGED <<now, publications, publication, answered>>

CreateRecoverable(h, k, i, p) ==
    /\ InWindow(h, now)
    /\ h \notin DOMAIN publications
    /\ Insert(k, i, p)
    /\ publications' = [g \in DOMAIN publications \cup {h} |->
          IF g = h THEN [payload |-> p, key |-> k, room |-> i] ELSE publications[g]]
    /\ publication' = [publication EXCEPT ![h] = [room |-> i, payload |-> p]]
    /\ answered' = [answered EXCEPT ![h] = @ \cup {<<k, i>>}]
    /\ UNCHANGED now

\* Answer an existing publication with the room it points to, by identity.
CreateReplayed(h, p) ==
    /\ InWindow(h, now)
    /\ h \in DOMAIN publications
    /\ publications[h].payload = p
    /\ publications[h].room # NoRoom
    /\ LET k == publications[h].key
       IN  /\ k \in DOMAIN rooms
           /\ rooms[k].token = publications[h].room
           /\ ~Expired(k)
           /\ answered' = [answered EXCEPT ![h] = @ \cup {<<k, rooms[k].token>>}]
    /\ UNCHANGED <<now, rooms, publications, minted, publication>>

\* Faulty: a claim looks only for the room.
ClaimExpired(k, r, n) ==
    /\ k \in DOMAIN rooms
    /\ r \in RolesOf[rooms[k].payload]
    /\ rooms' = [rooms EXCEPT ![k] = Claimed(@, r, n)]
    /\ UNCHANGED <<now, publications, minted, publication, answered>>

Claim(k, r, n) ==
    /\ k \in DOMAIN rooms /\ ~Expired(k)
    /\ r \in RolesOf[rooms[k].payload]
    /\ rooms' = [rooms EXCEPT ![k] = Claimed(@, r, n)]
    /\ UNCHANGED <<now, publications, minted, publication, answered>>

Republish(k, token, p) ==
    /\ k \in DOMAIN rooms /\ ~Expired(k)
    /\ rooms[k].token = token
    /\ rooms[k].version < MaxVersion
    /\ rooms' = [rooms EXCEPT ![k] = Republished(@, p)]
    /\ UNCHANGED <<now, publications, minted, publication, answered>>

\* Faulty: the references stay.
DropRoomsOnly(S) ==
    /\ rooms' = [k \in DOMAIN rooms \ S |-> rooms[k]]
    /\ UNCHANGED <<now, publications, minted, publication, answered>>

\* Faulty: the publication is emptied, not only its reference.
DropWholePublication(S) ==
    /\ rooms' = [k \in DOMAIN rooms \ S |-> rooms[k]]
    /\ publications' = [h \in DOMAIN publications |->
          IF \E k \in S : rooms[k].token = publications[h].room THEN NoRoom ELSE publications[h]]
    /\ UNCHANGED <<now, minted, publication, answered>>

\* Rooms leave the map together with every reference to them.
Drop(S) ==
    /\ rooms' = [k \in DOMAIN rooms \ S |-> rooms[k]]
    /\ publications' = [h \in DOMAIN publications |->
          IF \E k \in S : rooms[k].token = publications[h].room
          THEN [publications[h] EXCEPT !.room = NoRoom] ELSE publications[h]]
    /\ UNCHANGED <<now, minted, publication, answered>>

\* The host's token deletes the room, expired or not.
Delete(k, token) == /\ k \in DOMAIN rooms
                    /\ rooms[k].token = token
                    /\ Drop({k})

\* A purge takes what it can up to its limit.
Batch(S, due) == /\ S \subseteq due
                 /\ Cardinality(S) <= PurgeLimit
                 /\ S = due \/ Cardinality(S) = PurgeLimit

PurgeExpired(S) == /\ Batch(S, {k \in DOMAIN rooms : Expired(k)})
                   /\ Drop(S)

\* Faulty: the age of a publication is counted from its minting.
PurgeIssuedPublications(H) ==
    /\ Batch(H, {h \in DOMAIN publications : Issued[h] <= now})
    /\ publications' = [h \in DOMAIN publications \ H |-> publications[h]]
    /\ UNCHANGED <<now, rooms, minted, publication, answered>>

PurgePublications(H) ==
    /\ Batch(H, {h \in DOMAIN publications : WindowEnd(h) <= now})
    /\ publications' = [h \in DOMAIN publications \ H |-> publications[h]]
    /\ UNCHANGED <<now, rooms, minted, publication, answered>>

Next == \/ Tick
        \/ \E k \in Keys, i \in Ids, p \in Payloads :
              \/ CreatePlain(k, i, p)
              \/ \E h \in Caps : CreateRecoverable(h, k, i, p)
              \/ Republish(k, i, p)
        \/ \E h \in Caps, p \in Payloads : CreateReplayed(h, p)
        \/ \E k \in Keys, r \in Roles, n \in Names : Claim(k, r, n)
        \/ \E k \in Keys, i \in Ids : Delete(k, i)
        \/ \E S \in SUBSET Keys : PurgeExpired(S)
        \/ \E H \in SUBSET Caps : PurgePublications(H)

Spec == Init /\ [][Next]_vars

-----------------------------------------------------------------------------
(* Type correctness of the two maps and of the history. *)
TypeOK == /\ now \in 0..MaxNow
          /\ DOMAIN rooms \subseteq Keys
          /\ rooms \in [DOMAIN rooms -> Row]
          /\ DOMAIN publications \subseteq Caps
          /\ publications \in [DOMAIN publications ->
                [payload : Payloads, key : Keys, room : Ids \cup {NoRoom}]]
          /\ minted \subseteq Ids
          /\ publication \in [Caps -> Publication \cup {NoRoom}]
          /\ answered \in [Caps -> SUBSET (Keys \X Ids)]

(* A publication points to a room of the map, under the key it was created  *)
(* with, or to nothing: deletion and purge leave no reference behind, so    *)
(* a key minted again for another room is never mistaken for the old link.  *)
PointersLive ==
    \A h \in DOMAIN publications : publications[h].room # NoRoom =>
        /\ publications[h].key \in DOMAIN rooms
        /\ rooms[publications[h].key].token = publications[h].room

(* A publication is forgotten only when its capability has become useless:  *)
(* what lets the ledger be purged without a second room being created.      *)
ForgottenOnlyWhenClosed ==
    \A h \in Caps : publication[h] # NoRoom =>
        \/ WindowEnd(h) <= now
        \/ /\ h \in DOMAIN publications
           /\ publications[h].payload = publication[h].payload
           /\ publications[h].room \in {publication[h].room, NoRoom}

(* Whoever holds a link or a token, a room past its expiry is never written *)
(* again: it can only leave the map.                                        *)
ExpiredRoomsFrozen ==
    [][\A k \in DOMAIN rooms \cap DOMAIN rooms' : Expired(k) => rooms'[k] = rooms[k]]_vars

\* The same rooms, by token.
ByToken(f) == [i \in {f[k].token : k \in DOMAIN f} |->
                  f[CHOOSE k \in DOMAIN f : f[k].token = i]]

\* Every method decides and takes effect in one step.
Service == INSTANCE RoomService WITH rooms <- ByToken(rooms), held <- {}, admitted <- {}, located <- {}

(* The development store keeps the service's promises ("Same semantics",    *)
(* lib/store.ts:14).                                                        *)
ImplementsService == Service!Spec
=============================================================================
