---------------------------- MODULE RoomService ----------------------------
(***************************************************************************)
(* What the room store promises its callers: the RoomStore interface of     *)
(* lib/store.ts, with neither a publication ledger, nor row locks, nor      *)
(* transactions.  MemoryStore (one process) and RoomTransactions (the       *)
(* PostgreSQL functions) are both shown to implement it.                    *)
(*                                                                          *)
(* An operation decides on the clock and takes effect at once, or decides   *)
(* first and takes effect later, as a transaction does that read the clock  *)
(* under a lock.  A decision is on record from the moment it was right: it  *)
(* serves one effect, and until then nobody removes the room it is about.   *)
(***************************************************************************)
EXTENDS RoomData

VARIABLES
    now,          \* the clock
    rooms,        \* the stored rooms: a function from some of the Ids to rows
    minted,       \* every host token that was ever given a room
    publication,  \* for each capability, the one room it ever created
    answered,     \* for each capability, the credentials given in answer to it
    held,         \* rooms that were live when a change of them was decided
    admitted,     \* capabilities that were in their window when they were admitted
    located       \* capabilities whose room was live when it was looked up

decisions == <<held, admitted, located>>
vars == <<now, rooms, minted, publication, answered, decisions>>

\* The room is stored and has not expired.
Live(i) == i \in DOMAIN rooms /\ now < rooms[i].expires

\* What was decided when it was right, or is right now.
MayChange(i) == i \in DOMAIN rooms /\ (i \in held \/ Live(i))
MayPublish(h) == h \in admitted \/ InWindow(h, now)
MayAnswer(h) == /\ publication[h] # NoRoom
                /\ publication[h].room \in DOMAIN rooms
                /\ h \in located \/ Live(publication[h].room)

Init == /\ now = 0
        /\ rooms = [i \in {} |-> i]
        /\ minted = {}
        /\ publication = [h \in Caps |-> NoRoom]
        /\ answered = [h \in Caps |-> {}]
        /\ held = {} /\ admitted = {} /\ located = {}

Tick == /\ now < MaxNow
        /\ now' = now + 1
        /\ UNCHANGED <<rooms, minted, publication, answered, decisions>>

\* A decision is taken on the clock as it is; what it was for may fail later.
Hold(i) == /\ Live(i)
           /\ held' = held \cup {i}
           /\ UNCHANGED <<now, rooms, minted, publication, answered, admitted, located>>

Admit(h) == /\ InWindow(h, now)
            /\ admitted' = admitted \cup {h}
            /\ UNCHANGED <<now, rooms, minted, publication, answered, held, located>>

Locate(h) == /\ publication[h] # NoRoom /\ Live(publication[h].room)
           /\ located' = located \cup {h}
           /\ UNCHANGED <<now, rooms, minted, publication, answered, held, admitted>>

Withdraw == /\ held' \in SUBSET held /\ admitted' \in SUBSET admitted /\ located' \in SUBSET located
            /\ UNCHANGED <<now, rooms, minted, publication, answered>>

\* A key belongs to its room for as long as the row is stored, expired or not.
Store(i, row) == /\ i \notin minted
                 /\ \A j \in DOMAIN rooms : rooms[j].key # row.key
                 /\ minted' = minted \cup {i}
                 /\ rooms' = [j \in DOMAIN rooms \cup {i} |-> IF j = i THEN row ELSE rooms[j]]

Create(i, k, p, t) == /\ Store(i, NewRow(k, i, p, t))
                      /\ UNCHANGED <<now, publication, answered, decisions>>

\* Faulty: a capability whose room is gone creates another one.
PublishAfterRemoval(h, i, k, p, t) ==
    /\ publication[h] # NoRoom => publication[h].room \notin DOMAIN rooms
    /\ MayPublish(h) /\ InWindow(h, t)
    /\ Store(i, NewRow(k, i, p, t))
    /\ publication' = [publication EXCEPT ![h] = [room |-> i, payload |-> p]]
    /\ answered' = [answered EXCEPT ![h] = @ \cup {<<k, i>>}]
    /\ admitted' = admitted \ {h}
    /\ UNCHANGED <<now, held, located>>

\* The first create with a capability stores a room, dated by a reading in the
\* capability's window, and answers with it.
Publish(h, i, k, p, t) ==
    /\ publication[h] = NoRoom
    /\ MayPublish(h) /\ InWindow(h, t)
    /\ Store(i, NewRow(k, i, p, t))
    /\ publication' = [publication EXCEPT ![h] = [room |-> i, payload |-> p]]
    /\ answered' = [answered EXCEPT ![h] = @ \cup {<<k, i>>}]
    /\ admitted' = admitted \ {h}
    /\ UNCHANGED <<now, held, located>>

\* Every later create with it, of the same payload, answers with that room.
Replay(h, p) ==
    /\ MayPublish(h) /\ MayAnswer(h)
    /\ publication[h].payload = p
    /\ LET i == publication[h].room
       IN  answered' = [answered EXCEPT ![h] = @ \cup {<<rooms[i].key, i>>}]
    /\ admitted' = admitted \ {h} /\ located' = located \ {h}
    /\ UNCHANGED <<now, rooms, minted, publication, held>>

\* A change of a room uses up the decision that held it.
Change(i, row) == /\ MayChange(i)
                  /\ rooms' = [rooms EXCEPT ![i] = row]
                  /\ held' = held \ {i}
                  /\ UNCHANGED <<now, minted, publication, answered, admitted, located>>

Claim(i, r, n) == /\ Change(i, Claimed(rooms[i], r, n))
                  /\ r \in RolesOf[rooms[i].payload]

Republish(i, p) == /\ Change(i, Republished(rooms[i], p))
                   /\ rooms[i].version < MaxVersion

\* The host may delete its room at any time; maintenance, what has expired;
\* but no room that somebody has decided on.
Remove(S) == /\ S \subseteq DOMAIN rooms \ held
             /\ \A h \in located : publication[h].room \notin S
             /\ \/ \E i \in S : S = {i}
                \/ \A i \in S : rooms[i].expires <= now
             /\ rooms' = [i \in DOMAIN rooms \ S |-> rooms[i]]
             /\ UNCHANGED <<now, minted, publication, answered, decisions>>

Next == \/ Tick
        \/ \E S \in SUBSET Ids : Remove(S)
        \/ \E i \in Ids, k \in Keys, p \in Payloads, t \in 0..now :
              \/ Create(i, k, p, t)
              \/ \E h \in Caps : Publish(h, i, k, p, t)
        \/ \E h \in Caps, p \in Payloads : Replay(h, p)
        \/ \E i \in Ids, r \in Roles, n \in Names : Claim(i, r, n)
        \/ \E i \in Ids, p \in Payloads : Republish(i, p)
        \/ \E i \in Ids : Hold(i)
        \/ \E h \in Caps : Admit(h) \/ Locate(h)
        \/ Withdraw

Spec == Init /\ [][Next]_vars

-----------------------------------------------------------------------------
(* Type correctness of the service's state. *)
TypeOK == /\ now \in 0..MaxNow
          /\ minted \subseteq Ids
          /\ DOMAIN rooms \subseteq minted
          /\ rooms \in [DOMAIN rooms -> Row]
          /\ publication \in [Caps -> Publication \cup {NoRoom}]
          /\ answered \in [Caps -> SUBSET (Keys \X Ids)]
          /\ held \subseteq DOMAIN rooms /\ admitted \subseteq Caps /\ located \subseteq Caps

(* A key opens one stored room, and every room claims only roles it has: a  *)
(* republish that drops a role drops its claim with it.                     *)
RoomsSound == \A i \in DOMAIN rooms :
                 /\ rooms[i].token = i
                 /\ ClaimsNameRoles(rooms[i])
                 /\ \A j \in DOMAIN rooms : rooms[j].key = rooms[i].key => j = i

(* Whatever is retried, lost or deleted in between, every answer ever given *)
(* to a capability carries the same credentials, those of the one room it   *)
(* created.                                                                 *)
OneRoomPerCapability ==
    \A h \in Caps : \A a, b \in answered[h] :
        a = b /\ publication[h] # NoRoom /\ a[2] = publication[h].room

(* A row changes only into the next version or into another claim of one    *)
(* of its roles; it keeps its key, token and dates, and a removed room       *)
(* never comes back.                                                         *)
RowStep(old, new) ==
    \/ new = old
    \/ \E r \in RolesOf[old.payload], n \in Names : new = Claimed(old, r, n)
    \/ \E p \in Payloads : new = Republished(old, p)

RoomsEvolve == /\ \A i \in DOMAIN rooms \cap DOMAIN rooms' : RowStep(rooms[i], rooms'[i])
               /\ (DOMAIN rooms' \ DOMAIN rooms) \cap minted = {}

NothingReturns == [][RoomsEvolve]_vars
=============================================================================
