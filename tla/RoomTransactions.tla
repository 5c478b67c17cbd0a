-------------------------- MODULE RoomTransactions --------------------------
(***************************************************************************)
(* The production store: the SQL functions of supabase/migrations as they   *)
(* run in PostgreSQL under READ COMMITTED, and the calls SupabaseStore      *)
(* makes to them.  A step is a statement, or a wait for the row it needs;   *)
(* writes stay private to their transaction until it commits.              *)
(*                                                                          *)
(* From PostgreSQL the model takes: a row lock has one owner; a statement   *)
(* sees what was committed when it started, and the latest version of a row *)
(* it had to wait for; an insert waits for a transaction that is writing    *)
(* the same unique key; ON DELETE SET NULL locks the referencing rows.      *)
(***************************************************************************)
EXTENDS RoomData, FiniteSets

CONSTANTS
    Txns,         \* connections to the database
    Free,         \* the owner of a row nobody has locked
    Requests,     \* the calls the routes and the maintenance job make
    Attempts,     \* ROOM_CREATION_ATTEMPTS
    PurgeLimit    \* p_room_limit

\* The calls and their parameters, as SupabaseStore passes them.
Request == [fn : {"create"}, payload : Payloads]
           \cup [fn : {"publish"}, cap : Caps, payload : Payloads]
           \cup [fn : {"claim"}, key : Keys, role : Roles, name : Names]
           \cup [fn : {"republish"}, key : Keys, token : Ids, payload : Payloads]
           \cup [fn : {"delete"}, key : Keys, token : Ids]
           \cup [fn : {"purge"}]

ASSUME TransactionAssumption ==
    Free \notin Txns /\ Attempts \in Nat \ {0} /\ Requests \subseteq Request

VARIABLES
    now,
    rooms,        \* public.rooms as committed, by token
    ledger,       \* public.publication_requests as committed, by capability
    roomLock,     \* who holds FOR UPDATE on a row of rooms
    ledgerLock,   \* who holds or has written a row of publication_requests
    tx,           \* the transaction running on each connection
    minted, publication, answered   \* history, as in RoomService

tables == <<rooms, ledger, minted, publication, answered>>
locks  == <<roomLock, ledgerLock>>
vars   == <<now, tables, locks, tx>>

Idle == [pc |-> "idle"]

Busy(p) == tx[p] # Idle
At(p, pc) == tx[p].pc = pc
Fn(p) == tx[p].req.fn
Cap(p) == tx[p].req.cap

Goto(p, pc) == tx' = [tx EXCEPT ![p].pc = pc]

\* Rows of the ledger with an uncommitted write of q: inserted, set to null
\* by a deletion, or deleted.  A replay holds its row without writing it.
Writes(q, h) == /\ ledgerLock[h] = q
                /\ h \notin DOMAIN ledger \/ Fn(q) \in {"delete", "purge"}

Inserted(p) == Fn(p) = "create" \/ (Fn(p) = "publish" /\ Cap(p) \notin DOMAIN ledger)

\* Room keys with an uncommitted insert or delete of q.
WritesKey(q, k) == /\ Busy(q)
                   /\ \/ At(q, "commit") /\ Inserted(q) /\ tx[q].key = k
                      \/ \E i \in tx[q].doomed : rooms[i].key = k

Referencing(S) == {h \in DOMAIN ledger : ledger[h].room \in S}

Batch(S, due) == /\ S \subseteq due
                 /\ Cardinality(S) <= PurgeLimit
                 /\ S = due \/ Cardinality(S) = PurgeLimit

Release(p) ==
    /\ roomLock' = [i \in Ids |-> IF roomLock[i] = p THEN Free ELSE roomLock[i]]
    /\ ledgerLock' = [h \in Caps |-> IF ledgerLock[h] = p THEN Free ELSE ledgerLock[h]]

\* An error raised by the function, or a connection lost: all is rolled back.
Rollback(p) == Release(p) /\ tx' = [tx EXCEPT ![p] = Idle] /\ UNCHANGED <<now, tables>>

Init == /\ now = 0
        /\ rooms = [i \in {} |-> i]
        /\ ledger = [h \in {} |-> h]
        /\ roomLock = [i \in Ids |-> Free]
        /\ ledgerLock = [h \in Caps |-> Free]
        /\ tx = [p \in Txns |-> Idle]
        /\ minted = {}
        /\ publication = [h \in Caps |-> NoRoom]
        /\ answered = [h \in Caps |-> {}]

Tick == /\ now < MaxNow
        /\ now' = now + 1
        /\ UNCHANGED <<tables, locks, tx>>

FirstStatement(fn) == CASE fn \in {"claim", "republish", "delete"} -> "find"
                        [] fn = "create"  -> "key"
                        [] fn = "publish" -> "precheck"
                        [] fn = "purge"   -> "rooms"

\* A call arrives: creations come with a fresh token and a random key.
Begin(p) ==
    /\ ~Busy(p)
    /\ \E req \in Requests, k \in Keys, i \in Ids \cup {NoRoom} :
          /\ IF req.fn \in {"create", "publish"}
             THEN i \in Ids \ (minted \cup {tx[q].room : q \in {q \in Txns : Busy(q)}})
             ELSE i = NoRoom /\ k = CHOOSE l \in Keys : TRUE
          /\ tx' = [tx EXCEPT ![p] = [pc |-> FirstStatement(req.fn), req |-> req, room |-> i, key |-> k,
                                      at |-> now, doomed |-> {}, tries |-> 1]]
    /\ UNCHANGED <<now, tables, locks>>

-----------------------------------------------------------------------------
(* claim_room, republish_room, delete_room *)

\* select ... where key = p_key for update: what the statement's snapshot has.
Find(p) ==
    /\ At(p, "find")
    /\ LET found == {i \in DOMAIN rooms : rooms[i].key = tx[p].req.key}
       IN  \/ /\ found = {}
              /\ Rollback(p)
           \/ \E i \in found :
              /\ tx' = [tx EXCEPT ![p].pc = "lock", ![p].room = i]
              /\ UNCHANGED <<now, tables, locks>>

\* Faulty: a claim, or a republish, of a room that has expired.
ClaimAnyAge(row, req)     == req.role \in RolesOf[row.payload]
RepublishAnyAge(row, req) == req.token = row.token /\ row.version < MaxVersion

\* Decide under the lock, on the clock as it is now; deletion has no clock.
ClaimPermitted(row, req)      == now < row.expires /\ req.role \in RolesOf[row.payload]
RepublishPermitted(row, req)  == now < row.expires /\ req.token = row.token /\ row.version < MaxVersion
DeletePermitted(row, req)     == req.token = row.token

Permitted(p) ==
    LET row == rooms[tx[p].room]
        req == tx[p].req
    IN  CASE Fn(p) = "claim"     -> ClaimPermitted(row, req)
          [] Fn(p) = "republish" -> RepublishPermitted(row, req)
          [] Fn(p) = "delete"    -> DeletePermitted(row, req)

\* Faulty: select without for update, decided on the row as it is before any wait.
LockNothing(p) ==
    /\ At(p, "lock")
    /\ IF tx[p].room \notin DOMAIN rooms \/ ~Permitted(p) THEN Rollback(p)
       ELSE /\ tx' = [tx EXCEPT ![p].at = now,
                                ![p].pc = IF Fn(p) = "delete" THEN "fk" ELSE "commit",
                                ![p].doomed = IF Fn(p) = "delete" THEN {tx[p].room} ELSE {}]
            /\ UNCHANGED <<now, tables, locks>>

\* ... and the row as it is once nobody else holds it: it may be gone.
Lock(p) ==
    /\ At(p, "lock")
    /\ LET i == tx[p].room
       IN  /\ roomLock[i] = Free
           /\ IF i \notin DOMAIN rooms THEN Rollback(p)
              ELSE /\ roomLock' = [roomLock EXCEPT ![i] = p]
                   /\ Goto(p, "check")
                   /\ UNCHANGED <<now, tables, ledgerLock>>

Check(p) ==
    /\ At(p, "check")
    /\ IF ~Permitted(p) THEN Rollback(p)
       ELSE /\ tx' = [tx EXCEPT ![p].at = now,
                                ![p].pc = IF Fn(p) = "delete" THEN "fk" ELSE "commit",
                                ![p].doomed = IF Fn(p) = "delete" THEN {tx[p].room} ELSE {}]
            /\ UNCHANGED <<now, tables, locks>>

\* Faulty: references another transaction is using are left alone.
SetNullSkipLocked(p) ==
    /\ At(p, "fk")
    /\ LET pending == {h \in Referencing(tx[p].doomed) : ledgerLock[h] = Free}
       IN  /\ ledgerLock' = [h \in Caps |-> IF h \in pending THEN p ELSE ledgerLock[h]]
           /\ Goto(p, IF Fn(p) = "purge" THEN "publications" ELSE "commit")
    /\ UNCHANGED <<now, tables, roomLock>>

\* The deleted rooms' references are set to null, each row locked in turn.
SetNull(p) ==
    /\ At(p, "fk")
    /\ LET pending == {h \in Referencing(tx[p].doomed) : ledgerLock[h] # p}
       IN  IF pending = {}
           THEN /\ Goto(p, IF Fn(p) = "purge" THEN "publications" ELSE "commit")
                /\ UNCHANGED <<now, tables, locks>>
           ELSE \E h \in pending :
                /\ ledgerLock[h] = Free
                /\ ledgerLock' = [ledgerLock EXCEPT ![h] = p]
                /\ UNCHANGED <<now, tables, roomLock, tx>>

-----------------------------------------------------------------------------
(* create_room_recoverable, and the insert of a publication without one *)

Precheck(p) ==
    /\ At(p, "precheck")
    /\ IF InWindow(Cap(p), now) THEN Goto(p, "ledger") /\ UNCHANGED <<now, tables, locks>>
       ELSE Rollback(p)

\* insert ... on conflict do nothing waits for whoever is writing the row.
InsertLedger(p) ==
    /\ At(p, "ledger")
    /\ \A q \in Txns \ {p} : Busy(q) => ~Writes(q, Cap(p))
    /\ IF Cap(p) \in DOMAIN ledger
       THEN Goto(p, "lockLedger") /\ UNCHANGED <<now, tables, locks>>
       ELSE /\ ledgerLock' = [ledgerLock EXCEPT ![Cap(p)] = p]
            /\ Goto(p, "recheck")
            /\ UNCHANGED <<now, tables, roomLock>>

\* select ... for update: maintenance may have deleted the row meanwhile.
LockLedger(p) ==
    /\ At(p, "lockLedger")
    /\ ledgerLock[Cap(p)] = Free
    /\ IF Cap(p) \notin DOMAIN ledger THEN Rollback(p)
       ELSE /\ ledgerLock' = [ledgerLock EXCEPT ![Cap(p)] = p]
            /\ Goto(p, "recheck")
            /\ UNCHANGED <<now, tables, roomLock>>

\* Faulty: the check made before the wait is trusted after it.
RecheckPayloadOnly(p) ==
    /\ At(p, "recheck")
    /\ LET h == Cap(p)
       IN  IF ~Inserted(p) /\ ledger[h].payload # tx[p].req.payload
           THEN Rollback(p)
           ELSE /\ tx' = [tx EXCEPT ![p].at = now,
                                    ![p].pc = IF Inserted(p) THEN "key" ELSE "read",
                                    ![p].room = IF Inserted(p) THEN @ ELSE ledger[h].room]
                /\ UNCHANGED <<now, tables, locks>>

\* The clock again after the wait, then the payload the capability is bound to.
Recheck(p) ==
    /\ At(p, "recheck")
    /\ LET h == Cap(p)
       IN  IF ~InWindow(h, now) \/ (~Inserted(p) /\ ledger[h].payload # tx[p].req.payload)
           THEN Rollback(p)
           ELSE /\ tx' = [tx EXCEPT ![p].at = now,
                                    ![p].pc = IF Inserted(p) THEN "key" ELSE "read",
                                    ![p].room = IF Inserted(p) THEN @ ELSE ledger[h].room]
                /\ UNCHANGED <<now, tables, locks>>

\* insert into rooms: a taken key rolls the call back, and the service
\* retries with another one and the same token.
InsertRoom(p) ==
    /\ At(p, "key")
    /\ \A q \in Txns \ {p} : ~WritesKey(q, tx[p].key)
    /\ IF \A i \in DOMAIN rooms : rooms[i].key # tx[p].key
       THEN Goto(p, "commit") /\ UNCHANGED <<now, tables, locks>>
       ELSE /\ Release(p)
            /\ \E k \in Keys :
               tx' = [tx EXCEPT ![p] = IF tx[p].tries = Attempts THEN Idle
                         ELSE [tx[p] EXCEPT !.pc = FirstStatement(Fn(p)), !.key = k,
                                            !.at = now, !.tries = @ + 1]]
            /\ UNCHANGED <<now, tables>>

\* Faulty: the replay locks the room it reads, after its publication.
ReadRoomForUpdate(p) ==
    /\ At(p, "read")
    /\ tx[p].room \in Ids => roomLock[tx[p].room] = Free
    /\ IF tx[p].room \in DOMAIN rooms /\ now < rooms[tx[p].room].expires
       THEN /\ roomLock' = [roomLock EXCEPT ![tx[p].room] = p]
            /\ Goto(p, "commit")
            /\ UNCHANGED <<now, tables, ledgerLock>>
       ELSE Rollback(p)

\* Faulty: the replay does not look at the room's expiry.
ReadExpiredRoom(p) ==
    /\ At(p, "read")
    /\ IF tx[p].room \in DOMAIN rooms
       THEN Goto(p, "commit") /\ UNCHANGED <<now, tables, locks>>
       ELSE Rollback(p)

\* A replay reads its room without a lock on it.
ReadRoom(p) ==
    /\ At(p, "read")
    /\ IF tx[p].room \in DOMAIN rooms /\ now < rooms[tx[p].room].expires
       THEN Goto(p, "commit") /\ UNCHANGED <<now, tables, locks>>
       ELSE Rollback(p)

-----------------------------------------------------------------------------
(* purge_expired_data *)

\* Faulty: the expired rooms are selected without for update.
PurgeRoomsUnlocked(p) ==
    /\ At(p, "rooms")
    /\ \E S \in SUBSET Ids :
          /\ Batch(S, {i \in DOMAIN rooms : rooms[i].expires <= tx[p].at /\ roomLock[i] = Free})
          /\ tx' = [tx EXCEPT ![p].pc = "fk", ![p].doomed = S]
    /\ UNCHANGED <<now, tables, roomLock, ledgerLock>>

\* Expired rooms, except those a transaction is working on.
PurgeRooms(p) ==
    /\ At(p, "rooms")
    /\ \E S \in SUBSET Ids :
          /\ Batch(S, {i \in DOMAIN rooms : rooms[i].expires <= tx[p].at /\ roomLock[i] = Free})
          /\ roomLock' = [i \in Ids |-> IF i \in S THEN p ELSE roomLock[i]]
          /\ tx' = [tx EXCEPT ![p].pc = "fk", ![p].doomed = S]
    /\ UNCHANGED <<now, tables, ledgerLock>>

\* Faulty: the age of a publication is counted from its minting.
PurgeIssuedPublications(p) ==
    /\ At(p, "publications")
    /\ \E H \in SUBSET Caps :
          /\ Batch(H, {h \in DOMAIN ledger : Issued[h] <= tx[p].at /\ ledgerLock[h] \in {Free, p}})
          /\ ledgerLock' = [h \in Caps |-> IF h \in H THEN p ELSE ledgerLock[h]]
          /\ tx' = [tx EXCEPT ![p].pc = "commit", ![p].req = [fn |-> "purge", drop |-> H]]
    /\ UNCHANGED <<now, tables, roomLock>>

\* Publications whose window has closed, except those in use.
PurgePublications(p) ==
    /\ At(p, "publications")
    /\ \E H \in SUBSET Caps :
          /\ Batch(H, {h \in DOMAIN ledger : WindowEnd(h) <= tx[p].at /\ ledgerLock[h] \in {Free, p}})
          /\ ledgerLock' = [h \in Caps |-> IF h \in H THEN p ELSE ledgerLock[h]]
          /\ tx' = [tx EXCEPT ![p].pc = "commit", ![p].req = [fn |-> "purge", drop |-> H]]
    /\ UNCHANGED <<now, tables, roomLock>>

-----------------------------------------------------------------------------
(* Commit: the private writes become visible at once, the locks are released. *)

CommitClaim(p) ==
    /\ Fn(p) = "claim"
    /\ rooms' = [rooms EXCEPT ![tx[p].room] = Claimed(@, tx[p].req.role, tx[p].req.name)]
    /\ UNCHANGED <<ledger, minted, publication, answered>>

CommitRepublish(p) ==
    /\ Fn(p) = "republish"
    /\ rooms' = [rooms EXCEPT ![tx[p].room] = Republished(@, tx[p].req.payload)]
    /\ UNCHANGED <<ledger, minted, publication, answered>>

CommitRemoval(p) ==
    /\ Fn(p) \in {"delete", "purge"}
    /\ LET drop == IF Fn(p) = "purge" THEN tx[p].req.drop ELSE {}
       IN  ledger' = [h \in DOMAIN ledger \ drop |->
              IF ledgerLock[h] = p THEN [ledger[h] EXCEPT !.room = NoRoom] ELSE ledger[h]]
    /\ rooms' = [i \in DOMAIN rooms \ tx[p].doomed |-> rooms[i]]
    /\ UNCHANGED <<minted, publication, answered>>

CommitInsert(p) ==
    /\ Inserted(p)
    /\ LET i == tx[p].room
           entry == [room |-> i, payload |-> tx[p].req.payload]
       IN  /\ rooms' = [j \in DOMAIN rooms \cup {i} |->
                 IF j = i THEN NewRow(tx[p].key, i, entry.payload, tx[p].at) ELSE rooms[j]]
           /\ minted' = minted \cup {i}
           /\ IF Fn(p) = "create" THEN UNCHANGED <<ledger, publication, answered>>
              ELSE LET h == Cap(p)
                   IN  /\ ledger' = [g \in DOMAIN ledger \cup {h} |-> IF g = h THEN entry ELSE ledger[g]]
                       /\ publication' = [publication EXCEPT ![h] = entry]
                       /\ answered' = [answered EXCEPT ![h] = @ \cup {<<tx[p].key, i>>}]

CommitReplay(p) ==
    /\ Fn(p) = "publish" /\ ~Inserted(p)
    /\ LET i == tx[p].room
       IN  answered' = [answered EXCEPT ![Cap(p)] = @ \cup {<<rooms[i].key, i>>}]
    /\ UNCHANGED <<rooms, ledger, minted, publication>>

Commit(p) ==
    /\ At(p, "commit")
    /\ CommitClaim(p) \/ CommitRepublish(p) \/ CommitRemoval(p) \/ CommitInsert(p) \/ CommitReplay(p)
    /\ Release(p)
    /\ tx' = [tx EXCEPT ![p] = Idle]
    /\ UNCHANGED now

\* storageRequest's deadline before the commit, a lost connection, a restart of
\* the database.  After the commit only the answer is lost.
Fail(p) == Busy(p) /\ Rollback(p)

Statement(p) ==
    /\ Busy(p)
    /\ \/ Find(p) \/ Lock(p) \/ Check(p) \/ SetNull(p)
       \/ Precheck(p) \/ InsertLedger(p) \/ LockLedger(p) \/ Recheck(p) \/ InsertRoom(p) \/ ReadRoom(p)
       \/ PurgeRooms(p) \/ PurgePublications(p) \/ Commit(p)

Next == \/ Tick
        \/ \E p \in Txns : Begin(p) \/ Statement(p) \/ Fail(p)

Spec == Init /\ [][Next]_vars

-----------------------------------------------------------------------------
(* Type correctness; only a running transaction holds locks. *)
Steps == {"find", "lock", "check", "fk", "precheck", "ledger", "lockLedger", "recheck", "key",
          "read", "rooms", "publications", "commit"}

TypeOK == /\ now \in 0..MaxNow
          /\ DOMAIN rooms \subseteq minted /\ rooms \in [DOMAIN rooms -> Row]
          /\ DOMAIN ledger \subseteq Caps
          /\ ledger \in [DOMAIN ledger -> [room : Ids \cup {NoRoom}, payload : Payloads]]
          /\ roomLock \in [Ids -> {p \in Txns : Busy(p)} \cup {Free}]
          /\ ledgerLock \in [Caps -> {p \in Txns : Busy(p)} \cup {Free}]
          /\ \A p \in Txns : Busy(p) =>
                /\ tx[p].pc \in Steps /\ tx[p].room \in Ids \cup {NoRoom} /\ tx[p].key \in Keys
                /\ tx[p].at \in 0..now /\ tx[p].doomed \subseteq DOMAIN rooms /\ tx[p].tries \in 1..Attempts
          /\ minted \subseteq Ids
          /\ publication \in [Caps -> Publication \cup {NoRoom}]
          /\ answered \in [Caps -> SUBSET (Keys \X Ids)]

(* Types; and the foreign key: no committed publication refers to a room     *)
(* that is gone, whatever deletions, purges and replays were in progress     *)
(* together.                                                                 *)
ReferencesLive == TypeOK /\ \A h \in DOMAIN ledger : ledger[h].room \in DOMAIN rooms \cup {NoRoom}

\* The next statement of p needs a row, or a key, that another transaction has.
Waits(p) ==
    \/ At(p, "lock") /\ roomLock[tx[p].room] # Free
    \/ /\ At(p, "fk")
       /\ LET pending == {h \in Referencing(tx[p].doomed) : ledgerLock[h] # p}
          IN  pending # {} /\ \A h \in pending : ledgerLock[h] # Free
    \/ At(p, "ledger") /\ \E q \in Txns \ {p} : Busy(q) /\ Writes(q, Cap(p))
    \/ At(p, "lockLedger") /\ ledgerLock[Cap(p)] # Free
    \/ At(p, "key") /\ \E q \in Txns \ {p} : WritesKey(q, tx[p].key)

(* Transactions never wait for each other in a circle: among those that run   *)
(* there is one that waits for nobody.  Deletion locks a room and then its    *)
(* references in the ledger, a replay its row of the ledger and no room.      *)
NoCircle == (\E p \in Txns : Busy(p)) => \E p \in Txns : Busy(p) /\ ~Waits(p)

(* ... and its next statement can be taken.                                   *)
NoDeadlock ==
    (\E p \in Txns : Busy(p)) => \E p \in Txns : Busy(p) /\ ~Waits(p) /\ ENABLED Statement(p)

\* Decided on and not yet committed: a change under the lock of its room, the
\* rest under the lock of a row of the ledger.
Changing(p)   == At(p, "commit") /\ Fn(p) \in {"claim", "republish"}
Publishing(p) == tx[p].pc \in {"key", "read", "commit"} /\ Fn(p) = "publish"
Answering(p)  == At(p, "commit") /\ Publishing(p) /\ ~Inserted(p)

Held     == {tx[p].room : p \in {q \in Txns : Changing(q)}}
Admitted == {Cap(p) : p \in {q \in Txns : Publishing(q)}}
Located  == {Cap(p) : p \in {q \in Txns : Answering(q)}}

Service == INSTANCE RoomService WITH held <- Held, admitted <- Admitted, located <- Located

(* The SQL functions keep the service's promises.  Each commit is one of its *)
(* operations; what it commits was decided on the clock as it was when the   *)
(* lock was held that protects the decision, of the room or of the row of    *)
(* the ledger, and from then on nobody else changed or removed the room.     *)
ImplementsService == Service!Spec

(* Whatever waits between the statements of two transactions: a claim that   *)
(* is committed names a role of the room's content as it is by then, no      *)
(* version is skipped or repeated, a row keeps its key, token and dates, and *)
(* a removed room never comes back.                                          *)
RowsEvolve == Service!NothingReturns
=============================================================================
