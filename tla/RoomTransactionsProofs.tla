----------------------- MODULE RoomTransactionsProofs -----------------------
(***************************************************************************)
(* The SQL functions keep the foreign key and implement RoomService, for    *)
(* every value of the constants: any number of connections, rooms, keys,    *)
(* capabilities and calls; and a purge that asks for no other leaves no     *)
(* backlog, and every batch shortens the one there is, for any number of    *)
(* workers, rows and limits.                                                *)
(***************************************************************************)
EXTENDS RoomTransactions, Maintenance, FiniteSetTheorems, TLAPS

(* The abstract service with what is proved of it, which also says what the *)
(* operators on rows return and preserve.                                    *)
Promise == INSTANCE RoomServiceProofs WITH held <- Held, admitted <- Admitted, located <- Located

LEMMA SameData ==
    /\ Promise!DataAssumption /\ Promise!Row = Row
    /\ \A row \in Row : /\ Promise!ClaimsNameRoles(row) <=> ClaimsNameRoles(row)
                        /\ \A r \in Roles, n \in Names : Promise!Claimed(row, r, n) = Claimed(row, r, n)
                        /\ \A p \in Payloads : Promise!Republished(row, p) = Republished(row, p)
BY DataAssumption DEF Promise!DataAssumption, Promise!Publication, Publication, Promise!Row, Row, Promise!ClaimsNameRoles,
   ClaimsNameRoles, Promise!Claimed, Claimed, Promise!Republished, Republished

\* A new row is well formed, carries its key and token, and claims nothing.
LEMMA NewRowSound ==
    ASSUME NEW k \in Keys, NEW i \in Ids, NEW p \in Payloads, NEW t \in Nat
    PROVE  LET new == NewRow(k, i, p, t)
           IN  /\ new \in Row
               /\ new.key = k /\ new.token = i /\ new.created = t
               /\ ClaimsNameRoles(new)
BY DataAssumption DEF NewRow, Row, ClaimsNameRoles

\* A claim of a declared role changes nothing else and names that role.
LEMMA ClaimedSound ==
    ASSUME NEW row \in Row, NEW r \in RolesOf[row.payload], NEW n \in Names
    PROVE  LET new == Claimed(row, r, n)
           IN  /\ new \in Row
               /\ new.key = row.key /\ new.token = row.token /\ new.created = row.created
               /\ ClaimsNameRoles(row) => ClaimsNameRoles(new)
<1>1. r \in Roles
  BY DataAssumption DEF Row
<1> QED
  BY <1>1, SameData, Promise!ClaimedSound

\* A republished row keeps its identity and claims only roles it declares.
LEMMA RepublishedSound ==
    ASSUME NEW row \in Row, row.version < MaxVersion, NEW p \in Payloads
    PROVE  LET new == Republished(row, p)
           IN  /\ new \in Row
               /\ new.key = row.key /\ new.token = row.token /\ new.created = row.created
               /\ ClaimsNameRoles(new)
BY SameData, Promise!RepublishedSound

\* A running transaction: a purge that reaches its commit carries what it drops.
Drops == [fn : {"purge"}, drop : SUBSET Caps]

Running == [pc : Steps, req : Request \cup Drops, room : Ids \cup {NoRoom}, key : Keys,
            at : Nat, doomed : SUBSET Ids, tries : Nat]

OnRoom   == {"claim", "republish", "delete"}
Removing == {"delete", "purge"}

\* p carries a token no room has yet, and still may store a room with it.
Storing(p) == /\ Busy(p)
              /\ \/ tx[p].pc \in {"precheck", "ledger", "lockLedger", "recheck", "key"}
                 \/ At(p, "commit") /\ Fn(p) \in {"create", "publish"} /\ Inserted(p)

\* p decided, at the instant tx[p].at, about the room i it was alive in.
DecidedLive(p, i) == rooms[i].created <= tx[p].at /\ tx[p].at < rooms[i].expires

-----------------------------------------------------------------------------
(* What is true of a transaction before each of its statements. *)

\* The statements of each function, in the state the earlier ones left.
Progress(p) ==
    /\ tx[p].pc \in {"find", "lock", "check"} => Fn(p) \in OnRoom
    /\ At(p, "lock") => tx[p].room \in Ids
    /\ At(p, "fk") => Fn(p) \in Removing
    /\ tx[p].pc \in {"precheck", "ledger", "lockLedger", "recheck", "read"} => Fn(p) = "publish"
    /\ At(p, "key") => Fn(p) \in {"create", "publish"} /\ Inserted(p)
    /\ tx[p].pc \in {"rooms", "publications"} => Fn(p) = "purge"
    /\ At(p, "commit") => (Fn(p) = "purge" <=> tx[p].req \in Drops)
    /\ ~At(p, "commit") => tx[p].req \in Request
    /\ Storing(p) => tx[p].room \in Ids \ minted

\* A call on a room holds its row from the check to the commit.
HoldsRoom(p) ==
    /\ At(p, "check") => tx[p].room \in DOMAIN rooms /\ roomLock[tx[p].room] = p
    /\ At(p, "commit") /\ Fn(p) \in {"claim", "republish"} =>
          LET i == tx[p].room
          IN  /\ i \in DOMAIN rooms /\ roomLock[i] = p
              /\ DecidedLive(p, i)
              /\ Fn(p) = "claim" => tx[p].req.role \in RolesOf[rooms[i].payload]
              /\ Fn(p) = "republish" => rooms[i].version < MaxVersion

\* A removal holds the rows it removes, and in the end every row that refers to them.
HoldsDoomed(p) ==
    /\ \A i \in tx[p].doomed :
          /\ i \in DOMAIN rooms /\ roomLock[i] = p
          /\ Fn(p) = "delete" => i = tx[p].room
          /\ Fn(p) = "purge" => rooms[i].expires <= tx[p].at
    /\ tx[p].doomed # {} => tx[p].pc \in {"fk", "publications", "commit"} /\ Fn(p) \in Removing
    /\ (At(p, "fk") \/ At(p, "commit")) /\ Fn(p) = "delete" => tx[p].doomed = {tx[p].room}
    /\ tx[p].pc \in {"publications", "commit"} /\ Fn(p) \in Removing =>
          \A h \in Referencing(tx[p].doomed) : ledgerLock[h] = p
    /\ At(p, "commit") /\ Fn(p) = "purge" =>
          \A h \in tx[p].req.drop : ledgerLock[h] = p /\ WindowEnd(h) <= tx[p].at

\* A publication holds its row of the ledger from the recheck to the commit,
\* and has checked the window, and the payload or that there was none.
HoldsCapability(p) ==
    /\ At(p, "recheck") => ledgerLock[Cap(p)] = p
    /\ tx[p].pc \in {"key", "read", "commit"} /\ Fn(p) = "publish" =>
          LET h == Cap(p)
          IN  /\ ledgerLock[h] = p
              /\ InWindow(h, tx[p].at)
              /\ h \notin DOMAIN ledger => publication[h] = NoRoom
              /\ h \in DOMAIN ledger =>
                    /\ ledger[h].payload = tx[p].req.payload
                    /\ tx[p].room = ledger[h].room
                    /\ tx[p].room # NoRoom => rooms[tx[p].room].created <= tx[p].at
                    /\ At(p, "commit") => tx[p].room # NoRoom /\ tx[p].at < rooms[tx[p].room].expires
    /\ At(p, "read") => Cap(p) \in DOMAIN ledger

\* The key about to be stored is no stored room's.
HoldsKey(p) == At(p, "commit") /\ Storing(p) => \A i \in DOMAIN rooms : rooms[i].key # tx[p].key

Ready(p) == Progress(p) /\ HoldsRoom(p) /\ HoldsDoomed(p) /\ HoldsCapability(p) /\ HoldsKey(p)

\* No two transactions store with one token, or commit with one key.
Apart == \A p, q \in Txns : p # q /\ Storing(p) /\ Storing(q) =>
            /\ tx[p].room # tx[q].room
            /\ At(p, "commit") /\ At(q, "commit") => tx[p].key # tx[q].key

\* The ledger remembers, until the window closes, what each capability created.
LedgerTrue ==
    \A h \in Caps :
       /\ h \in DOMAIN ledger =>
             /\ publication[h] # NoRoom
             /\ ledger[h].payload = publication[h].payload
             /\ ledger[h].room \in {publication[h].room, NoRoom}
       /\ publication[h] # NoRoom /\ h \notin DOMAIN ledger => WindowEnd(h) <= now

RoomsDated == \A i \in DOMAIN rooms : rooms[i].created <= now

Typed == TypeOK /\ tx \in [Txns -> Running \cup {Idle}]

IInv == /\ Typed
        /\ ReferencesLive
        /\ LedgerTrue
        /\ RoomsDated
        /\ Apart
        /\ \A p \in Txns : Busy(p) => Ready(p)

-----------------------------------------------------------------------------
LEMMA RunningNotIdle == \A t \in Running : t # Idle /\ t.pc # "idle"
BY DEF Running, Steps, Idle

\* The parameters of each call.
LEMMA RequestFields ==
    ASSUME NEW r \in Request \cup Drops
    PROVE  /\ r.fn \in OnRoom \cup Removing \cup {"create", "publish"}
           /\ r.fn \in {"create", "publish", "republish"} => r.payload \in Payloads
           /\ r.fn = "publish" => r.cap \in Caps
           /\ r.fn = "claim" => r.role \in Roles /\ r.name \in Names
           /\ r \in Request => r.fn \in {"create", "publish", "purge"} \cup OnRoom
           /\ r \in Drops => r.fn = "purge" /\ r.drop \in SUBSET Caps
<1>1. CASE r \in Drops
  BY <1>1 DEF Drops, OnRoom, Removing
<1>2. CASE r \in Request
  BY <1>2 DEF Request, Drops, OnRoom, Removing
<1> QED
  BY <1>1, <1>2

LEMMA RunningFields ==
    ASSUME Typed, NEW p \in Txns, Busy(p)
    PROVE  /\ tx[p] \in Running
           /\ tx[p].req \in Request \cup Drops
           /\ tx[p].key \in Keys /\ tx[p].at \in 0..now /\ tx[p].at \in Nat /\ now \in Nat
           /\ tx[p].doomed \subseteq DOMAIN rooms
           /\ Fn(p) = "publish" => Cap(p) \in Caps
<1>1. tx[p] \in Running /\ tx[p].req \in Request \cup Drops
  BY DEF Typed, Busy, Running
<1> QED
  BY <1>1, RequestFields, DataAssumption DEF Typed, TypeOK, Fn, Cap, Running

\* What other transactions may do to a transaction between its statements:
\* nothing to the rows it holds, and no reference to a room that is stored.
Frame(q) ==
    /\ Busy(q) /\ tx'[q] = tx[q]
    /\ \A i \in Ids : roomLock[i] = q => roomLock'[i] = q
    /\ \A h \in Caps : ledgerLock[h] = q => ledgerLock'[h] = q
    /\ \A i \in DOMAIN rooms : roomLock[i] = q => i \in DOMAIN rooms' /\ rooms'[i] = rooms[i]
    /\ \A i \in DOMAIN rooms \cap DOMAIN rooms' :
          /\ rooms'[i].created = rooms[i].created
          /\ rooms'[i].expires = rooms[i].expires
          /\ rooms'[i].key = rooms[i].key
    /\ \A h \in Caps : ledgerLock[h] = q =>
          /\ h \in DOMAIN ledger' <=> h \in DOMAIN ledger
          /\ h \in DOMAIN ledger => ledger'[h] = ledger[h]
          /\ publication'[h] = publication[h]
    /\ \A h \in DOMAIN ledger' : ledger'[h].room \in DOMAIN rooms =>
          h \in DOMAIN ledger /\ ledger[h].room = ledger'[h].room
    /\ Storing(q) => tx[q].room \notin minted'
    /\ At(q, "commit") /\ Storing(q) =>
          \A i \in DOMAIN rooms' \ DOMAIN rooms : rooms'[i].key # tx[q].key

LEMMA StoringKept ==
    ASSUME IInv, NEW q \in Txns, Frame(q)
    PROVE  Storing(q)' <=> Storing(q)
<1>1. Busy(q) /\ tx'[q] = tx[q] /\ Busy(q)'
  BY DEF Frame, Busy
<1>2. CASE At(q, "commit") /\ Fn(q) = "publish"
  <2>1. Cap(q) \in Caps /\ ledgerLock[Cap(q)] = q
    BY <1>1, <1>2, RunningFields DEF IInv, Ready, HoldsCapability, At
  <2> QED
    BY <1>1, <2>1 DEF Frame, Storing, At, Fn, Cap, Inserted
<1>3. CASE ~(At(q, "commit") /\ Fn(q) = "publish")
  BY <1>1, <1>3 DEF Storing, At, Fn, Cap, Inserted
<1> QED
  BY <1>2, <1>3

LEMMA FrameReady ==
    ASSUME IInv, ReferencesLive', NEW q \in Txns, Frame(q)
    PROVE  Ready(q)'
<1>1. Busy(q) /\ tx'[q] = tx[q] /\ Busy(q)' /\ Ready(q)
  BY DEF Frame, Busy, IInv
<1>2. /\ tx[q] \in Running /\ tx[q].doomed \subseteq DOMAIN rooms
      /\ tx[q].room \in Ids \cup {NoRoom}
      /\ Fn(q) = "publish" => Cap(q) \in Caps
      /\ DOMAIN rooms \subseteq Ids
  BY <1>1, RunningFields DEF IInv, Typed, TypeOK, Running
<1>3. Storing(q)' <=> Storing(q)
  BY StoringKept
<1>4. Fn(q)' = Fn(q) /\ Cap(q)' = Cap(q) /\ \A pc : At(q, pc)' <=> At(q, pc)
  BY <1>1 DEF Fn, Cap, At
<1>5. Progress(q)'
  <2>1. At(q, "key") => Inserted(q)'
    <3>1. CASE At(q, "key") /\ Fn(q) = "publish"
      BY <1>1, <1>2, <1>4, <3>1 DEF Frame, Ready, Progress, HoldsCapability, Inserted, At
    <3>2. CASE At(q, "key") /\ Fn(q) # "publish"
      BY <1>1, <1>4, <3>2 DEF Ready, Progress, Inserted
    <3> QED
      BY <3>1, <3>2
  <2> QED
    BY <1>1, <1>3, <1>4, <2>1 DEF Frame, Ready, Progress
<1>6. HoldsRoom(q)'
  BY <1>1, <1>2, <1>4 DEF Frame, Ready, HoldsRoom, DecidedLive
<1>7. HoldsDoomed(q)'
  <2>1. \A i \in tx[q].doomed : /\ i \in DOMAIN rooms' /\ roomLock'[i] = q
                                /\ rooms'[i] = rooms[i]
    BY <1>1, <1>2 DEF Frame, Ready, HoldsDoomed
  <2>2. Referencing(tx[q].doomed)' \subseteq Referencing(tx[q].doomed)
    BY <1>1, <1>2 DEF Frame, Referencing
  <2>3. Referencing(tx[q].doomed) \subseteq Caps
    BY DEF Referencing, IInv, Typed, TypeOK
  <2>4. At(q, "commit") /\ Fn(q) = "purge" => tx[q].req.drop \subseteq Caps
    BY <1>1, <1>2, RequestFields DEF Ready, Progress, Running
  <2> QED
    BY <1>1, <1>4, <2>1, <2>2, <2>3, <2>4 DEF Frame, Ready, HoldsDoomed, WindowEnd
<1>8. HoldsCapability(q)'
  <2>1. ASSUME Fn(q) = "publish", tx[q].pc \in {"key", "read", "commit"}
        PROVE  LET h == Cap(q)
               IN  /\ ledgerLock'[h] = q
                   /\ InWindow(h, tx[q].at)
                   /\ h \notin DOMAIN ledger' => publication'[h] = NoRoom
                   /\ h \in DOMAIN ledger' =>
                         /\ ledger'[h].payload = tx[q].req.payload
                         /\ tx[q].room = ledger'[h].room
                         /\ tx[q].room # NoRoom => rooms'[tx[q].room].created <= tx[q].at
                         /\ At(q, "commit") => tx[q].room # NoRoom /\ tx[q].at < rooms'[tx[q].room].expires
    <3> DEFINE h == Cap(q)
    <3>1. /\ h \in Caps /\ ledgerLock[h] = q /\ ledgerLock'[h] = q
          /\ h \in DOMAIN ledger' <=> h \in DOMAIN ledger
          /\ h \in DOMAIN ledger => ledger'[h] = ledger[h]
          /\ publication'[h] = publication[h]
      BY <1>1, <1>2, <2>1 DEF Frame, Ready, HoldsCapability
    <3>2. h \in DOMAIN ledger =>
             ledger[h].room \in (DOMAIN rooms \cup {NoRoom}) \cap (DOMAIN rooms' \cup {NoRoom})
      BY <3>1 DEF IInv, ReferencesLive
    <3> HIDE DEF h
    <3>3. /\ InWindow(h, tx[q].at)
          /\ h \notin DOMAIN ledger => publication[h] = NoRoom
          /\ h \in DOMAIN ledger =>
                /\ ledger[h].payload = tx[q].req.payload
                /\ tx[q].room = ledger[h].room
                /\ tx[q].room # NoRoom => rooms[tx[q].room].created <= tx[q].at
                /\ At(q, "commit") => tx[q].room # NoRoom /\ tx[q].at < rooms[tx[q].room].expires
      BY <1>1, <2>1 DEF Ready, HoldsCapability, h
    <3>4. /\ h \in DOMAIN ledger' =>
                /\ ledger'[h].payload = tx[q].req.payload
                /\ tx[q].room = ledger'[h].room
                /\ tx[q].room # NoRoom => rooms'[tx[q].room].created <= tx[q].at
                /\ At(q, "commit") => tx[q].room # NoRoom /\ tx[q].at < rooms'[tx[q].room].expires
      <4>1. h \in DOMAIN ledger /\ tx[q].room # NoRoom =>
               /\ rooms'[tx[q].room].created = rooms[tx[q].room].created
               /\ rooms'[tx[q].room].expires = rooms[tx[q].room].expires
        BY <3>2, <3>3 DEF Frame
      <4> QED
        BY <3>1, <3>3, <4>1
    <3> QED
      BY <3>1, <3>3, <3>4 DEF h
  <2>2. At(q, "recheck") => ledgerLock'[Cap(q)] = q
    BY <1>1, <1>2 DEF Frame, Ready, Progress, HoldsCapability, At
  <2>3. At(q, "read") => Cap(q) \in DOMAIN ledger'
    BY <1>1, <1>2 DEF Frame, Ready, Progress, HoldsCapability, At
  <2> QED
    BY <1>1, <1>4, <2>1, <2>2, <2>3 DEF HoldsCapability, InWindow, WindowEnd
<1>9. HoldsKey(q)'
  BY <1>1, <1>3, <1>4 DEF Frame, Ready, HoldsKey
<1> QED
  BY <1>5, <1>6, <1>7, <1>8, <1>9 DEF Ready

-----------------------------------------------------------------------------
(* Steps that leave the tables alone: statements before the commit, the      *)
(* arrival of a call, a rollback.                                            *)

\* Only p takes or gives back locks.
OwnLocks(p) ==
    /\ roomLock' \in [Ids -> Txns \cup {Free}]
    /\ ledgerLock' \in [Caps -> Txns \cup {Free}]
    /\ \A i \in Ids : roomLock'[i] = roomLock[i] \/ (roomLock[i] \in {Free, p} /\ roomLock'[i] \in {Free, p})
    /\ \A h \in Caps : ledgerLock'[h] = ledgerLock[h] \/ (ledgerLock[h] \in {Free, p} /\ ledgerLock'[h] \in {Free, p})

LEMMA LocalFrame ==
    ASSUME IInv, NEW p \in Txns, OwnLocks(p), UNCHANGED <<now, tables>>,
           NEW q \in Txns \ {p}, Busy(q), tx'[q] = tx[q]
    PROVE  Frame(q)
<1>1. \A i \in Ids : roomLock[i] = q => roomLock'[i] = q
  BY TransactionAssumption DEF OwnLocks
<1>2. \A h \in Caps : ledgerLock[h] = q => ledgerLock'[h] = q
  BY TransactionAssumption DEF OwnLocks
<1>3. Storing(q) => tx[q].room \notin minted
  BY DEF IInv, Ready, Progress
<1> QED
  BY <1>1, <1>2, <1>3 DEF Frame, tables

LEMMA LocalStep ==
    ASSUME IInv, NEW p \in Txns, OwnLocks(p), UNCHANGED <<now, tables>>,
           NEW t \in Running \cup {Idle}, tx' = [tx EXCEPT ![p] = t],
           t = Idle => /\ \A i \in Ids : roomLock'[i] # p
                       /\ \A h \in Caps : ledgerLock'[h] # p,
           t # Idle => /\ t.at \in 0..now /\ t.doomed \subseteq DOMAIN rooms /\ t.tries \in 1..Attempts
                       /\ Ready(p)'
                       /\ Storing(p)' => \A q \in Txns \ {p} : Storing(q) =>
                             /\ tx[q].room # t.room
                             /\ t.pc = "commit" /\ At(q, "commit") => tx[q].key # t.key
    PROVE  IInv'
<1>1. tx \in [Txns -> Running \cup {Idle}] /\ tx'[p] = t /\ \A q \in Txns \ {p} : tx'[q] = tx[q]
  BY DEF IInv, Typed
<1>2. Busy(p)' <=> t # Idle
  BY <1>1 DEF Busy
<1>3. \A q \in Txns \ {p} : Busy(q)' <=> Busy(q)
  BY <1>1 DEF Busy
<1>4. Typed'
  <2>1. roomLock' \in [Ids -> {q \in Txns : Busy(q)'} \cup {Free}]
    <3>1. ASSUME NEW i \in Ids, roomLock'[i] # Free
          PROVE  roomLock'[i] \in Txns /\ tx'[roomLock'[i]] # Idle
      <4> DEFINE q == roomLock'[i]
      <4>1. q \in Txns
        BY <3>1 DEF OwnLocks
      <4>2. q # p => roomLock[i] = q
        BY <3>1 DEF OwnLocks
      <4>3. q # p => Busy(q)
        BY <3>1, <4>2 DEF IInv, Typed, TypeOK
      <4>4. q = p => t # Idle
        BY DEF OwnLocks
      <4> QED
        BY <1>1, <4>1, <4>3, <4>4 DEF Busy
    <3> QED
      BY <3>1 DEF OwnLocks, Busy
  <2>2. ledgerLock' \in [Caps -> {q \in Txns : Busy(q)'} \cup {Free}]
    <3>1. ASSUME NEW h \in Caps, ledgerLock'[h] # Free
          PROVE  ledgerLock'[h] \in Txns /\ tx'[ledgerLock'[h]] # Idle
      <4> DEFINE q == ledgerLock'[h]
      <4>1. q \in Txns
        BY <3>1 DEF OwnLocks
      <4>2. q # p => ledgerLock[h] = q
        BY <3>1 DEF OwnLocks
      <4>3. q # p => Busy(q)
        BY <3>1, <4>2 DEF IInv, Typed, TypeOK
      <4>4. q = p => t # Idle
        BY DEF OwnLocks
      <4> QED
        BY <1>1, <4>1, <4>3, <4>4 DEF Busy
    <3> QED
      BY <3>1 DEF OwnLocks, Busy
  <2>3. ASSUME NEW q \in Txns, Busy(q)'
        PROVE  /\ tx'[q].pc \in Steps /\ tx'[q].room \in Ids \cup {NoRoom} /\ tx'[q].key \in Keys
               /\ tx'[q].at \in 0..now' /\ tx'[q].doomed \subseteq DOMAIN rooms'
               /\ tx'[q].tries \in 1..Attempts
    <3>1. CASE q = p
      BY <1>1, <1>2, <2>3, <3>1 DEF Running, tables
    <3>2. CASE q # p
      BY <1>1, <1>3, <2>3, <3>2 DEF IInv, Typed, TypeOK, tables
    <3> QED
      BY <3>1, <3>2
  <2>4. tx' \in [Txns -> Running \cup {Idle}]
    BY <1>1
  <2>5. /\ now' = now /\ rooms' = rooms /\ ledger' = ledger /\ minted' = minted
        /\ publication' = publication /\ answered' = answered
    BY DEF tables
  <2>6. TypeOK
    BY DEF IInv, Typed
  <2>7. TypeOK'
    BY <2>1, <2>2, <2>3, <2>5, <2>6 DEF TypeOK
  <2> QED
    BY <2>4, <2>7 DEF Typed
<1>5. ReferencesLive' /\ LedgerTrue' /\ RoomsDated'
  BY <1>4 DEF IInv, Typed, ReferencesLive, LedgerTrue, RoomsDated, tables
<1>6. \A q \in Txns \ {p} : Busy(q) => Frame(q)
  BY <1>1, LocalFrame
<1>7. \A q \in Txns \ {p} : Busy(q) => Ready(q)' /\ (Storing(q)' <=> Storing(q))
  BY <1>5, <1>6, FrameReady, StoringKept
<1>8. Apart'
  <2>1. \A q \in Txns \ {p} : Storing(q)' => Storing(q)
    BY <1>3, <1>7 DEF Storing
  <2>2. Storing(p)' => t # Idle
    BY <1>2 DEF Storing
  <2> QED
    BY <1>1, <2>1, <2>2 DEF Apart, IInv, At
<1> QED
  BY <1>2, <1>3, <1>4, <1>5, <1>7, <1>8 DEF IInv

LEMMA ReleaseOwn ==
    ASSUME Typed, NEW p \in Txns, Release(p)
    PROVE  /\ OwnLocks(p)
           /\ \A i \in Ids : roomLock'[i] # p
           /\ \A h \in Caps : ledgerLock'[h] # p
BY TransactionAssumption DEF Release, OwnLocks, Typed, TypeOK

LEMMA RollbackInv ==
    ASSUME IInv, NEW p \in Txns, Rollback(p)
    PROVE  IInv'
<1>1. Release(p) /\ tx' = [tx EXCEPT ![p] = Idle] /\ UNCHANGED <<now, tables>>
  BY DEF Rollback
<1>2. Typed
  BY DEF IInv
<1> QED
  BY <1>1, <1>2, ReleaseOwn, LocalStep, Zenon

LEMMA LocksKept ==
    ASSUME Typed, NEW p \in Txns, UNCHANGED locks
    PROVE  OwnLocks(p)
BY DEF locks, OwnLocks, Typed, TypeOK

\* A call that has just arrived, or is made again with another key.
LEMMA FreshReady ==
    ASSUME IInv, NEW p \in Txns, UNCHANGED <<now, tables>>,
           NEW t \in Running, tx'[p] = t, t.req \in Request, t.pc = FirstStatement(t.req.fn),
           t.doomed = {},
           t.req.fn \in {"create", "publish"} => t.room \in Ids \ minted
    PROVE  Ready(p)' /\ (Storing(p)' => t.req.fn \in {"create", "publish"}) /\ t.pc # "commit"
<1>1. t.req.fn \in {"create", "publish", "purge"} \cup OnRoom
  BY RequestFields
<1>2. /\ t.req.fn \in OnRoom => t.pc = "find"
      /\ t.req.fn = "create" => t.pc = "key"
      /\ t.req.fn = "publish" => t.pc = "precheck"
      /\ t.req.fn = "purge" => t.pc = "rooms"
  BY DEF FirstStatement, OnRoom
<1>3. minted' = minted
  BY DEF tables
<1>4. Progress(p)'
  BY <1>1, <1>2, <1>3 DEF Progress, At, Fn, Storing, Inserted, OnRoom, Removing
<1>5. HoldsRoom(p)' /\ HoldsDoomed(p)' /\ HoldsCapability(p)' /\ HoldsKey(p)'
  BY <1>1, <1>2 DEF HoldsRoom, HoldsDoomed, HoldsCapability, HoldsKey, At, Fn, OnRoom
<1>6. Storing(p)' => t.req.fn \in {"create", "publish"}
  BY <1>1, <1>2 DEF Storing, At, OnRoom
<1>7. t.pc # "commit"
  BY <1>1, <1>2 DEF OnRoom
<1> QED
  BY <1>4, <1>5, <1>6, <1>7 DEF Ready

LEMMA BeginInv ==
    ASSUME IInv, NEW p \in Txns, Begin(p)
    PROVE  IInv'
<1>1. PICK req \in Requests, k \in Keys, i \in Ids \cup {NoRoom} :
         /\ req.fn \in {"create", "publish"} =>
               i \in Ids \ (minted \cup {tx[q].room : q \in {q \in Txns : Busy(q)}})
         /\ tx' = [tx EXCEPT ![p] = [pc |-> FirstStatement(req.fn), req |-> req, room |-> i, key |-> k,
                                     at |-> now, doomed |-> {}, tries |-> 1]]
  BY DEF Begin
<1> DEFINE t == [pc |-> FirstStatement(req.fn), req |-> req, room |-> i, key |-> k,
                 at |-> now, doomed |-> {}, tries |-> 1]
<1>2. UNCHANGED <<now, tables>> /\ UNCHANGED locks
  BY DEF Begin
<1>3. req \in Request
  BY TransactionAssumption
<1>4. FirstStatement(req.fn) \in Steps
  <2>1. req.fn \in {"create", "publish", "purge"} \cup OnRoom
    BY <1>3, RequestFields
  <2> QED
    BY <2>1 DEF FirstStatement, Steps, OnRoom
<1>5. now \in Nat /\ now \in 0..now
  BY DataAssumption DEF IInv, Typed, TypeOK
<1>6. t \in Running
  BY <1>3, <1>4, <1>5 DEF Running
<1>7. tx'[p] = t /\ tx' = [tx EXCEPT ![p] = t]
  BY <1>1 DEF IInv, Typed
<1>8. t.req = req /\ t.pc = FirstStatement(t.req.fn) /\ t.room = i /\ t.doomed = {} /\ t.at = now /\ t.tries = 1
  OBVIOUS
<1>9. 1 \in 1..Attempts
  BY TransactionAssumption
<1> HIDE DEF t
<1>10. Ready(p)' /\ (Storing(p)' => req.fn \in {"create", "publish"}) /\ t.pc # "commit"
  BY <1>1, <1>2, <1>3, <1>6, <1>7, <1>8, FreshReady
<1>11. OwnLocks(p)
  BY <1>2, LocksKept DEF IInv
<1>12. Storing(p)' => \A q \in Txns \ {p} : Storing(q) =>
          tx[q].room # t.room /\ (t.pc = "commit" /\ At(q, "commit") => tx[q].key # t.key)
  BY <1>1, <1>8, <1>10 DEF Storing
<1>13. t # Idle /\ t.at \in 0..now /\ t.doomed \subseteq DOMAIN rooms /\ t.tries \in 1..Attempts
  BY <1>5, <1>6, <1>8, <1>9, RunningNotIdle
<1> QED
  BY <1>2, <1>6, <1>7, <1>10, <1>11, <1>12, <1>13, LocalStep

\* The next statement of a running transaction.
LEMMA Advance ==
    ASSUME IInv, NEW p \in Txns, Busy(p), OwnLocks(p), UNCHANGED <<now, tables>>,
           NEW t \in Running, tx' = [tx EXCEPT ![p] = t],
           t.at \in {tx[p].at, now}, t.doomed \subseteq DOMAIN rooms, t.tries = tx[p].tries,
           Ready(p)',
           Storing(p)' => Storing(p) /\ t.room = tx[p].room,
           t.pc = "commit" /\ Storing(p)' => \A q \in Txns \ {p} : ~WritesKey(q, t.key)
    PROVE  IInv'
<1>1. t.at \in 0..now /\ t.tries \in 1..Attempts
  BY DataAssumption DEF IInv, Typed, TypeOK
<1>2. ASSUME Storing(p)', NEW q \in Txns \ {p}, Storing(q)
      PROVE  tx[q].room # t.room /\ (t.pc = "commit" /\ At(q, "commit") => tx[q].key # t.key)
  <2>1. tx[q].room # t.room
    BY <1>2 DEF IInv, Apart
  <2>2. At(q, "commit") => Busy(q) /\ Inserted(q)
    BY <1>2 DEF Storing, At
  <2> QED
    BY <1>2, <2>1, <2>2 DEF WritesKey
<1> QED
  BY <1>1, <1>2, RunningNotIdle, LocalStep

LEMMA FindInv ==
    ASSUME IInv, NEW p \in Txns, Busy(p), Find(p)
    PROVE  IInv'
<1>1. CASE Rollback(p)
  BY <1>1, RollbackInv
<1>2. ASSUME NEW i \in DOMAIN rooms,
             tx' = [tx EXCEPT ![p].pc = "lock", ![p].room = i], UNCHANGED <<now, tables, locks>>
      PROVE  IInv'
  <2> DEFINE t == [tx[p] EXCEPT !.pc = "lock", !.room = i]
  <2>0. tx[p] \in Running /\ i \in Ids /\ tx[p].doomed \subseteq DOMAIN rooms
    BY RunningFields DEF IInv, Typed, TypeOK
  <2>1. tx' = [tx EXCEPT ![p] = t] /\ tx'[p] = t
    BY <1>2 DEF IInv, Typed
  <2>2. /\ t \in Running
        /\ t.pc = "lock" /\ t.room = i
        /\ t.req = tx[p].req /\ t.at = tx[p].at /\ t.doomed = tx[p].doomed /\ t.tries = tx[p].tries
    BY <2>0 DEF Running, Steps
  <2> HIDE DEF t
  <2>3. Ready(p) /\ At(p, "find")
    BY DEF IInv, Find
  <2>4. Ready(p)' /\ ~Storing(p)'
    BY <2>0, <2>1, <2>2, <2>3 DEF Ready, Progress, HoldsRoom, HoldsDoomed, HoldsCapability, HoldsKey,
       Storing, At, Fn
  <2>5. OwnLocks(p) /\ UNCHANGED <<now, tables>>
    BY <1>2, LocksKept DEF IInv
  <2> QED
    BY <2>0, <2>1, <2>2, <2>4, <2>5, Advance
<1> QED
  BY <1>1, <1>2 DEF Find

LEMMA LockInv ==
    ASSUME IInv, NEW p \in Txns, Busy(p), Lock(p)
    PROVE  IInv'
<1>1. CASE Rollback(p)
  BY <1>1, RollbackInv
<1>2. CASE ~Rollback(p)
  <2> DEFINE t == [tx[p] EXCEPT !.pc = "check"]
             i == tx[p].room
  <2>0. /\ tx[p] \in Running /\ tx[p].doomed \subseteq DOMAIN rooms
        /\ i \in DOMAIN rooms /\ i \in Ids /\ roomLock[i] = Free
        /\ roomLock' = [roomLock EXCEPT ![i] = p]
        /\ UNCHANGED <<now, tables, ledgerLock>>
    BY <1>2, RunningFields DEF IInv, Typed, TypeOK, Lock
  <2>1. tx' = [tx EXCEPT ![p] = t] /\ tx'[p] = t
    BY <1>2 DEF IInv, Typed, Lock, Goto
  <2>2. /\ t \in Running
        /\ t.pc = "check" /\ t.room = i
        /\ t.req = tx[p].req /\ t.at = tx[p].at /\ t.doomed = tx[p].doomed /\ t.tries = tx[p].tries
    BY <2>0 DEF Running, Steps
  <2> HIDE DEF t
  <2>3. Ready(p) /\ At(p, "lock")
    BY DEF IInv, Lock
  <2>4. OwnLocks(p) /\ roomLock'[i] = p
    BY <2>0 DEF OwnLocks, IInv, Typed, TypeOK
  <2>5. DOMAIN rooms' = DOMAIN rooms /\ UNCHANGED <<now, tables>>
    BY <2>0 DEF tables
  <2>6. Ready(p)' /\ ~Storing(p)'
    BY <2>0, <2>1, <2>2, <2>3, <2>4, <2>5 DEF Ready, Progress, HoldsRoom, HoldsDoomed,
       HoldsCapability, HoldsKey, Storing, At, Fn
  <2> QED
    BY <2>0, <2>1, <2>2, <2>4, <2>5, <2>6, Advance
<1> QED
  BY <1>1, <1>2

\* What the check permits is what the commit will have decided.
LEMMA PermittedDecides ==
    ASSUME IInv, NEW p \in Txns, Busy(p), At(p, "check"), Permitted(p)
    PROVE  LET i == tx[p].room
           IN  /\ i \in DOMAIN rooms /\ roomLock[i] = p
               /\ Fn(p) \in OnRoom
               /\ Fn(p) \in {"claim", "republish"} => rooms[i].created <= now /\ now < rooms[i].expires
               /\ Fn(p) = "claim" => tx[p].req.role \in RolesOf[rooms[i].payload]
               /\ Fn(p) = "republish" => rooms[i].version < MaxVersion
<1>1. Ready(p)
  BY DEF IInv
<1>2. tx[p].room \in DOMAIN rooms /\ roomLock[tx[p].room] = p /\ Fn(p) \in OnRoom
  BY <1>1 DEF Ready, Progress, HoldsRoom, At
<1>3. rooms[tx[p].room].created <= now
  BY <1>2 DEF IInv, RoomsDated
<1>4. CASE Fn(p) = "claim"
  BY <1>2, <1>3, <1>4 DEF Permitted, ClaimPermitted
<1>5. CASE Fn(p) = "republish"
  BY <1>2, <1>3, <1>5 DEF Permitted, RepublishPermitted
<1> QED
  BY <1>2, <1>4, <1>5 DEF OnRoom

LEMMA CheckInv ==
    ASSUME IInv, NEW p \in Txns, Busy(p), Check(p)
    PROVE  IInv'
<1>1. CASE ~Permitted(p)
  BY <1>1, RollbackInv DEF Check
<1>2. CASE Permitted(p)
  <2> DEFINE i == tx[p].room
             pc == IF Fn(p) = "delete" THEN "fk" ELSE "commit"
             doomed == IF Fn(p) = "delete" THEN {i} ELSE {}
             t == [tx[p] EXCEPT !.at = now, !.pc = pc, !.doomed = doomed]
  <2>0. /\ tx[p] \in Running /\ now \in Nat
        /\ i \in Ids
        /\ UNCHANGED <<now, tables, locks>>
    BY <1>2, RunningFields, PermittedDecides DEF IInv, Typed, TypeOK, Check
  <2>1. tx' = [tx EXCEPT ![p] = t] /\ tx'[p] = t
    BY <1>2 DEF IInv, Typed, Check
  <2>2. /\ t \in Running
        /\ t.pc = pc /\ t.room = i /\ t.key = tx[p].key
        /\ t.req = tx[p].req /\ t.at = now /\ t.doomed = doomed /\ t.tries = tx[p].tries
    BY <2>0 DEF Running, Steps
  <2> HIDE DEF t
  <2>3. /\ i \in DOMAIN rooms /\ roomLock[i] = p
        /\ Fn(p) \in OnRoom
        /\ Fn(p) \in {"claim", "republish"} => rooms[i].created <= now /\ now < rooms[i].expires
        /\ Fn(p) = "claim" => tx[p].req.role \in RolesOf[rooms[i].payload]
        /\ Fn(p) = "republish" => rooms[i].version < MaxVersion
    BY <1>2, PermittedDecides DEF Check
  <2>4. Ready(p) /\ At(p, "check")
    BY DEF IInv, Check
  <2>5. rooms' = rooms /\ roomLock' = roomLock /\ Fn(p)' = Fn(p)
    BY <2>0, <2>1, <2>2 DEF tables, locks, Fn
  <2> HIDE DEF i
  <2>6. tx[p].req \in Request \ Drops
    BY <2>0, <2>3, <2>4, RequestFields DEF Ready, Progress, At, OnRoom, Fn
  <2>7. ~Storing(p)'
    BY <2>1, <2>2, <2>3, <2>5 DEF Storing, At, OnRoom
  <2>8. Progress(p)'
    BY <2>1, <2>2, <2>3, <2>5, <2>6, <2>7 DEF Progress, At, OnRoom, Removing
  <2>9. HoldsRoom(p)'
    BY <2>1, <2>2, <2>3, <2>5 DEF HoldsRoom, DecidedLive, At, OnRoom
  <2>10. HoldsDoomed(p)'
    BY <2>1, <2>2, <2>3, <2>5 DEF HoldsDoomed, At, OnRoom, Removing
  <2>11. HoldsCapability(p)' /\ HoldsKey(p)'
    BY <2>1, <2>2, <2>3, <2>5, <2>7 DEF HoldsCapability, HoldsKey, At, OnRoom
  <2>12. Ready(p)'
    BY <2>8, <2>9, <2>10, <2>11 DEF Ready
  <2>13. OwnLocks(p) /\ UNCHANGED <<now, tables>>
    BY <2>0, LocksKept DEF IInv
  <2> QED
    BY <2>1, <2>2, <2>3, <2>7, <2>12, <2>13, Advance
<1> QED
  BY <1>1, <1>2

LEMMA SetNullInv ==
    ASSUME IInv, NEW p \in Txns, Busy(p), SetNull(p)
    PROVE  IInv'
<1> DEFINE pending == {h \in Referencing(tx[p].doomed) : ledgerLock[h] # p}
<1>1. /\ tx[p] \in Running /\ tx[p].doomed \subseteq DOMAIN rooms
      /\ Ready(p) /\ At(p, "fk") /\ Fn(p) \in Removing
      /\ Referencing(tx[p].doomed) \subseteq Caps
  BY RunningFields DEF IInv, Typed, TypeOK, SetNull, Ready, Progress, Referencing
<1>2. CASE pending = {}
  <2> DEFINE pc == IF Fn(p) = "purge" THEN "publications" ELSE "commit"
             t == [tx[p] EXCEPT !.pc = pc]
  <2>1. tx' = [tx EXCEPT ![p] = t] /\ tx'[p] = t /\ UNCHANGED <<now, tables, locks>>
    BY <1>2 DEF IInv, Typed, SetNull, Goto
  <2>2. /\ t \in Running
        /\ t.pc = pc /\ t.room = tx[p].room /\ t.key = tx[p].key
        /\ t.req = tx[p].req /\ t.at = tx[p].at /\ t.doomed = tx[p].doomed /\ t.tries = tx[p].tries
    BY <1>1 DEF Running, Steps
  <2> HIDE DEF t
  <2>3. \A h \in Referencing(tx[p].doomed) : ledgerLock[h] = p
    BY <1>2
  <2>4. tx[p].req \in Request \ Drops \/ Fn(p) = "purge"
    BY <1>1, RequestFields DEF Ready, Progress, At, Fn
  <2>5. /\ rooms' = rooms /\ ledger' = ledger /\ roomLock' = roomLock /\ ledgerLock' = ledgerLock
        /\ Fn(p)' = Fn(p) /\ Referencing(tx[p].doomed)' = Referencing(tx[p].doomed)
    BY <2>1, <2>2 DEF tables, locks, Fn, Referencing
  <2>6. ~Storing(p)' /\ tx[p].req \in Request
    BY <1>1, <2>1, <2>2, <2>5 DEF Storing, At, Removing, Ready, Progress
  <2>7. Progress(p)'
    BY <1>1, <2>1, <2>2, <2>4, <2>5, <2>6 DEF Progress, At, Removing
  <2>8. HoldsDoomed(p)'
    BY <1>1, <2>1, <2>2, <2>3, <2>5 DEF Ready, HoldsDoomed, At, Removing, Referencing
  <2>9. HoldsRoom(p)' /\ HoldsCapability(p)' /\ HoldsKey(p)'
    BY <1>1, <2>1, <2>2, <2>5, <2>6 DEF HoldsRoom, HoldsCapability, HoldsKey, At, Removing
  <2>10. Ready(p)'
    BY <2>7, <2>8, <2>9 DEF Ready
  <2>11. OwnLocks(p)
    BY <2>1, LocksKept DEF IInv
  <2> QED
    BY <1>1, <2>1, <2>2, <2>6, <2>10, <2>11, Advance
<1>3. ASSUME NEW h \in pending, ledgerLock[h] = Free,
             ledgerLock' = [ledgerLock EXCEPT ![h] = p], UNCHANGED <<now, tables, roomLock, tx>>
      PROVE  IInv'
  <2>1. tx' = [tx EXCEPT ![p] = tx[p]] /\ tx'[p] = tx[p]
    BY <1>3 DEF IInv, Typed
  <2>2. OwnLocks(p) /\ \A g \in Caps : ledgerLock[g] = p => ledgerLock'[g] = p
    BY <1>1, <1>3, TransactionAssumption DEF OwnLocks, IInv, Typed, TypeOK
  <2>3. Fn(p)' = Fn(p) /\ ~Storing(p) /\ ~Storing(p)'
    BY <1>1, <2>1 DEF Storing, At, Fn, Removing
  <2>4. Ready(p)'
    BY <1>1, <1>3, <2>1, <2>2, <2>3 DEF Ready, Progress, HoldsRoom, HoldsDoomed, HoldsCapability,
       HoldsKey, At, Removing, tables
  <2>5. UNCHANGED <<now, tables>>
    BY <1>3
  <2> QED
    BY <1>1, <2>1, <2>2, <2>3, <2>4, <2>5, Advance
<1> QED
  BY <1>2, <1>3 DEF SetNull

\* A publication on its way to its row of the ledger.
LEMMA GotoLedger ==
    ASSUME IInv, NEW p \in Txns, Busy(p), tx[p].pc \in {"precheck", "ledger", "lockLedger"},
           NEW pc \in {"ledger", "lockLedger", "recheck"}, Goto(p, pc), UNCHANGED <<now, tables>>,
           OwnLocks(p), pc = "recheck" => ledgerLock'[Cap(p)] = p
    PROVE  IInv'
<1> DEFINE t == [tx[p] EXCEPT !.pc = pc]
<1>1. /\ tx[p] \in Running /\ tx[p].doomed \subseteq DOMAIN rooms
      /\ Ready(p) /\ Fn(p) = "publish" /\ Storing(p)
  BY RunningFields DEF IInv, Ready, Progress, Storing
<1>2. tx' = [tx EXCEPT ![p] = t] /\ tx'[p] = t
  BY DEF IInv, Typed, Goto
<1>3. /\ t \in Running
      /\ t.pc = pc /\ t.room = tx[p].room
      /\ t.req = tx[p].req /\ t.at = tx[p].at /\ t.doomed = tx[p].doomed /\ t.tries = tx[p].tries
  BY <1>1 DEF Running, Steps
<1> HIDE DEF t
<1>4. Fn(p)' = Fn(p) /\ Cap(p)' = Cap(p) /\ minted' = minted
  BY <1>2, <1>3 DEF Fn, Cap, tables
<1>5. tx[p].doomed = {}
  BY <1>1 DEF Ready, HoldsDoomed, Removing
<1>6. Ready(p)'
  BY <1>1, <1>2, <1>3, <1>4, <1>5 DEF Ready, Progress, HoldsRoom, HoldsDoomed, HoldsCapability,
     HoldsKey, At, OnRoom, Removing
<1> QED
  BY <1>1, <1>2, <1>3, <1>6, Advance

LEMMA PrecheckInv ==
    ASSUME IInv, NEW p \in Txns, Busy(p), Precheck(p)
    PROVE  IInv'
<1>1. CASE Rollback(p)
  BY <1>1, RollbackInv
<1>2. CASE ~Rollback(p)
  BY <1>2, LocksKept, GotoLedger DEF Precheck, IInv, At
<1> QED
  BY <1>1, <1>2

LEMMA InsertLedgerInv ==
    ASSUME IInv, NEW p \in Txns, Busy(p), InsertLedger(p)
    PROVE  IInv'
<1>1. CASE Cap(p) \in DOMAIN ledger
  BY <1>1, LocksKept, GotoLedger DEF InsertLedger, IInv, At
<1>2. CASE Cap(p) \notin DOMAIN ledger
  <2>1. Fn(p) = "publish" /\ Cap(p) \in Caps
    BY RunningFields DEF IInv, Ready, Progress, InsertLedger, At
  <2>2. ledgerLock[Cap(p)] \in {Free, p}
    <3>1. ASSUME ledgerLock[Cap(p)] \notin {Free, p}
          PROVE  FALSE
      <4>1. PICK q \in Txns \ {p} : ledgerLock[Cap(p)] = q /\ Busy(q)
        BY <2>1, <3>1 DEF IInv, Typed, TypeOK
      <4> QED
        BY <1>2, <4>1 DEF InsertLedger, Writes
    <3> QED
      BY <3>1
  <2>3. /\ ledgerLock' = [ledgerLock EXCEPT ![Cap(p)] = p]
        /\ Goto(p, "recheck") /\ UNCHANGED <<now, tables, roomLock>>
    BY <1>2 DEF InsertLedger
  <2>4. OwnLocks(p) /\ ledgerLock'[Cap(p)] = p
    BY <2>1, <2>2, <2>3 DEF OwnLocks, IInv, Typed, TypeOK
  <2> QED
    BY <2>3, <2>4, GotoLedger DEF InsertLedger, At
<1> QED
  BY <1>1, <1>2

LEMMA LockLedgerInv ==
    ASSUME IInv, NEW p \in Txns, Busy(p), LockLedger(p)
    PROVE  IInv'
<1>1. CASE Rollback(p)
  BY <1>1, RollbackInv
<1>2. CASE ~Rollback(p)
  <2>1. Cap(p) \in Caps
    BY RunningFields DEF IInv, Ready, Progress, LockLedger, At
  <2>2. /\ ledgerLock[Cap(p)] = Free /\ ledgerLock' = [ledgerLock EXCEPT ![Cap(p)] = p]
        /\ Goto(p, "recheck") /\ UNCHANGED <<now, tables, roomLock>>
    BY <1>2 DEF LockLedger
  <2>3. OwnLocks(p) /\ ledgerLock'[Cap(p)] = p
    BY <2>1, <2>2 DEF OwnLocks, IInv, Typed, TypeOK
  <2> QED
    BY <2>2, <2>3, GotoLedger DEF LockLedger, At
<1> QED
  BY <1>1, <1>2

LEMMA RecheckInv ==
    ASSUME IInv, NEW p \in Txns, Busy(p), Recheck(p)
    PROVE  IInv'
<1> DEFINE h == Cap(p)
           pc == IF Inserted(p) THEN "key" ELSE "read"
           room == IF Inserted(p) THEN tx[p].room ELSE ledger[h].room
           t == [tx[p] EXCEPT !.at = now, !.pc = pc, !.room = room]
<1>1. CASE Rollback(p)
  BY <1>1, RollbackInv
<1>2. CASE ~Rollback(p)
  <2>1. /\ InWindow(h, now) /\ (Inserted(p) \/ ledger[h].payload = tx[p].req.payload)
        /\ UNCHANGED <<now, tables, locks>>
    BY <1>2 DEF Recheck
  <2>2. /\ tx[p] \in Running /\ now \in Nat
        /\ tx[p].doomed \subseteq DOMAIN rooms /\ h \in Caps
        /\ Ready(p) /\ At(p, "recheck") /\ Fn(p) = "publish" /\ Storing(p)
        /\ Inserted(p) <=> h \notin DOMAIN ledger
        /\ ledgerLock[h] = p
    BY RunningFields DEF IInv, Recheck, Ready, Progress, HoldsCapability, Storing, At, Inserted
  <2>3. h \notin DOMAIN ledger => publication[h] = NoRoom
    BY <2>1, <2>2, DataAssumption DEF IInv, LedgerTrue, InWindow, WindowEnd
  <2>4. h \in DOMAIN ledger =>
          /\ ledger[h].room \in Ids \cup {NoRoom}
          /\ ledger[h].room # NoRoom => rooms[ledger[h].room].created <= now
    BY DEF IInv, Typed, TypeOK, ReferencesLive, RoomsDated
  <2>5. tx' = [tx EXCEPT ![p] = t] /\ tx'[p] = t
    BY <1>2 DEF IInv, Typed, Recheck
  <2>6. /\ t \in Running
        /\ t.pc = pc /\ t.room = room
        /\ t.req = tx[p].req /\ t.at = now /\ t.doomed = tx[p].doomed /\ t.tries = tx[p].tries
    BY <2>2, <2>4 DEF Running, Steps
  <2> HIDE DEF t
  <2>7. /\ Fn(p)' = Fn(p) /\ Cap(p)' = h /\ Inserted(p)' = Inserted(p)
        /\ rooms' = rooms /\ ledger' = ledger /\ minted' = minted /\ publication' = publication
        /\ ledgerLock' = ledgerLock
    BY <2>1, <2>5, <2>6 DEF Fn, Cap, Inserted, tables, locks
  <2> HIDE DEF h
  <2>8. tx[p].doomed = {}
    BY <2>2 DEF Ready, HoldsDoomed, At, Removing
  <2>9. Storing(p)' <=> Inserted(p)
    BY <2>2, <2>5, <2>6, <2>7, RunningNotIdle DEF Storing, At, Busy
  <2>10. Progress(p)'
    BY <2>2, <2>5, <2>6, <2>7, <2>9 DEF Ready, Progress, At, OnRoom, Removing
  <2>11. HoldsCapability(p)'
    BY <2>1, <2>2, <2>3, <2>4, <2>5, <2>6, <2>7 DEF HoldsCapability, At, InWindow, WindowEnd
  <2>12. HoldsRoom(p)' /\ HoldsDoomed(p)' /\ HoldsKey(p)'
    BY <2>2, <2>5, <2>6, <2>7, <2>8 DEF HoldsRoom, HoldsDoomed, HoldsKey, At, Removing
  <2>13. Ready(p)'
    BY <2>10, <2>11, <2>12 DEF Ready
  <2>14. OwnLocks(p) /\ UNCHANGED <<now, tables>>
    BY <2>1, LocksKept DEF IInv
  <2>15. t.at \in {tx[p].at, now} /\ t.doomed \subseteq DOMAIN rooms /\ t.tries = tx[p].tries
    BY <2>2, <2>6
  <2>16. Storing(p)' => Storing(p) /\ t.room = tx[p].room
    BY <2>2, <2>6, <2>9
  <2> QED
    BY <2>5, <2>6, <2>13, <2>14, <2>15, <2>16, Advance
<1> QED
  BY <1>1, <1>2

\* The key is free: the room is written, and becomes visible at the commit.
LEMMA KeyFreeInv ==
    ASSUME IInv, NEW p \in Txns, Busy(p), InsertRoom(p),
           \A i \in DOMAIN rooms : rooms[i].key # tx[p].key
    PROVE  IInv'
<1> DEFINE t == [tx[p] EXCEPT !.pc = "commit"]
<1>1. /\ tx[p] \in Running /\ tx[p].doomed \subseteq DOMAIN rooms
      /\ Ready(p) /\ At(p, "key") /\ Storing(p)
      /\ Fn(p) \in {"create", "publish"} /\ Inserted(p)
      /\ Fn(p) = "publish" => Cap(p) \in Caps /\ Cap(p) \notin DOMAIN ledger
  BY RunningFields DEF IInv, InsertRoom, Ready, Progress, Storing, At, Inserted
<1>2. /\ tx' = [tx EXCEPT ![p] = t] /\ tx'[p] = t /\ UNCHANGED <<now, tables, locks>>
      /\ \A q \in Txns \ {p} : ~WritesKey(q, tx[p].key)
  BY DEF IInv, Typed, InsertRoom, Goto
<1>3. /\ t \in Running
      /\ t.pc = "commit" /\ t.room = tx[p].room /\ t.key = tx[p].key
      /\ t.req = tx[p].req /\ t.at = tx[p].at /\ t.doomed = tx[p].doomed /\ t.tries = tx[p].tries
  BY <1>1 DEF Running, Steps
<1> HIDE DEF t
<1>4. /\ Fn(p)' = Fn(p) /\ Cap(p)' = Cap(p) /\ Inserted(p)' = Inserted(p)
      /\ rooms' = rooms /\ ledger' = ledger /\ minted' = minted /\ publication' = publication
      /\ ledgerLock' = ledgerLock
  BY <1>2, <1>3 DEF Fn, Cap, Inserted, tables, locks
<1>5. tx[p].doomed = {} /\ tx[p].req \in Request
  BY <1>1 DEF Ready, HoldsDoomed, Progress, At, Removing
<1>6. tx[p].req \notin Drops
  BY <1>1, RequestFields DEF Fn
<1>7. Progress(p)'
  BY <1>1, <1>2, <1>3, <1>4, <1>5, <1>6 DEF Ready, Progress, At, OnRoom, Removing
<1>8. HoldsCapability(p)'
  BY <1>1, <1>2, <1>3, <1>4 DEF Ready, HoldsCapability, At, InWindow, WindowEnd
<1>9. HoldsRoom(p)' /\ HoldsDoomed(p)' /\ HoldsKey(p)'
  BY <1>1, <1>2, <1>3, <1>4, <1>5 DEF HoldsRoom, HoldsDoomed, HoldsKey, At, Removing
<1>10. Ready(p)'
  BY <1>7, <1>8, <1>9 DEF Ready
<1>11. OwnLocks(p) /\ UNCHANGED <<now, tables>>
  BY <1>2, LocksKept DEF IInv
<1> QED
  BY <1>1, <1>2, <1>3, <1>10, <1>11, Advance

\* The key is taken: the call is rolled back, and made again with another key.
LEMMA KeyTakenInv ==
    ASSUME IInv, NEW p \in Txns, Busy(p), InsertRoom(p),
           ~(\A i \in DOMAIN rooms : rooms[i].key # tx[p].key)
    PROVE  IInv'
<1>1. /\ tx[p] \in Running /\ now \in Nat /\ tx[p].tries \in 1..Attempts
      /\ Ready(p) /\ At(p, "key") /\ Storing(p) /\ Fn(p) \in {"create", "publish"}
  BY RunningFields DEF IInv, Typed, TypeOK, InsertRoom, Ready, Progress, Storing, At
<1>2. tx[p].doomed = {} /\ tx[p].req \in Request /\ tx[p].room \in Ids \ minted
  BY <1>1 DEF Ready, HoldsDoomed, Progress, At, Removing
<1>3. UNCHANGED <<now, tables>> /\ Release(p)
  BY DEF InsertRoom
<1>4. /\ OwnLocks(p)
      /\ \A i \in Ids : roomLock'[i] # p
      /\ \A h \in Caps : ledgerLock'[h] # p
  BY <1>3, ReleaseOwn DEF IInv
<1>5. CASE tx[p].tries = Attempts
  <2>1. tx' = [tx EXCEPT ![p] = Idle]
    BY <1>5 DEF InsertRoom
  <2> QED
    BY <1>3, <1>4, <2>1, LocalStep, Zenon
<1>6. CASE tx[p].tries # Attempts
  <2>1. PICK k \in Keys :
           tx' = [tx EXCEPT ![p] = [tx[p] EXCEPT !.pc = FirstStatement(Fn(p)), !.key = k,
                                                 !.at = now, !.tries = @ + 1]]
    BY <1>6 DEF InsertRoom
  <2> DEFINE t == [tx[p] EXCEPT !.pc = FirstStatement(Fn(p)), !.key = k, !.at = now,
                                !.tries = @ + 1]
  <2>2. FirstStatement(Fn(p)) \in Steps
    BY <1>1 DEF FirstStatement, Steps
  <2>3. tx[p].tries + 1 \in 1..Attempts
    BY <1>1, <1>6, TransactionAssumption
  <2>4. /\ t \in Running
        /\ t.pc = FirstStatement(Fn(p)) /\ t.room = tx[p].room
        /\ t.req = tx[p].req /\ t.at = now /\ t.doomed = tx[p].doomed /\ t.tries = tx[p].tries + 1
    <3>1. ASSUME NEW pc \in Steps
          PROVE  LET u == [tx[p] EXCEPT !.pc = pc, !.key = k, !.at = now, !.tries = @ + 1]
                 IN  /\ u \in Running /\ u.pc = pc /\ u.room = tx[p].room /\ u.req = tx[p].req
                     /\ u.at = now /\ u.doomed = tx[p].doomed /\ u.tries = tx[p].tries + 1
      <4>1. PICK n \in Nat : tx[p].tries + 1 = n
        BY <2>3
      <4> QED
        BY <1>1, <4>1 DEF Running
    <3> QED
      BY <2>2, <3>1
  <2>5. tx' = [tx EXCEPT ![p] = t] /\ tx'[p] = t
    BY <1>6, <2>1 DEF IInv, Typed
  <2> HIDE DEF t
  <2>6. Ready(p)' /\ t.pc # "commit"
    BY <1>1, <1>2, <1>3, <2>4, <2>5, FreshReady DEF Fn
  <2>7. \A q \in Txns \ {p} : Storing(q) => tx[q].room # t.room
    BY <1>1, <2>4 DEF IInv, Apart
  <2>8. t # Idle /\ t.at \in 0..now /\ t.doomed \subseteq DOMAIN rooms /\ t.tries \in 1..Attempts
    BY <1>1, <1>2, <2>3, <2>4, RunningNotIdle
  <2> QED
    BY <1>3, <1>4, <2>4, <2>5, <2>6, <2>7, <2>8, LocalStep
<1> QED
  BY <1>5, <1>6

LEMMA ReadRoomInv ==
    ASSUME IInv, NEW p \in Txns, Busy(p), ReadRoom(p)
    PROVE  IInv'
<1> DEFINE t == [tx[p] EXCEPT !.pc = "commit"]
           i == tx[p].room
<1>1. CASE Rollback(p)
  BY <1>1, RollbackInv
<1>2. CASE ~Rollback(p)
  <2>1. i \in DOMAIN rooms /\ now < rooms[i].expires /\ UNCHANGED <<now, tables, locks>>
    BY <1>2 DEF ReadRoom
  <2>2. /\ tx[p] \in Running /\ tx[p].doomed \subseteq DOMAIN rooms
        /\ Ready(p) /\ At(p, "read") /\ Fn(p) = "publish" /\ Cap(p) \in DOMAIN ledger
    BY RunningFields DEF IInv, ReadRoom, Ready, Progress, HoldsCapability, At
  <2>3. tx[p].at <= now /\ tx[p].at \in Nat /\ now \in Nat /\ rooms[i].expires \in Nat /\ i # NoRoom
    BY <2>1, DataAssumption DEF IInv, Typed, TypeOK, Row
  <2>4. tx' = [tx EXCEPT ![p] = t] /\ tx'[p] = t
    BY <1>2 DEF IInv, Typed, ReadRoom, Goto
  <2>5. /\ t \in Running
        /\ t.pc = "commit" /\ t.room = i /\ t.key = tx[p].key
        /\ t.req = tx[p].req /\ t.at = tx[p].at /\ t.doomed = tx[p].doomed /\ t.tries = tx[p].tries
    BY <2>2 DEF Running, Steps
  <2> HIDE DEF t
  <2>6. /\ Fn(p)' = Fn(p) /\ Cap(p)' = Cap(p) /\ Inserted(p)' = Inserted(p)
        /\ rooms' = rooms /\ ledger' = ledger /\ minted' = minted /\ publication' = publication
        /\ ledgerLock' = ledgerLock
    BY <2>1, <2>4, <2>5 DEF Fn, Cap, Inserted, tables, locks
  <2>7. tx[p].doomed = {} /\ tx[p].req \in Request
    BY <2>2 DEF Ready, HoldsDoomed, Progress, At, Removing
  <2>8. tx[p].req \notin Drops
    BY <2>2, RequestFields DEF Fn
  <2>9. ~Storing(p)'
    BY <2>2, <2>4, <2>5, <2>6 DEF Storing, At, Inserted
  <2>10. Progress(p)'
    BY <2>2, <2>4, <2>5, <2>6, <2>7, <2>8, <2>9 DEF Progress, At, OnRoom, Removing
  <2>11. tx[p].at < rooms[i].expires
    BY <2>1, <2>3
  <2>12. HoldsCapability(p)'
    BY <2>2, <2>3, <2>4, <2>5, <2>6, <2>11 DEF Ready, HoldsCapability, At, InWindow, WindowEnd
  <2>13. HoldsRoom(p)' /\ HoldsDoomed(p)' /\ HoldsKey(p)'
    BY <2>2, <2>4, <2>5, <2>6, <2>7, <2>9 DEF HoldsRoom, HoldsDoomed, HoldsKey, At, Removing
  <2>14. Ready(p)'
    BY <2>10, <2>12, <2>13 DEF Ready
  <2>15. OwnLocks(p) /\ UNCHANGED <<now, tables>>
    BY <2>1, LocksKept DEF IInv
  <2> QED
    BY <2>2, <2>4, <2>5, <2>9, <2>14, <2>15, Advance
<1> QED
  BY <1>1, <1>2

LEMMA PurgeRoomsInv ==
    ASSUME IInv, NEW p \in Txns, Busy(p), PurgeRooms(p)
    PROVE  IInv'
<1>1. PICK S \in SUBSET Ids :
         /\ S \subseteq {i \in DOMAIN rooms : rooms[i].expires <= tx[p].at /\ roomLock[i] = Free}
         /\ roomLock' = [i \in Ids |-> IF i \in S THEN p ELSE roomLock[i]]
         /\ tx' = [tx EXCEPT ![p].pc = "fk", ![p].doomed = S]
  BY DEF PurgeRooms, Batch
<1> DEFINE t == [tx[p] EXCEPT !.pc = "fk", !.doomed = S]
<1>2. /\ tx[p] \in Running /\ S \subseteq DOMAIN rooms
      /\ Ready(p) /\ At(p, "rooms") /\ Fn(p) = "purge"
      /\ UNCHANGED <<now, tables, ledgerLock>>
  BY <1>1, RunningFields DEF IInv, PurgeRooms, Ready, Progress, At
<1>3. tx' = [tx EXCEPT ![p] = t] /\ tx'[p] = t
  BY <1>1 DEF IInv, Typed
<1>4. /\ t \in Running
      /\ t.pc = "fk" /\ t.room = tx[p].room /\ t.key = tx[p].key
      /\ t.req = tx[p].req /\ t.at = tx[p].at /\ t.doomed = S /\ t.tries = tx[p].tries
  BY <1>2 DEF Running, Steps
<1> HIDE DEF t
<1>5. Fn(p)' = Fn(p) /\ rooms' = rooms
  BY <1>2, <1>3, <1>4 DEF Fn, tables
<1>6. \A i \in S : roomLock'[i] = p /\ rooms[i].expires <= tx[p].at
  BY <1>1
<1>7. ~Storing(p)' /\ tx[p].req \in Request
  BY <1>2, <1>3, <1>4 DEF Storing, At, Ready, Progress
<1>8. Ready(p)'
  BY <1>2, <1>3, <1>4, <1>5, <1>6, <1>7 DEF Ready, Progress, HoldsRoom, HoldsDoomed, HoldsCapability,
     HoldsKey, At, OnRoom, Removing
<1>9. OwnLocks(p)
  BY <1>1, <1>2 DEF OwnLocks, IInv, Typed, TypeOK
<1>10. UNCHANGED <<now, tables>>
  BY <1>2
<1> QED
  BY <1>2, <1>3, <1>4, <1>7, <1>8, <1>9, <1>10, Advance

LEMMA PurgePublicationsInv ==
    ASSUME IInv, NEW p \in Txns, Busy(p), PurgePublications(p)
    PROVE  IInv'
<1>1. PICK H \in SUBSET Caps :
         /\ H \subseteq {h \in DOMAIN ledger : WindowEnd(h) <= tx[p].at /\ ledgerLock[h] \in {Free, p}}
         /\ ledgerLock' = [h \in Caps |-> IF h \in H THEN p ELSE ledgerLock[h]]
         /\ tx' = [tx EXCEPT ![p].pc = "commit", ![p].req = [fn |-> "purge", drop |-> H]]
  BY DEF PurgePublications, Batch
<1> DEFINE req == [fn |-> "purge", drop |-> H]
           t == [tx[p] EXCEPT !.pc = "commit", !.req = req]
<1>2. /\ tx[p] \in Running /\ tx[p].doomed \subseteq DOMAIN rooms
      /\ Ready(p) /\ At(p, "publications") /\ Fn(p) = "purge"
      /\ UNCHANGED <<now, tables, roomLock>>
  BY RunningFields DEF IInv, PurgePublications, Ready, Progress, At
<1>3. req \in Drops /\ req.fn = "purge" /\ req.drop = H
  BY DEF Drops
<1>4. tx' = [tx EXCEPT ![p] = t] /\ tx'[p] = t
  BY <1>1 DEF IInv, Typed
<1> HIDE DEF req
<1>5. /\ t \in Running
      /\ t.pc = "commit" /\ t.room = tx[p].room /\ t.key = tx[p].key
      /\ t.req = req /\ t.at = tx[p].at /\ t.doomed = tx[p].doomed /\ t.tries = tx[p].tries
  BY <1>2, <1>3 DEF Running, Steps
<1> HIDE DEF t
<1>6. Fn(p)' = "purge" /\ rooms' = rooms /\ ledger' = ledger
  BY <1>2, <1>3, <1>4, <1>5 DEF Fn, tables
<1>7. /\ \A h \in H : ledgerLock'[h] = p /\ WindowEnd(h) <= tx[p].at
      /\ \A h \in Caps : ledgerLock[h] = p => ledgerLock'[h] = p
  BY <1>1
<1>8. Referencing(tx[p].doomed) \subseteq Caps /\ Referencing(tx[p].doomed)' = Referencing(tx[p].doomed)
  BY <1>4, <1>5, <1>6 DEF Referencing, IInv, Typed, TypeOK
<1>9. ~Storing(p)'
  BY <1>4, <1>5, <1>6 DEF Storing, At
<1>10. Progress(p)'
  BY <1>3, <1>4, <1>5, <1>6, <1>9 DEF Progress, At, OnRoom, Removing
<1>11. HoldsDoomed(p)'
  <2>1. \A h \in Referencing(tx[p].doomed) : ledgerLock'[h] = p
    BY <1>2, <1>7, <1>8 DEF Ready, HoldsDoomed, At, Removing
  <2>2. \A i \in tx[p].doomed : i \in DOMAIN rooms /\ roomLock'[i] = p /\ rooms[i].expires <= tx[p].at
    BY <1>2 DEF Ready, HoldsDoomed
  <2> QED
    BY <1>3, <1>4, <1>5, <1>6, <1>7, <1>8, <2>1, <2>2 DEF HoldsDoomed, At, Removing, WindowEnd
<1>12. HoldsRoom(p)' /\ HoldsCapability(p)' /\ HoldsKey(p)'
  BY <1>4, <1>5, <1>6, <1>9 DEF HoldsRoom, HoldsCapability, HoldsKey, At
<1>13. Ready(p)'
  BY <1>10, <1>11, <1>12 DEF Ready
<1>14. OwnLocks(p) /\ UNCHANGED <<now, tables>>
  BY <1>1, <1>2 DEF OwnLocks, IInv, Typed, TypeOK
<1> QED
  BY <1>2, <1>4, <1>5, <1>9, <1>13, <1>14, Advance

-----------------------------------------------------------------------------
(* Commits: the only steps that change the tables. *)

TablesTyped ==
    /\ now \in 0..MaxNow
    /\ DOMAIN rooms \subseteq minted /\ rooms \in [DOMAIN rooms -> Row]
    /\ DOMAIN ledger \subseteq Caps
    /\ ledger \in [DOMAIN ledger -> [room : Ids \cup {NoRoom}, payload : Payloads]]
    /\ minted \subseteq Ids
    /\ publication \in [Caps -> Publication \cup {NoRoom}]
    /\ answered \in [Caps -> SUBSET (Keys \X Ids)]

TablesSound == /\ TablesTyped
               /\ \A h \in DOMAIN ledger : ledger[h].room \in DOMAIN rooms \cup {NoRoom}
               /\ LedgerTrue
               /\ RoomsDated

LEMMA TablesNow == IInv => TablesSound
BY DEF IInv, TablesSound, TablesTyped, Typed, TypeOK, ReferencesLive

\* The transaction p ends, having left the tables sound and what others hold as it was.
LEMMA CommitStep ==
    ASSUME IInv, NEW p \in Txns, Release(p), tx' = [tx EXCEPT ![p] = Idle], UNCHANGED now,
           TablesSound', \A q \in Txns \ {p} : Busy(q) => Frame(q)
    PROVE  IInv'
<1>1. tx \in [Txns -> Running \cup {Idle}] /\ tx'[p] = Idle /\ \A q \in Txns \ {p} : tx'[q] = tx[q]
  BY DEF IInv, Typed
<1>2. ~Busy(p)' /\ \A q \in Txns \ {p} : Busy(q)' <=> Busy(q)
  BY <1>1 DEF Busy
<1>3. /\ OwnLocks(p)
      /\ \A i \in Ids : roomLock'[i] # p
      /\ \A h \in Caps : ledgerLock'[h] # p
  BY ReleaseOwn DEF IInv
<1>4. roomLock' \in [Ids -> {q \in Txns : Busy(q)'} \cup {Free}]
  <2>1. ASSUME NEW i \in Ids, roomLock'[i] # Free
        PROVE  roomLock'[i] \in Txns /\ tx'[roomLock'[i]] # Idle
    <3>1. roomLock'[i] \in Txns \ {p} /\ roomLock'[i] = roomLock[i]
      BY <1>3, <2>1 DEF OwnLocks
    <3> QED
      BY <1>1, <2>1, <3>1 DEF IInv, Typed, TypeOK, Busy
  <2> QED
    BY <1>3, <2>1 DEF OwnLocks, Busy
<1>5. ledgerLock' \in [Caps -> {q \in Txns : Busy(q)'} \cup {Free}]
  <2>1. ASSUME NEW h \in Caps, ledgerLock'[h] # Free
        PROVE  ledgerLock'[h] \in Txns /\ tx'[ledgerLock'[h]] # Idle
    <3>1. ledgerLock'[h] \in Txns \ {p} /\ ledgerLock'[h] = ledgerLock[h]
      BY <1>3, <2>1 DEF OwnLocks
    <3> QED
      BY <1>1, <2>1, <3>1 DEF IInv, Typed, TypeOK, Busy
  <2> QED
    BY <1>3, <2>1 DEF OwnLocks, Busy
<1>6. ASSUME NEW q \in Txns, Busy(q)'
      PROVE  /\ tx'[q].pc \in Steps /\ tx'[q].room \in Ids \cup {NoRoom} /\ tx'[q].key \in Keys
             /\ tx'[q].at \in 0..now' /\ tx'[q].doomed \subseteq DOMAIN rooms'
             /\ tx'[q].tries \in 1..Attempts
  <2>1. q # p /\ Busy(q) /\ Frame(q) /\ tx'[q] = tx[q]
    BY <1>1, <1>2, <1>6
  <2>2. tx[q].doomed \subseteq DOMAIN rooms'
    BY <2>1 DEF Frame, IInv, Ready, HoldsDoomed
  <2> QED
    BY <2>1, <2>2 DEF IInv, Typed, TypeOK
<1>7. Typed'
  BY <1>1, <1>4, <1>5, <1>6 DEF Typed, TypeOK, TablesSound, TablesTyped
<1>8. ReferencesLive'
  BY <1>7 DEF ReferencesLive, Typed, TablesSound
<1>9. \A q \in Txns \ {p} : Busy(q) => Ready(q)' /\ (Storing(q)' <=> Storing(q))
  BY <1>8, FrameReady, StoringKept
<1>10. Apart'
  <2>1. \A q \in Txns : Storing(q)' => q # p /\ Storing(q) /\ tx'[q] = tx[q]
    BY <1>1, <1>2, <1>9 DEF Storing
  <2> QED
    BY <2>1 DEF Apart, IInv, At
<1> QED
  BY <1>2, <1>7, <1>8, <1>9, <1>10 DEF IInv, TablesSound

\* What every commit leaves to the others.
LEMMA OthersFrame ==
    ASSUME IInv, NEW p \in Txns, Busy(p), Release(p), tx' = [tx EXCEPT ![p] = Idle],
           NEW q \in Txns \ {p}, Busy(q)
    PROVE  /\ tx'[q] = tx[q]
           /\ \A i \in Ids : roomLock[i] = q => roomLock'[i] = q
           /\ \A h \in Caps : ledgerLock[h] = q => ledgerLock'[h] = q
           /\ Storing(q) => tx[q].room \in Ids \ minted
BY DEF IInv, Typed, Release, Ready, Progress

\* One row is rewritten, by the transaction that holds it.
LEMMA RewriteInv ==
    ASSUME IInv, NEW p \in Txns, Busy(p), Release(p), tx' = [tx EXCEPT ![p] = Idle],
           NEW i \in DOMAIN rooms, roomLock[i] = p, NEW row \in Row,
           row.created = rooms[i].created, row.expires = rooms[i].expires, row.key = rooms[i].key,
           rooms' = [rooms EXCEPT ![i] = row],
           UNCHANGED <<now, ledger, minted, publication, answered>>
    PROVE  IInv'
<1>1. /\ DOMAIN rooms' = DOMAIN rooms /\ rooms' \in [DOMAIN rooms' -> Row]
      /\ rooms'[i] = row /\ \A j \in DOMAIN rooms \ {i} : rooms'[j] = rooms[j]
  BY TablesNow DEF TablesSound, TablesTyped
<1>2. TablesSound'
  BY <1>1, TablesNow DEF TablesSound, TablesTyped, LedgerTrue, RoomsDated
<1>3. ASSUME NEW q \in Txns \ {p}, Busy(q)
      PROVE  Frame(q)
  BY <1>1, <1>3, OthersFrame DEF Frame
<1> QED
  BY <1>2, <1>3, CommitStep

LEMMA CommitClaimInv ==
    ASSUME IInv, NEW p \in Txns, Busy(p), At(p, "commit"), CommitClaim(p), UNCHANGED now,
           Release(p), tx' = [tx EXCEPT ![p] = Idle]
    PROVE  IInv'
<1> DEFINE i == tx[p].room
           row == Claimed(rooms[i], tx[p].req.role, tx[p].req.name)
<1>1. /\ i \in DOMAIN rooms /\ roomLock[i] = p /\ rooms[i] \in Row
      /\ tx[p].req.role \in RolesOf[rooms[i].payload] /\ tx[p].req.name \in Names
  BY RunningFields, RequestFields DEF CommitClaim, IInv, Ready, HoldsRoom, Typed, TypeOK, Fn
<1>2. row \in Row /\ row.created = rooms[i].created /\ row.key = rooms[i].key
  BY <1>1, ClaimedSound
<1>3. row.expires = rooms[i].expires
  BY <1>1 DEF Claimed, Row
<1>4. rooms' = [rooms EXCEPT ![i] = row]
  BY DEF CommitClaim
<1> HIDE DEF row, i
<1> QED
  BY <1>1, <1>2, <1>3, <1>4, RewriteInv DEF CommitClaim

LEMMA CommitRepublishInv ==
    ASSUME IInv, NEW p \in Txns, Busy(p), At(p, "commit"), CommitRepublish(p), UNCHANGED now,
           Release(p), tx' = [tx EXCEPT ![p] = Idle]
    PROVE  IInv'
<1> DEFINE i == tx[p].room
           row == Republished(rooms[i], tx[p].req.payload)
<1>1. /\ i \in DOMAIN rooms /\ roomLock[i] = p /\ rooms[i] \in Row
      /\ rooms[i].version < MaxVersion /\ tx[p].req.payload \in Payloads
  BY RunningFields, RequestFields DEF CommitRepublish, IInv, Ready, HoldsRoom, Typed, TypeOK, Fn
<1>2. row \in Row /\ row.created = rooms[i].created /\ row.key = rooms[i].key
  BY <1>1, RepublishedSound
<1>3. row.expires = rooms[i].expires
  BY <1>1 DEF Republished, Row
<1>4. rooms' = [rooms EXCEPT ![i] = row]
  BY DEF CommitRepublish
<1> HIDE DEF row, i
<1> QED
  BY <1>1, <1>2, <1>3, <1>4, RewriteInv DEF CommitRepublish

LEMMA CommitRemovalInv ==
    ASSUME IInv, NEW p \in Txns, Busy(p), At(p, "commit"), CommitRemoval(p), UNCHANGED now,
           Release(p), tx' = [tx EXCEPT ![p] = Idle]
    PROVE  IInv'
<1> DEFINE drop == IF Fn(p) = "purge" THEN tx[p].req.drop ELSE {}
           doomed == tx[p].doomed
<1>1. /\ DOMAIN rooms' = DOMAIN rooms \ doomed
      /\ \A i \in DOMAIN rooms' : rooms'[i] = rooms[i]
      /\ rooms' = [i \in DOMAIN rooms' |-> rooms'[i]]
      /\ DOMAIN ledger' = DOMAIN ledger \ drop
      /\ \A h \in DOMAIN ledger' : ledgerLock[h] # p => ledger'[h] = ledger[h]
      /\ \A h \in DOMAIN ledger' : ledgerLock[h] = p => ledger'[h] = [ledger[h] EXCEPT !.room = NoRoom]
      /\ ledger' = [h \in DOMAIN ledger' |-> ledger'[h]]
      /\ UNCHANGED <<now, minted, publication, answered>>
  BY DEF CommitRemoval
<1>2. /\ \A i \in doomed : roomLock[i] = p
      /\ \A h \in Referencing(doomed) : ledgerLock[h] = p
      /\ Fn(p) = "purge" => \A h \in tx[p].req.drop : ledgerLock[h] = p /\ WindowEnd(h) <= tx[p].at
  BY DEF CommitRemoval, IInv, Ready, HoldsDoomed, At, Removing
<1>3. /\ \A h \in drop : ledgerLock[h] = p /\ WindowEnd(h) <= tx[p].at
      /\ drop \subseteq Caps
  BY <1>2, RunningFields, RequestFields DEF CommitRemoval, IInv, Ready, Progress
<1>4. tx[p].at <= now /\ tx[p].at \in Nat /\ now \in Nat /\ \A h \in Caps : WindowEnd(h) \in Nat
  BY RunningFields, DataAssumption DEF IInv, Typed, TypeOK, WindowEnd
<1> HIDE DEF drop, doomed
<1>5. TablesSound
  BY TablesNow
<1>6. \A h \in DOMAIN ledger' :
         /\ ledger'[h] \in [room : Ids \cup {NoRoom}, payload : Payloads]
         /\ ledger'[h].payload = ledger[h].payload
         /\ ledger'[h].room \in {ledger[h].room, NoRoom} /\ ledger'[h].room \in DOMAIN rooms' \cup {NoRoom}
  <2>1. ASSUME NEW h \in DOMAIN ledger', ledgerLock[h] = p
        PROVE  /\ ledger'[h] \in [room : Ids \cup {NoRoom}, payload : Payloads]
               /\ ledger'[h].payload = ledger[h].payload /\ ledger'[h].room = NoRoom
    BY <1>1, <1>5, <2>1 DEF TablesSound, TablesTyped
  <2>2. ASSUME NEW h \in DOMAIN ledger', ledgerLock[h] # p
        PROVE  ledger'[h] = ledger[h] /\ ledger[h].room \in DOMAIN rooms' \cup {NoRoom}
    <3>1. ledger[h].room \in DOMAIN rooms \cup {NoRoom} /\ ledger[h].room \notin doomed
      BY <1>1, <1>2, <1>5, <2>2 DEF TablesSound, Referencing
    <3> QED
      BY <1>1, <2>2, <3>1
  <2> QED
    BY <1>1, <1>5, <2>1, <2>2 DEF TablesSound, TablesTyped
<1>7. TablesTyped'
  BY <1>1, <1>5, <1>6 DEF TablesSound, TablesTyped
<1>8. RoomsDated'
  BY <1>1, <1>5 DEF TablesSound, RoomsDated
<1>9. LedgerTrue'
  <2>1. ASSUME NEW h \in Caps
        PROVE  /\ h \in DOMAIN ledger' =>
                     /\ publication'[h] # NoRoom
                     /\ ledger'[h].payload = publication'[h].payload
                     /\ ledger'[h].room \in {publication'[h].room, NoRoom}
               /\ publication'[h] # NoRoom /\ h \notin DOMAIN ledger' => WindowEnd(h) <= now'
    <3>1. h \in DOMAIN ledger' =>
             /\ publication'[h] # NoRoom
             /\ ledger'[h].payload = publication'[h].payload
             /\ ledger'[h].room \in {publication'[h].room, NoRoom}
      BY <1>1, <1>5, <1>6 DEF TablesSound, LedgerTrue
    <3>2. publication[h] # NoRoom /\ h \notin DOMAIN ledger => WindowEnd(h) <= now
      BY <1>5 DEF TablesSound, LedgerTrue
    <3>3. h \in drop => WindowEnd(h) <= now
      BY <1>3, <1>4
    <3> QED
      BY <1>1, <3>1, <3>2, <3>3
  <2>2. \A h \in Caps : WindowEnd(h)' = WindowEnd(h)
    BY DEF WindowEnd
  <2> QED
    BY <2>1, <2>2 DEF LedgerTrue
<1>10. TablesSound'
  BY <1>6, <1>7, <1>8, <1>9 DEF TablesSound
<1>11. ASSUME NEW q \in Txns \ {p}, Busy(q)
       PROVE  Frame(q)
  <2>1. \A i \in DOMAIN rooms : roomLock[i] = q => i \in DOMAIN rooms' /\ rooms'[i] = rooms[i]
    BY <1>1, <1>2, <1>11
  <2>2. \A h \in Caps : ledgerLock[h] = q =>
           /\ h \in DOMAIN ledger' <=> h \in DOMAIN ledger
           /\ h \in DOMAIN ledger => ledger'[h] = ledger[h]
    BY <1>1, <1>3, <1>11
  <2>3. \A h \in DOMAIN ledger' : ledger'[h].room \in DOMAIN rooms =>
           h \in DOMAIN ledger /\ ledger[h].room = ledger'[h].room
    <3>1. NoRoom \notin DOMAIN rooms
      BY <1>5, DataAssumption DEF TablesSound, TablesTyped
    <3> QED
      BY <1>1, <1>6, <3>1
  <2> QED
    BY <1>1, <1>11, <2>1, <2>2, <2>3, OthersFrame DEF Frame
<1> QED
  BY <1>1, <1>10, <1>11, CommitStep

\* A create or a first publication stores its room, and its row of the ledger.
Stored(p) == NewRow(tx[p].key, tx[p].room, tx[p].req.payload, tx[p].at)
Entry(p)  == [room |-> tx[p].room, payload |-> tx[p].req.payload]

\* What p is about to store: a new token, a free key, a capability not yet used.
LEMMA InsertReady ==
    ASSUME IInv, NEW p \in Txns, Busy(p), At(p, "commit"), CommitInsert(p)
    PROVE  /\ Storing(p) /\ tx[p].room \in Ids \ minted /\ tx[p].req.payload \in Payloads
           /\ tx[p].key \in Keys /\ tx[p].at \in Nat /\ tx[p].at \in 0..now /\ now \in Nat
           /\ \A i \in DOMAIN rooms : rooms[i].key # tx[p].key
           /\ Fn(p) \in {"create", "publish"}
           /\ Fn(p) = "publish" =>
                 /\ Cap(p) \in Caps /\ ledgerLock[Cap(p)] = p /\ Cap(p) \notin DOMAIN ledger
                 /\ publication[Cap(p)] = NoRoom /\ InWindow(Cap(p), tx[p].at)
           /\ Stored(p) \in Row /\ Stored(p).key = tx[p].key /\ Stored(p).created = tx[p].at
           /\ Entry(p) \in Publication
<1>1. Fn(p) \in {"create", "publish"} /\ (Fn(p) = "publish" => Cap(p) \notin DOMAIN ledger)
  BY DEF CommitInsert, Inserted
<1>2. Storing(p) /\ Ready(p)
  BY <1>1 DEF Storing, CommitInsert, IInv
<1>3. tx[p].room \in Ids \ minted /\ \A i \in DOMAIN rooms : rooms[i].key # tx[p].key
  BY <1>2 DEF Ready, Progress, HoldsKey
<1>4. /\ tx[p].key \in Keys /\ tx[p].at \in Nat /\ tx[p].at \in 0..now /\ now \in Nat
      /\ tx[p].req.payload \in Payloads
      /\ Fn(p) = "publish" => Cap(p) \in Caps
  BY <1>1, RunningFields, RequestFields DEF IInv, Fn
<1>5. Fn(p) = "publish" =>
         /\ ledgerLock[Cap(p)] = p /\ publication[Cap(p)] = NoRoom /\ InWindow(Cap(p), tx[p].at)
  BY <1>1, <1>2 DEF Ready, HoldsCapability, At
<1>6. Stored(p) \in Row /\ Stored(p).key = tx[p].key /\ Stored(p).created = tx[p].at
  BY <1>3, <1>4, NewRowSound DEF Stored
<1>7. Entry(p) \in Publication
  BY <1>3, <1>4 DEF Entry, Publication
<1> QED
  BY <1>1, <1>2, <1>3, <1>4, <1>5, <1>6, <1>7

LEMMA CommitInsertInv ==
    ASSUME IInv, NEW p \in Txns, Busy(p), At(p, "commit"), CommitInsert(p), UNCHANGED now,
           Release(p), tx' = [tx EXCEPT ![p] = Idle]
    PROVE  IInv'
<1> DEFINE i == tx[p].room
           h == Cap(p)
           row == Stored(p)
           entry == Entry(p)
<1>0. /\ Storing(p) /\ i \in Ids \ minted /\ tx[p].key \in Keys
      /\ tx[p].at \in 0..now /\ now \in Nat
      /\ \A j \in DOMAIN rooms : rooms[j].key # tx[p].key
      /\ Fn(p) \in {"create", "publish"}
      /\ Fn(p) = "publish" =>
            /\ h \in Caps /\ ledgerLock[h] = p /\ h \notin DOMAIN ledger /\ publication[h] = NoRoom
      /\ row \in Row /\ row.key = tx[p].key /\ row.created = tx[p].at
      /\ entry \in Publication
  BY InsertReady
<1>1. /\ DOMAIN rooms' = DOMAIN rooms \cup {i} /\ rooms'[i] = row
      /\ \A j \in DOMAIN rooms : rooms'[j] = rooms[j]
      /\ rooms' = [j \in DOMAIN rooms' |-> rooms'[j]]
      /\ minted' = minted \cup {i}
  <2>1. i \notin DOMAIN rooms
    BY <1>0 DEF IInv, Typed, TypeOK
  <2> QED
    BY <2>1 DEF CommitInsert, Stored
<1>2. CASE Fn(p) = "create"
  <2>1. UNCHANGED <<ledger, publication, answered>>
    BY <1>2 DEF CommitInsert
  <2>2. TablesSound'
    BY <1>0, <1>1, <2>1, TablesNow DEF TablesSound, TablesTyped, LedgerTrue, RoomsDated
  <2>3. ASSUME NEW q \in Txns \ {p}, Busy(q)
        PROVE  Frame(q)
    <3>1. Storing(q) => tx[q].room # i /\ (At(q, "commit") => tx[q].key # row.key)
      BY <1>0, <2>3 DEF IInv, Apart
    <3> QED
      BY <1>0, <1>1, <2>1, <2>3, <3>1, OthersFrame DEF Frame
  <2> QED
    BY <2>2, <2>3, CommitStep
<1>3. CASE Fn(p) = "publish"
  <2>1. /\ DOMAIN ledger' = DOMAIN ledger \cup {h} /\ ledger'[h] = entry
        /\ \A g \in DOMAIN ledger : ledger'[g] = ledger[g]
        /\ ledger' = [g \in DOMAIN ledger' |-> ledger'[g]]
        /\ publication' = [publication EXCEPT ![h] = entry]
        /\ answered' = [answered EXCEPT ![h] = @ \cup {<<tx[p].key, i>>}]
    BY <1>0, <1>3 DEF CommitInsert, Entry
  <2> HIDE DEF h, i, row, entry
  <2>2. entry.room = i /\ entry # NoRoom /\ entry \in [room : Ids \cup {NoRoom}, payload : Payloads]
    BY <1>0, DataAssumption DEF entry, Entry, i, Publication
  <2>3. TablesSound
    BY TablesNow
  <2>4. answered' \in [Caps -> SUBSET (Keys \X Ids)]
    BY <1>0, <1>3, <2>1, <2>3 DEF TablesSound, TablesTyped
  <2>5. TablesTyped'
    BY <1>0, <1>1, <1>3, <2>1, <2>2, <2>3, <2>4 DEF TablesSound, TablesTyped
  <2>6. RoomsDated'
    BY <1>0, <1>1, <2>3 DEF TablesSound, RoomsDated
  <2>7. LedgerTrue'
    BY <1>0, <1>3, <2>1, <2>2, <2>3 DEF TablesSound, TablesTyped, LedgerTrue, WindowEnd
  <2>8. TablesSound'
    BY <1>1, <2>1, <2>2, <2>3, <2>5, <2>6, <2>7 DEF TablesSound
  <2>9. ASSUME NEW q \in Txns \ {p}, Busy(q)
        PROVE  Frame(q)
    <3>1. Storing(q) => tx[q].room # i /\ (At(q, "commit") => tx[q].key # row.key)
      BY <1>0, <2>9 DEF IInv, Apart, i, row
    <3>2. i \notin DOMAIN rooms
      BY <1>0, <2>3 DEF TablesSound, TablesTyped
    <3>3. \A g \in Caps : ledgerLock[g] = q =>
             /\ g \in DOMAIN ledger' <=> g \in DOMAIN ledger
             /\ g \in DOMAIN ledger => ledger'[g] = ledger[g]
             /\ publication'[g] = publication[g]
      BY <1>0, <1>3, <2>1, <2>3, <2>9 DEF TablesSound, TablesTyped
    <3>4. \A g \in DOMAIN ledger' : ledger'[g].room \in DOMAIN rooms =>
             g \in DOMAIN ledger /\ ledger[g].room = ledger'[g].room
      BY <2>1, <2>2, <3>2
    <3> QED
      BY <1>0, <1>1, <2>9, <3>1, <3>3, <3>4, OthersFrame DEF Frame
  <2> QED
    BY <2>8, <2>9, CommitStep
<1> QED
  BY <1>0, <1>2, <1>3

LEMMA CommitReplayInv ==
    ASSUME IInv, NEW p \in Txns, Busy(p), At(p, "commit"), CommitReplay(p), UNCHANGED now,
           Release(p), tx' = [tx EXCEPT ![p] = Idle]
    PROVE  IInv'
<1> DEFINE i == tx[p].room
           h == Cap(p)
<1>1. /\ h \in Caps /\ i \in DOMAIN rooms
      /\ UNCHANGED <<now, rooms, ledger, minted, publication>>
      /\ answered' = [answered EXCEPT ![h] = @ \cup {<<rooms[i].key, i>>}]
  <2>1. h \in Caps /\ h \in DOMAIN ledger /\ i = ledger[h].room /\ i # NoRoom
    BY RunningFields DEF CommitReplay, Inserted, IInv, Ready, HoldsCapability, At
  <2> QED
    BY <2>1 DEF IInv, ReferencesLive, CommitReplay
<1>2. TablesSound
  BY TablesNow
<1>3. <<rooms[i].key, i>> \in Keys \X Ids
  BY <1>1, <1>2 DEF TablesSound, TablesTyped, Row
<1>4. answered' \in [Caps -> SUBSET (Keys \X Ids)]
  BY <1>1, <1>2, <1>3 DEF TablesSound, TablesTyped
<1>5. TablesSound'
  BY <1>1, <1>2, <1>4 DEF TablesSound, TablesTyped, LedgerTrue, RoomsDated
<1>6. ASSUME NEW q \in Txns \ {p}, Busy(q)
      PROVE  Frame(q)
  BY <1>1, <1>6, OthersFrame DEF Frame
<1> QED
  BY <1>1, <1>5, <1>6, CommitStep

LEMMA CommitInv ==
    ASSUME IInv, NEW p \in Txns, Busy(p), Commit(p)
    PROVE  IInv'
BY CommitClaimInv, CommitRepublishInv, CommitRemovalInv, CommitInsertInv, CommitReplayInv DEF Commit

-----------------------------------------------------------------------------
LEMMA InitInv == Init => IInv
<1> SUFFICES ASSUME Init PROVE IInv
  OBVIOUS
<1>1. \A p \in Txns : ~Busy(p) /\ ~Storing(p)
  BY DEF Init, Busy, Storing
<1>2. DOMAIN rooms = {} /\ DOMAIN ledger = {}
  BY DEF Init
<1>3. Typed
  BY <1>1, <1>2, DataAssumption DEF Init, Typed, TypeOK
<1>4. LedgerTrue
  BY <1>2 DEF Init, LedgerTrue
<1> QED
  BY <1>1, <1>2, <1>3, <1>4 DEF IInv, ReferencesLive, RoomsDated, Apart, Typed

LEMMA TickInv == IInv /\ Tick => IInv'
<1> SUFFICES ASSUME IInv, Tick PROVE IInv'
  OBVIOUS
<1>1. now \in Nat /\ now' = now + 1 /\ now' \in 0..MaxNow /\ UNCHANGED <<tables, locks, tx>>
  BY DataAssumption DEF Tick, IInv, Typed, TypeOK
<1>2. Typed'
  BY <1>1 DEF IInv, Typed, TypeOK, Busy, tables, locks
<1>3. ReferencesLive'
  BY <1>1, <1>2 DEF IInv, Typed, ReferencesLive, tables
<1>4. LedgerTrue'
  BY <1>1, DataAssumption DEF IInv, LedgerTrue, WindowEnd, tables
<1>5. RoomsDated'
  BY <1>1 DEF IInv, Typed, TypeOK, Row, RoomsDated, tables
<1>6. ASSUME NEW q \in Txns, Busy(q)
      PROVE  Frame(q)
  <2>1. Storing(q) => tx[q].room \notin minted
    BY <1>6 DEF IInv, Ready, Progress
  <2> QED
    BY <1>1, <1>6, <2>1 DEF Frame, tables, locks
<1>7. \A q \in Txns : Busy(q)' <=> Busy(q)
  BY <1>1 DEF Busy
<1>8. \A q \in Txns : Busy(q) => Ready(q)' /\ (Storing(q)' <=> Storing(q))
  BY <1>3, <1>6, FrameReady, StoringKept
<1>9. Apart'
  <2>1. \A q \in Txns : Storing(q)' => Storing(q)
    BY <1>7, <1>8 DEF Storing
  <2> QED
    BY <1>1, <2>1 DEF IInv, Apart, At
<1> QED
  BY <1>2, <1>3, <1>4, <1>5, <1>7, <1>8, <1>9 DEF IInv

LEMMA NextInv == IInv /\ [Next]_vars => IInv'
<1> SUFFICES ASSUME IInv, [Next]_vars PROVE IInv'
  OBVIOUS
<1>1. CASE Tick
  BY <1>1, TickInv
<1>2. ASSUME NEW p \in Txns, Begin(p)
      PROVE  IInv'
  BY <1>2, BeginInv
<1>3. ASSUME NEW p \in Txns, Statement(p)
      PROVE  IInv'
  BY <1>3, FindInv, LockInv, CheckInv, SetNullInv, PrecheckInv, InsertLedgerInv, LockLedgerInv, RecheckInv,
     KeyFreeInv, KeyTakenInv, ReadRoomInv, PurgeRoomsInv, PurgePublicationsInv, CommitInv DEF Statement
<1>4. ASSUME NEW p \in Txns, Fail(p)
      PROVE  IInv'
  BY <1>4, RollbackInv DEF Fail
<1>5. CASE UNCHANGED vars
  <2>1. UNCHANGED <<now, tables, locks, tx>>
    BY <1>5 DEF vars
  <2> QED
    BY <2>1 DEF IInv, Typed, TypeOK, ReferencesLive, LedgerTrue, RoomsDated, Apart, Ready, Progress,
       HoldsRoom, HoldsDoomed, HoldsCapability, HoldsKey, Storing, Busy, At, Fn, Cap, Inserted,
       DecidedLive, Referencing, InWindow, WindowEnd, tables, locks
<1> QED
  BY <1>1, <1>2, <1>3, <1>4, <1>5 DEF Next

\* The inductive invariant: what every running transaction holds and has checked.
THEOREM Invariance == Spec => []IInv
<1> QED
  BY InitInv, NextInv, PTL DEF Spec

\* Types and lock ownership; and the foreign key: deletions, purges, replays and
\* publications in progress together never leave a reference to a room that is gone.
THEOREM TransactionsKeepReferences == Spec => []ReferencesLive
<1>1. IInv => ReferencesLive
  BY DEF IInv
<1> QED
  BY Invariance, <1>1, PTL

-----------------------------------------------------------------------------
(* Nobody waits in a circle.  A removal that waits for a reference waits for   *)
(* a replay, which reads its room without waiting; for another removal it      *)
(* cannot, since a reference is to one room, which only one of them holds.     *)

\* The statements before which p may hold a row of rooms, or of the ledger, and which.
Placed(p) ==
    /\ \A i \in Ids : roomLock[i] = p => tx[p].pc \in {"check", "fk", "publications", "commit"}
    /\ \A h \in Caps : ledgerLock[h] = p =>
          /\ tx[p].pc \in {"recheck", "key", "read", "fk", "publications", "commit"}
          /\ tx[p].pc \in {"recheck", "key"} => Fn(p) = "publish" /\ h = Cap(p)
          /\ At(p, "fk") => h \in Referencing(tx[p].doomed)

AllPlaced == \A p \in Txns : Busy(p) => Placed(p)

\* Nobody else's step gives a transaction a row, or changes a row of the ledger that it has.
OnlyOwn(p) ==
    /\ \A q \in Txns \ {p} : tx'[q] = tx[q]
    /\ \A i \in Ids : roomLock'[i] \in {roomLock[i], Free, p}
    /\ \A h \in Caps : ledgerLock'[h] \in {ledgerLock[h], Free, p}
    /\ \A h \in DOMAIN ledger : ledgerLock[h] \notin {Free, p} =>
          h \in DOMAIN ledger' /\ ledger'[h] = ledger[h]

LEMMA PlacedStep ==
    ASSUME IInv, AllPlaced, NEW p \in Txns, OnlyOwn(p), Busy(p)' => Placed(p)'
    PROVE  AllPlaced'
<1> SUFFICES ASSUME NEW q \in Txns \ {p}, Busy(q)' PROVE Placed(q)'
  BY DEF AllPlaced
<1>1. tx'[q] = tx[q] /\ Busy(q) /\ Placed(q) /\ q # Free /\ q # p
  BY TransactionAssumption DEF OnlyOwn, AllPlaced, Busy
<1>2. \A i \in Ids : roomLock'[i] = q => roomLock[i] = q
  BY <1>1 DEF OnlyOwn
<1>3. \A h \in Caps : ledgerLock'[h] = q => ledgerLock[h] = q
  BY <1>1 DEF OnlyOwn
<1>4. ASSUME NEW h \in Caps, ledgerLock[h] = q, h \in Referencing(tx[q].doomed)
      PROVE  h \in Referencing(tx[q].doomed)'
  <2>1. h \in DOMAIN ledger /\ ledger[h].room \in tx[q].doomed
    BY <1>4 DEF Referencing
  <2>2. h \in DOMAIN ledger' /\ ledger'[h] = ledger[h]
    BY <1>1, <1>4, <2>1 DEF OnlyOwn
  <2> QED
    BY <1>1, <2>1, <2>2 DEF Referencing
<1> QED
  BY <1>1, <1>2, <1>3, <1>4 DEF Placed, At, Fn, Cap

\* What holds of locks, whatever the statement.
LEMMA LocksAre ==
    ASSUME IInv
    PROVE  /\ roomLock \in [Ids -> Txns \cup {Free}] /\ ledgerLock \in [Caps -> Txns \cup {Free}]
           /\ DOMAIN tx = Txns /\ DOMAIN ledger \subseteq Caps
           /\ \A p \in Txns : ~Busy(p) => /\ \A i \in Ids : roomLock[i] # p
                                          /\ \A h \in Caps : ledgerLock[h] # p
BY TransactionAssumption DEF IInv, Typed, TypeOK

\* Steps that take and give back no lock, and leave the tables alone.
LEMMA PlacedAdvance ==
    ASSUME IInv, AllPlaced, NEW p \in Txns, UNCHANGED <<now, tables, locks>>,
           NEW t, tx' = [tx EXCEPT ![p] = t], Busy(p)' => Placed(p)'
    PROVE  AllPlaced'
<1>1. OnlyOwn(p)
  BY LocksAre DEF OnlyOwn, locks, tables
<1> QED
  BY <1>1, PlacedStep

LEMMA PlacedRelease ==
    ASSUME IInv, AllPlaced, NEW p \in Txns, Release(p), UNCHANGED <<now, tables>>,
           NEW t, tx' = [tx EXCEPT ![p] = t]
    PROVE  AllPlaced'
<1>1. OnlyOwn(p)
  BY LocksAre DEF OnlyOwn, Release, tables
<1>2. (\A i \in Ids : roomLock'[i] # p) /\ (\A h \in Caps : ledgerLock'[h] # p)
  BY LocksAre, TransactionAssumption DEF Release
<1>3. Placed(p)'
  BY <1>2 DEF Placed
<1> QED
  BY <1>1, <1>3, PlacedStep

LEMMA PlacedRollback ==
    ASSUME IInv, AllPlaced, NEW p \in Txns, Rollback(p)
    PROVE  AllPlaced'
BY PlacedRelease DEF Rollback

\* A step with one statement more and no other lock.
LEMMA PlacedGoto ==
    ASSUME IInv, AllPlaced, NEW p \in Txns, Busy(p), UNCHANGED <<now, tables, locks>>,
           NEW t, tx' = [tx EXCEPT ![p] = t],
           t.req = tx[p].req \/ t.pc \notin {"recheck", "key"},
           \A i \in Ids : roomLock[i] = p => t.pc \in {"check", "fk", "publications", "commit"},
           \A h \in Caps : ledgerLock[h] = p =>
              /\ t.pc \in {"recheck", "key", "read", "publications", "commit"}
              /\ t.pc \in {"recheck", "key"} => Fn(p) = "publish" /\ h = Cap(p)
    PROVE  AllPlaced'
<1>1. tx'[p] = t
  BY LocksAre
<1>2. Placed(p)'
  BY <1>1 DEF Placed, At, Fn, Cap, locks
<1> QED
  BY <1>1, <1>2, PlacedAdvance

LEMMA PlacedBefore ==
    ASSUME IInv, AllPlaced, NEW p \in Txns, Busy(p)
    PROVE  Placed(p) /\ tx[p] \in Running /\ Ready(p)
BY RunningFields DEF AllPlaced, IInv

LEMMA FindPlaced ==
    ASSUME IInv, AllPlaced, NEW p \in Txns, Busy(p), Find(p)
    PROVE  AllPlaced'
<1>1. CASE Rollback(p)
  BY <1>1, PlacedRollback
<1>2. ASSUME NEW i \in DOMAIN rooms,
             tx' = [tx EXCEPT ![p].pc = "lock", ![p].room = i], UNCHANGED <<now, tables, locks>>
      PROVE  AllPlaced'
  <2> DEFINE t == [tx[p] EXCEPT !.pc = "lock", !.room = i]
  <2>1. tx' = [tx EXCEPT ![p] = t] /\ t.pc = "lock"
    BY <1>2, PlacedBefore, LocksAre DEF Running
  <2> HIDE DEF t
  <2>2. (\A j \in Ids : roomLock[j] # p) /\ (\A h \in Caps : ledgerLock[h] # p)
    BY PlacedBefore DEF Placed, Find, At
  <2> QED
    BY <1>2, <2>1, <2>2, PlacedGoto
<1> QED
  BY <1>1, <1>2 DEF Find

LEMMA LockPlaced ==
    ASSUME IInv, AllPlaced, NEW p \in Txns, Busy(p), Lock(p)
    PROVE  AllPlaced'
<1>1. CASE Rollback(p)
  BY <1>1, PlacedRollback
<1>2. CASE ~Rollback(p)
  <2> DEFINE i == tx[p].room
  <2>1. /\ i \in DOMAIN rooms /\ roomLock[i] = Free /\ roomLock' = [roomLock EXCEPT ![i] = p]
        /\ Goto(p, "check") /\ UNCHANGED <<now, tables, ledgerLock>>
    BY <1>2 DEF Lock
  <2>2. tx'[p].pc = "check" /\ \A q \in Txns \ {p} : tx'[q] = tx[q]
    BY <2>1, LocksAre, PlacedBefore DEF Goto, Running
  <2>3. OnlyOwn(p)
    BY <2>1, <2>2, LocksAre DEF OnlyOwn, tables
  <2>4. \A h \in Caps : ledgerLock'[h] # p
    BY <2>1, PlacedBefore DEF Placed, Lock, At
  <2>5. Placed(p)'
    BY <2>2, <2>4 DEF Placed
  <2> QED
    BY <2>3, <2>5, PlacedStep
<1> QED
  BY <1>1, <1>2

LEMMA CheckPlaced ==
    ASSUME IInv, AllPlaced, NEW p \in Txns, Busy(p), Check(p)
    PROVE  AllPlaced'
<1>1. CASE ~Permitted(p)
  BY <1>1, PlacedRollback DEF Check
<1>2. CASE Permitted(p)
  <2> DEFINE pc == IF Fn(p) = "delete" THEN "fk" ELSE "commit"
             t == [tx[p] EXCEPT !.at = now, !.pc = pc, !.doomed = IF Fn(p) = "delete" THEN {tx[p].room} ELSE {}]
  <2>1. tx' = [tx EXCEPT ![p] = t] /\ UNCHANGED <<now, tables, locks>>
    BY <1>2, LocksAre DEF Check
  <2>2. t.pc \in {"fk", "commit"}
    BY PlacedBefore DEF Running
  <2> HIDE DEF t
  <2>3. \A h \in Caps : ledgerLock[h] # p
    BY PlacedBefore DEF Placed, Check, At
  <2> QED
    BY <2>1, <2>2, <2>3, PlacedGoto
<1> QED
  BY <1>1, <1>2

LEMMA SetNullPlaced ==
    ASSUME IInv, AllPlaced, NEW p \in Txns, Busy(p), SetNull(p)
    PROVE  AllPlaced'
<1> DEFINE pending == {h \in Referencing(tx[p].doomed) : ledgerLock[h] # p}
<1>1. CASE pending = {}
  <2> DEFINE pc == IF Fn(p) = "purge" THEN "publications" ELSE "commit"
             t == [tx[p] EXCEPT !.pc = pc]
  <2>1. tx' = [tx EXCEPT ![p] = t] /\ UNCHANGED <<now, tables, locks>>
    BY <1>1, LocksAre DEF SetNull, Goto
  <2>2. t.pc \in {"publications", "commit"}
    BY PlacedBefore DEF Running
  <2> HIDE DEF t
  <2> QED
    BY <2>1, <2>2, PlacedGoto
<1>2. ASSUME NEW h \in pending, ledgerLock[h] = Free,
             ledgerLock' = [ledgerLock EXCEPT ![h] = p], UNCHANGED <<now, tables, roomLock, tx>>
      PROVE  AllPlaced'
  <2>1. OnlyOwn(p)
    BY <1>2, LocksAre DEF OnlyOwn, tables
  <2>2. Referencing(tx[p].doomed)' = Referencing(tx[p].doomed) /\ h \in Referencing(tx[p].doomed)
    BY <1>2 DEF Referencing, tables
  <2>3. At(p, "fk") /\ tx' = tx /\ roomLock' = roomLock /\ Placed(p)
    BY <1>2, PlacedBefore DEF SetNull
  <2>4. \A g \in Caps : ledgerLock'[g] = p => g = h \/ ledgerLock[g] = p
    BY <1>2, LocksAre
  <2>5. Placed(p)'
    BY <2>2, <2>3, <2>4 DEF Placed, At
  <2> QED
    BY <2>1, <2>5, PlacedStep
<1> QED
  BY <1>1, <1>2 DEF SetNull

\* A publication gets its row of the ledger.
LEMMA TakeLedgerPlaced ==
    ASSUME IInv, AllPlaced, NEW p \in Txns, Busy(p), Fn(p) = "publish",
           tx[p].pc \in {"ledger", "lockLedger"}, ledgerLock[Cap(p)] \in {Free, p},
           ledgerLock' = [ledgerLock EXCEPT ![Cap(p)] = p], Goto(p, "recheck"),
           UNCHANGED <<now, tables, roomLock>>
    PROVE  AllPlaced'
<1>1. tx'[p].pc = "recheck" /\ tx'[p].req = tx[p].req /\ \A q \in Txns \ {p} : tx'[q] = tx[q]
  BY LocksAre, PlacedBefore DEF Goto, Running
<1>2. OnlyOwn(p)
  BY <1>1, LocksAre DEF OnlyOwn, tables
<1>3. /\ \A i \in Ids : roomLock'[i] # p
      /\ \A h \in Caps : ledgerLock'[h] = p => h = Cap(p)
  BY LocksAre, PlacedBefore DEF Placed
<1>4. Placed(p)'
  BY <1>1, <1>3 DEF Placed, At, Fn, Cap
<1> QED
  BY <1>2, <1>4, PlacedStep

LEMMA PublishPlaced ==
    ASSUME IInv, AllPlaced, NEW p \in Txns, Busy(p),
           Precheck(p) \/ InsertLedger(p) \/ LockLedger(p) \/ ReadRoom(p)
    PROVE  AllPlaced'
<1>1. CASE Rollback(p)
  BY <1>1, PlacedRollback
<1>2. ASSUME NEW pc \in {"ledger", "lockLedger", "commit"}, Goto(p, pc), UNCHANGED <<now, tables, locks>>,
             At(p, "precheck") \/ At(p, "ledger") \/ (At(p, "read") /\ pc = "commit")
      PROVE  AllPlaced'
  <2> DEFINE t == [tx[p] EXCEPT !.pc = pc]
  <2>1. tx' = [tx EXCEPT ![p] = t] /\ t.pc = pc
    BY <1>2, LocksAre, PlacedBefore DEF Goto, Running
  <2> HIDE DEF t
  <2>2. /\ \A i \in Ids : roomLock[i] # p
        /\ \A h \in Caps : ledgerLock[h] = p => pc = "commit"
    BY <1>2, PlacedBefore DEF Placed, At
  <2> QED
    BY <1>2, <2>1, <2>2, PlacedGoto
<1>3. CASE tx[p].pc \in {"ledger", "lockLedger"} /\ Goto(p, "recheck")
  <2>1. Fn(p) = "publish" /\ Cap(p) \in Caps
    BY <1>3, PlacedBefore, RunningFields DEF Ready, Progress, IInv
  <2>2. tx[p].pc # "precheck" /\ tx[p].pc # "read"
    BY <1>3
  <2>3. CASE InsertLedger(p)
    <3>1. Cap(p) \notin DOMAIN ledger
      <4>1. tx'[p].pc = "recheck"
        BY <1>3, LocksAre, PlacedBefore DEF Goto, Running
      <4> SUFFICES ASSUME Cap(p) \in DOMAIN ledger PROVE FALSE
        OBVIOUS
      <4>2. tx'[p].pc = "lockLedger"
        BY <2>3, LocksAre, PlacedBefore DEF InsertLedger, Goto, Running
      <4> QED
        BY <4>1, <4>2
    <3>2. ledgerLock[Cap(p)] \in {Free, p}
      <4>1. \A q \in Txns \ {p} : ledgerLock[Cap(p)] # q
        BY <2>1, <2>3, <3>1, LocksAre DEF InsertLedger, Writes
      <4> QED
        BY <2>1, <4>1, LocksAre
    <3> QED
      BY <1>3, <2>1, <2>3, <3>1, <3>2, TakeLedgerPlaced DEF InsertLedger
  <2>4. CASE LockLedger(p)
    BY <1>1, <1>3, <2>1, <2>4, TakeLedgerPlaced DEF LockLedger
  <2> QED
    BY <2>2, <2>3, <2>4 DEF Precheck, ReadRoom, At
<1>4. CASE Precheck(p)
  BY <1>1, <1>2, <1>4 DEF Precheck
<1>5. CASE InsertLedger(p)
  BY <1>2, <1>3, <1>5 DEF InsertLedger, At
<1>6. CASE LockLedger(p)
  BY <1>1, <1>3, <1>6 DEF LockLedger, At
<1>7. CASE ReadRoom(p)
  BY <1>1, <1>2, <1>7 DEF ReadRoom
<1> QED
  BY <1>4, <1>5, <1>6, <1>7

LEMMA RecheckPlaced ==
    ASSUME IInv, AllPlaced, NEW p \in Txns, Busy(p), Recheck(p)
    PROVE  AllPlaced'
<1>1. CASE Rollback(p)
  BY <1>1, PlacedRollback
<1>2. CASE ~Rollback(p)
  <2> DEFINE pc == IF Inserted(p) THEN "key" ELSE "read"
             t == [tx[p] EXCEPT !.at = now, !.pc = pc, !.room = IF Inserted(p) THEN @ ELSE ledger[Cap(p)].room]
  <2>1. tx' = [tx EXCEPT ![p] = t] /\ UNCHANGED <<now, tables, locks>>
    BY <1>2, LocksAre DEF Recheck
  <2>2. t.pc \in {"key", "read"} /\ t.req = tx[p].req
    BY PlacedBefore DEF Running
  <2> HIDE DEF t
  <2>3. /\ \A i \in Ids : roomLock[i] # p
        /\ \A h \in Caps : ledgerLock[h] = p => Fn(p) = "publish" /\ h = Cap(p)
    BY PlacedBefore DEF Placed, Recheck, At
  <2> QED
    BY <2>1, <2>2, <2>3, PlacedGoto
<1> QED
  BY <1>1, <1>2

LEMMA InsertRoomPlaced ==
    ASSUME IInv, AllPlaced, NEW p \in Txns, Busy(p), InsertRoom(p)
    PROVE  AllPlaced'
<1>1. CASE Goto(p, "commit") /\ UNCHANGED <<now, tables, locks>>
  <2> DEFINE t == [tx[p] EXCEPT !.pc = "commit"]
  <2>1. tx' = [tx EXCEPT ![p] = t] /\ t.pc = "commit"
    BY <1>1, LocksAre, PlacedBefore DEF Goto, Running
  <2> HIDE DEF t
  <2> QED
    BY <1>1, <2>1, PlacedGoto
<1>2. CASE ~(Goto(p, "commit") /\ UNCHANGED <<now, tables, locks>>)
  <2>1. /\ Release(p) /\ UNCHANGED <<now, tables>>
        /\ \E k \in Keys :
               tx' = [tx EXCEPT ![p] = IF tx[p].tries = Attempts THEN Idle
                         ELSE [tx[p] EXCEPT !.pc = FirstStatement(Fn(p)), !.key = k,
                                            !.at = now, !.tries = tx[p].tries + 1]]
    BY <1>2, LocksAre DEF InsertRoom
  <2> QED
    BY <2>1, PlacedRelease
<1> QED
  BY <1>1, <1>2

LEMMA PurgeRoomsPlaced ==
    ASSUME IInv, AllPlaced, NEW p \in Txns, Busy(p), PurgeRooms(p)
    PROVE  AllPlaced'
<1>1. PICK S \in SUBSET Ids :
          /\ Batch(S, {i \in DOMAIN rooms : rooms[i].expires <= tx[p].at /\ roomLock[i] = Free})
          /\ roomLock' = [i \in Ids |-> IF i \in S THEN p ELSE roomLock[i]]
          /\ tx' = [tx EXCEPT ![p].pc = "fk", ![p].doomed = S]
  BY DEF PurgeRooms
<1>2. tx'[p].pc = "fk" /\ \A q \in Txns \ {p} : tx'[q] = tx[q]
  BY <1>1, LocksAre, PlacedBefore DEF Running
<1>3. UNCHANGED <<now, tables, ledgerLock>>
  BY DEF PurgeRooms
<1>4. OnlyOwn(p)
  BY <1>1, <1>2, <1>3, LocksAre DEF OnlyOwn, tables
<1>5. \A h \in Caps : ledgerLock'[h] # p
  BY <1>3, PlacedBefore DEF Placed, PurgeRooms, At
<1>6. Placed(p)'
  BY <1>2, <1>5 DEF Placed
<1> QED
  BY <1>4, <1>6, PlacedStep

LEMMA PurgePublicationsPlaced ==
    ASSUME IInv, AllPlaced, NEW p \in Txns, Busy(p), PurgePublications(p)
    PROVE  AllPlaced'
<1>1. PICK H \in SUBSET Caps :
          /\ Batch(H, {h \in DOMAIN ledger : WindowEnd(h) <= tx[p].at /\ ledgerLock[h] \in {Free, p}})
          /\ ledgerLock' = [h \in Caps |-> IF h \in H THEN p ELSE ledgerLock[h]]
          /\ tx' = [tx EXCEPT ![p].pc = "commit", ![p].req = [fn |-> "purge", drop |-> H]]
  BY DEF PurgePublications
<1>2. tx'[p].pc = "commit" /\ \A q \in Txns \ {p} : tx'[q] = tx[q]
  BY <1>1, LocksAre, PlacedBefore DEF Running
<1>3. UNCHANGED <<now, tables, roomLock>>
  BY DEF PurgePublications
<1>4. OnlyOwn(p)
  BY <1>1, <1>2, <1>3, LocksAre DEF OnlyOwn, tables
<1>5. Placed(p)'
  BY <1>2 DEF Placed, At
<1> QED
  BY <1>4, <1>5, PlacedStep

LEMMA CommitPlaced ==
    ASSUME IInv, AllPlaced, NEW p \in Txns, Busy(p), Commit(p)
    PROVE  AllPlaced'
<1>1. Release(p) /\ tx' = [tx EXCEPT ![p] = Idle] /\ ~Busy(p)'
  BY LocksAre DEF Commit, Busy
<1>2. /\ \A q \in Txns \ {p} : tx'[q] = tx[q]
      /\ \A i \in Ids : roomLock'[i] \in {roomLock[i], Free, p}
      /\ \A h \in Caps : ledgerLock'[h] \in {ledgerLock[h], Free, p}
  BY <1>1, LocksAre DEF Release
<1>3. ASSUME NEW h \in DOMAIN ledger, ledgerLock[h] \notin {Free, p}
      PROVE  h \in DOMAIN ledger' /\ ledger'[h] = ledger[h]
  <2>1. CASE ledger' = ledger
    BY <2>1
  <2>2. CASE CommitRemoval(p)
    <3>1. Fn(p) = "purge" => h \notin tx[p].req.drop
      BY <1>3, PlacedBefore DEF Ready, HoldsDoomed, Commit
    <3> QED
      BY <1>3, <2>2, <3>1 DEF CommitRemoval
  <2>3. CASE CommitInsert(p)
    <3>1. Fn(p) = "create" \/ ledgerLock[Cap(p)] = p
      BY <2>3, PlacedBefore DEF Ready, HoldsCapability, Commit, CommitInsert, Inserted, At
    <3> QED
      BY <1>3, <2>3, <3>1 DEF CommitInsert
  <2> QED
    BY <2>1, <2>2, <2>3 DEF Commit, CommitClaim, CommitRepublish, CommitReplay
<1>4. OnlyOwn(p)
  BY <1>2, <1>3 DEF OnlyOwn
<1> QED
  BY <1>1, <1>4, PlacedStep

LEMMA BeginPlaced ==
    ASSUME IInv, AllPlaced, NEW p \in Txns, Begin(p)
    PROVE  AllPlaced'
<1>1. ~Busy(p) /\ UNCHANGED <<now, tables, locks>>
  BY DEF Begin
<1>2. PICK t : tx' = [tx EXCEPT ![p] = t]
  BY DEF Begin
<1>3. (\A i \in Ids : roomLock'[i] # p) /\ (\A h \in Caps : ledgerLock'[h] # p)
  BY <1>1, LocksAre DEF locks
<1>4. Placed(p)'
  BY <1>3 DEF Placed
<1> QED
  BY <1>1, <1>2, <1>4, PlacedAdvance

LEMMA PlacedNext == IInv /\ AllPlaced /\ [Next]_vars => AllPlaced'
<1> SUFFICES ASSUME IInv, AllPlaced, [Next]_vars PROVE AllPlaced'
  OBVIOUS
<1>1. CASE UNCHANGED <<tables, locks, tx>>
  BY <1>1 DEF AllPlaced, Placed, Busy, At, Fn, Cap, Referencing, tables, locks
<1>2. ASSUME NEW p \in Txns, Begin(p) \/ Statement(p) \/ Fail(p) PROVE AllPlaced'
  BY <1>2, BeginPlaced, FindPlaced, LockPlaced, CheckPlaced, SetNullPlaced, PublishPlaced, RecheckPlaced,
     InsertRoomPlaced, PurgeRoomsPlaced, PurgePublicationsPlaced, CommitPlaced, PlacedRollback
     DEF Statement, Fail
<1> QED
  BY <1>1, <1>2 DEF Next, Tick, vars

\* Who waits for a removal's references, for a row of the ledger or for a key
\* waits for somebody who can go on; so does, in the end, who waits for a room.
LEMMA SomeoneGoesOn == IInv /\ AllPlaced => NoCircle
<1> SUFFICES ASSUME IInv, AllPlaced, NEW b \in Txns, Busy(b),
                    \A p \in Txns : Busy(p) => Waits(p)
             PROVE  FALSE
  BY DEF NoCircle
<1>1. \A p \in Txns : Busy(p) => tx[p].pc \in {"lock", "fk", "ledger", "lockLedger", "key"}
  BY DEF Waits, At
<1>2. /\ \A i \in Ids : roomLock[i] # Free => roomLock[i] \in Txns /\ Busy(roomLock[i])
      /\ \A h \in Caps : ledgerLock[h] # Free => ledgerLock[h] \in Txns /\ Busy(ledgerLock[h])
  BY LocksAre
<1>3. ASSUME NEW p \in Txns, Busy(p), At(p, "fk") PROVE FALSE
  <2>1. PICK h \in Referencing(tx[p].doomed) : ledgerLock[h] # p /\ ledgerLock[h] # Free
    BY <1>3 DEF Waits, At
  <2>2. h \in Caps /\ h \in DOMAIN ledger /\ ledger[h].room \in tx[p].doomed
    BY <2>1, LocksAre DEF Referencing
  <2>3. PICK q \in Txns : q = ledgerLock[h] /\ q # p /\ Busy(q)
    BY <1>2, <2>1, <2>2
  <2>4. tx[q].pc \in {"fk", "key"}
    BY <1>1, <2>2, <2>3, PlacedBefore DEF Placed
  <2>5. CASE At(q, "key")
    <3>1. Fn(q) = "publish" /\ h = Cap(q)
      BY <2>2, <2>3, <2>5, PlacedBefore DEF Placed, At
    <3>2. Inserted(q)
      BY <2>3, <2>5, PlacedBefore DEF Ready, Progress
    <3> QED
      BY <2>2, <3>1, <3>2 DEF Inserted
  <2>6. CASE At(q, "fk")
    <3>1. ledger[h].room \in tx[q].doomed
      BY <2>2, <2>3, <2>6, PlacedBefore DEF Placed, Referencing
    <3>2. roomLock[ledger[h].room] = p /\ roomLock[ledger[h].room] = q
      BY <1>3, <2>2, <2>3, <3>1, PlacedBefore DEF Ready, HoldsDoomed
    <3> QED
      BY <2>3, <3>2
  <2> QED
    BY <2>4, <2>5, <2>6 DEF At
<1>4. ASSUME NEW p \in Txns, Busy(p), At(p, "key") PROVE FALSE
  <2>1. PICK q \in Txns : Busy(q) /\ (At(q, "commit") \/ tx[q].doomed # {})
    BY <1>4 DEF Waits, WritesKey, At
  <2>2. tx[q].pc \in {"fk", "publications", "commit"}
    BY <2>1, PlacedBefore DEF Ready, HoldsDoomed, At
  <2> QED
    BY <1>1, <1>3, <2>1, <2>2 DEF At
<1>5. \A h \in Caps : ledgerLock[h] = Free
  <2> SUFFICES ASSUME NEW h \in Caps, ledgerLock[h] # Free PROVE FALSE
    OBVIOUS
  <2>1. PICK q \in Txns : q = ledgerLock[h] /\ Busy(q)
    BY <1>2
  <2>2. tx[q].pc \in {"fk", "key"}
    BY <1>1, <2>1, PlacedBefore DEF Placed
  <2> QED
    BY <1>3, <1>4, <2>1, <2>2 DEF At
<1>6. \A i \in Ids : roomLock[i] = Free
  <2> SUFFICES ASSUME NEW i \in Ids, roomLock[i] # Free PROVE FALSE
    OBVIOUS
  <2>1. PICK q \in Txns : q = roomLock[i] /\ Busy(q)
    BY <1>2
  <2>2. tx[q].pc = "fk"
    BY <1>1, <2>1, PlacedBefore DEF Placed
  <2> QED
    BY <1>3, <2>1, <2>2 DEF At
<1>7. tx[b].pc \in {"lock", "ledger", "lockLedger"}
  BY <1>1, <1>3, <1>4 DEF At
<1>8. tx[b].pc = "lock" => tx[b].room \in Ids
  BY PlacedBefore DEF Ready, Progress, At
<1>9. tx[b].pc \in {"ledger", "lockLedger"} => Cap(b) \in Caps
  BY PlacedBefore, RunningFields DEF Ready, Progress, IInv
<1> QED
  BY <1>5, <1>6, <1>7, <1>8, <1>9, TransactionAssumption DEF Waits, Writes, At

\* However many transactions run, and wherever each has come to, one of them waits
\* for nobody: deletions, purges, replays and publications do not block each other.
THEOREM TransactionsNeverCircle == Spec => []NoCircle
<1>1. Init => AllPlaced
  BY DEF Init, AllPlaced, Busy
<1> QED
  BY Invariance, <1>1, PlacedNext, SomeoneGoesOn, PTL DEF Spec

-----------------------------------------------------------------------------
(* The functions implement RoomService: the statement that decides under a    *)
(* lock puts the decision on record, and the commit is the operation that was *)
(* decided on.                                                                *)

\* A lock protects each decision: no other transaction has one about the same
\* room, or with the same capability.
LEMMA DecidedAlone ==
    ASSUME IInv, NEW p \in Txns, NEW q \in Txns
    PROVE  /\ Changing(p) => /\ Busy(p) /\ tx[p].room \in DOMAIN rooms /\ roomLock[tx[p].room] = p
           /\ Changing(p) /\ Changing(q) /\ tx[p].room = tx[q].room => p = q
           /\ Publishing(p) => /\ Busy(p) /\ Cap(p) \in Caps /\ ledgerLock[Cap(p)] = p
           /\ Publishing(p) /\ Publishing(q) /\ Cap(p) = Cap(q) => p = q
<1>1. ASSUME NEW r \in Txns, Changing(r)
      PROVE  Busy(r) /\ tx[r].room \in DOMAIN rooms /\ roomLock[tx[r].room] = r
  <2>1. Busy(r)
    BY <1>1 DEF Changing, At, Busy, Idle
  <2> QED
    BY <1>1, <2>1 DEF Changing, IInv, Ready, HoldsRoom
<1>2. ASSUME NEW r \in Txns, Publishing(r)
      PROVE  Busy(r) /\ Cap(r) \in Caps /\ ledgerLock[Cap(r)] = r
  <2>1. Busy(r)
    BY <1>2 DEF Publishing, Busy, Idle
  <2>2. Cap(r) \in Caps
    BY <1>2, <2>1, RunningFields DEF Publishing, IInv
  <2> QED
    BY <1>2, <2>1, <2>2 DEF Publishing, IInv, Ready, HoldsCapability
<1> QED
  BY <1>1, <1>2

\* What a step of p does not do to the others: it neither moves them nor writes
\* their row of the ledger.
Aside(p) == \A q \in Txns \ {p} :
               /\ tx'[q] = tx[q]
               /\ Publishing(q) => (Cap(q) \in DOMAIN ledger <=> Cap(q) \in DOMAIN ledger')

LEMMA OthersDecided ==
    ASSUME NEW p, Aside(p), NEW q \in Txns \ {p}
    PROVE  /\ tx'[q] = tx[q] /\ Cap(q)' = Cap(q)
           /\ Changing(q)' <=> Changing(q)
           /\ Publishing(q)' <=> Publishing(q)
           /\ Answering(q)' <=> Answering(q)
BY DEF Aside, Changing, Publishing, Answering, Inserted, At, Fn, Cap

\* A step that ends what p decided uses up its decisions, and no other's.
LEMMA DecisionsEnd ==
    ASSUME IInv, NEW p \in Txns, Aside(p), ~Changing(p)', ~Publishing(p)'
    PROVE  /\ Held' = IF Changing(p) THEN Held \ {tx[p].room} ELSE Held
           /\ Admitted' = IF Publishing(p) THEN Admitted \ {Cap(p)} ELSE Admitted
           /\ Located' = IF Answering(p) THEN Located \ {Cap(p)} ELSE Located
<1>1. ~Answering(p)' /\ (Answering(p) => Publishing(p))
  BY DEF Answering
<1>2. \A q \in Txns \ {p} : /\ tx'[q] = tx[q] /\ Cap(q)' = Cap(q)
                            /\ Changing(q)' <=> Changing(q)
                            /\ Publishing(q)' <=> Publishing(q)
                            /\ Answering(q)' <=> Answering(q)
  BY OthersDecided
<1>3. \A q \in Txns \ {p} : /\ Changing(p) /\ Changing(q) => tx[p].room # tx[q].room
                            /\ Publishing(p) /\ Publishing(q) => Cap(p) # Cap(q)
                            /\ Answering(q) => Publishing(q)
  BY DecidedAlone DEF Answering
<1>4. Held' = {tx[q].room : q \in {q \in Txns \ {p} : Changing(q)}}
  BY <1>2 DEF Held
<1>5. Admitted' = {Cap(q) : q \in {q \in Txns \ {p} : Publishing(q)}}
  BY <1>2 DEF Admitted
<1>6. Located' = {Cap(q) : q \in {q \in Txns \ {p} : Answering(q)}}
  BY <1>1, <1>2 DEF Located
<1>7. Held' = IF Changing(p) THEN Held \ {tx[p].room} ELSE Held
  BY <1>3, <1>4 DEF Held
<1>8. Admitted' = IF Publishing(p) THEN Admitted \ {Cap(p)} ELSE Admitted
  BY <1>3, <1>5 DEF Admitted
<1>9. Located' = IF Answering(p) THEN Located \ {Cap(p)} ELSE Located
  BY <1>1, <1>3, <1>6 DEF Located
<1> QED
  BY <1>7, <1>8, <1>9

\* A step that keeps what p decided adds to its decisions those it takes.
LEMMA DecisionsGrow ==
    ASSUME NEW p \in Txns, Aside(p),
           Changing(p) => Changing(p)' /\ tx'[p].room = tx[p].room,
           Publishing(p) => Publishing(p)' /\ Cap(p)' = Cap(p),
           Answering(p) => Answering(p)'
    PROVE  /\ Held' = IF Changing(p)' THEN Held \cup {tx'[p].room} ELSE Held
           /\ Admitted' = IF Publishing(p)' THEN Admitted \cup {Cap(p)'} ELSE Admitted
           /\ Located' = IF Answering(p)' THEN Located \cup {Cap(p)'} ELSE Located
<1>1. Answering(p) => Publishing(p)
  BY DEF Answering
<1>2. \A q \in Txns \ {p} : /\ tx'[q] = tx[q] /\ Cap(q)' = Cap(q)
                            /\ Changing(q)' <=> Changing(q)
                            /\ Publishing(q)' <=> Publishing(q)
                            /\ Answering(q)' <=> Answering(q)
  BY OthersDecided
<1>3. Held' = IF Changing(p)' THEN Held \cup {tx'[p].room} ELSE Held
  BY <1>2 DEF Held
<1>4. Admitted' = IF Publishing(p)' THEN Admitted \cup {Cap(p)'} ELSE Admitted
  BY <1>2 DEF Admitted
<1>5. Located' = IF Answering(p)' THEN Located \cup {Cap(p)'} ELSE Located
  BY <1>1, <1>2 DEF Located
<1> QED
  BY <1>3, <1>4, <1>5

-----------------------------------------------------------------------------
(* The functions implement RoomService: each commit is the operation its      *)
(* transaction decided on, at the instant tx[p].at it decided.                *)

LEMMA InitRefines == Init => Service!Init
BY DEF Init, Service!Init, Held, Admitted, Located, Changing, Publishing, Answering, At, Idle

LEMMA DecisionsSame ==
    ASSUME UNCHANGED <<tx, ledger>>
    PROVE  UNCHANGED <<Held, Admitted, Located>>
BY DEF Held, Admitted, Located, Changing, Publishing, Answering, Inserted, At, Fn, Cap

LEMMA TickRefines == Tick => Service!Next
<1> SUFFICES ASSUME Tick PROVE Service!Next
  OBVIOUS
<1>1. UNCHANGED <<Held, Admitted, Located>>
  BY DecisionsSame DEF Tick, tables
<1> QED
  BY <1>1 DEF Tick, tables, Service!Tick, Service!Next, Service!decisions

\* A step that only moves p leaves the others aside.
LEMMA MovesOne ==
    ASSUME IInv, NEW p \in Txns, NEW t, tx' = [tx EXCEPT ![p] = t], UNCHANGED ledger
    PROVE  Aside(p) /\ tx'[p] = t
BY DEF Aside, IInv, Typed

\* p decided nothing, and its statement decides nothing.
LEMMA LocalRefines ==
    ASSUME IInv, NEW p \in Txns, Aside(p), UNCHANGED <<now, tables>>,
           ~Changing(p), ~Publishing(p), ~Changing(p)', ~Publishing(p)'
    PROVE  UNCHANGED Service!vars
<1>1. UNCHANGED <<Held, Admitted, Located>>
  BY DecisionsEnd DEF Answering
<1> QED
  BY <1>1 DEF tables, Service!vars, Service!decisions

\* Whatever p decided is dropped.
LEMMA WithdrawRefines ==
    ASSUME IInv, NEW p \in Txns, Aside(p), UNCHANGED <<now, tables>>, ~Changing(p)', ~Publishing(p)'
    PROVE  Service!Next
<1>1. Held' \subseteq Held /\ Admitted' \subseteq Admitted /\ Located' \subseteq Located
  BY DecisionsEnd
<1>2. Service!Withdraw
  BY <1>1 DEF tables, Service!Withdraw
<1> QED
  BY <1>2 DEF Service!Next

LEMMA RollbackRefines ==
    ASSUME IInv, NEW p \in Txns, Rollback(p)
    PROVE  Service!Next
<1>1. Aside(p) /\ tx'[p] = Idle
  BY MovesOne DEF Rollback, tables
<1>2. ~Changing(p)' /\ ~Publishing(p)'
  BY <1>1 DEF Changing, Publishing, At, Idle
<1> QED
  BY <1>1, <1>2, WithdrawRefines DEF Rollback

LEMMA BeginRefines ==
    ASSUME IInv, NEW p \in Txns, Begin(p)
    PROVE  UNCHANGED Service!vars
<1>1. tx[p].pc = "idle"
  BY DEF Begin, Busy, Idle
<1>2. PICK req \in Requests, k \in Keys, i \in Ids \cup {NoRoom} :
         tx' = [tx EXCEPT ![p] = [pc |-> FirstStatement(req.fn), req |-> req, room |-> i, key |-> k,
                                  at |-> now, doomed |-> {}, tries |-> 1]]
  BY DEF Begin
<1> DEFINE t == [pc |-> FirstStatement(req.fn), req |-> req, room |-> i, key |-> k,
                 at |-> now, doomed |-> {}, tries |-> 1]
<1>t. t.pc = FirstStatement(req.fn) /\ t.req = req /\ tx' = [tx EXCEPT ![p] = t]
  BY <1>2
<1> HIDE DEF t
<1>3. Aside(p) /\ tx'[p].pc = FirstStatement(req.fn) /\ tx'[p].req = req
  BY <1>t, MovesOne DEF Begin, tables
<1>4. req.fn \in {"create", "publish", "purge", "claim", "republish", "delete"}
  BY TransactionAssumption, RequestFields DEF OnRoom
<1>5. ~Changing(p)' /\ ~Publishing(p)'
  BY <1>3, <1>4 DEF Changing, Publishing, At, Fn, FirstStatement
<1>6. ~Changing(p) /\ ~Publishing(p)
  BY <1>1 DEF Changing, Publishing, At
<1> QED
  BY <1>3, <1>5, <1>6, LocalRefines DEF Begin

\* The statements that come before a decision, or belong to no decision.
LEMMA UndecidedRefines ==
    ASSUME IInv, NEW p \in Txns, Busy(p),
           \/ Find(p) \/ Lock(p) \/ SetNull(p) \/ Precheck(p) \/ InsertLedger(p) \/ LockLedger(p)
           \/ PurgeRooms(p) \/ PurgePublications(p)
    PROVE  Service!Next \/ UNCHANGED Service!vars
<1>1. tx[p].pc \in {"find", "lock", "fk", "precheck", "ledger", "lockLedger", "rooms", "publications"}
  BY DEF Find, Lock, SetNull, Precheck, InsertLedger, LockLedger, PurgeRooms, PurgePublications, At
<1>2. ~Changing(p) /\ ~Publishing(p)
  BY <1>1 DEF Changing, Publishing, At
<1>3. tx[p] \in Running /\ tx \in [Txns -> Running \cup {Idle}]
  BY RunningFields DEF IInv, Typed
<1>4. CASE Rollback(p)
  BY <1>4, RollbackRefines
<1>5. CASE UNCHANGED <<now, tables, tx>>
  <2>1. UNCHANGED <<Held, Admitted, Located>>
    BY <1>5, DecisionsSame DEF tables
  <2> QED
    BY <1>5, <2>1 DEF tables, Service!vars, Service!decisions
<1>6. ASSUME UNCHANGED <<now, tables>>, NEW t, tx' = [tx EXCEPT ![p] = t],
             \/ t.pc \in {"lock", "check", "fk", "publications", "ledger", "lockLedger", "recheck"}
             \/ t.pc = "commit" /\ t.req.fn \in {"delete", "purge"}
      PROVE  UNCHANGED Service!vars
  <2>1. Aside(p) /\ tx'[p] = t
    BY <1>6, MovesOne DEF tables
  <2>2. ~Changing(p)' /\ ~Publishing(p)'
    BY <1>6, <2>1 DEF Changing, Publishing, At, Fn
  <2> QED
    BY <1>2, <1>6, <2>1, <2>2, LocalRefines
<1>7. CASE Find(p)
  <2>1. ASSUME NEW i, UNCHANGED <<now, tables>>, tx' = [tx EXCEPT ![p].pc = "lock", ![p].room = i]
        PROVE  UNCHANGED Service!vars
    <3> DEFINE t == [tx[p] EXCEPT !.pc = "lock", !.room = i]
    <3>1. tx' = [tx EXCEPT ![p] = t] /\ t.pc = "lock"
      BY <1>3, <2>1 DEF Running
    <3> QED
      BY <1>6, <2>1, <3>1
  <2> QED
    BY <1>4, <1>7, <2>1 DEF Find
<1>8. ASSUME NEW pc \in {"lock", "check", "fk", "publications", "ledger", "lockLedger", "recheck"},
             Goto(p, pc), UNCHANGED <<now, tables>>
      PROVE  UNCHANGED Service!vars
  <2> DEFINE t == [tx[p] EXCEPT !.pc = pc]
  <2>1. tx' = [tx EXCEPT ![p] = t] /\ t.pc = pc
    BY <1>3, <1>8 DEF Goto, Running
  <2> QED
    BY <1>6, <1>8, <2>1
<1>9. CASE Lock(p) \/ Precheck(p) \/ InsertLedger(p) \/ LockLedger(p)
  BY <1>4, <1>8, <1>9 DEF Lock, Precheck, InsertLedger, LockLedger
<1>10. CASE SetNull(p)
  <2>1. CASE Goto(p, "commit") /\ Fn(p) # "purge" /\ UNCHANGED <<now, tables>>
    <3> DEFINE t == [tx[p] EXCEPT !.pc = "commit"]
    <3>1. Fn(p) \in {"delete", "purge"}
      BY <1>10 DEF SetNull, IInv, Ready, Progress, Removing
    <3>2. tx' = [tx EXCEPT ![p] = t] /\ t.pc = "commit" /\ t.req = tx[p].req
      BY <1>3, <2>1 DEF Goto, Running
    <3> QED
      BY <1>6, <2>1, <3>1, <3>2 DEF Fn
  <2>2. CASE Goto(p, "publications") /\ UNCHANGED <<now, tables>>
    BY <1>8, <2>2
  <2> QED
    BY <1>5, <1>10, <2>1, <2>2 DEF SetNull
<1>11. CASE PurgeRooms(p)
  <2>1. PICK S : tx' = [tx EXCEPT ![p].pc = "fk", ![p].doomed = S]
    BY <1>11 DEF PurgeRooms
  <2> DEFINE t == [tx[p] EXCEPT !.pc = "fk", !.doomed = S]
  <2>2. tx' = [tx EXCEPT ![p] = t] /\ t.pc = "fk"
    BY <1>3, <2>1 DEF Running
  <2> QED
    BY <1>6, <1>11, <2>2 DEF PurgeRooms
<1>12. CASE PurgePublications(p)
  <2>1. PICK H : tx' = [tx EXCEPT ![p].pc = "commit", ![p].req = [fn |-> "purge", drop |-> H]]
    BY <1>12 DEF PurgePublications
  <2> DEFINE t == [tx[p] EXCEPT !.pc = "commit", !.req = [fn |-> "purge", drop |-> H]]
  <2>2. tx' = [tx EXCEPT ![p] = t] /\ t.pc = "commit" /\ t.req.fn = "purge"
    BY <1>3, <2>1 DEF Running
  <2> QED
    BY <1>6, <1>12, <2>2 DEF PurgePublications
<1> QED
  BY <1>7, <1>9, <1>10, <1>11, <1>12

\* A call on a room decides while it holds the row, on the clock as it is.
LEMMA CheckRefines ==
    ASSUME IInv, NEW p \in Txns, Busy(p), Check(p)
    PROVE  Service!Next \/ UNCHANGED Service!vars
<1> DEFINE i == tx[p].room
           t == [tx[p] EXCEPT !.at = now,
                              !.pc = IF Fn(p) = "delete" THEN "fk" ELSE "commit",
                              !.doomed = IF Fn(p) = "delete" THEN {tx[p].room} ELSE {}]
<1>1. CASE Rollback(p)
  BY <1>1, RollbackRefines
<1>2. ASSUME Permitted(p), tx' = [tx EXCEPT ![p] = t], UNCHANGED <<now, tables, locks>>
      PROVE  Service!Next \/ UNCHANGED Service!vars
  <2>1. /\ At(p, "check") /\ Fn(p) \in OnRoom /\ i \in DOMAIN rooms /\ i \in Ids
        /\ tx[p] \in Running
    <3>1. At(p, "check") /\ Ready(p) /\ tx[p] \in Running /\ DOMAIN rooms \subseteq Ids
      BY RunningFields DEF Check, IInv, Typed, TypeOK
    <3> QED
      BY <3>1 DEF Ready, Progress, HoldsRoom, At
  <2>2. /\ t.pc = (IF Fn(p) = "delete" THEN "fk" ELSE "commit")
        /\ t.req = tx[p].req /\ t.room = i
    BY <2>1 DEF Running
  <2> HIDE DEF t
  <2>3. Aside(p) /\ tx'[p] = t
    BY <1>2, MovesOne DEF tables
  <2>4. ~Changing(p) /\ ~Publishing(p) /\ ~Answering(p) /\ ~Publishing(p)' /\ ~Answering(p)'
    BY <2>1, <2>2, <2>3 DEF Changing, Publishing, Answering, At, Fn, OnRoom
  <2>5. CASE Fn(p) = "delete"
    <3>1. ~Changing(p)'
      BY <2>2, <2>3, <2>5 DEF Changing, At
    <3> QED
      BY <1>2, <2>3, <2>4, <3>1, LocalRefines
  <2>6. CASE Fn(p) \in {"claim", "republish"}
    <3>1. Changing(p)' /\ tx'[p].room = i
      BY <2>2, <2>3, <2>6 DEF Changing, At, Fn
    <3>2. Held' = Held \cup {i} /\ UNCHANGED <<Admitted, Located>>
      BY <2>3, <2>4, <3>1, DecisionsGrow
    <3>3. now < rooms[i].expires
      BY <1>2, <2>6 DEF Permitted, ClaimPermitted, RepublishPermitted
    <3>4. Service!Hold(i)
      BY <1>2, <2>1, <3>2, <3>3 DEF tables, Service!Hold, Service!Live
    <3> QED
      BY <2>1, <3>4 DEF Service!Next
  <2> QED
    BY <2>1, <2>5, <2>6 DEF OnRoom
<1> QED
  BY <1>1, <1>2 DEF Check

\* A publication is admitted by the check that follows the wait for its row.
LEMMA RecheckRefines ==
    ASSUME IInv, NEW p \in Txns, Busy(p), Recheck(p)
    PROVE  Service!Next
<1> DEFINE h == Cap(p)
           t == [tx[p] EXCEPT !.at = now,
                              !.pc = IF Inserted(p) THEN "key" ELSE "read",
                              !.room = IF Inserted(p) THEN tx[p].room ELSE ledger[h].room]
<1>1. CASE Rollback(p)
  BY <1>1, RollbackRefines
<1>2. ASSUME InWindow(h, now), tx' = [tx EXCEPT ![p] = t], UNCHANGED <<now, tables, locks>>
      PROVE  Service!Next
  <2>1. At(p, "recheck") /\ Fn(p) = "publish" /\ tx[p] \in Running /\ h \in Caps
    <3>1. At(p, "recheck") /\ Ready(p) /\ tx[p] \in Running /\ (Fn(p) = "publish" => h \in Caps)
      BY RunningFields DEF Recheck, IInv
    <3> QED
      BY <3>1 DEF Ready, Progress, At
  <2>2. t.pc \in {"key", "read"} /\ t.req = tx[p].req
    BY <2>1 DEF Running
  <2> HIDE DEF t
  <2>3. Aside(p) /\ tx'[p] = t
    BY <1>2, MovesOne DEF tables
  <2>4. /\ ~Changing(p) /\ ~Publishing(p) /\ ~Answering(p)
        /\ ~Changing(p)' /\ Publishing(p)' /\ Cap(p)' = h /\ ~Answering(p)'
    BY <2>1, <2>2, <2>3 DEF Changing, Publishing, Answering, At, Fn, Cap
  <2>5. Admitted' = Admitted \cup {h} /\ UNCHANGED <<Held, Located>>
    BY <2>3, <2>4, DecisionsGrow
  <2>6. Service!InWindow(h, now)
    BY <1>2 DEF InWindow, WindowEnd, Service!InWindow, Service!WindowEnd
  <2>7. Service!Admit(h)
    BY <1>2, <2>5, <2>6 DEF tables, Service!Admit
  <2> QED
    BY <2>1, <2>7 DEF Service!Next
<1> QED
  BY <1>1, <1>2 DEF Recheck

\* The insert of the room adds nothing to what was decided; a key that is taken
\* gives it up.
LEMMA InsertRoomRefines ==
    ASSUME IInv, NEW p \in Txns, Busy(p), InsertRoom(p)
    PROVE  Service!Next \/ UNCHANGED Service!vars
<1>1. /\ At(p, "key") /\ Fn(p) \in {"create", "publish"} /\ Inserted(p) /\ tx[p] \in Running
      /\ UNCHANGED <<now, tables>>
  <2>1. Ready(p) /\ tx[p] \in Running
    BY RunningFields DEF IInv
  <2>2. At(p, "key") /\ UNCHANGED <<now, tables>>
    BY Zenon DEF InsertRoom
  <2> QED
    BY <2>1, <2>2 DEF Ready, Progress, At
<1>2. CASE Goto(p, "commit")
  <2> DEFINE t == [tx[p] EXCEPT !.pc = "commit"]
  <2>1. t.pc = "commit" /\ t.req = tx[p].req /\ tx' = [tx EXCEPT ![p] = t]
    BY <1>1, <1>2 DEF Running, Goto
  <2> HIDE DEF t
  <2>2. Aside(p) /\ tx'[p] = t
    BY <1>1, <2>1, MovesOne DEF tables
  <2>3. /\ ~Changing(p) /\ ~Answering(p) /\ ~Changing(p)' /\ ~Answering(p)'
        /\ Publishing(p)' <=> Publishing(p)
        /\ Cap(p)' = Cap(p)
    BY <1>1, <2>1, <2>2 DEF Changing, Publishing, Answering, Inserted, At, Fn, Cap, tables
  <2>4. Publishing(p) => Cap(p) \in Admitted
    BY DEF Admitted
  <2>5. UNCHANGED <<Held, Admitted, Located>>
    BY <2>2, <2>3, <2>4, DecisionsGrow
  <2> QED
    BY <1>1, <2>5 DEF tables, Service!vars, Service!decisions
<1>3. ASSUME NEW t, tx' = [tx EXCEPT ![p] = t],
             t = Idle \/ t.pc = "precheck" \/ (t.pc = "key" /\ t.req.fn = "create")
      PROVE  Service!Next
  <2>1. Aside(p) /\ tx'[p] = t
    BY <1>1, <1>3, MovesOne DEF tables
  <2>2. ~Changing(p)' /\ ~Publishing(p)'
    BY <1>3, <2>1 DEF Changing, Publishing, At, Fn, Idle
  <2> QED
    BY <1>1, <2>1, <2>2, WithdrawRefines
<1>4. ASSUME NEW k,
             tx' = [tx EXCEPT ![p] = IF tx[p].tries = Attempts THEN Idle
                                     ELSE [tx[p] EXCEPT !.pc = FirstStatement(Fn(p)), !.key = k,
                                                        !.at = now, !.tries = tx[p].tries + 1]]
      PROVE  Service!Next
  <2> DEFINE t == [tx[p] EXCEPT !.pc = FirstStatement(Fn(p)), !.key = k, !.at = now, !.tries = tx[p].tries + 1]
  <2>1. t.pc = FirstStatement(Fn(p)) /\ t.req = tx[p].req
    BY <1>1 DEF Running
  <2>2. t.pc = "precheck" \/ (t.pc = "key" /\ t.req.fn = "create")
    BY <1>1, <2>1 DEF FirstStatement, Fn
  <2> QED
    BY <1>3, <1>4, <2>2
<1>5. CASE ~Goto(p, "commit")
  <2>1. PICK k \in Keys :
          tx' = [tx EXCEPT ![p] = IF tx[p].tries = Attempts THEN Idle
                                  ELSE [tx[p] EXCEPT !.pc = FirstStatement(Fn(p)), !.key = k,
                                                     !.at = now, !.tries = tx[p].tries + 1]]
    BY <1>5, Zenon DEF InsertRoom
  <2> QED
    BY <1>4, <2>1, Zenon
<1> QED
  BY <1>2, <1>5

\* A replay finds its room live.
LEMMA ReadRoomRefines ==
    ASSUME IInv, NEW p \in Txns, Busy(p), ReadRoom(p)
    PROVE  Service!Next
<1> DEFINE h == Cap(p)
           i == tx[p].room
           t == [tx[p] EXCEPT !.pc = "commit"]
<1>1. CASE Rollback(p)
  BY <1>1, RollbackRefines
<1>2. ASSUME i \in DOMAIN rooms, now < rooms[i].expires, Goto(p, "commit"), UNCHANGED <<now, tables, locks>>
      PROVE  Service!Next
  <2>1. /\ At(p, "read") /\ Fn(p) = "publish" /\ tx[p] \in Running /\ h \in Caps
        /\ h \in DOMAIN ledger /\ i = ledger[h].room /\ i \in Ids
    BY <1>2, RunningFields DEF ReadRoom, IInv, Ready, Progress, HoldsCapability, At, Typed, TypeOK
  <2>2. publication[h] # NoRoom /\ publication[h].room = i
    BY <2>1, DataAssumption DEF IInv, LedgerTrue
  <2>3. t.pc = "commit" /\ t.req = tx[p].req /\ t.room = i /\ tx' = [tx EXCEPT ![p] = t]
    BY <1>2, <2>1 DEF Running, Goto
  <2> HIDE DEF t
  <2>4. Aside(p) /\ tx'[p] = t
    BY <1>2, <2>3, MovesOne DEF tables
  <2>5. /\ ~Changing(p) /\ Publishing(p) /\ ~Answering(p)
        /\ ~Changing(p)' /\ Publishing(p)' /\ Cap(p)' = h /\ Answering(p)'
    BY <1>2, <2>1, <2>3, <2>4 DEF Changing, Publishing, Answering, Inserted, At, Fn, Cap, tables
  <2>6. h \in Admitted
    BY <2>5 DEF Admitted
  <2>7. Located' = Located \cup {h} /\ UNCHANGED <<Held, Admitted>>
    BY <2>4, <2>5, <2>6, DecisionsGrow
  <2>8. Service!Locate(h)
    BY <1>2, <2>2, <2>7 DEF tables, Service!Locate, Service!Live
  <2> QED
    BY <2>1, <2>8 DEF Service!Next
<1> QED
  BY <1>1, <1>2 DEF ReadRoom

-----------------------------------------------------------------------------
\* A commit uses up the decisions of its transaction, and no other's.
LEMMA CommitEnds ==
    ASSUME IInv, NEW p \in Txns, Busy(p), Commit(p)
    PROVE  /\ Held' = IF Changing(p) THEN Held \ {tx[p].room} ELSE Held
           /\ Admitted' = IF Publishing(p) THEN Admitted \ {Cap(p)} ELSE Admitted
           /\ Located' = IF Answering(p) THEN Located \ {Cap(p)} ELSE Located
<1>1. tx' = [tx EXCEPT ![p] = Idle] /\ At(p, "commit")
  BY DEF Commit
<1>2. tx'[p] = Idle /\ \A q \in Txns \ {p} : tx'[q] = tx[q]
  BY <1>1 DEF IInv, Typed
<1>3. ASSUME NEW q \in Txns \ {p}, Publishing(q)
      PROVE  Cap(q) \in DOMAIN ledger <=> Cap(q) \in DOMAIN ledger'
  <2>1. ledgerLock[Cap(q)] = q /\ Cap(q) \in Caps
    BY <1>3, DecidedAlone
  <2>2. CASE CommitRemoval(p)
    <3>1. Fn(p) = "purge" => \A h \in tx[p].req.drop : ledgerLock[h] = p
      BY <1>1 DEF IInv, Ready, HoldsDoomed
    <3> QED
      BY <2>1, <2>2, <3>1 DEF CommitRemoval
  <2>3. CASE CommitInsert(p)
    <3>1. Fn(p) = "publish" => Cap(p) # Cap(q)
      BY <1>1, <1>3, DecidedAlone DEF Publishing, At
    <3> QED
      BY <2>3, <3>1 DEF CommitInsert, Inserted
  <2> QED
    BY <2>2, <2>3 DEF Commit, CommitClaim, CommitRepublish, CommitReplay
<1>4. Aside(p)
  BY <1>2, <1>3 DEF Aside
<1>5. ~Changing(p)' /\ ~Publishing(p)'
  BY <1>2 DEF Changing, Publishing, At, Idle
<1> QED
  BY <1>4, <1>5, DecisionsEnd

LEMMA ClaimRefines ==
    ASSUME IInv, NEW p \in Txns, Busy(p), Commit(p), CommitClaim(p)
    PROVE  Service!Next
<1> DEFINE i == tx[p].room
           r == tx[p].req.role
           n == tx[p].req.name
<1>1. /\ At(p, "commit") /\ i \in DOMAIN rooms /\ i \in Ids /\ r \in RolesOf[rooms[i].payload]
      /\ r \in Roles /\ n \in Names
  BY RunningFields, RequestFields DEF Commit, CommitClaim, IInv, Ready, HoldsRoom, Typed, TypeOK, Fn
<1>2. Changing(p) /\ ~Publishing(p) /\ ~Answering(p)
  BY <1>1 DEF CommitClaim, Changing, Publishing, Answering
<1>3. i \in Held /\ Held' = Held \ {i} /\ UNCHANGED <<Admitted, Located>>
  BY <1>2, CommitEnds DEF Held
<1>4. rooms' = [rooms EXCEPT ![i] = Service!Claimed(rooms[i], r, n)]
  BY DEF CommitClaim, Claimed, Service!Claimed
<1>5. Service!Claim(i, r, n)
  BY <1>1, <1>3, <1>4
  DEF Service!Claim, Service!Change, Service!MayChange, Commit, CommitClaim
<1> HIDE DEF i, r, n
<1> QED
  BY <1>1, <1>5 DEF Service!Next

LEMMA RepublishRefines ==
    ASSUME IInv, NEW p \in Txns, Busy(p), Commit(p), CommitRepublish(p)
    PROVE  Service!Next
<1> DEFINE i == tx[p].room
           payload == tx[p].req.payload
<1>1. /\ At(p, "commit") /\ i \in DOMAIN rooms /\ i \in Ids /\ rooms[i].version < MaxVersion
      /\ payload \in Payloads
  BY RunningFields, RequestFields DEF Commit, CommitRepublish, IInv, Ready, HoldsRoom, Typed, TypeOK, Fn
<1>2. Changing(p) /\ ~Publishing(p) /\ ~Answering(p)
  BY <1>1 DEF CommitRepublish, Changing, Publishing, Answering
<1>3. i \in Held /\ Held' = Held \ {i} /\ UNCHANGED <<Admitted, Located>>
  BY <1>2, CommitEnds DEF Held
<1>4. rooms' = [rooms EXCEPT ![i] = Service!Republished(rooms[i], payload)]
  BY DEF CommitRepublish, Republished, Service!Republished
<1>5. Service!Republish(i, payload)
  BY <1>1, <1>3, <1>4
  DEF Service!Republish, Service!Change, Service!MayChange, Commit, CommitRepublish
<1> HIDE DEF i, payload
<1> QED
  BY <1>1, <1>5 DEF Service!Next

\* Nobody else decided on a room that is removed: its row is locked, and so is
\* every row of the ledger that refers to it.
LEMMA RemovalRefines ==
    ASSUME IInv, NEW p \in Txns, Busy(p), Commit(p), CommitRemoval(p)
    PROVE  Service!Next
<1> DEFINE S == tx[p].doomed
<1>1. /\ S \subseteq DOMAIN rooms /\ S \in SUBSET Ids
      /\ At(p, "commit") /\ Fn(p) \in {"delete", "purge"}
      /\ Fn(p) = "delete" => S = {tx[p].room}
      /\ Fn(p) = "purge" => \A i \in S : rooms[i].expires <= tx[p].at
      /\ tx[p].at <= now /\ tx[p].at \in Nat /\ now \in Nat
      /\ \A i \in S : rooms[i].expires \in Nat /\ roomLock[i] = p
      /\ \A h \in Referencing(S) : ledgerLock[h] = p
  BY RunningFields DEF Commit, CommitRemoval, IInv, Ready, HoldsDoomed, Typed, TypeOK, Row, Removing, At
<1>2. (\E i \in S : S = {i}) \/ (\A i \in S : rooms[i].expires <= now)
  BY <1>1
<1>3. ~Changing(p) /\ ~Publishing(p) /\ ~Answering(p)
  BY <1>1 DEF Changing, Publishing, Answering
<1>4. UNCHANGED <<Held, Admitted, Located>>
  BY <1>3, CommitEnds
<1>5. S \cap Held = {}
  <2> SUFFICES ASSUME NEW q \in Txns, Changing(q), tx[q].room \in S PROVE FALSE
    BY DEF Held
  <2>1. roomLock[tx[q].room] = q
    BY DecidedAlone
  <2> QED
    BY <1>1, <1>3, <2>1
<1>6. \A h \in Located : publication[h].room \notin S
  <2> SUFFICES ASSUME NEW q \in Txns, Answering(q), publication[Cap(q)].room \in S PROVE FALSE
    BY DEF Located
  <2>1. Publishing(q) /\ At(q, "commit") /\ Fn(q) = "publish" /\ Cap(q) \in DOMAIN ledger
    BY DEF Answering, Publishing, Inserted
  <2>2. Busy(q) /\ Cap(q) \in Caps /\ ledgerLock[Cap(q)] = q
    BY <2>1, DecidedAlone
  <2>3. ledger[Cap(q)].room # NoRoom
    BY <2>1, <2>2 DEF IInv, Ready, HoldsCapability, Publishing
  <2>4. Cap(q) \in Referencing(S)
    BY <2>1, <2>2, <2>3 DEF IInv, LedgerTrue, Referencing
  <2> QED
    BY <1>1, <1>3, <2>1, <2>2, <2>4
<1>7. Service!Remove(S)
  BY <1>1, <1>2, <1>4, <1>5, <1>6 DEF Service!Remove, Service!decisions, Commit, CommitRemoval
<1> HIDE DEF S
<1> QED
  BY <1>1, <1>7 DEF Service!Next

LEMMA InsertRefines ==
    ASSUME IInv, NEW p \in Txns, Busy(p), Commit(p), CommitInsert(p)
    PROVE  Service!Next
<1> DEFINE i == tx[p].room
           h == Cap(p)
           k == tx[p].key
           payload == tx[p].req.payload
           t == tx[p].at
<1>0. /\ At(p, "commit")
      /\ i \in Ids \ minted /\ payload \in Payloads /\ k \in Keys /\ t \in 0..now
      /\ \A j \in DOMAIN rooms : rooms[j].key # k
      /\ Fn(p) \in {"create", "publish"}
      /\ Fn(p) = "publish" => h \in Caps /\ publication[h] = NoRoom /\ InWindow(h, t)
      /\ Stored(p).key = k
  BY InsertReady DEF Commit
<1>1. Service!NewRow(k, i, payload, t) = Stored(p)
  BY DEF Stored, NewRow, Service!NewRow
<1>2. Service!Store(i, Service!NewRow(k, i, payload, t))
  BY <1>0, <1>1 DEF CommitInsert, Stored, Service!Store
<1>3. ~Changing(p) /\ ~Answering(p) /\ (Publishing(p) <=> Fn(p) = "publish") /\ now' = now
  BY <1>0 DEF Commit, CommitInsert, Changing, Answering, Publishing, At
<1>4. CASE Fn(p) = "create"
  <2>1. UNCHANGED <<Held, Admitted, Located>>
    BY <1>3, <1>4, CommitEnds
  <2>2. Service!Create(i, k, payload, t)
    BY <1>2, <1>3, <1>4, <2>1 DEF CommitInsert, Service!Create, Service!decisions
  <2> HIDE DEF i, k, payload, t
  <2> QED
    BY <1>0, <2>2 DEF Service!Next
<1>5. CASE Fn(p) = "publish"
  <2>1. Service!InWindow(h, t)
    BY <1>0, <1>5 DEF InWindow, WindowEnd, Service!InWindow, Service!WindowEnd
  <2>2. h \in Admitted /\ Admitted' = Admitted \ {h} /\ UNCHANGED <<Held, Located>>
    BY <1>3, <1>5, CommitEnds DEF Admitted
  <2>3. Service!Publish(h, i, k, payload, t)
    BY <1>0, <1>2, <1>3, <1>5, <2>1, <2>2 DEF CommitInsert, Service!Publish, Service!MayPublish
  <2> HIDE DEF i, h, k, payload, t
  <2> QED
    BY <1>0, <1>5, <2>3 DEF Service!Next
<1> QED
  BY <1>0, <1>4, <1>5

LEMMA ReplayRefines ==
    ASSUME IInv, NEW p \in Txns, Busy(p), Commit(p), CommitReplay(p)
    PROVE  Service!Next
<1> DEFINE i == tx[p].room
           h == Cap(p)
           payload == tx[p].req.payload
<1>1. /\ At(p, "commit") /\ Fn(p) = "publish"
      /\ h \in Caps /\ h \in DOMAIN ledger /\ i = ledger[h].room /\ i # NoRoom
      /\ ledger[h].payload = payload /\ payload \in Payloads
  BY RunningFields, RequestFields
  DEF Commit, CommitReplay, Inserted, IInv, Ready, HoldsCapability, At, Fn
<1>2. i \in DOMAIN rooms /\ publication[h] # NoRoom /\ publication[h].room = i /\ publication[h].payload = payload
  BY <1>1 DEF IInv, ReferencesLive, LedgerTrue
<1>3. ~Changing(p) /\ Publishing(p) /\ Answering(p)
  BY <1>1 DEF CommitReplay, Changing, Publishing, Answering, At
<1>4. /\ h \in Admitted /\ h \in Located
      /\ Admitted' = Admitted \ {h} /\ Located' = Located \ {h} /\ Held' = Held
  BY <1>3, CommitEnds DEF Admitted, Located
<1>5. Service!Replay(h, payload)
  BY <1>1, <1>2, <1>4
  DEF Commit, CommitReplay, Service!Replay, Service!MayPublish, Service!MayAnswer
<1> HIDE DEF i, h, payload
<1> QED
  BY <1>1, <1>5 DEF Service!Next

LEMMA StepRefines == IInv /\ [Next]_vars => [Service!Next]_Service!vars
<1> SUFFICES ASSUME IInv, [Next]_vars
             PROVE  Service!Next \/ UNCHANGED Service!vars
  OBVIOUS
<1>1. CASE UNCHANGED vars
  BY <1>1, DecisionsSame DEF vars, tables, Service!vars, Service!decisions
<1>2. CASE Tick
  BY <1>2, TickRefines
<1>3. ASSUME NEW p \in Txns, Busy(p), Commit(p)
      PROVE  Service!Next
  BY <1>3, ClaimRefines, RepublishRefines, RemovalRefines, InsertRefines, ReplayRefines DEF Commit
<1>4. ASSUME NEW p \in Txns, Begin(p)
      PROVE  UNCHANGED Service!vars
  BY <1>4, BeginRefines
<1>5. ASSUME NEW p \in Txns, Fail(p)
      PROVE  Service!Next
  BY <1>5, RollbackRefines DEF Fail
<1>6. ASSUME NEW p \in Txns, Statement(p)
      PROVE  Service!Next \/ UNCHANGED Service!vars
  BY <1>3, <1>6, UndecidedRefines, CheckRefines, RecheckRefines, InsertRoomRefines, ReadRoomRefines
  DEF Statement
<1> QED
  BY <1>1, <1>2, <1>4, <1>5, <1>6 DEF Next

\* The SQL functions under READ COMMITTED keep the promises of the room service.
THEOREM TransactionsImplementService == Spec => ImplementsService
<1> QED
  BY InitRefines, StepRefines, Invariance, PTL DEF Spec, ImplementsService, Service!Spec

\* The service the promises are proved of is the one implemented.
LEMMA PromisedService == Service!Spec => Promise!Spec
<1>1. Service!Init => Promise!Init
  BY DEF Service!Init, Promise!Init
<1>2. /\ Service!vars = Promise!vars /\ Service!vars' = Promise!vars'
      /\ Service!decisions = Promise!decisions /\ Service!decisions' = Promise!decisions'
  BY DEF Service!vars, Promise!vars, Service!decisions, Promise!decisions
<1>3. \A k, i, p, t : Service!NewRow(k, i, p, t) = Promise!NewRow(k, i, p, t)
  BY DEF Service!NewRow, Promise!NewRow
<1>4. \A row, r, n : Service!Claimed(row, r, n) = Promise!Claimed(row, r, n)
  BY DEF Service!Claimed, Promise!Claimed
<1>5. \A row, p : Service!Republished(row, p) = Promise!Republished(row, p)
  BY DEF Service!Republished, Promise!Republished
<1>6. /\ \A h, t : Service!InWindow(h, t) <=> Promise!InWindow(h, t)
      /\ \A i : Service!Live(i) <=> Promise!Live(i)
  BY DEF Service!InWindow, Promise!InWindow, Service!WindowEnd, Promise!WindowEnd, Service!Live, Promise!Live
<1>7. /\ \A i : Service!MayChange(i) <=> Promise!MayChange(i)
      /\ \A h : Service!MayPublish(h) <=> Promise!MayPublish(h)
      /\ \A h : Service!MayAnswer(h) <=> Promise!MayAnswer(h)
  BY <1>6 DEF Service!MayChange, Promise!MayChange, Service!MayPublish, Promise!MayPublish,
              Service!MayAnswer, Promise!MayAnswer
<1>8. /\ \A i, row : Service!Store(i, row) <=> Promise!Store(i, row)
      /\ \A i, row : Service!Change(i, row) <=> Promise!Change(i, row)
  BY <1>7 DEF Service!Store, Promise!Store, Service!Change, Promise!Change
<1>9. /\ Service!Tick <=> Promise!Tick
      /\ Service!Withdraw <=> Promise!Withdraw
      /\ \A i : Service!Hold(i) <=> Promise!Hold(i)
      /\ \A h : (Service!Admit(h) <=> Promise!Admit(h)) /\ (Service!Locate(h) <=> Promise!Locate(h))
      /\ \A S : Service!Remove(S) <=> Promise!Remove(S)
  <2>1. Service!Tick <=> Promise!Tick
    BY <1>2 DEF Service!Tick, Promise!Tick
  <2>2. Service!Withdraw <=> Promise!Withdraw
    BY DEF Service!Withdraw, Promise!Withdraw
  <2>3. \A i : Service!Hold(i) <=> Promise!Hold(i)
    BY <1>6 DEF Service!Hold, Promise!Hold
  <2>4. \A h : (Service!Admit(h) <=> Promise!Admit(h)) /\ (Service!Locate(h) <=> Promise!Locate(h))
    BY <1>6 DEF Service!Admit, Promise!Admit, Service!Locate, Promise!Locate
  <2>5. \A S : Service!Remove(S) <=> Promise!Remove(S)
    BY <1>2 DEF Service!Remove, Promise!Remove
  <2> QED
    BY <2>1, <2>2, <2>3, <2>4, <2>5
<1>10. \A i, k, p, t : Service!Create(i, k, p, t) <=> Promise!Create(i, k, p, t)
  BY <1>2, <1>3, <1>8 DEF Service!Create, Promise!Create
<1>11. \A h, i, k, p, t : Service!Publish(h, i, k, p, t) <=> Promise!Publish(h, i, k, p, t)
  BY <1>3, <1>6, <1>7, <1>8 DEF Service!Publish, Promise!Publish
<1>12. \A h, p : Service!Replay(h, p) <=> Promise!Replay(h, p)
  BY <1>7 DEF Service!Replay, Promise!Replay
<1>13. /\ \A i, r, n : Service!Claim(i, r, n) <=> Promise!Claim(i, r, n)
       /\ \A i, p : Service!Republish(i, p) <=> Promise!Republish(i, p)
  BY <1>4, <1>5, <1>8 DEF Service!Claim, Promise!Claim, Service!Republish, Promise!Republish
<1>14. Service!Next <=> Promise!Next
  BY <1>9, <1>10, <1>11, <1>12, <1>13, Zenon DEF Service!Next, Promise!Next
<1>15. [Service!Next]_Service!vars => [Promise!Next]_Promise!vars
  BY <1>2, <1>14
<1> QED
  BY <1>1, <1>15, PTL DEF Service!Spec, Promise!Spec

\* So whatever the transactions interleave with, a key opens one stored room, which
\* claims only roles it declares, and all the answers to a capability agree.
THEOREM TransactionsKeepPromises ==
    Spec => [](Promise!RoomsSound /\ Promise!OneRoomPerCapability)
BY SameData, TransactionsImplementService, PromisedService, Promise!ServiceRoomsSound, Promise!ServiceOneRoom,
   PTL DEF ImplementsService

LEMMA SameEvolution == Promise!RoomsEvolve <=> Service!RoomsEvolve
BY DEF Promise!RoomsEvolve, Service!RoomsEvolve, Promise!RowStep, Service!RowStep,
   Promise!Claimed, Service!Claimed, Promise!Republished, Service!Republished

\* And no statement in between makes a commit lose a claim, name a role the room no
\* longer has, skip a version or bring a removed room back.
THEOREM TransactionsEvolve == Spec => RowsEvolve
<1>1. [Promise!RoomsEvolve]_Promise!vars => [Service!RoomsEvolve]_Service!vars
  BY SameEvolution DEF Promise!vars, Service!vars, Promise!decisions, Service!decisions
<1>2. Spec => Promise!NothingReturns
  BY SameData, TransactionsImplementService, PromisedService, Promise!ServiceEvolves, PTL DEF ImplementsService
<1> QED
  BY <1>1, <1>2, PTL DEF Promise!NothingReturns, Service!NothingReturns, RowsEvolve

-----------------------------------------------------------------------------
(* Maintenance.  A batch holds what it deletes, and of each table it is past  *)
(* it either holds as many rows as it may, or every row of the table that     *)
(* had expired as it began and is still there, but for those it passed over.  *)

PurgeRun   == [pc : {"idle", "loop", "waiting", "done", "failed"}, batches : 0..MaxBatches,
               needsAnotherRun : BOOLEAN, missed : SUBSET Rows]
PurgeBatch == [table : 0..4, expired : SUBSET Rows, deleting : SUBSET Rows, skipped : SUBSET Rows]

Ordered == /\ due \subseteq Rows /\ IsFiniteSet(due) /\ older \subseteq due \X due /\ busy \subseteq Rows
           /\ \A r, s \in due : r # s => (<<r, s>> \in older <=> <<s, r>> \notin older)

OfTable(S, t) == {r \in S : TableOf[r] = Tables[t]}
Left(b, t)    == OfTable(b.expired, t) \ (b.deleting \cup b.skipped)

\* A batch b that is running, or none.
Sweeping(b) ==
    /\ b.table = 0 => b = NoBatch
    /\ b.deleting \subseteq due /\ b.expired \subseteq due
    /\ b.deleting \cap busy = {}
    /\ \A t \in 1..3 : /\ t >= b.table => OfTable(b.deleting, t) = {}
                       /\ t < b.table => Cardinality(OfTable(b.deleting, t)) = Limit[Tables[t]] \/ Left(b, t) = {}

Disjoint == \A v, w \in Workers : v # w => batch[v].deleting \cap batch[w].deleting = {}

\* How far a run can be; and one that asks for no other has missed nothing.
Told(x) == /\ x.pc \in {"loop", "waiting"} => x.batches < MaxBatches
           /\ x.pc = "done" /\ ~x.needsAnotherRun => x.missed = {}

PurgeInv == /\ Ordered /\ Disjoint
            /\ run \in [Workers -> PurgeRun] /\ batch \in [Workers -> PurgeBatch]
            /\ \A w \in Workers : Sweeping(batch[w]) /\ Told(run[w])

LEMMA TablesAre ==
    /\ Len(Tables) = 3 /\ ToSet(Tables) = {Tables[t] : t \in 1..3}
    /\ \A t, u \in 1..3 : Tables[t] = Tables[u] => t = u
    /\ \A t \in 1..3 : Limit[Tables[t]] \in Nat \ {0}
<1>1. Len(Tables) = 3 /\ Tables[1] = "rooms" /\ Tables[2] = "request_quotas" /\ Tables[3] = "publication_requests"
  BY DEF Tables
<1>2. ToSet(Tables) = {Tables[t] : t \in 1..3}
  BY <1>1 DEF ToSet, Tables
<1>3. \A t \in 1..3 : t = 1 \/ t = 2 \/ t = 3
  OBVIOUS
<1>4. \A t, u \in 1..3 : Tables[t] = Tables[u] => t = u
  BY <1>1, <1>3
<1> QED
  BY <1>1, <1>2, <1>4, MaintenanceAssumption

\* Rows that are deleted leave the others in their order.
LEMMA GoneKeeps ==
    ASSUME Ordered, NEW D, Gone(D), busy' \subseteq Rows
    PROVE  Ordered'
<1>1. due' = due \ D /\ older' = older \cap (due' \X due')
  BY DEF Gone
<1>2. due' \subseteq Rows /\ IsFiniteSet(due')
  BY <1>1, FS_Subset DEF Ordered
<1>3. \A r, s \in due' : r # s => (<<r, s>> \in older' <=> <<s, r>> \notin older')
  BY <1>1 DEF Ordered
<1> QED
  BY <1>1, <1>2, <1>3 DEF Ordered

\* A batch that no row is taken from sweeps on as rows expire and are held.
LEMMA SweepsOn ==
    ASSUME NEW b, Sweeping(b), due \subseteq due', b.deleting \cap busy' = {}
    PROVE  Sweeping(b)'
BY DEF Sweeping, Left, OfTable, NoBatch

LEMMA NoBatchIs == /\ NoBatch \in PurgeBatch /\ NoBatch.table = 0 /\ NoBatch.deleting = {}
                   /\ NoBatch.expired = {} /\ NoBatch.skipped = {}
BY DEF NoBatch, PurgeBatch

\* What a row that is deleted by others held is no concern of a batch.
LEMMA SweepsLess ==
    ASSUME NEW b \in PurgeBatch, Sweeping(b), NEW D, due' = due \ D, busy' \subseteq busy, b.deleting \cap D = {},
           NEW c, c = [b EXCEPT !.expired = b.expired \ D, !.skipped = b.skipped \ D]
    PROVE  c \in PurgeBatch /\ c.deleting = b.deleting /\ Sweeping(c)'
<1>1. c \in PurgeBatch /\ c.table = b.table /\ c.deleting = b.deleting /\ c.expired = b.expired \ D /\ c.skipped = b.skipped \ D
  BY DEF PurgeBatch
<1>2. b = NoBatch => c = NoBatch
  <2>1. PICK none \in PurgeBatch : none = NoBatch /\ none.expired = {} /\ none.skipped = {}
    BY NoBatchIs
  <2>2. b = none => c.table = none.table /\ c.deleting = none.deleting /\ c.expired = none.expired /\ c.skipped = none.skipped
    BY <1>1, <2>1
  <2>3. b = none => c = none
    BY <1>1, <2>1, <2>2 DEF PurgeBatch
  <2> QED
    BY <2>1, <2>3
<1>3. \A t \in 1..3 : Left(c, t) \subseteq Left(b, t)
  BY <1>1 DEF Left, OfTable
<1>4. Sweeping(c)'
  BY <1>1, <1>2, <1>3 DEF Sweeping, Left, OfTable, NoBatch
<1> QED
  BY <1>1, <1>4

\* No row is taken: what happens to the clock, the locks of others and a run.
LEMMA RunKeeps ==
    ASSUME PurgeInv, Ordered', due \subseteq due', UNCHANGED batch, \A w \in Workers : batch[w].deleting \cap busy' = {},
           run' \in [Workers -> PurgeRun],
           \A w \in Workers : Told(run'[w])
    PROVE  PurgeInv'
<1>1. \A w \in Workers : Sweeping(batch[w])'
  <2> TAKE w \in Workers
  <2>1. PICK b : b = batch[w]
    OBVIOUS
  <2>2. Sweeping(b) /\ b.deleting \cap busy' = {}
    BY <2>1 DEF PurgeInv
  <2>3. Sweeping(b)'
    BY <2>2, SweepsOn
  <2>4. batch'[w] = b
    BY <2>1
  <2> QED
    BY <2>3, <2>4 DEF Sweeping, Left, OfTable
<1> QED
  BY <1>1 DEF PurgeInv, Disjoint, Told

LEMMA LockedAre ==
    ASSUME PurgeInv, NEW w \in Workers
    PROVE  LockedBy(w) = batch[w].deleting /\ batch[w] \in PurgeBatch
<1>1. batch[w] \in PurgeBatch /\ Sweeping(batch[w])
  BY DEF PurgeInv
<1>2. batch[w].table = 0 => batch[w].deleting = {}
  BY <1>1 DEF Sweeping, NoBatch
<1> QED
  BY <1>1, <1>2 DEF LockedBy, PurgeBatch

LEMMA RowsKeep ==
    ASSUME PurgeInv, NEW r \in Rows, Expire(r) \/ Hold(r) \/ LetGo(r)
    PROVE  PurgeInv'
<1>1. /\ run \in [Workers -> PurgeRun]
      /\ \A w \in Workers : Told(run[w])
  BY DEF PurgeInv, Doing, Told
<1>2. ASSUME NEW w \in Workers PROVE batch[w] \in PurgeBatch /\ Sweeping(batch[w]) /\ batch[w].deleting \cap busy = {}
  BY DEF PurgeInv, Sweeping
<1>3. CASE Expire(r)
  <2>1. due' = due \cup {r} /\ older' = older \cup (due \X {r}) /\ r \notin due /\ busy' = busy
    BY <1>3 DEF Expire
  <2>2. IsFiniteSet(due')
    BY <2>1, FS_AddElement DEF PurgeInv, Ordered
  <2>3. Ordered'
    BY <2>1, <2>2 DEF PurgeInv, Ordered
  <2> QED
    BY <1>1, <1>2, <1>3, <2>1, <2>3, RunKeeps DEF Expire
<1>4. CASE Hold(r)
  <2>1. busy' = busy \cup {r} /\ due' = due /\ older' = older /\ batch' = batch /\ run' = run
    BY <1>4 DEF Hold, rows
  <2>2. \A w \in Workers : batch[w].deleting \cap busy' = {}
    BY <1>2, <1>4, <2>1, LockedAre DEF Hold
  <2>3. Ordered'
    BY <2>1 DEF PurgeInv, Ordered
  <2> QED
    BY <1>1, <2>1, <2>2, <2>3, RunKeeps
<1>5. CASE LetGo(r) /\ UNCHANGED <<rows, batch>>
  <2>1. busy' = busy \ {r} /\ due' = due /\ older' = older /\ batch' = batch /\ run' = run
    BY <1>5 DEF LetGo, rows
  <2>2. Ordered'
    BY <2>1 DEF PurgeInv, Ordered
  <2> QED
    BY <1>1, <1>2, <2>1, <2>2, RunKeeps
<1>6. CASE LetGo(r) /\ Gone({r})
                   /\ batch' = [w \in Workers |-> [batch[w] EXCEPT !.expired = @ \ {r}, !.skipped = @ \ {r}]]
  <2>1. busy' = busy \ {r} /\ r \in busy /\ due' = due \ {r} /\ run' = run
    BY <1>6 DEF LetGo, Gone
  <2>2. Ordered'
    BY <1>6, <2>1, GoneKeeps DEF PurgeInv, Ordered
  <2>3. ASSUME NEW w \in Workers
        PROVE  batch'[w] \in PurgeBatch /\ batch'[w].deleting = batch[w].deleting /\ Sweeping(batch[w])'
    <3>1. PICK b \in PurgeBatch : b = batch[w] /\ Sweeping(b) /\ b.deleting \cap {r} = {}
      BY <1>2, <2>1
    <3>2. PICK c : c = [b EXCEPT !.expired = b.expired \ {r}, !.skipped = b.skipped \ {r}] /\ batch'[w] = c
      BY <1>6, <3>1
    <3>3. busy' \subseteq busy /\ due' = due \ {r} /\ c = [b EXCEPT !.expired = b.expired \ {r}, !.skipped = b.skipped \ {r}]
      BY <2>1, <3>2
    <3>4. c \in PurgeBatch /\ c.deleting = b.deleting /\ Sweeping(c)'
      BY <3>1, <3>3, SweepsLess
    <3> QED
      BY <3>1, <3>2, <3>4 DEF Sweeping, Left, OfTable
  <2>4. batch' \in [Workers -> PurgeBatch] /\ Disjoint'
    BY <1>6, <2>3 DEF PurgeInv, Disjoint
  <2> QED
    BY <1>1, <2>1, <2>2, <2>3, <2>4 DEF PurgeInv, Doing, Told
<1> QED
  BY <1>3, <1>4, <1>5, <1>6 DEF LetGo

LEMMA NewRunIs == NewRun \in PurgeRun /\ Told(NewRun)
BY MaintenanceAssumption DEF NewRun, PurgeRun, Told

\* What a worker's run does without the database.
LEMMA RunsKeep ==
    ASSUME PurgeInv, NEW w \in Workers, Start(w) \/ Deadline(w) \/ Abandon(w)
    PROVE  PurgeInv'
<1>1. run[w] \in PurgeRun /\ DOMAIN run = Workers
  BY DEF PurgeInv
<1>2. due' = due /\ older' = older /\ busy' = busy /\ batch' = batch
  BY DEF Start, Deadline, Abandon, rows
<1>3. PICK x \in PurgeRun : run' = [run EXCEPT ![w] = x] /\ Told(x)
  <2>1. CASE Start(w)
    BY <2>1, NewRunIs DEF Start
  <2>2. CASE Deadline(w)
    <3>1. PICK x : x = [run[w] EXCEPT !.pc = "done", !.needsAnotherRun = TRUE]
      OBVIOUS
    <3>2. x \in PurgeRun /\ Told(x)
      BY <1>1, <3>1 DEF PurgeRun, Told
    <3> QED
      BY <1>1, <2>2, <3>1, <3>2 DEF Deadline
  <2>3. CASE Abandon(w)
    <3>1. PICK x : x = [run[w] EXCEPT !.pc = "failed"]
      OBVIOUS
    <3>2. x \in PurgeRun /\ Told(x)
      BY <1>1, <3>1 DEF PurgeRun, Told
    <3> QED
      BY <1>1, <2>3, <3>1, <3>2 DEF Abandon
  <2> QED
    BY <2>1, <2>2, <2>3
<1>4. Ordered' /\ \A v \in Workers : batch[v].deleting \cap busy' = {}
  BY <1>2 DEF PurgeInv, Ordered, Sweeping
<1>5. /\ run' \in [Workers -> PurgeRun]
      /\ \A v \in Workers : Told(run'[v])
  BY <1>1, <1>3 DEF PurgeInv, Doing, Told
<1> QED
  BY <1>2, <1>4, <1>5, RunKeeps

\* A step of one batch that deletes nothing.
LEMMA BatchKeeps ==
    ASSUME PurgeInv, NEW w \in Workers, NEW b \in PurgeBatch, batch' = [batch EXCEPT ![w] = b],
           UNCHANGED <<rows, busy>>, Sweeping(b),
           \A v \in Workers \ {w} : b.deleting \cap batch[v].deleting = {},
           run' \in [Workers -> PurgeRun],
           \A v \in Workers : Told(run'[v])
    PROVE  PurgeInv'
<1>1. due' = due /\ older' = older /\ busy' = busy /\ DOMAIN batch = Workers
  BY DEF rows, PurgeInv
<1>2. ASSUME NEW v \in Workers PROVE Sweeping(batch[v])'
  <2>1. PICK c : c = batch'[v] /\ Sweeping(c)
    BY <1>1 DEF PurgeInv
  <2>2. Sweeping(c)'
    BY <1>1, <2>1 DEF Sweeping, Left, OfTable, NoBatch
  <2> QED
    BY <2>1, <2>2 DEF Sweeping, Left, OfTable
<1>3. Disjoint' /\ batch' \in [Workers -> PurgeBatch]
  BY <1>1 DEF PurgeInv, Disjoint
<1>4. Ordered'
  BY <1>1 DEF PurgeInv, Ordered
<1> QED
  BY <1>2, <1>3, <1>4 DEF PurgeInv, Doing, Told

LEMMA NoBatchSweeps == NoBatch \in PurgeBatch /\ Sweeping(NoBatch) /\ NoBatch.deleting = {}
<1>1. \A t \in 1..3 : OfTable(NoBatch.deleting, t) = {} /\ ~(t < NoBatch.table)
  BY NoBatchIs DEF OfTable
<1> QED
  BY <1>1, NoBatchIs DEF Sweeping

LEMMA CallKeeps ==
    ASSUME PurgeInv, NEW w \in Workers, Call(w)
    PROVE  PurgeInv'
<1>1. PICK b : b = [NoBatch EXCEPT !.table = 1, !.expired = due]
  OBVIOUS
<1>2. /\ b \in PurgeBatch /\ b.table = 1 /\ b.expired = due /\ b.deleting = {}
  <2>1. due \subseteq Rows /\ 1 \in 0..4
    BY DEF PurgeInv, Ordered
  <2> QED
    BY <1>1, <2>1, NoBatchIs DEF PurgeBatch
<1>3. Sweeping(b)
  BY <1>2 DEF Sweeping, OfTable
<1>4. PICK x : x = [run[w] EXCEPT !.pc = "waiting"]
  OBVIOUS
<1>5. x \in PurgeRun /\ Told(x)
  BY <1>4 DEF PurgeInv, PurgeRun, Told, Call, Doing
<1>6. run' = [run EXCEPT ![w] = x] /\ batch' = [batch EXCEPT ![w] = b] /\ UNCHANGED <<rows, busy>>
  BY <1>1, <1>4 DEF Call, PurgeInv
<1>7. /\ run' \in [Workers -> PurgeRun]
      /\ \A v \in Workers : Told(run'[v])
  BY <1>5, <1>6 DEF PurgeInv, Doing, Told
<1> QED
  BY <1>2, <1>3, <1>6, <1>7, BatchKeeps

LEMMA RollbackKeeps ==
    ASSUME PurgeInv, NEW w \in Workers, RollbackBatch(w)
    PROVE  PurgeInv'
<1>1. PICK x : x = [run[w] EXCEPT !.pc = IF run[w].pc = "waiting" THEN "failed" ELSE run[w].pc]
  OBVIOUS
<1>2. x \in PurgeRun /\ Told(x)
  BY <1>1 DEF PurgeInv, PurgeRun, Told
<1>3. run' = [run EXCEPT ![w] = x] /\ batch' = [batch EXCEPT ![w] = NoBatch] /\ UNCHANGED <<rows, busy>>
  BY <1>1 DEF RollbackBatch, PurgeInv
<1>4. /\ run' \in [Workers -> PurgeRun]
      /\ \A v \in Workers : Told(run'[v])
  BY <1>2, <1>3 DEF PurgeInv, Doing, Told
<1> QED
  BY <1>3, <1>4, NoBatchSweeps, BatchKeeps

\* A statement takes as many rows as it may, or all that nobody else holds.
LEMMA SelectKeeps ==
    ASSUME PurgeInv, NEW w \in Workers, Select(w)
    PROVE  PurgeInv'
<1>1. PICK b \in PurgeBatch : b = batch[w] /\ Sweeping(b)
  BY DEF PurgeInv
<1>2. PICK t \in 1..3 : t = b.table /\ Limit[Tables[t]] \in Nat
  BY <1>1, TablesAre DEF Select
<1>3. PICK expired \in SUBSET Rows : expired = {r \in b.expired \cap due : TableOf[r] = Tables[t]}
  BY <1>1 DEF PurgeBatch
<1>4. PICK free \in SUBSET Rows : free = expired \ HeldByOthers(w)
  OBVIOUS
<1>5. PICK S \in Take(free, Limit[Tables[t]]) :
         batch' = [batch EXCEPT ![w] = [batch[w] EXCEPT !.table = b.table + 1,
                                                        !.deleting = b.deleting \cup S,
                                                        !.skipped = b.skipped \cup (expired \ free)]]
  BY <1>1, <1>2, <1>3, <1>4 DEF Select
<1>6. PICK c : c = [b EXCEPT !.table = t + 1, !.deleting = b.deleting \cup S, !.skipped = b.skipped \cup (expired \ free)]
  OBVIOUS
<1>7. batch' = [batch EXCEPT ![w] = c] /\ UNCHANGED <<rows, busy>> /\ run' = run
  BY <1>1, <1>2, <1>5, <1>6 DEF Select
<1>8. S \subseteq free /\ Cardinality(S) = Share(free, Limit[Tables[t]])
  BY DEF Take, TakeAny
<1>9. /\ c \in PurgeBatch /\ c.table = t + 1 /\ c.expired = b.expired /\ c.deleting = b.deleting \cup S
      /\ c.skipped = b.skipped \cup (expired \ free)
  <2>1. t + 1 \in 0..4 /\ b.deleting \cup S \in SUBSET Rows /\ b.skipped \cup (expired \ free) \in SUBSET Rows
    BY <1>1, <1>8 DEF PurgeBatch
  <2> QED
    BY <1>6, <2>1 DEF PurgeBatch
<1>10. b.expired \subseteq due /\ IsFiniteSet(due) /\ expired = OfTable(b.expired, t)
  BY <1>1, <1>3 DEF PurgeInv, Ordered, Sweeping, OfTable
<1>11. Cardinality(S) = Limit[Tables[t]] \/ S = free
  <2>1. IsFiniteSet(free)
    BY <1>3, <1>4, <1>10, FS_Subset
  <2>2. Cardinality(S) = Limit[Tables[t]] \/ Cardinality(S) = Cardinality(free)
    BY <1>8 DEF Share
  <2> QED
    BY <1>8, <2>1, <2>2, FS_Subset
<1>12. S \cap busy = {} /\ \A v \in Workers \ {w} : S \cap batch[v].deleting = {}
  BY <1>4, <1>8, LockedAre DEF HeldByOthers
<1>13. ASSUME NEW u \in 1..3
       PROVE  /\ u >= c.table => OfTable(c.deleting, u) = {}
              /\ u < c.table => Cardinality(OfTable(c.deleting, u)) = Limit[Tables[u]] \/ Left(c, u) = {}
  <2>1. \A r \in S : TableOf[r] = Tables[t]
    BY <1>3, <1>4, <1>8
  <2>2. CASE u = t
    <3>1. OfTable(b.deleting, u) = {}
      BY <1>1, <1>2, <2>2 DEF Sweeping
    <3>2. OfTable(c.deleting, u) = S
      BY <1>9, <2>1, <2>2, <3>1 DEF OfTable
    <3>3. S = free => Left(c, u) = {}
      BY <1>9, <1>10, <2>2 DEF Left
    <3> QED
      BY <1>9, <1>11, <2>2, <3>2, <3>3
  <2>3. CASE u # t
    <3>1. OfTable(c.deleting, u) = OfTable(b.deleting, u)
      BY <1>9, <2>1, <2>3, TablesAre DEF OfTable
    <3>2. Left(c, u) \subseteq Left(b, u)
      BY <1>9 DEF Left, OfTable
    <3>3. /\ u >= c.table => u >= b.table
          /\ u < c.table => u < b.table
      BY <1>2, <1>9, <2>3
    <3> QED
      BY <1>1, <3>1, <3>2, <3>3 DEF Sweeping
  <2> QED
    BY <2>2, <2>3
<1>14. Sweeping(c)
  <2>1. c.table # 0 /\ c.deleting \subseteq due /\ c.expired \subseteq due /\ c.deleting \cap busy = {}
    BY <1>1, <1>2, <1>4, <1>3, <1>8, <1>9, <1>12 DEF Sweeping
  <2> QED
    BY <1>13, <2>1 DEF Sweeping
<1>15. \A v \in Workers \ {w} : c.deleting \cap batch[v].deleting = {}
  BY <1>1, <1>9, <1>12 DEF PurgeInv, Disjoint
<1>16. /\ run' \in [Workers -> PurgeRun]
       /\ \A v \in Workers : Told(run'[v])
  BY <1>7 DEF PurgeInv, Doing, Told
<1> QED
  BY <1>7, <1>9, <1>14, <1>15, <1>16, BatchKeeps

\* A run that asks for no other got counts below every limit.
LEMMA CommitKeeps ==
    ASSUME PurgeInv, NEW w \in Workers, CommitBatch(w)
    PROVE  PurgeInv'
<1>1. PICK b \in PurgeBatch : b = batch[w] /\ Sweeping(b) /\ b.table > 3
  BY TablesAre DEF PurgeInv, CommitBatch
<1>2. PICK D \in SUBSET Rows : D = b.deleting
  BY <1>1 DEF PurgeBatch
<1>3. due' = due \ D /\ Gone(D) /\ busy' = busy
  BY <1>1, <1>2 DEF CommitBatch, Gone
<1>4. Ordered'
  BY <1>3, GoneKeeps DEF PurgeInv, Ordered
<1>5. batch' = [v \in Workers |-> IF v = w THEN NoBatch
                                  ELSE [batch[v] EXCEPT !.expired = batch[v].expired \ D, !.skipped = batch[v].skipped \ D]]
  BY <1>1, <1>2 DEF CommitBatch, End
<1>6. ASSUME NEW v \in Workers
      PROVE  /\ batch'[v] \in PurgeBatch /\ Sweeping(batch[v])'
             /\ batch'[v].deleting \subseteq batch[v].deleting
  <2>1. CASE v = w
    <3>1. PICK c \in PurgeBatch : c = NoBatch /\ c.deleting = {} /\ c.expired = {} /\ c.table = 0
      BY NoBatchIs
    <3>2. Sweeping(c)'
      BY <3>1 DEF Sweeping, OfTable, NoBatch
    <3>3. batch'[v] = c
      BY <1>5, <2>1, <3>1
    <3> QED
      BY <3>1, <3>2, <3>3 DEF Sweeping, Left, OfTable
  <2>2. CASE v # w
    <3>1. PICK a \in PurgeBatch : a = batch[v] /\ Sweeping(a) /\ a.deleting \cap D = {}
      BY <1>1, <1>2, <2>2 DEF PurgeInv, Disjoint
    <3>2. PICK c : c = [a EXCEPT !.expired = a.expired \ D, !.skipped = a.skipped \ D] /\ batch'[v] = c
      BY <1>5, <2>2, <3>1
    <3>3. c = [a EXCEPT !.expired = a.expired \ D, !.skipped = a.skipped \ D] /\ busy' \subseteq busy /\ due' = due \ D
      BY <1>3, <3>2
    <3>4. c \in PurgeBatch /\ c.deleting = a.deleting /\ Sweeping(c)'
      BY <3>1, <3>3, SweepsLess
    <3> QED
      BY <3>1, <3>2, <3>4 DEF Sweeping, Left, OfTable
  <2> QED
    BY <2>1, <2>2
<1>7. batch' \in [Workers -> PurgeBatch] /\ Disjoint'
  <2>1. batch' \in [Workers -> PurgeBatch]
    BY <1>5, <1>6
  <2>2. ASSUME NEW u \in Workers, NEW v \in Workers, u # v
        PROVE  batch'[u].deleting \cap batch'[v].deleting = {}
    BY <1>6, <2>2 DEF PurgeInv, Disjoint
  <2> QED
    BY <2>1, <2>2 DEF Disjoint
<1>8. ~Full(w) => (b.expired \cap due) \ (b.deleting \cup b.skipped) = {}
  <2> SUFFICES ASSUME ~Full(w), NEW r \in b.expired PROVE r \in b.deleting \cup b.skipped
    OBVIOUS
  <2>1. PICK t \in 1..3 : TableOf[r] = Tables[t]
    BY <1>1, TablesAre, MaintenanceAssumption DEF PurgeBatch
  <2>2. Cardinality(OfTable(b.deleting, t)) # Limit[Tables[t]]
    <3>1. OfTable(b.deleting, t) = DeletedOf(w, Tables[t])
      BY <1>1 DEF OfTable, DeletedOf
    <3> QED
      BY <3>1, TablesAre DEF Full
  <2>3. Left(b, t) = {}
    <3>1. t < b.table
      BY <1>1 DEF PurgeBatch
    <3> QED
      BY <1>1, <2>2, <3>1 DEF Sweeping
  <2> QED
    BY <2>1, <2>3 DEF Left, OfTable
<1>9. /\ run' \in [Workers -> PurgeRun]
      /\ \A v \in Workers : Told(run'[v])
  <2>1. CASE Doing(w, "waiting")
    <3>1. run[w] \in PurgeRun /\ run[w].batches \in 0..MaxBatches /\ run[w].batches < MaxBatches
      BY <2>1 DEF PurgeInv, PurgeRun, Told, Doing
    <3>2. PICK x : x = [pc |-> IF Full(w) /\ run[w].batches + 1 < MaxBatches THEN "loop" ELSE "done",
                        batches |-> run[w].batches + 1, needsAnotherRun |-> Full(w),
                        missed |-> (b.expired \cap due) \ (b.deleting \cup b.skipped)]
      OBVIOUS
    <3>3. run' = [run EXCEPT ![w] = x]
      BY <1>1, <2>1, <3>2 DEF CommitBatch
    <3>4. x.missed \in SUBSET Rows /\ x.needsAnotherRun = Full(w) /\ (~Full(w) => x.missed = {})
      BY <1>1, <1>8, <3>2 DEF PurgeInv, Ordered
    <3>5. run[w].batches + 1 \in 0..MaxBatches /\ Full(w) \in BOOLEAN
      BY <3>1, MaintenanceAssumption DEF Full
    <3>6. x \in PurgeRun
      BY <1>1, <3>2, <3>4, <3>5 DEF PurgeRun
    <3>7. Told(x)
      BY <3>2, <3>4, <3>5 DEF Told
    <3> QED
      BY <3>3, <3>6, <3>7 DEF PurgeInv
  <2>2. CASE ~Doing(w, "waiting")
    BY <2>2 DEF CommitBatch, PurgeInv, Doing
  <2> QED
    BY <2>1, <2>2
<1> QED
  BY <1>4, <1>6, <1>7, <1>9 DEF PurgeInv, Doing, Told

LEMMA PurgeInvStarts == PurgeInit => PurgeInv
<1> SUFFICES ASSUME PurgeInit PROVE PurgeInv
  OBVIOUS
<1>1. PICK x : x = [NewRun EXCEPT !.pc = "idle"]
  OBVIOUS
<1>2. x \in PurgeRun /\ Told(x)
  <2>1. PICK new \in PurgeRun : new = NewRun
    BY NewRunIs
  <2>2. x = [new EXCEPT !.pc = "idle"]
    BY <1>1, <2>1
  <2> QED
    BY <2>2 DEF PurgeRun, Told
<1>3. run = [w \in Workers |-> x] /\ batch = [w \in Workers |-> NoBatch] /\ due = {} /\ older = {} /\ busy = {}
  BY <1>1 DEF PurgeInit
<1>4. Ordered
  BY <1>3, FS_EmptySet DEF Ordered
<1> QED
  BY <1>2, <1>3, <1>4, NoBatchSweeps DEF PurgeInv, Disjoint

LEMMA PurgeInvLasts == PurgeInv /\ [PurgeNext]_purgeVars => PurgeInv'
<1> SUFFICES ASSUME PurgeInv, [PurgeNext]_purgeVars PROVE PurgeInv'
  OBVIOUS
<1>1. ASSUME NEW r \in Rows, Expire(r) \/ Hold(r) \/ LetGo(r) PROVE PurgeInv'
  BY <1>1, RowsKeep
<1>2. ASSUME NEW w \in Workers, Start(w) \/ Call(w) \/ Deadline(w) \/ Select(w) PROVE PurgeInv'
  BY <1>2, RunsKeep, CallKeeps, SelectKeeps
<1>3. ASSUME NEW w \in Workers, CommitBatch(w) \/ RollbackBatch(w) \/ Abandon(w) PROVE PurgeInv'
  BY <1>3, CommitKeeps, RollbackKeeps, RunsKeep
<1>4. CASE UNCHANGED purgeVars
  <2>1. due' = due /\ older' = older /\ busy' = busy /\ run' = run /\ batch' = batch
    BY <1>4 DEF purgeVars, rows
  <2>2. Ordered' /\ \A w \in Workers : batch[w].deleting \cap busy' = {}
    BY <2>1 DEF PurgeInv, Ordered, Sweeping
  <2> QED
    BY <2>1, <2>2, RunKeeps DEF PurgeInv
<1> QED
  BY <1>1, <1>2, <1>3, <1>4 DEF PurgeNext

THEOREM PurgeInvariance == PurgeSpec => []PurgeInv
BY PurgeInvStarts, PurgeInvLasts, PTL DEF PurgeSpec

\* For any backlog, limits and number of workers: no row is held by two
\* transactions, only expired rows are deleted, and when a run asks for no other,
\* all that had expired as its last batch began is gone but for rows in use.
THEOREM HintTrue == PurgeSpec => []HintSound
<1>1. ASSUME PurgeInv PROVE HintSound
  <2>1. ASSUME NEW w \in Workers
        PROVE  /\ run[w].pc \in {"idle", "loop", "waiting", "done", "failed"} /\ run[w].batches \in 0..MaxBatches
               /\ batch[w].table \in 0..4 /\ batch[w].deleting \subseteq due /\ batch[w].deleting \cap busy = {}
               /\ Doing(w, "done") /\ ~run[w].needsAnotherRun => run[w].missed = {}
    BY <1>1 DEF PurgeInv, PurgeRun, PurgeBatch, Sweeping, Told, Doing
  <2>2. \A w \in Workers : LockedBy(w) = batch[w].deleting
    BY <1>1, LockedAre
  <2>3. \A v, w \in Workers : v # w => LockedBy(w) \cap LockedBy(v) = {}
    BY <1>1, <2>2 DEF PurgeInv, Disjoint
  <2> QED
    BY <1>1, <2>1, <2>2, <2>3, TablesAre DEF HintSound, PurgeTypeOK, PurgeInv, Ordered
<1> QED
  BY <1>1, PurgeInvariance, PTL
-----------------------------------------------------------------------------
(* What of Drains is safety: in its table's order of expiry a row has others   *)
(* ahead of it, never more than before, and every batch that leaves it there,  *)
(* though nobody held it, takes a full share of them.                          *)

Ahead(r) == {s \in due : TableOf[s] = TableOf[r] /\ <<s, r>> \in older}

QueuesShorten ==
    [][\A r \in due \cap due' :
          /\ Ahead(r)' \subseteq Ahead(r)
          /\ \A w \in Workers : CommitBatch(w) /\ r \in batch[w].expired \ batch[w].skipped =>
                Cardinality(Ahead(r)') + Limit[TableOf[r]] <= Cardinality(Ahead(r))]_purgeVars

\* What a batch takes of a table had expired before what it could have taken and leaves.
OldestFirst(b) ==
    \A t \in 1..3 : t < b.table => \A s \in OfTable(b.deleting, t), r \in Left(b, t) : <<s, r>> \in older

QueueInv == PurgeInv /\ \A w \in Workers : OldestFirst(batch[w])

LEMMA OrderKeeps ==
    ASSUME NEW b, OldestFirst(b), older \subseteq older'
    PROVE  OldestFirst(b)'
BY DEF OldestFirst, Left, OfTable

LEMMA OrderOfLess ==
    ASSUME NEW b \in PurgeBatch, OldestFirst(b), NEW D, Gone(D), b.deleting \cap D = {},
           b.deleting \subseteq due, b.expired \subseteq due,
           NEW c, c = [b EXCEPT !.expired = b.expired \ D, !.skipped = b.skipped \ D]
    PROVE  OldestFirst(c)'
<1>1. /\ c.table = b.table /\ c.deleting = b.deleting /\ c.expired = b.expired \ D /\ c.skipped = b.skipped \ D
      /\ due' = due \ D /\ older' = older \cap (due' \X due')
  BY DEF PurgeBatch, Gone
<1>2. \A t \in 1..3 : /\ Left(c, t) \subseteq Left(b, t) /\ Left(c, t) \subseteq due'
                      /\ OfTable(c.deleting, t) = OfTable(b.deleting, t) /\ OfTable(c.deleting, t) \subseteq due'
  BY <1>1 DEF Left, OfTable
<1>3. ASSUME NEW t \in 1..3, t < c.table, NEW s \in OfTable(c.deleting, t), NEW r \in Left(c, t)
      PROVE  <<s, r>> \in older'
  <2>1. s \in OfTable(b.deleting, t) /\ r \in Left(b, t) /\ s \in due' /\ r \in due'
    BY <1>2
  <2>2. <<s, r>> \in older
    BY <1>1, <1>3, <2>1 DEF OldestFirst
  <2> QED
    BY <1>1, <2>1, <2>2
<1> QED
  BY <1>3 DEF OldestFirst, Left, OfTable

LEMMA OrderOfNone == OldestFirst(NoBatch)
BY NoBatchIs DEF OldestFirst, OfTable

LEMMA QueueInvLasts == QueueInv /\ [PurgeNext]_purgeVars => QueueInv'
<1> SUFFICES ASSUME QueueInv, [PurgeNext]_purgeVars PROVE \A w \in Workers : OldestFirst(batch[w])'
  BY PurgeInvLasts DEF QueueInv
<1>1. PurgeInv /\ DOMAIN batch = Workers
  BY DEF QueueInv, PurgeInv
<1>2. ASSUME NEW w \in Workers
      PROVE  batch[w] \in PurgeBatch /\ OldestFirst(batch[w]) /\ batch[w].deleting \subseteq due /\ batch[w].expired \subseteq due
  BY DEF QueueInv, PurgeInv, Sweeping
<1>3. ASSUME older \subseteq older', NEW w \in Workers, \/ batch'[w] = batch[w]
                                                         \/ batch'[w] = NoBatch
      PROVE  OldestFirst(batch[w])'
  <2>1. PICK b : b = batch'[w] /\ OldestFirst(b)
    BY <1>2, <1>3, OrderOfNone
  <2>2. OldestFirst(b)'
    BY <1>3, <2>1, OrderKeeps
  <2> QED
    BY <2>1, <2>2 DEF OldestFirst, Left, OfTable
<1>4. ASSUME NEW D, Gone(D), NEW w \in Workers, batch[w].deleting \cap D = {},
             batch'[w] = [batch[w] EXCEPT !.expired = batch[w].expired \ D, !.skipped = batch[w].skipped \ D]
      PROVE  OldestFirst(batch[w])'
  <2>1. PICK b \in PurgeBatch : b = batch[w] /\ OldestFirst(b) /\ b.deleting \subseteq due /\ b.expired \subseteq due
    BY <1>2
  <2>2. PICK c : c = [b EXCEPT !.expired = b.expired \ D, !.skipped = b.skipped \ D] /\ batch'[w] = c
    BY <1>4, <2>1
  <2>3. OldestFirst(c)'
    BY <1>4, <2>1, <2>2, OrderOfLess
  <2> QED
    BY <2>2, <2>3 DEF OldestFirst, Left, OfTable
<1>5. ASSUME NEW r \in Rows, Expire(r) \/ Hold(r) PROVE \A w \in Workers : OldestFirst(batch[w])'
  <2>1. older \subseteq older' /\ batch' = batch
    BY <1>5 DEF Expire, Hold, rows
  <2> QED
    BY <1>3, <2>1
<1>6. ASSUME NEW r \in Rows, LetGo(r), NEW w \in Workers PROVE OldestFirst(batch[w])'
  <2>1. CASE UNCHANGED <<rows, batch>>
    <3>1. older \subseteq older' /\ batch' = batch
      BY <2>1 DEF rows
    <3> QED
      BY <1>3, <3>1
  <2>2. CASE /\ Gone({r})
             /\ batch' = [v \in Workers |-> [batch[v] EXCEPT !.expired = @ \ {r}, !.skipped = @ \ {r}]]
    <3>1. batch[w].deleting \cap {r} = {}
      BY <1>1, <1>6 DEF LetGo, PurgeInv, Sweeping
    <3> QED
      BY <1>4, <2>2, <3>1
  <2> QED
    BY <1>6, <2>1, <2>2 DEF LetGo
<1>7. ASSUME NEW v \in Workers, Start(v) \/ Deadline(v) \/ Abandon(v) \/ Call(v) \/ RollbackBatch(v),
             NEW w \in Workers
      PROVE  OldestFirst(batch[w])'
  <2>1. older' = older /\ (w # v => batch'[w] = batch[w])
    BY <1>1, <1>7 DEF Start, Deadline, Abandon, Call, RollbackBatch, rows
  <2>2. CASE w # v \/ Start(v) \/ Deadline(v) \/ Abandon(v) \/ RollbackBatch(v)
    <3>1. batch'[w] = batch[w] \/ batch'[w] = NoBatch
      BY <1>1, <2>1, <2>2 DEF Start, Deadline, Abandon, RollbackBatch
    <3> QED
      BY <1>3, <2>1, <3>1
  <2>3. CASE w = v /\ Call(v)
    <3>1. PICK b : b = [NoBatch EXCEPT !.table = 1, !.expired = due] /\ batch'[w] = b
      BY <1>1, <2>3 DEF Call
    <3>2. b.table = 1
      BY <3>1, NoBatchIs DEF PurgeBatch
    <3> QED
      BY <3>1, <3>2 DEF OldestFirst
  <2> QED
    BY <1>7, <2>2, <2>3
<1>8. ASSUME NEW v \in Workers, Select(v), NEW w \in Workers PROVE OldestFirst(batch[w])'
  <2>1. PICK b \in PurgeBatch : b = batch[v] /\ OldestFirst(b) /\ Sweeping(b)
    BY <1>1, <1>2 DEF PurgeInv
  <2>2. PICK t \in 1..3 : t = b.table
    BY <1>8, <2>1, TablesAre DEF Select
  <2>3. PICK expired \in SUBSET Rows : expired = {r \in b.expired \cap due : TableOf[r] = Tables[t]}
    BY <2>1 DEF PurgeBatch
  <2>4. PICK free \in SUBSET Rows : free = expired \ HeldByOthers(v)
    OBVIOUS
  <2>5. PICK S \in Take(free, Limit[Tables[t]]) :
           batch' = [batch EXCEPT ![v] = [batch[v] EXCEPT !.table = b.table + 1,
                                                          !.deleting = b.deleting \cup S,
                                                          !.skipped = b.skipped \cup (expired \ free)]]
    BY <1>8, <2>1, <2>2, <2>3, <2>4 DEF Select
  <2>6. PICK c : c = [b EXCEPT !.table = t + 1, !.deleting = b.deleting \cup S, !.skipped = b.skipped \cup (expired \ free)]
    OBVIOUS
  <2>7. batch' = [batch EXCEPT ![v] = c] /\ older' = older
    BY <1>8, <2>1, <2>2, <2>5, <2>6 DEF Select, rows
  <2>8. /\ c.table = t + 1 /\ c.expired = b.expired /\ c.deleting = b.deleting \cup S
        /\ c.skipped = b.skipped \cup (expired \ free)
    BY <2>6 DEF PurgeBatch
  <2>9. S \subseteq free /\ S \X (free \ S) \subseteq older
    BY DEF Take, TakeAny
  <2>10. expired = OfTable(b.expired, t)
    BY <2>1, <2>3 DEF Sweeping, OfTable
  <2>11. ASSUME NEW u \in 1..3, u < c.table, NEW s \in OfTable(c.deleting, u), NEW r \in Left(c, u)
         PROVE  <<s, r>> \in older
    <3>1. CASE u = t
      <4>1. s \in S
        BY <2>1, <2>2, <2>8, <3>1 DEF Sweeping, OfTable
      <4>2. r \in free \ S
        BY <2>8, <2>10, <3>1 DEF Left, OfTable
      <4> QED
        BY <2>9, <4>1, <4>2
    <3>2. CASE u # t
      <4>1. s \in OfTable(b.deleting, u)
        BY <2>3, <2>4, <2>8, <2>9, <3>2, TablesAre DEF OfTable
      <4>2. r \in Left(b, u) /\ u < b.table
        BY <2>2, <2>8, <2>11, <3>2 DEF Left, OfTable
      <4> QED
        BY <2>1, <4>1, <4>2 DEF OldestFirst
    <3> QED
      BY <3>1, <3>2
  <2>12. CASE w = v
    <3>1. batch'[w] = c
      BY <1>1, <2>7, <2>12
    <3> QED
      BY <2>7, <2>11, <3>1 DEF OldestFirst, Left, OfTable
  <2>13. CASE w # v
    BY <1>1, <1>3, <2>7, <2>13
  <2> QED
    BY <2>12, <2>13
<1>9. ASSUME NEW v \in Workers, CommitBatch(v), NEW w \in Workers PROVE OldestFirst(batch[w])'
  <2>1. PICK D : D = batch[v].deleting /\ Gone(D)
    BY <1>9 DEF CommitBatch
  <2>2. CASE w = v
    <3>1. PICK none : none = NoBatch /\ batch'[w] = none /\ none.table = 0
      BY <1>9, <2>2, NoBatchIs DEF CommitBatch, End
    <3> QED
      BY <3>1 DEF OldestFirst
  <2>3. CASE w # v
    <3>1. batch[w].deleting \cap D = {}
      BY <1>1, <2>1, <2>3 DEF PurgeInv, Disjoint
    <3>2. batch'[w] = [batch[w] EXCEPT !.expired = batch[w].expired \ D, !.skipped = batch[w].skipped \ D]
      BY <1>9, <2>1, <2>3 DEF CommitBatch, End
    <3> QED
      BY <1>4, <2>1, <3>1, <3>2
  <2> QED
    BY <2>2, <2>3
<1>10. CASE UNCHANGED purgeVars
  BY <1>3, <1>10 DEF purgeVars, rows
<1> QED
  BY <1>5, <1>6, <1>7, <1>8, <1>9, <1>10 DEF PurgeNext

\* Rows that expire are behind those that had, and rows that go leave the others in order.
LEMMA NobodyCutsIn ==
    ASSUME PurgeInv, [PurgeNext]_purgeVars, NEW r \in due \cap due'
    PROVE  Ahead(r)' \subseteq Ahead(r)
<1> SUFFICES ASSUME NEW s \in due', <<s, r>> \in older', TableOf[s] = TableOf[r]
             PROVE  s \in due /\ <<s, r>> \in older
  BY DEF Ahead
<1>1. older \subseteq due \X due
  BY DEF PurgeInv, Ordered
<1>2. CASE due' = due /\ older' = older
  BY <1>2
<1>3. CASE \E D : Gone(D)
  BY <1>1, <1>3 DEF Gone
<1>4. ASSUME NEW x \in Rows, Expire(x) PROVE s \in due /\ <<s, r>> \in older
  BY <1>1, <1>4 DEF Expire
<1>5. \/ due' = due /\ older' = older
      \/ \E D : Gone(D)
      \/ \E x \in Rows : Expire(x)
  BY DEF PurgeNext, Hold, LetGo, Start, Call, Deadline, Select, CommitBatch, RollbackBatch, Abandon, purgeVars, rows
<1> QED
  BY <1>2, <1>3, <1>4, <1>5

\* A batch that leaves a row it could have taken has taken a full share of those ahead.
LEMMA BatchShortens ==
    ASSUME QueueInv, NEW w \in Workers, CommitBatch(w), NEW r \in due \cap due', r \in batch[w].expired \ batch[w].skipped
    PROVE  Cardinality(Ahead(r)') + Limit[TableOf[r]] <= Cardinality(Ahead(r))
<1>1. PICK b \in PurgeBatch : b = batch[w] /\ Sweeping(b) /\ OldestFirst(b) /\ b.table > 3
  BY TablesAre DEF QueueInv, PurgeInv, CommitBatch
<1>2. due' = due \ b.deleting /\ older' \subseteq older /\ b.deleting \subseteq due
  BY <1>1 DEF CommitBatch, Gone, Sweeping
<1>3. PICK t \in 1..3 : TableOf[r] = Tables[t] /\ t < b.table
  BY <1>1, TablesAre, MaintenanceAssumption DEF PurgeBatch
<1>4. r \in Left(b, t)
  BY <1>1, <1>2, <1>3 DEF Left, OfTable
<1>5. Cardinality(OfTable(b.deleting, t)) = Limit[TableOf[r]]
  BY <1>1, <1>3, <1>4 DEF Sweeping
<1>6. PICK taken : taken = OfTable(b.deleting, t)
  OBVIOUS
<1>7. taken \subseteq Ahead(r)
  BY <1>1, <1>2, <1>3, <1>4, <1>6 DEF OldestFirst, OfTable, Ahead
<1>8. Ahead(r)' \subseteq Ahead(r) \ taken
  BY <1>2, <1>6 DEF Ahead, OfTable
<1>9. IsFiniteSet(Ahead(r))
  <2>1. IsFiniteSet(due) /\ Ahead(r) \subseteq due
    BY DEF QueueInv, PurgeInv, Ordered, Ahead
  <2> QED
    BY <2>1, FS_Subset
<1>10. PICK all : all = Ahead(r) /\ IsFiniteSet(all) /\ taken \subseteq all
  BY <1>7, <1>9
<1>11. PICK rest : rest = Ahead(r)' /\ rest \subseteq all \ taken
  BY <1>8, <1>10
<1>12. PICK other : other = all \ taken
  OBVIOUS
<1>13. IsFiniteSet(taken) /\ IsFiniteSet(other) /\ IsFiniteSet(rest) /\ Cardinality(rest) <= Cardinality(other)
  BY <1>10, <1>11, <1>12, FS_Subset
<1>14. Cardinality(all) = Cardinality(taken) + Cardinality(other)
  <2>1. all = taken \cup other /\ taken \cap other = {}
    BY <1>10, <1>12
  <2>2. Cardinality(taken \cap other) = 0
    BY <2>1, FS_EmptySet
  <2>3. Cardinality(taken \cup other) = Cardinality(taken) + Cardinality(other) - Cardinality(taken \cap other)
    BY <1>13, FS_Union
  <2> QED
    BY <1>13, <2>1, <2>2, <2>3, FS_CardinalityType
<1>15. Cardinality(taken) \in Nat /\ Cardinality(other) \in Nat /\ Cardinality(rest) \in Nat
  BY <1>13, FS_CardinalityType
<1> QED
  BY <1>5, <1>6, <1>10, <1>11, <1>13, <1>14, <1>15

\* No row that expires comes before one that has, and every batch that began after a row
\* expired, found it free and still leaves it has deleted a full share of those ahead of
\* it. So the row outlasts no more such batches than there were shares ahead of it.
THEOREM BacklogShortens == PurgeSpec => QueuesShorten
<1>1. PurgeInit => QueueInv
  <2> SUFFICES ASSUME PurgeInit PROVE QueueInv
    OBVIOUS
  <2>1. \A w \in Workers : batch[w] = NoBatch
    BY DEF PurgeInit
  <2> QED
    BY <2>1, PurgeInvStarts, OrderOfNone DEF QueueInv
<1>2. QueueInv /\ [PurgeNext]_purgeVars =>
        [\A r \in due \cap due' :
            /\ Ahead(r)' \subseteq Ahead(r)
            /\ \A w \in Workers : CommitBatch(w) /\ r \in batch[w].expired \ batch[w].skipped =>
                  Cardinality(Ahead(r)') + Limit[TableOf[r]] <= Cardinality(Ahead(r))]_purgeVars
  BY NobodyCutsIn, BatchShortens DEF QueueInv
<1> QED
  BY <1>1, <1>2, QueueInvLasts, PTL DEF PurgeSpec, QueuesShorten
=============================================================================
