------------------------- MODULE MemoryStoreProofs -------------------------
(***************************************************************************)
(* MemoryStore implements RoomService, for every value of the constants.    *)
(***************************************************************************)
EXTENDS MemoryStore, TLAPS

(* The abstract service with what is proved of it, which also says what the *)
(* operators on rows return and preserve.                                    *)
Promise == INSTANCE RoomServiceProofs
           WITH rooms <- ByToken(rooms), held <- {}, admitted <- {}, located <- {}

LEMMA SameData ==
    /\ Promise!DataAssumption /\ Promise!Row = Row
    /\ \A row \in Row : /\ Promise!ClaimsNameRoles(row) <=> ClaimsNameRoles(row)
                        /\ \A r \in Roles, n \in Names : Promise!Claimed(row, r, n) = Claimed(row, r, n)
                        /\ \A p \in Payloads : Promise!Republished(row, p) = Republished(row, p)
BY DataAssumption DEF Promise!DataAssumption, Promise!Publication, Publication, Promise!Row, Row, Promise!ClaimsNameRoles,
   ClaimsNameRoles, Promise!Claimed, Claimed, Promise!Republished, Republished

\* A new row is well formed, carries its key and token, and claims nothing.
LEMMA NewRowSound ==
    ASSUME NEW k \in Keys, NEW i \in Ids, NEW p \in Payloads, NEW t \in Nat
    PROVE  LET new == NewRow(k, i, p, t)
           IN  /\ new \in Row
               /\ new.key = k /\ new.token = i /\ new.created = t
               /\ ClaimsNameRoles(new)
BY DataAssumption DEF NewRow, Row, ClaimsNameRoles

\* A claim of a declared role changes nothing else and names that role.
LEMMA ClaimedSound ==
    ASSUME NEW row \in Row, NEW r \in RolesOf[row.payload], NEW n \in Names
    PROVE  LET new == Claimed(row, r, n)
           IN  /\ new \in Row
               /\ new.key = row.key /\ new.token = row.token /\ new.created = row.created
               /\ ClaimsNameRoles(row) => ClaimsNameRoles(new)
<1>1. r \in Roles
  BY DataAssumption DEF Row
<1> QED
  BY <1>1, SameData, Promise!ClaimedSound

\* A republished row keeps its identity and claims only roles it declares.
LEMMA RepublishedSound ==
    ASSUME NEW row \in Row, row.version < MaxVersion, NEW p \in Payloads
    PROVE  LET new == Republished(row, p)
           IN  /\ new \in Row
               /\ new.key = row.key /\ new.token = row.token /\ new.created = row.created
               /\ ClaimsNameRoles(new)
BY SameData, Promise!RepublishedSound

UniqueTokens(f) == \A k, l \in DOMAIN f : f[k].token = f[l].token => k = l

\* Every entry is stored under its own key, with a token of its own.
EntriesSound == /\ UniqueTokens(rooms)
                /\ \A k \in DOMAIN rooms : /\ rooms[k].key = k
                                           /\ rooms[k].token \in minted
                                           /\ rooms[k].created <= now

\* The ledger only holds publications that did create a room.
LedgerTrue == \A h \in DOMAIN publications : publication[h] # NoRoom

IInv == /\ TypeOK
        /\ EntriesSound
        /\ LedgerTrue
        /\ PointersLive
        /\ ForgottenOnlyWhenClosed

-----------------------------------------------------------------------------
Tokens(f) == {f[k].token : k \in DOMAIN f}

\* What looking a room up by token finds: the entry that carries it.
Finds(f) == /\ DOMAIN ByToken(f) = Tokens(f)
            /\ \A k \in DOMAIN f : ByToken(f)[f[k].token] = f[k]
            /\ ByToken(f) = [j \in DOMAIN ByToken(f) |-> ByToken(f)[j]]

LEMMA ByTokenFinds ==
    ASSUME NEW f, UniqueTokens(f)
    PROVE  Finds(f)
<1>2. DOMAIN ByToken(f) = Tokens(f)
  BY DEF ByToken, Tokens
<1>3. ASSUME NEW k \in DOMAIN f
      PROVE  ByToken(f)[f[k].token] = f[k]
  <2> DEFINE l == CHOOSE m \in DOMAIN f : f[m].token = f[k].token
  <2>1. l \in DOMAIN f /\ f[l].token = f[k].token
    OBVIOUS
  <2>2. l = k
    BY <2>1 DEF UniqueTokens
  <2>3. ByToken(f)[f[k].token] = f[l]
    BY DEF ByToken
  <2> QED
    BY <2>2, <2>3
<1>4. ByToken(f) = [j \in DOMAIN ByToken(f) |-> ByToken(f)[j]]
  BY DEF ByToken
<1> QED
  BY <1>2, <1>3, <1>4 DEF Finds

\* Adding an entry with a new token adds that row to the rooms by token.
LEMMA ByTokenAdd ==
    ASSUME NEW f, UniqueTokens(f), NEW k, NEW row, k \notin DOMAIN f,
           \A l \in DOMAIN f : f[l].token # row.token,
           NEW g, g = [l \in DOMAIN f \cup {k} |-> IF l = k THEN row ELSE f[l]]
    PROVE  /\ UniqueTokens(g)
           /\ ByToken(g) = [j \in DOMAIN ByToken(f) \cup {row.token} |->
                              IF j = row.token THEN row ELSE ByToken(f)[j]]
<1>0. DOMAIN g = DOMAIN f \cup {k} /\ g[k] = row /\ \A l \in DOMAIN f : g[l] = f[l]
  OBVIOUS
<1>1. UniqueTokens(g)
  BY <1>0 DEF UniqueTokens
<1>2. Finds(f) /\ Finds(g)
  BY <1>1, ByTokenFinds
<1>3. DOMAIN ByToken(g) = DOMAIN ByToken(f) \cup {row.token}
  <2>1. Tokens(g) = Tokens(f) \cup {row.token}
    BY <1>0 DEF Tokens
  <2> QED
    BY <1>2, <2>1 DEF Finds
<1>4. ASSUME NEW j \in DOMAIN ByToken(g)
      PROVE  ByToken(g)[j] = IF j = row.token THEN row ELSE ByToken(f)[j]
  <2>1. PICK l \in DOMAIN g : g[l].token = j
    BY <1>2 DEF Finds, Tokens
  <2>2. ByToken(g)[j] = g[l] /\ (l # k => ByToken(f)[j] = f[l])
    BY <1>0, <1>2, <2>1 DEF Finds
  <2>3. l = k <=> j = row.token
    BY <1>0, <2>1
  <2> QED
    BY <1>0, <2>2, <2>3
<1>5. ByToken(g) = [j \in DOMAIN ByToken(g) |-> ByToken(g)[j]]
  BY <1>2 DEF Finds
<1> QED
  BY <1>1, <1>3, <1>4, <1>5

Rewrites(g, f, k, row) == /\ DOMAIN g = DOMAIN f
                          /\ g[k] = row
                          /\ \A l \in DOMAIN f \ {k} : g[l] = f[l]

\* Rewriting an entry with its own token rewrites that row.
LEMMA ByTokenExcept ==
    ASSUME NEW f, UniqueTokens(f), NEW k \in DOMAIN f, NEW row, row.token = f[k].token,
           NEW g, Rewrites(g, f, k, row)
    PROVE  /\ UniqueTokens(g)
           /\ Rewrites(ByToken(g), ByToken(f), row.token, row)
<1>1. DOMAIN g = DOMAIN f /\ g[k] = row /\ \A l \in DOMAIN f : l # k => g[l] = f[l]
  BY DEF Rewrites
<1>2. UniqueTokens(g)
  BY <1>1 DEF UniqueTokens
<1>3. Finds(f) /\ Finds(g)
  BY <1>2, ByTokenFinds
<1>4. \A l \in DOMAIN f : g[l].token = f[l].token
  BY <1>1
<1>5. DOMAIN ByToken(g) = DOMAIN ByToken(f)
  <2>1. Tokens(g) = Tokens(f)
    BY <1>1, <1>4 DEF Tokens
  <2> QED
    BY <1>3, <2>1 DEF Finds
<1>6. ASSUME NEW j \in DOMAIN ByToken(g)
      PROVE  ByToken(g)[j] = IF j = row.token THEN row ELSE ByToken(f)[j]
  <2>1. PICK l \in DOMAIN g : g[l].token = j
    BY <1>3 DEF Finds, Tokens
  <2>2. ByToken(g)[j] = g[l] /\ ByToken(f)[j] = f[l]
    BY <1>1, <1>3, <1>4, <2>1 DEF Finds
  <2>3. l = k <=> j = row.token
    BY <1>1, <1>4, <2>1 DEF UniqueTokens
  <2> QED
    BY <1>1, <2>2, <2>3
<1>7. ByToken(g)[row.token] = row
  BY <1>1, <1>3 DEF Finds
<1> QED
  BY <1>2, <1>5, <1>6, <1>7 DEF Rewrites

\* Removing entries removes the rows of their tokens and no other.
LEMMA ByTokenRemove ==
    ASSUME NEW f, UniqueTokens(f), NEW S, S \subseteq DOMAIN f,
           NEW g, g = [l \in DOMAIN f \ S |-> f[l]]
    PROVE  /\ UniqueTokens(g)
           /\ ByToken(g) = [j \in DOMAIN ByToken(f) \ {f[k].token : k \in S} |-> ByToken(f)[j]]
<1>0. DOMAIN g = DOMAIN f \ S /\ \A l \in DOMAIN g : l \in DOMAIN f /\ g[l] = f[l]
  OBVIOUS
<1>1. UniqueTokens(g)
  BY <1>0 DEF UniqueTokens
<1>2. Finds(f) /\ Finds(g)
  BY <1>1, ByTokenFinds
<1>3. DOMAIN ByToken(g) = DOMAIN ByToken(f) \ {f[k].token : k \in S}
  <2>1. Tokens(g) = Tokens(f) \ {f[k].token : k \in S}
    BY <1>0 DEF Tokens, UniqueTokens
  <2> QED
    BY <1>2, <2>1 DEF Finds
<1>4. ASSUME NEW j \in DOMAIN ByToken(g)
      PROVE  ByToken(g)[j] = ByToken(f)[j]
  <2>1. PICK l \in DOMAIN g : g[l].token = j
    BY <1>2 DEF Finds, Tokens
  <2>2. ByToken(g)[j] = g[l]
    BY <1>2, <2>1 DEF Finds
  <2>3. ByToken(f)[j] = f[l]
    BY <1>0, <1>2, <2>1 DEF Finds
  <2> QED
    BY <1>0, <2>1, <2>2, <2>3
<1>5. ByToken(g) = [j \in DOMAIN ByToken(g) |-> ByToken(g)[j]]
  BY <1>2 DEF Finds
<1> QED
  BY <1>1, <1>3, <1>4, <1>5

-----------------------------------------------------------------------------
LEMMA InitInv == Init => IInv
BY DataAssumption DEF Init, IInv, TypeOK, EntriesSound, UniqueTokens, LedgerTrue, PointersLive,
   ForgottenOnlyWhenClosed

\* Storing a room under a free key, with a fresh token.
LEMMA InsertSound ==
    ASSUME IInv, NEW k \in Keys, NEW i \in Ids, NEW p \in Payloads, now' = now, Insert(k, i, p)
    PROVE  /\ EntriesSound'
           /\ rooms' \in [DOMAIN rooms' -> Row] /\ DOMAIN rooms' = DOMAIN rooms \cup {k}
           /\ rooms'[k].token = i
           /\ minted' = minted \cup {i} /\ i \notin minted /\ k \notin DOMAIN rooms
           /\ \A l \in DOMAIN rooms : rooms'[l] = rooms[l]
<1> DEFINE row == NewRow(k, i, p, now)
<1>1. row \in Row /\ row.key = k /\ row.token = i /\ row.created = now
  BY NewRowSound DEF IInv, TypeOK
<1>2. /\ k \notin DOMAIN rooms /\ i \notin minted /\ minted' = minted \cup {i}
      /\ rooms' = [l \in DOMAIN rooms \cup {k} |-> IF l = k THEN row ELSE rooms[l]]
  BY DEF Insert
<1> HIDE DEF row
<1>3. /\ DOMAIN rooms' = DOMAIN rooms \cup {k} /\ rooms'[k] = row
      /\ \A l \in DOMAIN rooms : rooms'[l] = rooms[l]
  BY <1>2
<1>4. rooms' \in [DOMAIN rooms' -> Row]
  BY <1>1, <1>2 DEF IInv, TypeOK
<1>5. EntriesSound'
  BY <1>1, <1>2, <1>3 DEF IInv, TypeOK, EntriesSound, UniqueTokens
<1> QED
  BY <1>1, <1>2, <1>3, <1>4, <1>5

LEMMA CreatePlainInv ==
    ASSUME IInv, NEW k \in Keys, NEW i \in Ids, NEW p \in Payloads, CreatePlain(k, i, p)
    PROVE  IInv'
<1>1. UNCHANGED <<now, publications, publication, answered>>
  BY DEF CreatePlain
<1>2. /\ EntriesSound'
      /\ rooms' \in [DOMAIN rooms' -> Row] /\ DOMAIN rooms' = DOMAIN rooms \cup {k}
      /\ minted' = minted \cup {i} /\ k \notin DOMAIN rooms
      /\ \A l \in DOMAIN rooms : rooms'[l] = rooms[l]
  BY <1>1, InsertSound DEF CreatePlain
<1>3. TypeOK'
  BY <1>1, <1>2 DEF IInv, TypeOK
<1>4. LedgerTrue' /\ ForgottenOnlyWhenClosed'
  BY <1>1 DEF IInv, LedgerTrue, ForgottenOnlyWhenClosed
<1>5. PointersLive'
  BY <1>1, <1>2 DEF IInv, PointersLive
<1> QED
  BY <1>2, <1>3, <1>4, <1>5 DEF IInv

LEMMA CreateRecoverableInv ==
    ASSUME IInv, NEW h \in Caps, NEW k \in Keys, NEW i \in Ids, NEW p \in Payloads,
           CreateRecoverable(h, k, i, p)
    PROVE  IInv'
<1> DEFINE entry == [payload |-> p, key |-> k, room |-> i]
<1>1. /\ now' = now
      /\ publications' = [g \in DOMAIN publications \cup {h} |-> IF g = h THEN entry ELSE publications[g]]
      /\ publication' = [publication EXCEPT ![h] = [room |-> i, payload |-> p]]
      /\ answered' = [answered EXCEPT ![h] = answered[h] \cup {<<k, i>>}]
  BY DEF CreateRecoverable
<1>2. /\ EntriesSound'
      /\ rooms' \in [DOMAIN rooms' -> Row] /\ DOMAIN rooms' = DOMAIN rooms \cup {k}
      /\ rooms'[k].token = i
      /\ minted' = minted \cup {i} /\ k \notin DOMAIN rooms
      /\ \A l \in DOMAIN rooms : rooms'[l] = rooms[l]
  BY <1>1, InsertSound DEF CreateRecoverable
<1>3. /\ DOMAIN publications' = DOMAIN publications \cup {h} /\ publications'[h] = entry
      /\ \A g \in DOMAIN publications : g # h => publications'[g] = publications[g]
  BY <1>1
<1>4. /\ publication'[h] = [room |-> i, payload |-> p]
      /\ \A g \in Caps : g # h => publication'[g] = publication[g]
  BY <1>1 DEF IInv, TypeOK
<1>5. publication'[h] # NoRoom
  BY <1>4, DataAssumption DEF Publication
<1>6. TypeOK'
  BY <1>1, <1>2 DEF IInv, TypeOK, Publication
<1>7. LedgerTrue'
  BY <1>3, <1>4, <1>5 DEF IInv, LedgerTrue, TypeOK
<1>8. PointersLive'
  BY <1>2, <1>3 DEF IInv, PointersLive
<1>9. ForgottenOnlyWhenClosed'
  BY <1>1, <1>3, <1>4 DEF IInv, ForgottenOnlyWhenClosed, TypeOK
<1> QED
  BY <1>2, <1>6, <1>7, <1>8, <1>9 DEF IInv

LEMMA CreateReplayedInv ==
    ASSUME IInv, NEW h \in Caps, NEW p \in Payloads, CreateReplayed(h, p)
    PROVE  IInv'
<1> DEFINE k == publications[h].key
<1>1. /\ k \in DOMAIN rooms
      /\ answered' = [answered EXCEPT ![h] = answered[h] \cup {<<k, rooms[k].token>>}]
      /\ UNCHANGED <<now, rooms, publications, minted, publication>>
  BY DEF CreateReplayed
<1>2. k \in Keys /\ rooms[k].token \in Ids
  BY <1>1 DEF IInv, TypeOK, Row
<1> HIDE DEF k
<1>3. TypeOK'
  BY <1>1, <1>2 DEF IInv, TypeOK
<1> QED
  BY <1>1, <1>3 DEF IInv, EntriesSound, UniqueTokens, LedgerTrue, PointersLive, ForgottenOnlyWhenClosed

\* Rewriting one row, keeping its key, token and creation date.
LEMMA RewriteInv ==
    ASSUME IInv, NEW k \in DOMAIN rooms, NEW row \in Row,
           row.key = rooms[k].key, row.token = rooms[k].token, row.created = rooms[k].created,
           rooms' = [rooms EXCEPT ![k] = row],
           UNCHANGED <<now, publications, minted, publication, answered>>
    PROVE  IInv'
<1>1. /\ rooms' \in [DOMAIN rooms' -> Row] /\ DOMAIN rooms' = DOMAIN rooms
      /\ \A l \in DOMAIN rooms : /\ rooms'[l].key = rooms[l].key
                                 /\ rooms'[l].token = rooms[l].token
                                 /\ rooms'[l].created = rooms[l].created
  BY DEF IInv, TypeOK
<1>2. TypeOK' /\ EntriesSound'
  BY <1>1 DEF IInv, TypeOK, EntriesSound, UniqueTokens
<1>3. LedgerTrue' /\ PointersLive' /\ ForgottenOnlyWhenClosed'
  BY <1>1 DEF IInv, LedgerTrue, PointersLive, ForgottenOnlyWhenClosed
<1> QED
  BY <1>2, <1>3 DEF IInv

\* Rooms that leave the map take every reference to them along.
LEMMA DropInv ==
    ASSUME IInv, NEW S \in SUBSET Keys, S \subseteq DOMAIN rooms, Drop(S)
    PROVE  IInv'
<1>1. /\ rooms' = [k \in DOMAIN rooms \ S |-> rooms[k]]
      /\ UNCHANGED <<now, minted, publication, answered>>
      /\ DOMAIN publications' = DOMAIN publications
      /\ \A h \in DOMAIN publications : publications'[h] =
            IF \E k \in S : rooms[k].token = publications[h].room
            THEN [publications[h] EXCEPT !.room = NoRoom] ELSE publications[h]
      /\ publications' = [h \in DOMAIN publications |-> publications'[h]]
  BY DEF Drop
<1>2. \A h \in DOMAIN publications :
         /\ publications'[h] \in [payload : Payloads, key : Keys, room : Ids \cup {NoRoom}]
         /\ publications'[h].payload = publications[h].payload
         /\ publications'[h].key = publications[h].key
         /\ \/ publications'[h].room = NoRoom
            \/ /\ publications'[h].room = publications[h].room
               /\ \A k \in S : rooms[k].token # publications[h].room
  BY <1>1 DEF IInv, TypeOK
<1>3. TypeOK'
  BY <1>1, <1>2 DEF IInv, TypeOK
<1>4. EntriesSound'
  BY <1>1 DEF IInv, EntriesSound, UniqueTokens
<1>5. LedgerTrue' /\ ForgottenOnlyWhenClosed'
  BY <1>1, <1>2 DEF IInv, LedgerTrue, ForgottenOnlyWhenClosed
<1>6. PointersLive'
  BY <1>1, <1>2 DEF IInv, PointersLive
<1> QED
  BY <1>3, <1>4, <1>5, <1>6 DEF IInv

LEMMA PurgePublicationsInv ==
    ASSUME IInv, NEW H \in SUBSET Caps, PurgePublications(H)
    PROVE  IInv'
<1>1. /\ publications' = [h \in DOMAIN publications \ H |-> publications[h]]
      /\ UNCHANGED <<now, rooms, minted, publication, answered>>
      /\ \A h \in H : WindowEnd(h) <= now
  BY DEF PurgePublications, Batch
<1>2. TypeOK'
  BY <1>1 DEF IInv, TypeOK
<1>3. EntriesSound' /\ LedgerTrue' /\ PointersLive'
  BY <1>1 DEF IInv, EntriesSound, UniqueTokens, LedgerTrue, PointersLive
<1>4. ForgottenOnlyWhenClosed'
  BY <1>1 DEF IInv, ForgottenOnlyWhenClosed
<1> QED
  BY <1>2, <1>3, <1>4 DEF IInv

LEMMA ClaimInv ==
    ASSUME IInv, NEW k \in Keys, NEW r \in Roles, NEW n \in Names, Claim(k, r, n)
    PROVE  IInv'
<1> DEFINE row == Claimed(rooms[k], r, n)
<1>1. /\ k \in DOMAIN rooms /\ rooms[k] \in Row /\ r \in RolesOf[rooms[k].payload]
      /\ rooms' = [rooms EXCEPT ![k] = row]
  BY DEF Claim, IInv, TypeOK
<1>2. /\ row \in Row
      /\ row.key = rooms[k].key /\ row.token = rooms[k].token /\ row.created = rooms[k].created
  BY <1>1, ClaimedSound
<1> HIDE DEF row
<1> QED
  BY <1>1, <1>2, RewriteInv DEF Claim

LEMMA RepublishInv ==
    ASSUME IInv, NEW k \in Keys, NEW token \in Ids, NEW p \in Payloads, Republish(k, token, p)
    PROVE  IInv'
<1> DEFINE row == Republished(rooms[k], p)
<1>1. /\ k \in DOMAIN rooms /\ rooms[k] \in Row /\ rooms[k].version < MaxVersion
      /\ rooms' = [rooms EXCEPT ![k] = row]
  BY DEF Republish, IInv, TypeOK
<1>2. /\ row \in Row
      /\ row.key = rooms[k].key /\ row.token = rooms[k].token /\ row.created = rooms[k].created
  BY <1>1, RepublishedSound
<1> HIDE DEF row
<1> QED
  BY <1>1, <1>2, RewriteInv DEF Republish

LEMMA TickInv == ASSUME IInv, Tick PROVE IInv'
<1>1. /\ now' = now + 1 /\ now' \in 0..MaxNow
      /\ UNCHANGED <<rooms, publications, minted, publication, answered>>
  BY DataAssumption DEF Tick, IInv, TypeOK
<1>2. TypeOK' /\ LedgerTrue' /\ PointersLive'
  BY <1>1 DEF IInv, TypeOK, LedgerTrue, PointersLive
<1>3. EntriesSound'
  <2>1. \A k \in DOMAIN rooms : rooms[k].created \in Nat
    BY DEF IInv, TypeOK, Row
  <2> QED
    BY <1>1, <2>1 DEF IInv, TypeOK, EntriesSound, UniqueTokens
<1>4. ForgottenOnlyWhenClosed'
  BY <1>1, DataAssumption DEF IInv, TypeOK, ForgottenOnlyWhenClosed, WindowEnd
<1> QED
  BY <1>2, <1>3, <1>4 DEF IInv

LEMMA NextInv == IInv /\ [Next]_vars => IInv'
<1> SUFFICES ASSUME IInv, [Next]_vars PROVE IInv'
  OBVIOUS
<1>1. CASE Tick
  BY <1>1, TickInv
<1>2. CASE \E k \in Keys, i \in Ids, p \in Payloads : CreatePlain(k, i, p)
  BY <1>2, CreatePlainInv
<1>3. CASE \E k \in Keys, i \in Ids, p \in Payloads, h \in Caps : CreateRecoverable(h, k, i, p)
  BY <1>3, CreateRecoverableInv
<1>4. CASE \E k \in Keys, i \in Ids, p \in Payloads : Republish(k, i, p)
  BY <1>4, RepublishInv
<1>5. CASE \E h \in Caps, p \in Payloads : CreateReplayed(h, p)
  BY <1>5, CreateReplayedInv
<1>6. CASE \E k \in Keys, r \in Roles, n \in Names : Claim(k, r, n)
  BY <1>6, ClaimInv
<1>7. CASE \E k \in Keys, i \in Ids : Delete(k, i)
  BY <1>7, DropInv DEF Delete
<1>8. CASE \E S \in SUBSET Keys : PurgeExpired(S)
  BY <1>8, DropInv DEF PurgeExpired, Batch
<1>9. CASE \E H \in SUBSET Caps : PurgePublications(H)
  BY <1>9, PurgePublicationsInv
<1>10. CASE UNCHANGED vars
  BY <1>10 DEF vars, IInv, TypeOK, EntriesSound, UniqueTokens, LedgerTrue, PointersLive,
     ForgottenOnlyWhenClosed
<1> QED
  BY <1>1, <1>2, <1>3, <1>4, <1>5, <1>6, <1>7, <1>8, <1>9, <1>10 DEF Next

-----------------------------------------------------------------------------
\* The inductive invariant of the development store.
THEOREM Invariance == Spec => []IInv
<1> QED
  BY InitInv, NextInv, PTL DEF Spec

\* Type correctness of the two maps and the history.
THEOREM StoreTyped == Spec => []TypeOK
<1>1. IInv => TypeOK
  BY DEF IInv
<1> QED
  BY Invariance, <1>1, PTL

\* No publication points to a room that has left the map.
THEOREM StorePointersLive == Spec => []PointersLive
<1>1. IInv => PointersLive
  BY DEF IInv
<1> QED
  BY Invariance, <1>1, PTL

\* A capability that may still be used is still remembered.
THEOREM StoreRemembers == Spec => []ForgottenOnlyWhenClosed
<1>1. IInv => ForgottenOnlyWhenClosed
  BY DEF IInv
<1> QED
  BY Invariance, <1>1, PTL

\* Once expired, a room is frozen until it leaves the map.
LEMMA StepFreezes ==
    IInv /\ [Next]_vars =>
        [\A k \in DOMAIN rooms \cap DOMAIN rooms' : Expired(k) => rooms'[k] = rooms[k]]_vars
<1> SUFFICES ASSUME IInv, Next, NEW k \in DOMAIN rooms \cap DOMAIN rooms', Expired(k)
             PROVE  rooms'[k] = rooms[k]
  BY DEF vars
<1>1. CASE rooms' = rooms
  BY <1>1
<1>2. ASSUME NEW l, NEW i, NEW p, Insert(l, i, p) PROVE rooms'[k] = rooms[k]
  BY <1>2 DEF Insert
<1>3. ASSUME NEW S, Drop(S) PROVE rooms'[k] = rooms[k]
  BY <1>3 DEF Drop
<1>4. ASSUME NEW l \in Keys, NEW r, NEW n, Claim(l, r, n) PROVE rooms'[k] = rooms[k]
  BY <1>4 DEF Claim
<1>5. ASSUME NEW l \in Keys, NEW i, NEW p, Republish(l, i, p) PROVE rooms'[k] = rooms[k]
  BY <1>5 DEF Republish
<1> QED
  BY <1>1, <1>2, <1>3, <1>4, <1>5
  DEF Next, Tick, CreatePlain, CreateRecoverable, CreateReplayed, Delete, PurgeExpired, PurgePublications

\* No link and no token writes to an expired room.
THEOREM StoreFreezes == Spec => ExpiredRoomsFrozen
<1> QED
  BY Invariance, StepFreezes, PTL DEF Spec, ExpiredRoomsFrozen

-----------------------------------------------------------------------------
\* The refinement: every method is the operation of the service it implements.

LEMMA InitRefines == Init => Service!Init
<1> SUFFICES ASSUME Init PROVE Service!Init
  OBVIOUS
<1>1. ByToken(rooms) = [i \in {} |-> i]
  BY DEF Init, ByToken
<1> QED
  BY <1>1 DEF Init, Service!Init

\* A stored room is found by its token, with the row of the map.
LEMMA TableFinds ==
    ASSUME IInv, NEW k \in DOMAIN rooms
    PROVE  /\ rooms[k].token \in DOMAIN ByToken(rooms)
           /\ ByToken(rooms)[rooms[k].token] = rooms[k]
BY ByTokenFinds DEF IInv, EntriesSound, Finds, Tokens

LEMMA InsertRefines ==
    ASSUME IInv, NEW k \in Keys, NEW i \in Ids, NEW p \in Payloads, Insert(k, i, p)
    PROVE  Service!Store(i, NewRow(k, i, p, now))
<1> DEFINE row == NewRow(k, i, p, now)
<1>1. row.key = k /\ row.token = i
  BY DEF NewRow
<1>2. /\ k \notin DOMAIN rooms /\ i \notin minted /\ minted' = minted \cup {i}
      /\ rooms' = [l \in DOMAIN rooms \cup {k} |-> IF l = k THEN row ELSE rooms[l]]
  BY DEF Insert
<1> HIDE DEF row
<1>3. UniqueTokens(rooms) /\ \A l \in DOMAIN rooms : rooms[l].token # row.token
  BY <1>1, <1>2 DEF IInv, EntriesSound
<1>4. ByToken(rooms') = [j \in DOMAIN ByToken(rooms) \cup {row.token} |->
                           IF j = row.token THEN row ELSE ByToken(rooms)[j]]
  BY <1>2, <1>3, ByTokenAdd
<1>5. \A j \in DOMAIN ByToken(rooms) : ByToken(rooms)[j].key # k
  <2> SUFFICES ASSUME NEW j \in DOMAIN ByToken(rooms) PROVE ByToken(rooms)[j].key # k
    OBVIOUS
  <2>1. DOMAIN ByToken(rooms) = Tokens(rooms)
    BY <1>3, ByTokenFinds DEF Finds
  <2>2. PICK l \in DOMAIN rooms : rooms[l].token = j
    BY <2>1 DEF Tokens
  <2>3. ByToken(rooms)[j] = rooms[l] /\ rooms[l].key = l
    BY <2>2, TableFinds DEF IInv, EntriesSound
  <2> QED
    BY <1>2, <2>3
<1> QED
  BY <1>1, <1>2, <1>4, <1>5 DEF Service!Store, row

LEMMA CreatePlainRefines ==
    ASSUME IInv, NEW k \in Keys, NEW i \in Ids, NEW p \in Payloads, CreatePlain(k, i, p)
    PROVE  Service!Next
<1>1. Service!Store(i, NewRow(k, i, p, now))
  BY InsertRefines DEF CreatePlain
<1>2. NewRow(k, i, p, now) = Service!NewRow(k, i, p, now)
  BY DEF NewRow, Service!NewRow
<1>3. Service!Create(i, k, p, now)
  BY <1>1, <1>2 DEF CreatePlain, Service!Create, Service!decisions
<1>4. now \in 0..now
  BY DEF IInv, TypeOK
<1> QED
  BY <1>3, <1>4 DEF Service!Next

\* While its window is open, a capability that created a room is remembered.
LEMMA OpenWindow ==
    ASSUME IInv, NEW h \in Caps, InWindow(h, now)
    PROVE  ~(WindowEnd(h) <= now)
<1>1. now < WindowEnd(h)
  BY DEF InWindow
<1>2. WindowEnd(h) \in Int /\ now \in Int
  BY DataAssumption DEF WindowEnd, IInv, TypeOK
<1> QED
  BY <1>1, <1>2

LEMMA CreateRecoverableRefines ==
    ASSUME IInv, NEW h \in Caps, NEW k \in Keys, NEW i \in Ids, NEW p \in Payloads,
           CreateRecoverable(h, k, i, p)
    PROVE  Service!Next
<1>1. Service!Store(i, NewRow(k, i, p, now))
  BY InsertRefines DEF CreateRecoverable
<1>2. NewRow(k, i, p, now) = Service!NewRow(k, i, p, now)
  BY DEF NewRow, Service!NewRow
<1>3. publication[h] = NoRoom
  <2>1. ~(WindowEnd(h) <= now)
    BY OpenWindow DEF CreateRecoverable
  <2>2. h \notin DOMAIN publications
    BY DEF CreateRecoverable
  <2> QED
    BY <2>1, <2>2 DEF IInv, ForgottenOnlyWhenClosed
<1>4. Service!InWindow(h, now)
  BY DEF CreateRecoverable, InWindow, WindowEnd, Service!InWindow, Service!WindowEnd
<1>5. Service!Publish(h, i, k, p, now)
  BY <1>1, <1>2, <1>3, <1>4 DEF CreateRecoverable, Service!Publish, Service!MayPublish
<1>6. now \in 0..now
  BY DEF IInv, TypeOK
<1> QED
  BY <1>5, <1>6 DEF Service!Next

\* A room in the map that has not expired is live for the service.
LEMMA LiveNow ==
    ASSUME IInv, NEW k \in DOMAIN rooms, ~Expired(k)
    PROVE  Service!Live(rooms[k].token)
<1> DEFINE i == rooms[k].token
<1>1. i \in DOMAIN ByToken(rooms) /\ ByToken(rooms)[i] = rooms[k]
  BY TableFinds
<1>2. rooms[k].expires \in Nat
  BY DEF IInv, TypeOK, Row
<1> QED
  BY <1>1, <1>2 DEF Service!Live, Expired, IInv, TypeOK

LEMMA CreateReplayedRefines ==
    ASSUME IInv, NEW h \in Caps, NEW p \in Payloads, CreateReplayed(h, p)
    PROVE  Service!Next
<1> DEFINE k == publications[h].key
<1>1. /\ InWindow(h, now) /\ h \in DOMAIN publications /\ publications[h].payload = p
      /\ k \in DOMAIN rooms /\ rooms[k].token = publications[h].room /\ ~Expired(k)
      /\ publications[h].room # NoRoom
      /\ answered' = [answered EXCEPT ![h] = answered[h] \cup {<<k, rooms[k].token>>}]
      /\ UNCHANGED <<now, rooms, publications, minted, publication>>
  BY DEF CreateReplayed
<1>2. publication[h] # NoRoom
  BY <1>1 DEF IInv, LedgerTrue
<1>3. publication[h].payload = p /\ publication[h].room = rooms[k].token
  <2>1. ~(WindowEnd(h) <= now)
    BY <1>1, OpenWindow
  <2> QED
    BY <1>1, <1>2, <2>1 DEF IInv, ForgottenOnlyWhenClosed
<1>4. Service!Live(rooms[k].token)
  BY <1>1, LiveNow
<1>5. Service!InWindow(h, now)
  BY <1>1 DEF InWindow, WindowEnd, Service!InWindow, Service!WindowEnd
<1>6. ByToken(rooms)[rooms[k].token].key = k
  BY <1>1, TableFinds DEF IInv, EntriesSound
<1>7. rooms[k].token \in DOMAIN ByToken(rooms)
  BY <1>1, TableFinds
<1>8. Service!Replay(h, p)
  BY <1>1, <1>2, <1>3, <1>4, <1>5, <1>6, <1>7
  DEF Service!Replay, Service!MayPublish, Service!MayAnswer
<1> QED
  BY <1>8 DEF Service!Next

\* Rewriting a row of the map rewrites that row of the service.
LEMMA RewriteRefines ==
    ASSUME IInv, NEW k \in DOMAIN rooms, NEW row, row.token = rooms[k].token,
           rooms' = [rooms EXCEPT ![k] = row]
    PROVE  ByToken(rooms') = [ByToken(rooms) EXCEPT ![row.token] = row]
<1>1. UniqueTokens(rooms) /\ Rewrites(rooms', rooms, k, row)
  BY DEF IInv, TypeOK, EntriesSound, Rewrites
<1>2. UniqueTokens(rooms') /\ Rewrites(ByToken(rooms'), ByToken(rooms), row.token, row)
  BY <1>1, ByTokenExcept
<1>3. /\ ByToken(rooms) = [j \in DOMAIN ByToken(rooms) |-> ByToken(rooms)[j]]
      /\ ByToken(rooms') = [j \in DOMAIN ByToken(rooms') |-> ByToken(rooms')[j]]
  BY <1>1, <1>2, ByTokenFinds DEF Finds
<1> QED
  BY <1>2, <1>3 DEF Rewrites

LEMMA ClaimRefines ==
    ASSUME IInv, NEW k \in Keys, NEW r \in Roles, NEW n \in Names, Claim(k, r, n)
    PROVE  Service!Next
<1> DEFINE row == Claimed(rooms[k], r, n)
           i   == rooms[k].token
<1>1. /\ k \in DOMAIN rooms /\ rooms[k] \in Row /\ ~Expired(k)
      /\ r \in RolesOf[rooms[k].payload] /\ rooms' = [rooms EXCEPT ![k] = row]
      /\ UNCHANGED <<now, publications, minted, publication, answered>>
  BY DEF Claim, IInv, TypeOK
<1>2. row.token = i
  BY <1>1, ClaimedSound
<1>3. ByToken(rooms)[i] = rooms[k] /\ Service!Live(i)
  BY <1>1, TableFinds, LiveNow
<1>4. row = Service!Claimed(rooms[k], r, n)
  BY DEF Claimed, Service!Claimed
<1> HIDE DEF row
<1>5. ByToken(rooms') = [ByToken(rooms) EXCEPT ![i] = row]
  BY <1>1, <1>2, RewriteRefines
<1>6. Service!Claim(i, r, n)
  BY <1>1, <1>3, <1>4, <1>5 DEF Service!Claim, Service!Change, Service!MayChange, Service!Live
<1>7. i \in Ids
  BY <1>1 DEF IInv, TypeOK, Row
<1> QED
  BY <1>6, <1>7 DEF Service!Next

LEMMA RepublishRefines ==
    ASSUME IInv, NEW k \in Keys, NEW token \in Ids, NEW p \in Payloads, Republish(k, token, p)
    PROVE  Service!Next
<1> DEFINE row == Republished(rooms[k], p)
<1>1. /\ k \in DOMAIN rooms /\ rooms[k] \in Row /\ ~Expired(k)
      /\ rooms[k].token = token /\ rooms[k].version < MaxVersion
      /\ rooms' = [rooms EXCEPT ![k] = row]
      /\ UNCHANGED <<now, publications, minted, publication, answered>>
  BY DEF Republish, IInv, TypeOK
<1>2. row.token = token
  BY <1>1, RepublishedSound
<1>3. ByToken(rooms)[token] = rooms[k] /\ Service!Live(token)
  BY <1>1, TableFinds, LiveNow
<1>4. row = Service!Republished(rooms[k], p)
  BY DEF Republished, Service!Republished
<1> HIDE DEF row
<1>5. ByToken(rooms') = [ByToken(rooms) EXCEPT ![token] = row]
  BY <1>1, <1>2, RewriteRefines
<1>6. Service!Republish(token, p)
  BY <1>1, <1>3, <1>4, <1>5 DEF Service!Republish, Service!Change, Service!MayChange, Service!Live
<1> QED
  BY <1>6 DEF Service!Next

\* Entries dropped by the host, or by maintenance because they expired.
LEMMA DropRefines ==
    ASSUME IInv, NEW S \in SUBSET Keys, S \subseteq DOMAIN rooms, Drop(S),
           \/ \E k \in S : S = {k}
           \/ \A k \in S : Expired(k)
    PROVE  Service!Next
<1> DEFINE gone == {rooms[k].token : k \in S}
<1>1. /\ rooms' = [k \in DOMAIN rooms \ S |-> rooms[k]]
      /\ UNCHANGED <<now, minted, publication, answered>>
  BY DEF Drop
<1>2. UniqueTokens(rooms)
  BY DEF IInv, EntriesSound
<1>3. ByToken(rooms') = [j \in DOMAIN ByToken(rooms) \ gone |-> ByToken(rooms)[j]]
  BY <1>1, <1>2, ByTokenRemove
<1>4. /\ gone \subseteq DOMAIN ByToken(rooms)
      /\ gone \subseteq Ids
      /\ \A k \in S : ByToken(rooms)[rooms[k].token] = rooms[k]
  BY TableFinds DEF IInv, TypeOK, Row
<1>5. \/ \E i \in gone : gone = {i}
      \/ \A i \in gone : ByToken(rooms)[i].expires <= now
  <2>1. CASE \E k \in S : S = {k}
    BY <2>1
  <2>2. CASE \A k \in S : Expired(k)
    BY <1>4, <2>2 DEF Expired
  <2> QED
    BY <2>1, <2>2
<1> HIDE DEF gone
<1>6. Service!Remove(gone)
  BY <1>1, <1>3, <1>4, <1>5 DEF Service!Remove, Service!decisions
<1> QED
  BY <1>4, <1>6 DEF Service!Next

LEMMA NextRefines == IInv /\ [Next]_vars => [Service!Next]_Service!vars
<1> SUFFICES ASSUME IInv, [Next]_vars PROVE Service!Next \/ UNCHANGED Service!vars
  OBVIOUS
<1>1. CASE Tick
  BY <1>1 DEF Tick, Service!Tick, Service!Next, Service!decisions
<1>2. CASE \E k \in Keys, i \in Ids, p \in Payloads : CreatePlain(k, i, p)
  BY <1>2, CreatePlainRefines
<1>3. CASE \E k \in Keys, i \in Ids, p \in Payloads, h \in Caps : CreateRecoverable(h, k, i, p)
  BY <1>3, CreateRecoverableRefines
<1>4. CASE \E k \in Keys, i \in Ids, p \in Payloads : Republish(k, i, p)
  BY <1>4, RepublishRefines
<1>5. CASE \E h \in Caps, p \in Payloads : CreateReplayed(h, p)
  BY <1>5, CreateReplayedRefines
<1>6. CASE \E k \in Keys, r \in Roles, n \in Names : Claim(k, r, n)
  BY <1>6, ClaimRefines
<1>7. CASE \E k \in Keys, i \in Ids : Delete(k, i)
  BY <1>7, DropRefines DEF Delete
<1>8. CASE \E S \in SUBSET Keys : PurgeExpired(S)
  BY <1>8, DropRefines DEF PurgeExpired, Batch
<1>9. CASE \E H \in SUBSET Caps : PurgePublications(H)
  BY <1>9 DEF PurgePublications, Service!vars, Service!decisions
<1>10. CASE UNCHANGED vars
  BY <1>10 DEF vars, Service!vars, Service!decisions
<1> QED
  BY <1>1, <1>2, <1>3, <1>4, <1>5, <1>6, <1>7, <1>8, <1>9, <1>10 DEF Next

\* The development store is a room service: what is proved of RoomService
\* in RoomServiceProofs holds of it.
THEOREM StoreImplementsService == Spec => ImplementsService
<1> QED
  BY Invariance, InitRefines, NextRefines, PTL DEF Spec, ImplementsService, Service!Spec

\* The service the promises are proved of is the one implemented.
LEMMA PromisedService == Service!Spec => Promise!Spec
<1>1. Service!Init => Promise!Init
  BY DEF Service!Init, Promise!Init
<1>2. [Service!Next]_Service!vars => [Promise!Next]_Promise!vars
  BY DEF Service!Next, Promise!Next, Service!vars, Promise!vars, Service!Tick, Promise!Tick,
     Service!Create, Promise!Create, Service!Publish, Promise!Publish, Service!Replay, Promise!Replay,
     Service!Claim, Promise!Claim, Service!Republish, Promise!Republish, Service!Remove, Promise!Remove,
     Service!Hold, Promise!Hold, Service!Admit, Promise!Admit, Service!Locate, Promise!Locate,
     Service!Withdraw, Promise!Withdraw, Service!Change, Promise!Change,
     Service!MayChange, Promise!MayChange, Service!MayPublish, Promise!MayPublish,
     Service!MayAnswer, Promise!MayAnswer, Service!decisions, Promise!decisions,
     Service!Store, Promise!Store, Service!Live, Promise!Live, Service!InWindow, Promise!InWindow,
     Service!WindowEnd, Promise!WindowEnd, Service!NewRow, Promise!NewRow,
     Service!Claimed, Promise!Claimed, Service!Republished, Promise!Republished
<1> QED
  BY <1>1, <1>2, PTL DEF Service!Spec, Promise!Spec

\* So a key opens one stored room, which claims only roles it declares, all the
\* answers to a capability agree, and a removed room never comes back.
THEOREM StoreKeepsPromises ==
    Spec => [](Promise!RoomsSound /\ Promise!OneRoomPerCapability) /\ Promise!NothingReturns
BY SameData, StoreImplementsService, PromisedService, Promise!ServiceRoomsSound, Promise!ServiceOneRoom,
   Promise!ServiceEvolves, PTL DEF ImplementsService
=============================================================================
