------------------------- MODULE RoomServiceProofs -------------------------
(***************************************************************************)
(* Safety of RoomService, for every set of keys, rooms, capabilities and    *)
(* payloads and every setting of the clocks and bounds.                     *)
(***************************************************************************)
EXTENDS RoomService, TLAPS

-----------------------------------------------------------------------------
(* What the operators on rows return and preserve.                           *)

\* A new row is well formed, carries its key and token, and claims nothing.
LEMMA NewRowSound ==
    ASSUME NEW k \in Keys, NEW i \in Ids, NEW p \in Payloads, NEW t \in Nat
    PROVE  LET new == NewRow(k, i, p, t)
           IN  /\ new \in Row
               /\ new.key = k /\ new.token = i /\ new.created = t
               /\ ClaimsNameRoles(new)
BY DataAssumption DEF NewRow, Row, ClaimsNameRoles

\* A claim of a declared role changes nothing else and names that role.
LEMMA ClaimedSound ==
    ASSUME NEW row \in Row, NEW r \in RolesOf[row.payload], NEW n \in Names
    PROVE  LET new == Claimed(row, r, n)
           IN  /\ new \in Row
               /\ new.key = row.key /\ new.token = row.token /\ new.created = row.created
               /\ ClaimsNameRoles(row) => ClaimsNameRoles(new)
<1>1. r \in Roles
  BY DataAssumption DEF Row
<1> QED
  BY <1>1, DataAssumption DEF Claimed, Row, ClaimsNameRoles

\* A republished row keeps its identity and claims only roles it declares.
LEMMA RepublishedSound ==
    ASSUME NEW row \in Row, row.version < MaxVersion, NEW p \in Payloads
    PROVE  LET new == Republished(row, p)
           IN  /\ new \in Row
               /\ new.key = row.key /\ new.token = row.token /\ new.created = row.created
               /\ ClaimsNameRoles(new)
<1> DEFINE kept == [r \in Roles |-> IF r \in RolesOf[p] THEN row.claims[r] ELSE Nobody]
           new  == Republished(row, p)
<1>1. kept \in [Roles -> Names \cup {Nobody}]
  BY DEF Row
<1>2. new = [row EXCEPT !.payload = p, !.version = row.version + 1, !.claims = kept]
  BY DEF Republished
<1>3. row.version + 1 \in 1..MaxVersion
  BY DataAssumption DEF Row
<1>4. new \in Row
  <2> HIDE DEF kept
  <2> QED BY <1>1, <1>2, <1>3 DEF Row
<1>5. new.key = row.key /\ new.token = row.token /\ new.created = row.created
  BY <1>2 DEF Row
<1>6. new.claims = kept /\ new.payload = p
  BY <1>2 DEF Row
<1>7. ClaimsNameRoles(new)
  BY <1>6 DEF ClaimsNameRoles
<1> QED
  BY <1>4, <1>5, <1>7

-----------------------------------------------------------------------------
\* What makes OneRoomPerCapability inductive: an answer names the room the
\* capability created, under the key the room has for as long as it is stored.
AnswersMatch ==
    \A h \in Caps : \A a \in answered[h] :
        /\ publication[h] # NoRoom
        /\ a[2] = publication[h].room
        /\ a[2] \in minted
        /\ a[2] \in DOMAIN rooms => rooms[a[2]].key = a[1]

IInv == TypeOK /\ RoomsSound /\ AnswersMatch /\ OneRoomPerCapability

\* Storing a new room keeps the table well formed.
LEMMA StoreSound ==
    ASSUME TypeOK, RoomsSound,
           NEW i \in Ids, NEW k \in Keys, NEW p \in Payloads, NEW t \in Nat,
           Store(i, NewRow(k, i, p, t))
    PROVE  /\ rooms' \in [DOMAIN rooms' -> Row]
           /\ DOMAIN rooms' = DOMAIN rooms \cup {i}
           /\ minted' = minted \cup {i} /\ i \notin minted
           /\ rooms'[i].key = k
           /\ \A j \in DOMAIN rooms : rooms'[j] = rooms[j]
           /\ RoomsSound'
<1> DEFINE row == NewRow(k, i, p, t)
<1>1. row \in Row /\ row.key = k /\ row.token = i /\ ClaimsNameRoles(row)
  BY NewRowSound
<1> HIDE DEF row
<1>2. /\ rooms' = [j \in DOMAIN rooms \cup {i} |-> IF j = i THEN row ELSE rooms[j]]
      /\ minted' = minted \cup {i} /\ i \notin minted
      /\ \A j \in DOMAIN rooms : rooms[j].key # k
  BY <1>1 DEF Store, row
<1>3. i \notin DOMAIN rooms
  BY <1>2 DEF TypeOK
<1>4. rooms' \in [DOMAIN rooms' -> Row] /\ DOMAIN rooms' = DOMAIN rooms \cup {i}
  BY <1>1, <1>2 DEF TypeOK
<1>5. rooms'[i] = row /\ \A j \in DOMAIN rooms : rooms'[j] = rooms[j]
  BY <1>2, <1>3
<1>6. RoomsSound'
  BY <1>1, <1>2, <1>4, <1>5 DEF RoomsSound
<1> QED
  BY <1>1, <1>2, <1>4, <1>5, <1>6

\* Replacing one row by one of the same key and token keeps it well formed.
LEMMA UpdateSound ==
    ASSUME TypeOK, RoomsSound, NEW i \in DOMAIN rooms, NEW row \in Row,
           row.key = rooms[i].key, row.token = rooms[i].token, ClaimsNameRoles(row),
           rooms' = [rooms EXCEPT ![i] = row]
    PROVE  /\ rooms' \in [DOMAIN rooms' -> Row]
           /\ DOMAIN rooms' = DOMAIN rooms
           /\ \A j \in DOMAIN rooms : rooms'[j].key = rooms[j].key
           /\ RoomsSound'
<1>1. rooms' \in [DOMAIN rooms' -> Row] /\ DOMAIN rooms' = DOMAIN rooms
  BY DEF TypeOK
<1>2. rooms'[i] = row /\ \A j \in DOMAIN rooms : j # i => rooms'[j] = rooms[j]
  BY DEF TypeOK
<1>3. RoomsSound'
  BY <1>1, <1>2 DEF RoomsSound
<1> QED
  BY <1>1, <1>2, <1>3

-----------------------------------------------------------------------------
LEMMA InitInv == Init => IInv
BY DataAssumption DEF Init, IInv, TypeOK, RoomsSound, AnswersMatch, OneRoomPerCapability

LEMMA CreateInv ==
    ASSUME IInv, NEW t \in 0..now, NEW i \in Ids, NEW k \in Keys, NEW p \in Payloads,
           Create(i, k, p, t)
    PROVE  IInv'
<1>1. t \in Nat
  BY DEF IInv, TypeOK
<1>2. /\ rooms' \in [DOMAIN rooms' -> Row]
      /\ DOMAIN rooms' = DOMAIN rooms \cup {i}
      /\ minted' = minted \cup {i} /\ i \notin minted
      /\ \A j \in DOMAIN rooms : rooms'[j] = rooms[j]
      /\ RoomsSound'
  BY <1>1, StoreSound DEF IInv, Create
<1>3. UNCHANGED <<now, publication, answered, held, admitted, located>>
  BY DEF Create, decisions
<1>4. TypeOK'
  BY <1>2, <1>3 DEF IInv, TypeOK
<1>5. AnswersMatch'
  BY <1>2, <1>3 DEF IInv, AnswersMatch
<1>6. OneRoomPerCapability'
  BY <1>3 DEF IInv, OneRoomPerCapability
<1> QED
  BY <1>2, <1>4, <1>5, <1>6 DEF IInv

LEMMA PublishInv ==
    ASSUME IInv, NEW t \in 0..now, NEW i \in Ids, NEW k \in Keys, NEW p \in Payloads,
           NEW h \in Caps, Publish(h, i, k, p, t)
    PROVE  IInv'
<1>1. t \in Nat
  BY DEF IInv, TypeOK
<1>2. /\ rooms' \in [DOMAIN rooms' -> Row]
      /\ DOMAIN rooms' = DOMAIN rooms \cup {i}
      /\ minted' = minted \cup {i} /\ i \notin minted
      /\ rooms'[i].key = k
      /\ \A j \in DOMAIN rooms : rooms'[j] = rooms[j]
      /\ RoomsSound'
  BY <1>1, StoreSound DEF IInv, Publish
<1>3. /\ publication' = [publication EXCEPT ![h] = [room |-> i, payload |-> p]]
      /\ answered' = [answered EXCEPT ![h] = answered[h] \cup {<<k, i>>}]
      /\ now' = now /\ publication[h] = NoRoom
      /\ held' = held /\ admitted' = admitted \ {h} /\ located' = located
  BY DEF Publish
<1>4. answered[h] = {}
  BY <1>3 DEF IInv, AnswersMatch, TypeOK
<1>5. /\ publication'[h] = [room |-> i, payload |-> p] /\ answered'[h] = {<<k, i>>}
      /\ \A g \in Caps : g # h => publication'[g] = publication[g] /\ answered'[g] = answered[g]
  BY <1>3, <1>4 DEF IInv, TypeOK
<1>6. publication'[h] # NoRoom
  BY <1>5, DataAssumption DEF Publication
<1>7. TypeOK'
  BY <1>2, <1>3 DEF IInv, TypeOK, Publication
<1>8. AnswersMatch'
  BY <1>2, <1>5, <1>6 DEF IInv, AnswersMatch
<1>9. OneRoomPerCapability'
  BY <1>5, <1>6 DEF IInv, OneRoomPerCapability
<1> QED
  BY <1>2, <1>7, <1>8, <1>9 DEF IInv

LEMMA ReplayInv ==
    ASSUME IInv, NEW p \in Payloads, NEW h \in Caps, Replay(h, p)
    PROVE  IInv'
<1> DEFINE i == publication[h].room
           answer == <<rooms[i].key, i>>
<1>1. /\ publication[h] # NoRoom
      /\ i \in DOMAIN rooms
      /\ answered' = [answered EXCEPT ![h] = answered[h] \cup {answer}]
      /\ UNCHANGED <<now, rooms, minted, publication, held>>
      /\ admitted' \subseteq admitted /\ located' \subseteq located
  BY DEF Replay, MayAnswer
<1>2. publication[h] \in Publication /\ i \in Ids
  BY <1>1 DEF IInv, TypeOK, Publication
<1>3. rooms[i].key \in Keys /\ i \in minted
  BY <1>1 DEF IInv, TypeOK, Row
<1> HIDE DEF i
<1>4. \A a \in answered[h] : a = answer
  <2> SUFFICES ASSUME NEW a \in answered[h] PROVE a = answer
    OBVIOUS
  <2>1. a[2] = i /\ a[1] = rooms[i].key
    BY <1>1 DEF IInv, AnswersMatch, i
  <2>2. a \in Keys \X Ids
    BY DEF IInv, TypeOK
  <2> QED
    BY <2>1, <2>2
<1>5. answered'[h] = {answer} /\ \A g \in Caps : g # h => answered'[g] = answered[g]
  BY <1>1, <1>4 DEF IInv, TypeOK
<1>6. TypeOK'
  BY <1>1, <1>2, <1>3 DEF IInv, TypeOK
<1>7. RoomsSound'
  BY <1>1 DEF IInv, RoomsSound
<1>8. AnswersMatch' /\ OneRoomPerCapability'
  BY <1>1, <1>3, <1>5 DEF IInv, AnswersMatch, OneRoomPerCapability, i
<1> QED
  BY <1>6, <1>7, <1>8 DEF IInv

\* A change of one row that keeps its identity preserves everything.
LEMMA ChangeInv ==
    ASSUME IInv, NEW i \in DOMAIN rooms, NEW row \in Row,
           row.key = rooms[i].key, row.token = rooms[i].token, ClaimsNameRoles(row),
           Change(i, row)
    PROVE  IInv'
<1>0. /\ rooms' = [rooms EXCEPT ![i] = row]
      /\ UNCHANGED <<now, minted, publication, answered, admitted, located>>
      /\ held' = held \ {i}
  BY DEF Change
<1>1. /\ rooms' \in [DOMAIN rooms' -> Row]
      /\ DOMAIN rooms' = DOMAIN rooms
      /\ \A j \in DOMAIN rooms : rooms'[j].key = rooms[j].key
      /\ RoomsSound'
  BY <1>0, UpdateSound DEF IInv
<1>2. TypeOK'
  BY <1>0, <1>1 DEF IInv, TypeOK
<1>3. AnswersMatch' /\ OneRoomPerCapability'
  BY <1>0, <1>1 DEF IInv, AnswersMatch, OneRoomPerCapability
<1> QED
  BY <1>1, <1>2, <1>3 DEF IInv

LEMMA ClaimInv ==
    ASSUME IInv, NEW i \in Ids, NEW r \in Roles, NEW n \in Names, Claim(i, r, n)
    PROVE  IInv'
<1> DEFINE row == Claimed(rooms[i], r, n)
<1>1. i \in DOMAIN rooms /\ rooms[i] \in Row /\ ClaimsNameRoles(rooms[i])
  BY DEF Claim, Change, MayChange, IInv, TypeOK, RoomsSound
<1>2. r \in RolesOf[rooms[i].payload] /\ Change(i, row)
  BY DEF Claim
<1>3. row \in Row /\ row.key = rooms[i].key /\ row.token = rooms[i].token /\ ClaimsNameRoles(row)
  BY <1>1, <1>2, ClaimedSound
<1> HIDE DEF row
<1> QED
  BY <1>1, <1>2, <1>3, ChangeInv

LEMMA RepublishInv ==
    ASSUME IInv, NEW i \in Ids, NEW p \in Payloads, Republish(i, p)
    PROVE  IInv'
<1> DEFINE row == Republished(rooms[i], p)
<1>1. i \in DOMAIN rooms /\ rooms[i] \in Row
  BY DEF Republish, Change, MayChange, IInv, TypeOK
<1>2. rooms[i].version < MaxVersion /\ Change(i, row)
  BY DEF Republish
<1>3. row \in Row /\ row.key = rooms[i].key /\ row.token = rooms[i].token /\ ClaimsNameRoles(row)
  BY <1>1, <1>2, RepublishedSound
<1> HIDE DEF row
<1> QED
  BY <1>1, <1>2, <1>3, ChangeInv

LEMMA RemoveInv ==
    ASSUME IInv, NEW S \in SUBSET Ids, Remove(S)
    PROVE  IInv'
<1>1. /\ rooms' = [i \in DOMAIN rooms \ S |-> rooms[i]]
      /\ UNCHANGED <<now, minted, publication, answered, held, admitted, located>>
      /\ held \subseteq DOMAIN rooms \ S
  BY DEF Remove, decisions, IInv, TypeOK
<1>2. TypeOK'
  BY <1>1 DEF IInv, TypeOK
<1>3. RoomsSound'
  BY <1>1 DEF IInv, RoomsSound
<1>4. AnswersMatch' /\ OneRoomPerCapability'
  BY <1>1 DEF IInv, AnswersMatch, OneRoomPerCapability
<1> QED
  BY <1>2, <1>3, <1>4 DEF IInv

\* A step that only takes or drops decisions preserves everything.
LEMMA DecideInv ==
    ASSUME IInv, UNCHANGED <<now, rooms, minted, publication, answered>>,
           held' \subseteq DOMAIN rooms, admitted' \subseteq Caps, located' \subseteq Caps
    PROVE  IInv'
BY DEF IInv, TypeOK, RoomsSound, AnswersMatch, OneRoomPerCapability

LEMMA NextInv == IInv /\ [Next]_vars => IInv'
<1> SUFFICES ASSUME IInv, [Next]_vars PROVE IInv'
  OBVIOUS
<1>d. held \subseteq DOMAIN rooms /\ admitted \subseteq Caps /\ located \subseteq Caps
  BY DEF IInv, TypeOK
<1>1. CASE Tick
  BY <1>1, DataAssumption
  DEF Tick, decisions, IInv, TypeOK, RoomsSound, AnswersMatch, OneRoomPerCapability
<1>2. CASE \E S \in SUBSET Ids : Remove(S)
  BY <1>2, RemoveInv
<1>3. CASE \E t \in 0..now, i \in Ids, k \in Keys, p \in Payloads : Create(i, k, p, t)
  BY <1>3, CreateInv
<1>4. CASE \E t \in 0..now, i \in Ids, k \in Keys, p \in Payloads, h \in Caps : Publish(h, i, k, p, t)
  BY <1>4, PublishInv
<1>5. CASE \E h \in Caps, p \in Payloads : Replay(h, p)
  BY <1>5, ReplayInv
<1>6. CASE \E i \in Ids, r \in Roles, n \in Names : Claim(i, r, n)
  BY <1>6, ClaimInv
<1>7. CASE \E i \in Ids, p \in Payloads : Republish(i, p)
  BY <1>7, RepublishInv
<1>8. CASE \E i \in Ids : Hold(i)
  BY <1>d, <1>8, DecideInv DEF Hold, Live
<1>9. CASE \E h \in Caps : Admit(h) \/ Locate(h)
  BY <1>d, <1>9, DecideInv DEF Admit, Locate
<1>10. CASE Withdraw
  BY <1>d, <1>10, DecideInv DEF Withdraw
<1>11. CASE UNCHANGED vars
  BY <1>d, <1>11, DecideInv DEF vars, decisions
<1> QED
  BY <1>1, <1>2, <1>3, <1>4, <1>5, <1>6, <1>7, <1>8, <1>9, <1>10, <1>11 DEF Next

-----------------------------------------------------------------------------
\* The invariant that carries the three theorems below.
THEOREM Invariance == Spec => []IInv
<1> QED
  BY InitInv, NextInv, PTL DEF Spec

\* Type correctness of the service.
THEOREM ServiceTyped == Spec => []TypeOK
<1>1. IInv => TypeOK
  BY DEF IInv
<1> QED
  BY Invariance, <1>1, PTL

\* Keys open one stored room, and rooms claim only roles they declare.
THEOREM ServiceRoomsSound == Spec => []RoomsSound
<1>1. IInv => RoomsSound
  BY DEF IInv
<1> QED
  BY Invariance, <1>1, PTL

\* All the answers a capability ever gets carry the same credentials.
THEOREM ServiceOneRoom == Spec => []OneRoomPerCapability
<1>1. IInv => OneRoomPerCapability
  BY DEF IInv
<1> QED
  BY Invariance, <1>1, PTL

\* One step changes a row only by one claim or one republish of it, and
\* stores a row only for a token that never had one.
LEMMA StepEvolves == IInv /\ [Next]_vars => [RoomsEvolve]_vars
<1> SUFFICES ASSUME IInv, Next PROVE RoomsEvolve
  BY DEF vars
<1>1. CASE UNCHANGED <<rooms, minted>>
  BY <1>1 DEF RoomsEvolve, RowStep
<1>2. CASE \E S \in SUBSET Ids : Remove(S)
  BY <1>2 DEF Remove, RoomsEvolve, RowStep
<1>3. ASSUME NEW i \in Ids, NEW row, Store(i, row)
      PROVE  RoomsEvolve
  <2>1. i \notin DOMAIN rooms
    BY <1>3 DEF Store, IInv, TypeOK
  <2>2. /\ DOMAIN rooms' = DOMAIN rooms \cup {i} /\ i \notin minted
        /\ \A j \in DOMAIN rooms : rooms'[j] = rooms[j]
    BY <1>3, <2>1 DEF Store
  <2> QED
    BY <2>2 DEF RoomsEvolve, RowStep
<1>4. ASSUME NEW i \in Ids, NEW r \in Roles, NEW n \in Names, Claim(i, r, n)
      PROVE  RoomsEvolve
  <2>1. /\ i \in DOMAIN rooms /\ r \in RolesOf[rooms[i].payload]
        /\ rooms' = [rooms EXCEPT ![i] = Claimed(rooms[i], r, n)]
    BY <1>4 DEF Claim, Change, MayChange
  <2>2. DOMAIN rooms' = DOMAIN rooms /\ \A j \in DOMAIN rooms : j # i => rooms'[j] = rooms[j]
    BY <2>1
  <2>3. rooms'[i] = Claimed(rooms[i], r, n)
    BY <2>1
  <2> QED
    BY <2>1, <2>2, <2>3 DEF RoomsEvolve, RowStep
<1>5. ASSUME NEW i \in Ids, NEW p \in Payloads, Republish(i, p)
      PROVE  RoomsEvolve
  <2>1. i \in DOMAIN rooms /\ rooms' = [rooms EXCEPT ![i] = Republished(rooms[i], p)]
    BY <1>5 DEF Republish, Change, MayChange
  <2>2. DOMAIN rooms' = DOMAIN rooms /\ \A j \in DOMAIN rooms : j # i => rooms'[j] = rooms[j]
    BY <2>1
  <2>3. rooms'[i] = Republished(rooms[i], p)
    BY <2>1
  <2> QED
    BY <2>1, <2>2, <2>3 DEF RoomsEvolve, RowStep
<1>6. CASE Tick
  BY <1>1, <1>6 DEF Tick
<1>7. CASE \E h \in Caps, p \in Payloads : Replay(h, p)
  BY <1>1, <1>7 DEF Replay
<1>8. CASE \E t \in 0..now, i \in Ids, k \in Keys, p \in Payloads :
             \/ Create(i, k, p, t)
             \/ \E h \in Caps : Publish(h, i, k, p, t)
  BY <1>3, <1>8 DEF Create, Publish
<1>9. CASE (\E i \in Ids : Hold(i)) \/ (\E h \in Caps : Admit(h) \/ Locate(h)) \/ Withdraw
  BY <1>1, <1>9 DEF Hold, Admit, Locate, Withdraw
<1> QED
  BY <1>2, <1>4, <1>5, <1>6, <1>7, <1>8, <1>9 DEF Next

\* A removed room never returns, and a stored one changes only as its
\* operations say: no claim is lost, no version is skipped or repeated.
THEOREM ServiceEvolves == Spec => NothingReturns
<1> QED
  BY Invariance, StepEvolves, PTL DEF Spec, NothingReturns
=============================================================================
