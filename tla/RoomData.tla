------------------------------ MODULE RoomData ------------------------------
(***************************************************************************)
(* The data every store of rooms works on (StoredRoom, PublicationRequest). *)
(* Host tokens are random and never reused, so an element of Ids stands for *)
(* a host token and for the identity of the room it was minted with.  Keys  *)
(* are random too, but the code plans for collisions: Keys may be small.    *)
(* A payload is a validated room file together with the origin it was sent  *)
(* to, which is what a publication is bound to.                             *)
(***************************************************************************)
EXTENDS Integers

CONSTANTS
    Keys,        \* room keys, the links
    Ids,         \* host tokens, one per room ever created
    Roles,       \* role slugs
    Names,       \* display names
    Nobody,      \* the claim of a role nobody has claimed
    Payloads,    \* room files, each with its origin
    RolesOf,     \* the roles a payload declares
    Caps,        \* publication capabilities
    NoRoom,      \* no room: a null reference
    Issued,      \* when a capability was minted, by its holder's clock
    RoomTTL,     \* ROOM_TTL_DAYS
    Window,      \* PUBLICATION_WINDOW_MS
    Skew,        \* PUBLICATION_CLOCK_SKEW_MS
    MaxNow,      \* bound: the clock stops here
    MaxVersion   \* bound: no republish beyond this version

\* What a capability is bound to once it has created a room.
Publication == [room : Ids, payload : Payloads]

ASSUME DataAssumption ==
    /\ Nobody \notin Names
    /\ NoRoom \notin Ids \cup Publication
    /\ RolesOf \in [Payloads -> SUBSET Roles]
    /\ Issued \in [Caps -> Nat]
    /\ RoomTTL \in Nat \ {0} /\ Window \in Nat \ {0} /\ Skew \in Nat
    /\ MaxNow \in Nat /\ MaxVersion \in Nat \ {0}

Row == [key : Keys, token : Ids, version : 1..MaxVersion, payload : Payloads,
        claims : [Roles -> Names \cup {Nobody}], created : Nat, expires : Nat]

NewRow(k, i, p, t) ==
    [key |-> k, token |-> i, version |-> 1, payload |-> p,
     claims |-> [r \in Roles |-> Nobody], created |-> t, expires |-> t + RoomTTL]

Claimed(row, r, n) == [row EXCEPT !.claims[r] = n]

\* Faulty: every claim survives.
RepublishedAllClaims(row, p) == [row EXCEPT !.payload = p, !.version = @ + 1]

\* New content, the next version, and the claims of the roles that survive.
Republished(row, p) ==
    [row EXCEPT !.payload = p, !.version = @ + 1,
                !.claims = [r \in Roles |-> IF r \in RolesOf[p] THEN @[r] ELSE Nobody]]

\* A capability may be used from its minting, up to clock skew, for one window.
WindowEnd(h) == Issued[h] + Window

InWindow(h, t) == Issued[h] <= t + Skew /\ t < WindowEnd(h)

\* Only roles the room's current payload declares are claimed.
ClaimsNameRoles(row) ==
    \A r \in Roles : row.claims[r] # Nobody => r \in RolesOf[row.payload]
=============================================================================
