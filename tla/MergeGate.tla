------------------------------ MODULE MergeGate ------------------------------
(***************************************************************************)
(* Who may merge what: grill-room.json as the service accepts it when it is *)
(* published (grillRoomSchema), as the merge gate accepts it when the specs *)
(* are in (parseMergeInput), and the specs in the checkout as check-spec and *)
(* the gate see them.  The two readers of grill-room.json are written twice  *)
(* and ship separately.                                                     *)
(*                                                                          *)
(* A JSON value is a record with its kind; of a string only the length and   *)
(* the form matter: "blank", "words" or "kebab".                            *)
(***************************************************************************)
EXTENDS Integers, Sequences, FiniteSets

CONSTANTS
    MAX_BYTES,  \* of a room: 256 KiB
    Cases       \* bound: files, and the specs beside them

\* What a value of its kind is, and what a folder with specs.
WellFormed(v) ==
    /\ v.kind = "string" => v.length \in Nat /\ (v.form # "blank" => v.length > 0)
    /\ v.kind = "integer" => v.value \in Int
    /\ v.kind = "array" => Len(v.items) \in Nat /\ DOMAIN v.items = 1..Len(v.items)

WellFormedList(v) == WellFormed(v) /\ (v.kind = "array" => \A i \in DOMAIN v.items : WellFormed(v.items[i]))

ASSUME GateAssumption ==
    \A case \in Cases :
        LET room == case.file.json
        IN  /\ room.kind = "object" =>
                  /\ WellFormed(room.roles)
                  /\ room.project.kind = "object" =>
                        /\ WellFormed(room.project.name) /\ WellFormed(room.project.idea)
                        /\ WellFormed(room.project.hoursLeft)
                        /\ WellFormedList(room.project.mustWork) /\ WellFormedList(room.project.outOfScope)
                  /\ room.roles.kind = "array" =>
                        \A i \in DOMAIN room.roles.items :
                            LET role == room.roles.items[i]
                            IN  role.kind = "object" =>
                                    /\ WellFormed(role.slug) /\ WellFormed(role.name) /\ WellFormed(role.description)
                                    /\ WellFormedList(role.owns) /\ WellFormedList(role.mustCover)
            /\ case.checkout.folder \in {"listable", "absent", "unreadable"}
            /\ DOMAIN case.checkout.specs # {} => case.checkout.folder = "listable"

VARIABLES
    input,      \* grill-room.json, and the checkout with the specs
    published,  \* whether the service has accepted the one,
    checked,    \* check-spec the other,
    passed      \* and the merge gate both: "yes", "no", or "" before

MODES  == {"hackathon", "side_project", "production"}
Absent == [kind |-> "absent"]
Text(length, form) == [kind |-> "string", length |-> length, form |-> form]
Bounded(v, least, most) == v.kind = "string" /\ least <= v.length /\ v.length <= most
Distinct(roles) == \A i, j \in DOMAIN roles : i # j => roles[i].slug # roles[j].slug
All(v, P(_))    == v.kind = "array" /\ \A i \in DOMAIN v.items : P(v.items[i])

-----------------------------------------------------------------------------
\* parseMergeInput: a required string says something.
String(v, limit)   == Bounded(v, 0, limit) /\ v.form # "blank"
Optional(v, limit) == v = Absent \/ Bounded(v, 0, limit)
Entry(v)           == String(v, 500)
List(v)            == v = Absent \/ (All(v, Entry) /\ Len(v.items) <= 30)
Hours(v)           == v.kind \in {"absent", "null"} \/ (v.kind = "integer" /\ ~(v.value < 1 \/ v.value > 2000))

GateProject(p) ==
    /\ p.kind = "object"
    /\ String(p.name, 120) /\ String(p.idea, 8000) /\ p.mode \in MODES
    /\ Optional(p.knownStack, 2000) /\ Optional(p.demoTarget, 2000)
    /\ Hours(p.hoursLeft) /\ List(p.mustWork) /\ List(p.outOfScope)

GateRole(r) ==
    /\ r.kind = "object"
    /\ String(r.slug, 40) /\ r.slug.form = "kebab"
    /\ String(r.name, 60) /\ String(r.description, 2000)
    /\ List(r.owns) /\ List(r.mustCover)

\* The file is read as it is: JSON.parse takes no byte order mark.
GateAccepts(file) ==
    LET room == file.json
    IN  /\ file.bytes <= MAX_BYTES /\ ~file.marked
        /\ room.kind = "object" /\ room.schemaVersion = 1
        /\ GateProject(room.project)
        /\ All(room.roles, GateRole)
        /\ ~(Len(room.roles.items) < 1 \/ Len(room.roles.items) > 12)
        /\ Distinct(room.roles.items)

-----------------------------------------------------------------------------
\* Faulty: a limit of the schema grew, and the gate's did not.
StringsLonger(v, limit) == Bounded(v, 1, limit + 1)

\* grillRoomSchema: min(1) and max(limit) count characters, blanks too.
Strings(v, limit) == Bounded(v, 1, limit)
Defaulted(v, most) == v = Absent \/ Bounded(v, 0, most)
Item(v)            == Strings(v, 500)
Items(v)           == v = Absent \/ (All(v, Item) /\ Len(v.items) \in 0..30)
Positive(v)        == v.kind = "integer" /\ v.value > 0 /\ v.value <= 2000

ServerProject(p) ==
    /\ p.kind = "object"
    /\ Strings(p.name, 120) /\ Strings(p.idea, 8000) /\ p.mode \in MODES
    /\ p.hoursLeft.kind \in {"absent", "null"} \/ Positive(p.hoursLeft)
    /\ Defaulted(p.knownStack, 2000) /\ Defaulted(p.demoTarget, 2000)
    /\ Items(p.outOfScope) /\ Items(p.mustWork)

ServerRole(r) ==
    /\ r.kind = "object"
    /\ Strings(r.slug, 40) /\ r.slug.form = "kebab"
    /\ Strings(r.name, 60) /\ Strings(r.description, 2000)
    /\ Items(r.owns) /\ Items(r.mustCover)

\* A byte order mark is gone once the body, or the browser's file, is decoded.
ServerAccepts(file) ==
    LET room == file.json
    IN  /\ file.bytes <= MAX_BYTES
        /\ room.kind = "object" /\ room.schemaVersion = 1
        /\ ServerProject(room.project)
        /\ All(room.roles, ServerRole)
        /\ Len(room.roles.items) \in 1..12
        /\ Distinct(room.roles.items)

-----------------------------------------------------------------------------
\* The specs in grill/, by the role in their name; "listable" if the folder is.
Passes(checkout, slug) == slug \in DOMAIN checkout.specs /\ checkout.specs[slug] = "valid"

\* cmdCheckSpec, for every spec there is.
CheckSpec(checkout) ==
    /\ checkout.folder = "listable" /\ DOMAIN checkout.specs # {}
    /\ \A slug \in DOMAIN checkout.specs : Passes(checkout, slug)

SlugsOf(file) == {file.json.roles.items[i].slug : i \in DOMAIN file.json.roles.items}

\* Faulty: a spec of no role is overlooked.
PreflightLax(file, checkout) ==
    /\ GateAccepts(file)
    /\ checkout.folder # "unreadable"
    /\ \A slug \in SlugsOf(file) : Passes(checkout, slug)

\* preflightMerge: a valid spec for every role, and none besides.
Preflight(file, checkout) ==
    /\ GateAccepts(file)
    /\ checkout.folder # "unreadable"
    /\ DOMAIN checkout.specs \subseteq SlugsOf(file)
    /\ \A slug \in SlugsOf(file) : Passes(checkout, slug)

-----------------------------------------------------------------------------
Verdict(ok) == IF ok THEN "yes" ELSE "no"
verdicts    == <<published, checked, passed>>

GateInit == input \in Cases /\ published = "" /\ checked = "" /\ passed = ""

\* The commands, in any order.
Publish == /\ published' = Verdict(ServerAccepts(input.file))
           /\ UNCHANGED <<input, checked, passed>>
Check   == /\ checked' = Verdict(CheckSpec(input.checkout))
           /\ UNCHANGED <<input, published, passed>>
Merge   == /\ passed' = Verdict(Preflight(input.file, input.checkout))
           /\ UNCHANGED <<input, published, checked>>

GateNext == Publish \/ Check \/ Merge
GateSpec == GateInit /\ [][GateNext]_<<input, verdicts>>

-----------------------------------------------------------------------------
Blank(v) == v.kind = "string" /\ v.form = "blank" /\ v.length > 0

\* A text that says nothing, where the gate wants one that does.
SaysNothing(room) ==
    LET Within(v) == v.kind = "array" /\ \E i \in DOMAIN v.items : Blank(v.items[i])
    IN  \/ Blank(room.project.name) \/ Blank(room.project.idea)
        \/ Within(room.project.mustWork) \/ Within(room.project.outOfScope)
        \/ \E i \in DOMAIN room.roles.items :
               LET r == room.roles.items[i]
               IN  Blank(r.name) \/ Blank(r.description) \/ Within(r.owns) \/ Within(r.mustCover)

(* What passes the gate is a room that the service accepts, with specs that  *)
(* check-spec passes.  The other way round, a room that was published, each  *)
(* of whose members has a spec that check-spec passes, passes the gate, but  *)
(* for what only the gate refuses: a text of blanks, or a byte order mark.   *)
GateAgrees ==
    LET whole == SlugsOf(input.file) = DOMAIN input.checkout.specs
    IN  /\ passed = "yes" => published # "no" /\ checked # "no" /\ whole
        /\ passed = "no" /\ published = "yes" /\ checked = "yes" =>
              ~whole \/ input.file.marked \/ SaysNothing(input.file.json)
=============================================================================
