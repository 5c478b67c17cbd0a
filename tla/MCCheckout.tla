----------------------------- MODULE MCCheckout -----------------------------
(* A member's checkout: the pack that is downloaded and installed, the spec   *)
(* that is written, the gate that the room and the specs pass, and the rules *)
(* of the contract that comes of them.                                       *)
EXTENDS PackInstall, PackFiles, AgentsFile, SpecDocument, MergeGate, ContractRules, TLC

CONSTANTS v1, v2, other, away, a1, a2, r1, r2, here, there

\* Two versions and another role of one room, and another room whose
\* instructions are the same.
MCPayload == <<"AGENTS.md", "MY-ROLE.md">>
MCRoomOf  == [p \in Packs |-> IF p = away THEN there ELSE here]
MCRoleOf  == [p \in Packs |-> IF p = other THEN r2 ELSE r1]
MCContent == v1    :> ("AGENTS.md" :> a1 @@ "MY-ROLE.md" :> r1)
          @@ v2    :> ("AGENTS.md" :> a2 @@ "MY-ROLE.md" :> r1)
          @@ other :> ("AGENTS.md" :> a1 @@ "MY-ROLE.md" :> r2)
          @@ away  :> ("AGENTS.md" :> a2 @@ "MY-ROLE.md" :> away)

-----------------------------------------------------------------------------
\* Packs of up to four files, for a product of three; one name in two cases.
MCFolded    == [n \in Names |-> IF n = "agents.md" THEN "AGENTS.md" ELSE n]

-----------------------------------------------------------------------------
\* Downloads of up to three pieces.
MCDownloads == BoundedSeq(Pieces, 3)

-----------------------------------------------------------------------------
\* Documents of two headings, or two agreements, fences and comments.
MCHeadings == <<"## Scope", "## What I own">>
Line(text, comment)       == [kind |-> "text", text |-> text, comment |-> comment]
Fence(mark, length, info) == [kind |-> "fence", mark |-> mark, length |-> length, info |-> info, comment |-> "none"]

Fences == {Fence("backtick", 3, FALSE), Fence("backtick", 4, FALSE), Fence("backtick", 3, TRUE), Fence("tilde", 3, FALSE)}

MCSpecLines     == Fences \cup {Line("## Scope", "none"), Line("## What I own", "none"), Line("other heading", "none"),
                                Line("words", "none"), Line("## What I own", "begins"), Line("## Scope", "ends")}
MCContractLines == Fences \cup {Line("a", "none"), Line("b", "none"), Line("other heading", "none"), Line("blank", "none"),
                                Line("a", "begins"), Line("b", "ends"), Line("a", "whole")}

-----------------------------------------------------------------------------
\* Rooms of two roles with any one value other than usual: every limit and one
\* more, every form, and what is no string.
Null         == [kind |-> "null"]
Integer(n)   == [kind |-> "integer", value |-> n]
Array(items) == [kind |-> "array", items |-> items]
Slug(k)      == [kind |-> "string", length |-> 8, form |-> "kebab", id |-> k]
Words        == Text(8, "words")

MCStrings == {Text(0, "blank"), Absent, Null, Integer(1)} \cup
             {Text(n, form) : n \in {1, 40, 41, 60, 61, 120, 121, 500, 501, 2000, 2001, 8000, 8001},
                              form \in {"blank", "words", "kebab"}}
MCLists   == {Absent, Null, Words, Array(<<>>)} \cup {Array([i \in 1..n |-> Words]) : n \in {30, 31}}
             \cup {Array(<<Words, v>>) : v \in MCStrings}
MCHours   == {Absent, Null, Words, [kind |-> "fraction"]} \cup {Integer(n) : n \in {0, 1, 2000, 2001}}

MCProject == [kind |-> "object", name |-> Words, idea |-> Words, mode |-> "production", hoursLeft |-> Null,
              knownStack |-> Words, demoTarget |-> Absent, mustWork |-> Absent, outOfScope |-> Array(<<Words>>)]
MCRole(k) == [kind |-> "object", slug |-> Slug(k), name |-> Words, description |-> Words,
              owns |-> Array(<<Words>>), mustCover |-> Absent]

Vary(r, F, V) == {[r EXCEPT ![f] = v] : f \in F, v \in V}
Projects == {Null} \cup Vary(MCProject, {"mode"}, MODES \cup {"other"}) \cup Vary(MCProject, {"hoursLeft"}, MCHours)
            \cup Vary(MCProject, {"name", "idea", "knownStack", "demoTarget"}, MCStrings)
            \cup Vary(MCProject, {"mustWork", "outOfScope"}, MCLists)
Roles    == {Null} \cup Vary(MCRole(1), {"slug", "name", "description"}, MCStrings)
            \cup Vary(MCRole(1), {"owns", "mustCover"}, MCLists)
Rosters  == {Null} \cup {Array([k \in 1..n |-> MCRole(k)]) : n \in {0, 1, 2, 12, 13}}
            \cup {Array(<<r, MCRole(2)>>) : r \in Roles \cup {MCRole(2)}}

RoomFile(project, roles) == [bytes |-> MAX_BYTES, marked |-> FALSE,
                         json |-> [kind |-> "object", schemaVersion |-> 1, project |-> project, roles |-> roles]]
Usual == RoomFile(MCProject, Array(<<MCRole(1), MCRole(2)>>))
Files == {RoomFile(p, Usual.json.roles) : p \in Projects} \cup {RoomFile(MCProject, roles) : roles \in Rosters}
         \cup {[Usual EXCEPT !.bytes = MAX_BYTES + 1], [Usual EXCEPT !.marked = TRUE],
               [Usual EXCEPT !.json = Null], [Usual EXCEPT !.json.schemaVersion = 2]}

\* Each with a spec for every role, and the usual one with any specs.
SlugsIn(file) == IF file.json.kind = "object" /\ file.json.roles.kind = "array"
                 THEN LET roles == {file.json.roles.items[i] : i \in DOMAIN file.json.roles.items}
                      IN  {r.slug : r \in {s \in roles : s.kind = "object"}}
                 ELSE {}
Checkout(folder, specs) == [folder |-> folder, specs |-> specs]
MCUsualCase == [file |-> Usual, checkout |-> Checkout("absent", <<>>)]
MCCases == {[file |-> file, checkout |-> Checkout("listable", [s \in SlugsIn(file) |-> "valid"])] : file \in Files}
           \cup {[file |-> Usual, checkout |-> Checkout(folder, <<>>)] : folder \in {"absent", "unreadable"}}
           \cup UNION {{[file |-> Usual, checkout |-> Checkout("listable", specs)] :
                           specs \in [S -> {"valid", "invalid", "unreadable"}]} : S \in SUBSET {Slug(k) : k \in 1..3}}

-----------------------------------------------------------------------------
\* These parts share no state: in each behaviour one of them moves.
VARIABLE part

Installing == part = "install" /\ Next
Fetching   == part = "fetch"   /\ FetchNext
Splicing   == part = "splice"  /\ AgentsNext
Reading    == part = "read"    /\ ReadNext
Gating     == part = "gate"    /\ GateNext
Revising   == part = "revise"  /\ HistoryNext

CheckoutInit ==
    /\ part \in {"install", "fetch", "splice", "read", "gate", "revise"}
    /\ Init /\ (part # "install" => ~tracked /\ old = NoFile /\ outside = NoFile /\ files = [f \in Paths |-> NoFile])
    /\ FetchInit
    /\ AgentsInit /\ (part # "splice" => agents = NoText)
    /\ ReadInit
    /\ GateInit /\ (part # "gate" => input = MCUsualCase)
    /\ HistoryInit

splicing == <<agents, download, installed>>
gating   == <<input, verdicts>>

all == <<part, vars, manifest, splicing, reading, gating, history>>

\* All but the installation come to an end.
Resting == part # "install" /\ UNCHANGED all

CheckoutNext ==
    /\ UNCHANGED part
    /\ \/ Installing /\ UNCHANGED <<manifest, splicing, reading, gating, history>>
       \/ Fetching /\ UNCHANGED <<vars, splicing, reading, gating, history>>
       \/ Splicing /\ UNCHANGED <<vars, manifest, reading, gating, history>>
       \/ Reading /\ UNCHANGED <<vars, manifest, splicing, gating, history>>
       \/ Gating /\ UNCHANGED <<vars, manifest, splicing, reading, history>>
       \/ Revising /\ UNCHANGED <<vars, manifest, splicing, reading, gating>>
       \/ Resting

CheckoutSpec == CheckoutInit /\ [][CheckoutNext]_all
=============================================================================
