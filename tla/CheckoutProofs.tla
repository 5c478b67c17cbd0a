--------------------------- MODULE CheckoutProofs ---------------------------
(* Theorems about the rules of a checkout, whatever the files, contracts and   *)
(* documents are: the pack that join accepts, the history that the contract    *)
(* commands let grow, the two readers of grill-room.json, and the readers of    *)
(* specs and contracts.                                                        *)
EXTENDS PackInstall, PackFiles, AgentsFile, ContractRules, MergeGate, SpecDocument,
        FiniteSetTheorems, SequenceTheorems, WellFoundedInduction, TLAPS

-----------------------------------------------------------------------------
(* The argument of validatePack's last comment: the exact number, unique      *)
(* paths and membership together guarantee that a pack is complete.           *)

\* The path at each position of a pack.
PathAt(pack) == [i \in 1..Len(pack) |-> pack[i].path]

\* The paths of an accepted pack are the product's, each once.
LEMMA PathsDiffer ==
    ASSUME NEW pack \in Seq(File), ValidPack(pack)
    PROVE  PathAt(pack) \in Injection(1..Len(pack), ProductFiles)
<1>1. Len(pack) \in Nat /\ DOMAIN pack = 1..Len(pack)
  OBVIOUS
<1>2. \A i \in 1..Len(pack) : pack[i].path \in ProductFiles /\ \A j \in 1..i - 1 : pack[j].path # pack[i].path
  BY <1>1 DEF ValidPack, NameFits
<1>3. PathAt(pack) \in [1..Len(pack) -> ProductFiles]
  BY <1>2 DEF PathAt
<1>4. ASSUME NEW i \in 1..Len(pack), NEW j \in 1..Len(pack), i # j
      PROVE  pack[i].path # pack[j].path
  <2>1. i \in 1..j - 1 \/ j \in 1..i - 1
    BY <1>1, <1>4
  <2> QED
    BY <1>2, <2>1
<1> QED
  BY <1>3, <1>4 DEF PathAt, Injection, IsInjective

\* Any sequence of files that passes has exactly the product's, each once.
LEMMA AcceptedWhole ==
    ASSUME NEW pack \in Seq(File), ValidPack(pack)
    PROVE  /\ {pack[i].path : i \in DOMAIN pack} = ProductFiles
           /\ \A i, j \in DOMAIN pack : pack[i].path = pack[j].path => i = j
<1> DEFINE n == Len(pack)
           f == PathAt(pack)
<1>1. n \in Nat /\ DOMAIN pack = 1..n
  OBVIOUS
<1>2. f \in Injection(1..n, ProductFiles)
  BY PathsDiffer
<1>3. IsFiniteSet(ProductFiles) /\ Cardinality(ProductFiles) = n
  BY PackAssumption DEF ValidPack
<1>4. Cardinality(1..n) = n
  <2>1. Cardinality(1..n) = IF 1 > n THEN 0 ELSE n - 1 + 1
    BY <1>1, FS_Interval
  <2> QED
    BY <1>1, <2>1
<1>5. f \in Surjection(1..n, ProductFiles)
  BY <1>2, <1>3, <1>4, FS_Injection
<1>6. \A i \in 1..n : f[i] = pack[i].path
  BY DEF PathAt
<1>7. /\ f \in [1..n -> ProductFiles]
      /\ \A i, j \in 1..n : f[i] = f[j] => i = j
      /\ \A p \in ProductFiles : \E i \in 1..n : f[i] = p
  <2> HIDE DEF f
  <2>1. f \in [1..n -> ProductFiles] /\ IsInjective(f)
    BY <1>2 DEF Injection
  <2>2. \A p \in ProductFiles : \E i \in 1..n : f[i] = p
    BY <1>5 DEF Surjection
  <2> QED
    BY <2>1, <2>2 DEF IsInjective
<1> HIDE DEF f
<1>8. {pack[i].path : i \in 1..n} = ProductFiles
  BY <1>6, <1>7
<1> QED
  BY <1>1, <1>6, <1>7, <1>8

\* What arrives is a sequence of files.
LEMMA FilesArrive == FetchSpec => [](manifest \in Seq(File))
<1>1. FetchInit => manifest \in Seq(File)
  BY DEF FetchInit
<1>2. manifest \in Seq(File) /\ [FetchNext]_manifest => (manifest \in Seq(File))'
  BY DEF FetchNext, Fetch
<1> QED
  BY <1>1, <1>2, PTL DEF FetchSpec

(* Whatever the product's files, the limits and the files that arrive are, a  *)
(* pack that validatePack accepts has exactly the product's, each once.       *)
THEOREM AcceptedPacksWhole == FetchSpec => []PacksWhole
<1>1. manifest \in Seq(File) => PacksWhole
  BY AcceptedWhole DEF PacksWhole
<1> QED
  BY <1>1, FilesArrive, PTL

-----------------------------------------------------------------------------
(* That amendments are kept is an invariant of the history which planContract *)
(* lets grow: it holds at first, and every accepted record keeps it, however  *)
(* many there are.                                                            *)

\* What agrees with a text that agrees with another agrees with that too.
LEMMA AgreesAlong ==
    ASSUME NEW a, NEW b, NEW c, NEW id, id \notin Differ(a, b), id \notin Differ(b, c)
    PROVE  id \notin Differ(a, c)
BY DEF Differ

\* There is nothing to keep at first.
LEMMA NothingToKeep == Kept(<<>>)
BY DEF Kept, Amendments

\* If every amendment that was neither reconciled nor amended since still
\* stands, it does so after the next revision that is accepted.
LEMMA RevisionsKeepAmendments ==
    ASSUME NEW Records, NEW h \in Seq(Records), NEW p \in Proposals(h), Accepts(h, p), Kept(h)
    PROVE  Kept(Append(h, p))
<1> DEFINE new == Append(h, p)
           m   == Len(h) + 1
<1>1. Len(h) \in Nat /\ DOMAIN h = 1..Len(h) /\ DOMAIN new = 1..m /\ Len(new) = m
  OBVIOUS
<1>2. new[m] = p /\ \A n \in DOMAIN h : new[n] = h[n]
  OBVIOUS
<1>3. new # <<>> /\ Before(new) = p
  BY <1>1, <1>2 DEF Before
<1> SUFFICES ASSUME NEW n \in Amendments(new), Unreconciled(new, n), NEW id \in Untouched(new, n)
             PROVE  id \notin Differ(p.agreements, new[n].agreements)
  BY <1>3 DEF Kept
<1>4. CASE n = m
  BY <1>2, <1>4 DEF Differ
<1>5. CASE n \in DOMAIN h
  <2>1. n \in Amendments(h) /\ new[n] = h[n]
    BY <1>1, <1>2, <1>5 DEF Amendments
  <2>2. Unreconciled(h, n)
    BY <1>1, <1>2 DEF Unreconciled
  <2>3. id \in Untouched(h, n)
    BY <1>1, <1>2, <1>5 DEF Untouched, Amendments
  <2>4. id \notin Differ(Before(h).agreements, h[n].agreements)
    BY <2>1, <2>2, <2>3 DEF Kept
  <2>5. id \notin Differ(p.agreements, Before(h).agreements)
    <3>1. CASE p.kind = "merge"
      <4>1. n \in DOMAIN p.resolution /\ p.resolution[n] \in {"preserved", "reconciled"}
        BY <2>1, <3>1 DEF Accepts, Resolves, Proposals
      <4>2. p.resolution[n] # "reconciled"
        BY <1>1, <1>2, <3>1, <4>1 DEF Unreconciled
      <4>3. h[n].changed \cap Differ(p.agreements, Before(h).agreements) = {}
        BY <2>1, <3>1, <4>1, <4>2 DEF Accepts, Resolves
      <4> QED
        BY <2>3, <4>3 DEF Untouched
    <3>2. CASE p.kind = "amend"
      <4>1. m \in Amendments(new) /\ m > n
        BY <1>1, <1>2, <1>5, <3>2 DEF Amendments
      <4>2. id \notin p.changed
        BY <1>2, <4>1 DEF Untouched
      <4> QED
        BY <4>2 DEF Accepts, ChangesNamed
    <3>3. CASE p.kind = "adopt"
      BY <1>1, <1>5, <3>3 DEF Accepts, KindFits
    <3> QED
      BY <3>1, <3>2, <3>3 DEF Proposals
  <2> QED
    BY <2>1, <2>4, <2>5, AgreesAlong
<1> QED
  BY <1>1, <1>4, <1>5 DEF Amendments

\* What a record may be, whatever came before it.
Record == [kind : {"merge", "amend", "adopt"}, agreements : Prose, types : TypeHashes \cup {NoTypes},
           changed : SUBSET Ids, resolution : UNION {[S -> {"preserved", "reconciled"}] : S \in SUBSET Nat}]

\* Whatever the history, what is proposed is a record.
LEMMA ProposalIsRecord == ASSUME NEW h \in Seq(Record) PROVE Proposals(h) \subseteq Record
<1>1. Amendments(h) \in SUBSET Nat
  BY DEF Amendments
<1> QED
  BY <1>1 DEF Proposals, Record

(* However long the history, and whatever the agreements and their texts: an  *)
(* amendment that no later merge reconciled and no later amendment touched    *)
(* still stands word for word.                                                *)
THEOREM AmendmentsStand == HistorySpec => []AmendmentsKept
<1> DEFINE Inv == history \in Seq(Record) /\ Kept(history)
<1>1. HistoryInit => Inv
  BY NothingToKeep DEF HistoryInit
<1>2. Inv /\ [HistoryNext]_history => Inv'
  <2> SUFFICES ASSUME Inv, [HistoryNext]_history PROVE Inv'
    OBVIOUS
  <2>1. CASE UNCHANGED history
    BY <2>1 DEF Kept, Amendments, Unreconciled, Untouched, Before
  <2>2. CASE HistoryNext
    <3>1. PICK p \in Proposals(history) : Revise(p)
      BY <2>2 DEF HistoryNext
    <3>2. p \in Record /\ history' = Append(history, p)
      BY <3>1, ProposalIsRecord DEF Revise
    <3>3. Kept(Append(history, p))
      BY <3>1, RevisionsKeepAmendments DEF Revise
    <3> QED
      BY <3>2, <3>3
  <2> QED
    BY <2>1, <2>2
<1>3. Inv => AmendmentsKept
  BY DEF AmendmentsKept
<1> QED
  BY <1>1, <1>2, <1>3, PTL DEF HistorySpec

-----------------------------------------------------------------------------
(* The two readers of grill-room.json agree about every file, whatever its   *)
(* texts, numbers and lists are: what the merge gate accepts the service      *)
(* accepts, and what the service accepts the gate accepts, but for a text     *)
(* of blanks and a byte order mark.                                           *)

\* A text that says something is not empty; the service counts characters.
LEMMA TextsAgree ==
    ASSUME NEW v, NEW limit, WellFormed(v)
    PROVE  /\ String(v, limit) => Strings(v, limit)
           /\ Strings(v, limit) /\ ~Blank(v) => String(v, limit)
BY DEF WellFormed, String, Strings, Bounded, Blank

\* The gate and the service draw the same line for the hours that are left.
LEMMA HoursAgree ==
    ASSUME NEW v, WellFormed(v)
    PROVE  Hours(v) <=> v.kind \in {"absent", "null"} \/ Positive(v)
BY DEF WellFormed, Hours, Positive

\* Lists agree because their entries do.
LEMMA ListsAgree ==
    ASSUME NEW v, WellFormedList(v)
    PROVE  /\ List(v) => Items(v)
           /\ Items(v) /\ ~(v.kind = "array" /\ \E i \in DOMAIN v.items : Blank(v.items[i])) => List(v)
<1>1. CASE v = Absent
  BY <1>1 DEF List, Items, Absent
<1>2. CASE v # Absent /\ v.kind = "array"
  <2>1. Len(v.items) \in Nat /\ \A i \in DOMAIN v.items : WellFormed(v.items[i])
    BY <1>2 DEF WellFormedList, WellFormed
  <2>2. \A i \in DOMAIN v.items : /\ Entry(v.items[i]) => Item(v.items[i])
                                  /\ Item(v.items[i]) /\ ~Blank(v.items[i]) => Entry(v.items[i])
    BY <2>1, TextsAgree DEF Entry, Item
  <2>3. List(v) <=> (\A i \in DOMAIN v.items : Entry(v.items[i])) /\ Len(v.items) <= 30
    BY <1>2 DEF List, All
  <2>4. Items(v) <=> (\A i \in DOMAIN v.items : Item(v.items[i])) /\ Len(v.items) <= 30
    <3>1. \A n \in Nat : n \in 0..30 <=> n <= 30
      OBVIOUS
    <3>2. Len(v.items) \in 0..30 <=> Len(v.items) <= 30
      BY <2>1, <3>1, Zenon
    <3> QED
      BY <1>2, <3>2, Zenon DEF Items, All
  <2> QED
    BY <1>2, <2>2, <2>3, <2>4
<1>3. CASE v # Absent /\ v.kind # "array"
  BY <1>3 DEF List, Items, All
<1> QED
  BY <1>1, <1>2, <1>3

\* A list of entries none of which is blank.
Says(v) == ~(v.kind = "array" /\ \E i \in DOMAIN v.items : Blank(v.items[i]))

WellFormedProject(p) ==
    /\ WellFormed(p.name) /\ WellFormed(p.idea) /\ WellFormed(p.hoursLeft)
    /\ WellFormedList(p.mustWork) /\ WellFormedList(p.outOfScope)

WellFormedRole(r) ==
    /\ WellFormed(r.slug) /\ WellFormed(r.name) /\ WellFormed(r.description)
    /\ WellFormedList(r.owns) /\ WellFormedList(r.mustCover)

\* Projects agree, since their texts, hours and lists do.
LEMMA ProjectsAgree ==
    ASSUME NEW p, p.kind = "object", WellFormedProject(p)
    PROVE  /\ GateProject(p) => ServerProject(p)
           /\ ServerProject(p) /\ ~Blank(p.name) /\ ~Blank(p.idea) /\ Says(p.mustWork) /\ Says(p.outOfScope)
              => GateProject(p)
<1>1. \A v : Optional(v, 2000) <=> Defaulted(v, 2000)
  BY DEF Optional, Defaulted
<1>2. /\ String(p.name, 120) => Strings(p.name, 120)
      /\ Strings(p.name, 120) /\ ~Blank(p.name) => String(p.name, 120)
      /\ String(p.idea, 8000) => Strings(p.idea, 8000)
      /\ Strings(p.idea, 8000) /\ ~Blank(p.idea) => String(p.idea, 8000)
  BY TextsAgree DEF WellFormedProject
<1>3. Hours(p.hoursLeft) <=> p.hoursLeft.kind \in {"absent", "null"} \/ Positive(p.hoursLeft)
  BY HoursAgree DEF WellFormedProject
<1>4. /\ List(p.mustWork) => Items(p.mustWork)
      /\ Items(p.mustWork) /\ Says(p.mustWork) => List(p.mustWork)
      /\ List(p.outOfScope) => Items(p.outOfScope)
      /\ Items(p.outOfScope) /\ Says(p.outOfScope) => List(p.outOfScope)
  BY ListsAgree DEF WellFormedProject, Says
<1> QED
  BY <1>1, <1>2, <1>3, <1>4 DEF GateProject, ServerProject

\* The same of a role; a slug in kebab-case is not blank.
LEMMA RolesAgree ==
    ASSUME NEW r, r.kind = "object", WellFormedRole(r)
    PROVE  /\ GateRole(r) => ServerRole(r)
           /\ ServerRole(r) /\ ~Blank(r.name) /\ ~Blank(r.description) /\ Says(r.owns) /\ Says(r.mustCover)
              => GateRole(r)
<1>1. /\ String(r.name, 60) => Strings(r.name, 60)
      /\ Strings(r.name, 60) /\ ~Blank(r.name) => String(r.name, 60)
      /\ String(r.description, 2000) => Strings(r.description, 2000)
      /\ Strings(r.description, 2000) /\ ~Blank(r.description) => String(r.description, 2000)
      /\ String(r.slug, 40) => Strings(r.slug, 40)
      /\ Strings(r.slug, 40) /\ ~Blank(r.slug) => String(r.slug, 40)
  BY TextsAgree DEF WellFormedRole
<1>2. r.slug.form = "kebab" => ~Blank(r.slug)
  BY DEF Blank
<1>3. /\ List(r.owns) => Items(r.owns)
      /\ Items(r.owns) /\ Says(r.owns) => List(r.owns)
      /\ List(r.mustCover) => Items(r.mustCover)
      /\ Items(r.mustCover) /\ Says(r.mustCover) => List(r.mustCover)
  BY ListsAgree DEF WellFormedRole, Says
<1> QED
  BY <1>1, <1>2, <1>3 DEF GateRole, ServerRole

\* What is known of the texts, numbers and lists of a file.
WellFormedFile(file) ==
    LET room == file.json
    IN  room.kind = "object" =>
            /\ WellFormed(room.roles)
            /\ room.project.kind = "object" => WellFormedProject(room.project)
            /\ room.roles.kind = "array" =>
                  \A i \in DOMAIN room.roles.items :
                      room.roles.items[i].kind = "object" => WellFormedRole(room.roles.items[i])

\* And so of a whole file.
LEMMA FilesAgree ==
    ASSUME NEW file, WellFormedFile(file)
    PROVE  /\ GateAccepts(file) => ServerAccepts(file)
           /\ ServerAccepts(file) => file.marked \/ SaysNothing(file.json) \/ GateAccepts(file)
<1> DEFINE room  == file.json
           roles == room.roles.items
<1>1. CASE ~(/\ file.bytes <= MAX_BYTES /\ room.kind = "object" /\ room.schemaVersion = 1
             /\ room.project.kind = "object" /\ room.roles.kind = "array")
  BY <1>1 DEF GateAccepts, ServerAccepts, GateProject, ServerProject, All
<1>2. CASE /\ file.bytes <= MAX_BYTES /\ room.kind = "object" /\ room.schemaVersion = 1
           /\ room.project.kind = "object" /\ room.roles.kind = "array"
  <2>1. /\ Len(roles) \in Nat /\ WellFormedProject(room.project)
        /\ \A i \in DOMAIN roles : roles[i].kind = "object" => WellFormedRole(roles[i])
    BY <1>2 DEF WellFormedFile, WellFormed
  <2>2. GateAccepts(file) <=>
            /\ ~file.marked /\ GateProject(room.project)
            /\ \A i \in DOMAIN roles : GateRole(roles[i])
            /\ ~(Len(roles) < 1 \/ Len(roles) > 12) /\ Distinct(roles)
    BY <1>2 DEF GateAccepts, All
  <2>3. ServerAccepts(file) <=>
            /\ ServerProject(room.project)
            /\ \A i \in DOMAIN roles : ServerRole(roles[i])
            /\ Len(roles) \in 1..12 /\ Distinct(roles)
    BY <1>2 DEF ServerAccepts, All
  <2>4. ~(Len(roles) < 1 \/ Len(roles) > 12) <=> Len(roles) \in 1..12
    <3>1. \A n \in Nat : ~(n < 1 \/ n > 12) <=> n \in 1..12
      OBVIOUS
    <3> QED
      BY <2>1, <3>1, Zenon
  <2>5. \A i \in DOMAIN roles :
            /\ GateRole(roles[i]) => ServerRole(roles[i])
            /\ /\ ServerRole(roles[i]) /\ ~Blank(roles[i].name) /\ ~Blank(roles[i].description)
               /\ Says(roles[i].owns) /\ Says(roles[i].mustCover)
               => GateRole(roles[i])
    BY <2>1, RolesAgree DEF GateRole, ServerRole
  <2>6. ~SaysNothing(room) =>
            /\ ~Blank(room.project.name) /\ ~Blank(room.project.idea)
            /\ Says(room.project.mustWork) /\ Says(room.project.outOfScope)
            /\ \A i \in DOMAIN roles : /\ ~Blank(roles[i].name) /\ ~Blank(roles[i].description)
                                       /\ Says(roles[i].owns) /\ Says(roles[i].mustCover)
    BY DEF SaysNothing, Says
  <2>7. /\ GateProject(room.project) => ServerProject(room.project)
        /\ ServerProject(room.project) /\ ~SaysNothing(room) => GateProject(room.project)
    BY <1>2, <2>1, <2>6, ProjectsAgree
  <2> QED
    BY <2>2, <2>3, <2>4, <2>5, <2>6, <2>7
<1> QED
  BY <1>1, <1>2

\* Every file of a case is well-formed.
LEMMA CasesWellFormed == ASSUME NEW case \in Cases PROVE WellFormedFile(case.file)
BY GateAssumption DEF WellFormedFile, WellFormedProject, WellFormedRole

-----------------------------------------------------------------------------
\* The specs: the gate wants one for every role, and each to pass.
LEMMA SpecsAgree ==
    ASSUME NEW case \in Cases
    PROVE  LET file     == case.file
               checkout == case.checkout
               whole    == SlugsOf(file) = DOMAIN checkout.specs
           IN  /\ Preflight(file, checkout) => CheckSpec(checkout) /\ whole
               /\ GateAccepts(file) /\ CheckSpec(checkout) /\ whole => Preflight(file, checkout)
<1> DEFINE file     == case.file
           checkout == case.checkout
<1>1. /\ checkout.folder \in {"listable", "absent", "unreadable"}
      /\ DOMAIN checkout.specs # {} => checkout.folder = "listable"
  BY GateAssumption
<1>2. GateAccepts(file) => SlugsOf(file) # {}
  <2>1. GateAccepts(file) => /\ file.json.kind = "object" /\ file.json.roles.kind = "array"
                             /\ ~(Len(file.json.roles.items) < 1)
    BY DEF GateAccepts, All
  <2>2. GateAccepts(file) => WellFormed(file.json.roles)
    BY <2>1, CasesWellFormed DEF WellFormedFile
  <2>3. GateAccepts(file) => 1 \in DOMAIN file.json.roles.items
    BY <2>1, <2>2 DEF WellFormed
  <2> QED
    BY <2>3 DEF SlugsOf
<1> HIDE DEF file, checkout
<1>3. Preflight(file, checkout) => CheckSpec(checkout) /\ SlugsOf(file) = DOMAIN checkout.specs
  BY <1>1, <1>2 DEF Preflight, CheckSpec, Passes
<1>4. GateAccepts(file) /\ CheckSpec(checkout) /\ SlugsOf(file) = DOMAIN checkout.specs => Preflight(file, checkout)
  BY DEF Preflight, CheckSpec
<1> QED
  BY <1>3, <1>4 DEF file, checkout

\* Each command has said what its function says, or nothing yet.
GateInv ==
    /\ input \in Cases
    /\ published \in {"", Verdict(ServerAccepts(input.file))}
    /\ checked \in {"", Verdict(CheckSpec(input.checkout))}
    /\ passed \in {"", Verdict(Preflight(input.file, input.checkout))}

(* Whatever the room and the specs are, and in whatever order the commands    *)
(* run: what passes the gate is a room that the service accepts, with specs   *)
(* that check-spec passes; and the other way round but for a text of blanks   *)
(* or a byte order mark.                                                      *)
THEOREM GatesAgree == GateSpec => []GateAgrees
<1>1. GateInit => GateInv
  BY DEF GateInit, GateInv
<1>2. GateInv /\ [GateNext]_<<input, verdicts>> => GateInv'
  BY DEF GateInv, GateNext, Publish, Check, Merge, verdicts
<1>3. GateInv => GateAgrees
  <2> SUFFICES ASSUME GateInv PROVE GateAgrees
    OBVIOUS
  <2> DEFINE file     == input.file
             checkout == input.checkout
             whole    == SlugsOf(file) = DOMAIN checkout.specs
  <2>1. /\ GateAccepts(file) => ServerAccepts(file)
        /\ ServerAccepts(file) => file.marked \/ SaysNothing(file.json) \/ GateAccepts(file)
    BY CasesWellFormed, FilesAgree DEF GateInv
  <2>2. /\ Preflight(file, checkout) => CheckSpec(checkout) /\ whole
        /\ GateAccepts(file) /\ CheckSpec(checkout) /\ whole => Preflight(file, checkout)
    BY SpecsAgree DEF GateInv
  <2>3. Preflight(file, checkout) => GateAccepts(file)
    BY DEF Preflight
  <2>4. /\ passed = "yes" => Preflight(file, checkout)
        /\ passed = "no" => ~Preflight(file, checkout)
        /\ published = "yes" => ServerAccepts(file)
        /\ published = "no" => ~ServerAccepts(file)
        /\ checked = "yes" => CheckSpec(checkout)
        /\ checked = "no" => ~CheckSpec(checkout)
    BY DEF GateInv, Verdict
  <2> HIDE DEF file, checkout
  <2>5. /\ passed = "yes" => published # "no" /\ checked # "no" /\ whole
        /\ passed = "no" /\ published = "yes" /\ checked = "yes" => ~whole \/ file.marked \/ SaysNothing(file.json)
    BY <2>1, <2>2, <2>3, <2>4
  <2> QED
    BY <2>5 DEF GateAgrees, file, checkout
<1> QED
  BY <1>1, <1>2, <1>3, PTL DEF GateSpec

-----------------------------------------------------------------------------
(* The installation of a pack.  What a running command has yet to write is    *)
(* all that may still differ from its pack, what it decided before it wrote    *)
(* stays true while it writes, and once it is cut short the same would be      *)
(* decided again.                                                              *)

Targets  == Paths \cup {".gitignore", "receipt"}
Rooms    == {RoomOf[p] : p \in Packs}
RoleIds  == {RoleOf[p] : p \in Packs}
Content(f) == {ContentOf[p][f] : p \in Packs} \cup Edits \cup {NoFile}

\* The command: it asks, then it installs.
Asked    == [pc : {"asked"}, room : Rooms, role : RoleIds, force : BOOLEAN]
Underway == [pc : {"next", "rename", "verify"}, room : Rooms, role : RoleIds, pack : Packs,
             force : BOOLEAN, todo : SUBSET Targets, outside : Edits \cup {NoFile}]
CutOff   == [pc : {"cut"}, pack : Packs, force : BOOLEAN]

States ==
    /\ files \in [Paths -> UNION {Content(f) : f \in Paths}]
    /\ \A f \in Paths : files[f] \in Content(f)
    /\ outside \in Edits \cup {NoFile} /\ ignored \in BOOLEAN /\ tracked \in BOOLEAN
    /\ receipt \in Packs \cup {NoFile} /\ old \in Packs \cup {NoFile, Stamp}
    /\ run \in {Idle} \cup Asked \cup Underway /\ interrupted \in {Idle} \cup CutOff

OwnTemporary ==
    temps = CASE run.pc = "rename" -> {FirstOf(run.todo)}
              [] run.pc \in {"idle", "asked"} /\ killed -> temps
              [] OTHER -> {}

\* What an installation of p may find and replace without --force.
Replaceable(p, f) == files[f] = NoFile \/ \E q \in Packs : RoomOf[q] = RoomOf[p] /\ files[f] = ContentOf[q][f]

\* What a command that may write has decided, and has done.
Decided(p, force) == force \/ \A f \in Paths : Allowed(p, f) /\ Replaceable(p, f)
Installed(p, todo) ==
    /\ \A f \in Paths : f \in todo \/ files[f] = ContentOf[p][f]
    /\ "receipt" \in todo \/ receipt = p

UnderwayInv == run.pc \notin {"idle", "asked"} =>
    /\ Identity(run.pack) = [room |-> run.room, role |-> run.role]
    /\ Decided(run.pack, run.force) /\ Installed(run.pack, run.todo)
    /\ run.outside = outside /\ interrupted = Idle
    /\ run.pc = "rename" => run.todo # {}
    /\ IF run.pc = "verify" THEN ".gitignore" \notin run.todo ELSE ".gitignore" \in run.todo \/ ignored

\* What was cut short can be repeated.
Repeatable == interrupted # Idle =>
    run = Idle /\ (interrupted.force \/ \A f \in Paths : Allowed(interrupted.pack, f))

InstallInv == States /\ OwnTemporary /\ UnderwayInv /\ Repeatable

\* What is installed.
LEMMA PayloadTargets == Payload \in Seq(Targets) /\ Len(Payload) \in Nat /\ DOMAIN Payload = 1..Len(Payload)
<1>1. Payload \in Seq(STRING) /\ Len(Payload) \in Nat /\ DOMAIN Payload = 1..Len(Payload)
  BY InstallAssumption DEF InstallAssumption
<1>2. \A i \in 1..Len(Payload) : Payload[i] \in Targets
  BY <1>1 DEF Targets, Paths
<1> QED
  BY <1>1, <1>2

LEMMA Single ==
    ASSUME NEW T, NEW e \in T
    PROVE  <<e>> \in Seq(T) /\ Len(<<e>>) = 1 /\ <<e>>[1] = e
<1>1. <<e>> \in Seq(T)
  OBVIOUS
<1>2. Len(<<e>>) = 1
  OBVIOUS
<1>3. <<e>>[1] = e
  OBVIOUS
<1> QED
  BY <1>1, <1>2, <1>3

LEMMA Joined ==
    ASSUME NEW T, NEW s \in Seq(T), NEW t \in Seq(T)
    PROVE  /\ s \o t \in Seq(T) /\ Len(s) \in Nat /\ Len(t) \in Nat /\ Len(s \o t) = Len(s) + Len(t)
           /\ \A j \in 1..Len(s) : (s \o t)[j] = s[j]
           /\ \A j \in 1..Len(t) : (s \o t)[Len(s) + j] = t[j]
  OBVIOUS

\* The order of installation has every target; the ignore rules are first and
\* the receipt is last.
LEMMA OrderHas ==
    /\ Order \in Seq(Targets) /\ Len(Order) = Len(Payload) + 2 /\ Len(Payload) \in Nat
    /\ Order[1] = ".gitignore" /\ Order[Len(Payload) + 2] = "receipt"
    /\ \A i \in 1..Len(Payload) : Order[i + 1] = Payload[i]
<1>1. PICK first \in Seq(Targets) : first = <<".gitignore">> /\ Len(first) = 1 /\ first[1] = ".gitignore"
  <2>1. <<".gitignore">> \in Seq(Targets) /\ Len(<<".gitignore">>) = 1 /\ <<".gitignore">>[1] = ".gitignore"
    BY Single DEF Targets
  <2> QED
    BY <2>1, Zenon
<1>2. PICK last \in Seq(Targets) : last = <<"receipt">> /\ Len(last) = 1 /\ last[1] = "receipt"
  <2>1. <<"receipt">> \in Seq(Targets) /\ Len(<<"receipt">>) = 1 /\ <<"receipt">>[1] = "receipt"
    BY Single DEF Targets
  <2> QED
    BY <2>1, Zenon
<1>3. PICK payload \in Seq(Targets) : payload = Payload
  BY PayloadTargets
<1>4. PICK start \in Seq(Targets) : start = first \o payload
  BY <1>3, Joined
<1>5. /\ Len(payload) \in Nat /\ Len(start) = Len(payload) + 1
      /\ start[1] = ".gitignore" /\ \A i \in 1..Len(payload) : start[i + 1] = payload[i]
  <2>1. /\ Len(payload) \in Nat /\ Len(start) = 1 + Len(payload) /\ start[1] = first[1]
        /\ \A i \in 1..Len(payload) : start[1 + i] = payload[i]
    <3>1. /\ Len(first \o payload) = Len(first) + Len(payload) /\ Len(payload) \in Nat
          /\ \A j \in 1..Len(first) : (first \o payload)[j] = first[j]
          /\ \A j \in 1..Len(payload) : (first \o payload)[Len(first) + j] = payload[j]
      BY Joined
    <3> QED
      BY <1>1, <1>4, <3>1
  <2> QED
    BY <1>1, <2>1
<1>6. Order = start \o last
  BY <1>1, <1>2, <1>3, <1>4 DEF Order
<1>7. /\ Order \in Seq(Targets) /\ Len(Order) = Len(start) + 1 /\ Order[Len(start) + 1] = "receipt"
      /\ \A j \in 1..Len(start) : Order[j] = start[j]
  <2>1. /\ start \o last \in Seq(Targets) /\ Len(start \o last) = Len(start) + Len(last)
        /\ \A j \in 1..Len(start) : (start \o last)[j] = start[j]
        /\ \A j \in 1..Len(last) : (start \o last)[Len(start) + j] = last[j]
    BY Joined
  <2> QED
    BY <1>2, <1>6, <2>1
<1> QED
  BY <1>3, <1>5, <1>7

\* A set of numbers that is not empty has a least one: the interval up to it is
\* the smallest of the intervals.
LEMMA LeastNumber ==
    ASSUME NEW S \in SUBSET Nat, S # {}
    PROVE  \E i \in S : \A j \in S : i <= j
<1> DEFINE Intervals == {1..i : i \in S}
<1>1. Intervals # {} /\ Intervals \subseteq FiniteSubsetsOf(Nat)
  <2>1. \A i \in S : 1..i \in SUBSET Nat /\ IsFiniteSet(1..i)
    BY FS_Interval
  <2> QED
    BY <2>1 DEF FiniteSubsetsOf
<1>2. PICK least \in Intervals : \A other \in Intervals : <<other, least>> \notin StrictSubsetOrdering(Nat)
  BY <1>1, FS_StrictSubsetOrderingWellFounded, WFMin
<1>3. PICK i \in S : least = 1..i
  OBVIOUS
<1>4. ASSUME NEW j \in S, j < i
      PROVE  FALSE
  <2>1. 1..j \subseteq 1..i /\ i \in 1..i /\ i \notin 1..j
    BY <1>4
  <2>2. 1..j \in SUBSET Nat /\ 1..i \in SUBSET Nat /\ 1..j # 1..i
    BY <2>1
  <2>3. <<1..j, 1..i>> \in StrictSubsetOrdering(Nat)
    BY <2>1, <2>2 DEF StrictSubsetOrdering
  <2> QED
    BY <1>2, <1>3, <2>3
<1> QED
  BY <1>4

\* What is written first is one of what is to be written, and is the ignore
\* rules if they are; and only a receipt that is left alone is written.
LEMMA FirstIs ==
    ASSUME NEW todo \in SUBSET Targets, todo # {}
    PROVE  /\ FirstOf(todo) \in todo
           /\ ".gitignore" \in todo => FirstOf(todo) = ".gitignore"
           /\ FirstOf(todo) = "receipt" => todo \cap Paths = {}
<1> DEFINE At == {i \in 1..Len(Order) : Order[i] \in todo}
           First(i) == Order[i] \in todo /\ \A j \in 1..i - 1 : Order[j] \notin todo
           n == CHOOSE i \in DOMAIN Order : First(i)
<1>1. DOMAIN Order = 1..Len(Order) /\ Len(Order) \in Nat /\ Len(Payload) \in Nat /\ DOMAIN Payload = 1..Len(Payload)
  BY OrderHas, InstallAssumption DEF InstallAssumption
<1>2. At # {}
  <2>1. PICK path \in todo : path \in Targets
    OBVIOUS
  <2>2. CASE path = ".gitignore"
    BY <1>1, <2>2, OrderHas
  <2>3. CASE path = "receipt"
    BY <1>1, <2>3, OrderHas
  <2>4. CASE path \in Paths
    <3>1. PICK i \in 1..Len(Payload) : path = Payload[i]
      BY <1>1, <2>4 DEF Paths
    <3>2. i + 1 \in 1..Len(Order) /\ Order[i + 1] = path
      BY <1>1, <3>1, OrderHas
    <3> QED
      BY <3>2
  <2> QED
    BY <2>1, <2>2, <2>3, <2>4 DEF Targets
<1>3. \E i \in At : \A j \in At : i <= j
  <2>1. At \in SUBSET Nat
    BY <1>1
  <2> HIDE DEF At
  <2> QED
    BY <1>2, <2>1, LeastNumber
<1>4. \E i \in DOMAIN Order : First(i)
  <2>1. PICK i \in At : \A j \in At : i <= j
    BY <1>3
  <2>2. \A j \in 1..i - 1 : j \in 1..Len(Order) /\ ~(i <= j)
    BY <1>1
  <2> QED
    BY <1>1, <2>1, <2>2
<1>5. n \in DOMAIN Order /\ First(n)
  BY <1>4
<1>6. FirstOf(todo) = Order[n]
  BY DEF FirstOf
<1> HIDE DEF n
<1>7. ASSUME ".gitignore" \in todo
      PROVE  FirstOf(todo) = ".gitignore"
  <2>1. ~(n > 1)
    <3>1. SUFFICES ASSUME n > 1 PROVE FALSE
      OBVIOUS
    <3>2. 1 \in 1..n - 1
      BY <1>1, <1>5, <3>1
    <3> QED
      BY <1>5, <1>7, <3>2, OrderHas
  <2> QED
    BY <1>1, <1>5, <1>6, <2>1, OrderHas
<1>8. ASSUME FirstOf(todo) = "receipt", NEW f \in todo, f \in Paths
      PROVE  FALSE
  <2>1. PICK i \in 1..Len(Payload) : f = Payload[i]
    BY <1>1, <1>8 DEF Paths
  <2>2. \A j \in 1..Len(Payload) : Order[j + 1] \in Paths
    BY <1>1, OrderHas DEF Paths
  <2>3. ~(n \in 2..Len(Payload) + 1)
    <3>1. SUFFICES ASSUME n \in 2..Len(Payload) + 1 PROVE FALSE
      OBVIOUS
    <3>2. n - 1 \in 1..Len(Payload) /\ (n - 1) + 1 = n
      BY <1>1, <3>1
    <3>3. Order[n] \in Paths
      BY <2>2, <3>2
    <3> QED
      BY <1>6, <1>8, <3>3, InstallAssumption DEF InstallAssumption
  <2>4. n # 1
    BY <1>6, <1>8, OrderHas
  <2>5. n > i + 1
    BY <1>1, <1>5, <2>3, <2>4, OrderHas
  <2>6. i + 1 \in 1..n - 1 /\ Order[i + 1] = f
    BY <1>1, <1>5, <2>1, <2>5, OrderHas
  <2> QED
    BY <1>5, <1>8, <2>6
<1> QED
  BY <1>5, <1>6, <1>7, <1>8

\* The command by where it is.
LEMMA RunKinds ==
    ASSUME States
    PROVE  /\ run.pc = "idle" => run = Idle
           /\ run.pc = "asked" => run \in Asked
           /\ run.pc \notin {"idle", "asked"} => run \in Underway /\ run.pc \in {"next", "rename", "verify"}
<1>1. run \in {Idle} \cup Asked \cup Underway
  BY DEF States
<1>2. Idle.pc = "idle" /\ \A r \in Asked : r.pc = "asked"
  BY DEF Idle, Asked
<1>3. \A r \in Underway : r.pc \in {"next", "rename", "verify"}
  BY DEF Underway
<1> QED
  BY <1>1, <1>2, <1>3

\* Only a record of the room's own pack is replaced.
LEMMA AllowedReplaceable ==
    ASSUME NEW p, NEW f, Allowed(p, f), p \in Packs
    PROVE  Replaceable(p, f)
<1>1. CASE files[f] = ContentOf[p][f]
  BY <1>1 DEF Replaceable
<1>2. CASE files[f] \in Owned(p, f)
  BY <1>2 DEF Replaceable, Owned, Matches
<1>3. CASE files[f] = NoFile
  BY <1>3 DEF Replaceable
<1> QED
  BY <1>1, <1>2, <1>3 DEF Allowed

\* What was decided stays true while nothing is written.
LEMMA DecidedSame ==
    ASSUME UNCHANGED <<files, receipt, old>>
    PROVE  /\ \A p, f : Allowed(p, f) => Allowed(p, f)'
           /\ \A p, force : Decided(p, force) => Decided(p, force)'
           /\ \A p, todo : Installed(p, todo) => Installed(p, todo)'
<1>1. \A p, f : (Allowed(p, f) <=> Allowed(p, f)') /\ (Replaceable(p, f) <=> Replaceable(p, f)')
  BY DEF Allowed, Owned, Matches, Replaceable
<1>2. \A p, todo : Installed(p, todo) => Installed(p, todo)'
  BY DEF Installed
<1> QED
  BY <1>1, <1>2 DEF Decided

LEMMA InstallInit == Init => InstallInv
<1> SUFFICES ASSUME Init PROVE InstallInv
  OBVIOUS
<1>1. \A f \in Paths : files[f] \in Content(f)
  BY DEF Init, Content
<1>2. files \in [Paths -> UNION {Content(f) : f \in Paths}]
  <2>1. \A f \in Paths : \A c \in Content(f) : c \in UNION {Content(g) : g \in Paths}
    OBVIOUS
  <2>2. files = [f \in Paths |-> files[f]]
    BY DEF Init
  <2> QED
    BY <1>1, <2>1, <2>2
<1>3. run.pc = "idle" /\ interrupted = Idle
  BY DEF Init, Idle
<1> QED
  BY <1>1, <1>2, <1>3 DEF Init, InstallInv, States, OwnTemporary, UnderwayInv, Repeatable

\* A command begins, or the member edits: nothing is underway.
LEMMA AskKeeps ==
    ASSUME InstallInv, NEW p \in Packs, NEW force \in BOOLEAN, Ask(RoomOf[p], RoleOf[p], force)
    PROVE  InstallInv'
<1>1. run' \in Asked /\ run'.pc = "asked"
  BY DEF Ask, Asked, Rooms, RoleIds
<1>2. States'
  BY <1>1 DEF InstallInv, States, Ask, disk, Content
<1>3. OwnTemporary'
  BY <1>1 DEF InstallInv, OwnTemporary, Ask, disk
<1>4. UnderwayInv' /\ Repeatable'
  BY <1>1 DEF UnderwayInv, Repeatable, Ask
<1> QED
  BY <1>2, <1>3, <1>4 DEF InstallInv

LEMMA EditKeeps ==
    ASSUME InstallInv, Edit
    PROVE  InstallInv'
<1>1. run.pc \in {"idle", "asked"} /\ run' = run /\ interrupted' = Idle
  BY DEF Edit
<1>2. /\ files' \in [Paths -> UNION {Content(f) : f \in Paths}]
      /\ \A f \in Paths : files'[f] \in Content(f)
  <2>1. CASE files' = files
    BY <2>1 DEF InstallInv, States
  <2>2. CASE \E f \in Paths, c \in Edits \cup {NoFile} : files' = [files EXCEPT ![f] = c]
    <3>1. PICK f \in Paths, c \in Edits \cup {NoFile} : files' = [files EXCEPT ![f] = c]
      BY <2>2
    <3>2. c \in Content(f) /\ files \in [Paths -> UNION {Content(g) : g \in Paths}]
      BY DEF Content, InstallInv, States
    <3>3. c \in UNION {Content(g) : g \in Paths}
      BY <3>2
    <3> QED
      BY <3>1, <3>2, <3>3 DEF InstallInv, States
  <2> QED
    BY <2>1, <2>2 DEF Edit
<1>3. outside' \in Edits \cup {NoFile} /\ ignored' \in BOOLEAN
  BY DEF Edit, InstallInv, States
<1>4. States'
  BY <1>1, <1>2, <1>3 DEF Edit, InstallInv, States, Content
<1>5. OwnTemporary'
  BY <1>1 DEF Edit, InstallInv, OwnTemporary
<1>6. UnderwayInv' /\ Repeatable'
  BY <1>1 DEF UnderwayInv, Repeatable
<1> QED
  BY <1>4, <1>5, <1>6 DEF InstallInv

\* The pack is fetched, and everything is decided.
LEMMA JoinKeeps ==
    ASSUME InstallInv, NEW p \in Packs, Join(p)
    PROVE  InstallInv'
<1>1. run \in Asked /\ interrupted = Idle /\ run # Idle
  <2>1. run \in Asked
    BY RunKinds DEF Join, InstallInv
  <2>2. run # Idle
    BY DEF Join, Idle
  <2> QED
    BY <2>1, <2>2 DEF InstallInv, Repeatable
<1>2. CASE run' = Idle
  <2>1. States'
    BY <1>2 DEF InstallInv, States, Join, disk, Content
  <2>2. run'.pc = "idle"
    BY <1>2 DEF Idle
  <2>3. OwnTemporary'
    BY <2>2 DEF InstallInv, OwnTemporary, Join, disk
  <2>4. UnderwayInv' /\ Repeatable'
    BY <1>1, <2>2 DEF UnderwayInv, Repeatable, Join
  <2> QED
    BY <2>1, <2>3, <2>4 DEF InstallInv
<1>3. CASE run' # Idle
  <2> DEFINE r == [pc |-> IF Changes(p, ".gitignore") THEN "next" ELSE "verify", room |-> run.room, role |-> run.role,
                   pack |-> p, force |-> run.force, todo |-> PlanOf(p), outside |-> outside]
  <2>1. run' = r /\ IsFor(p, run.room, run.role) /\ temps = {} /\ (run.force \/ ~Blocked(p))
    BY <1>3 DEF Join
  <2>2. /\ r \in Underway /\ r.pc \in {"next", "verify"} /\ r.room = run.room /\ r.role = run.role
        /\ r.pack = p /\ r.force = run.force /\ r.todo = PlanOf(p) /\ r.outside = outside
        /\ r.pc = "next" <=> Changes(p, ".gitignore")
    BY <1>1 DEF Underway, Asked, PlanOf, Targets, InstallInv, States
  <2> HIDE DEF r
  <2>3. States'
    BY <2>1, <2>2 DEF InstallInv, States, Join, disk, Content
  <2>4. OwnTemporary'
    BY <2>1, <2>2 DEF OwnTemporary, Join, disk
  <2>5. Repeatable'
    BY <1>1 DEF Repeatable, Join
  <2>6. UNCHANGED <<files, receipt, old, outside, ignored>>
    BY DEF Join, disk
  <2>7. PICK force, todo : force = run.force /\ todo = PlanOf(p)
    OBVIOUS
  <2>8. Decided(p, force)
    BY <2>1, <2>7, AllowedReplaceable DEF Blocked, Decided
  <2>9. Installed(p, todo)
    <3>1. \A f \in Paths : f \notin {".gitignore", "receipt"}
      BY InstallAssumption DEF InstallAssumption
    <3>2. \A f \in Paths : f \notin PlanOf(p) => files[f] = ContentOf[p][f]
      BY <3>1 DEF PlanOf, Changes
    <3>3. "receipt" \notin PlanOf(p) => receipt = p
      BY DEF PlanOf, Changes
    <3> QED
      BY <2>7, <3>2, <3>3 DEF Installed
  <2>10. Decided(p, force)' /\ Installed(p, todo)'
    BY <2>6, <2>8, <2>9, DecidedSame
  <2>11. UnderwayInv'
    <3>1. Identity(run'.pack) = [room |-> run'.room, role |-> run'.role]
      BY <2>1, <2>2 DEF IsFor
    <3>2. (Decided(run.pack, run.force) /\ Installed(run.pack, run.todo))'
      BY <2>1, <2>2, <2>7, <2>10
    <3>3. IF run'.pc = "verify" THEN ".gitignore" \notin run'.todo ELSE ".gitignore" \in run'.todo
      BY <2>1, <2>2 DEF PlanOf
    <3>4. interrupted' = Idle /\ run'.outside = outside' /\ run'.pc # "rename"
      BY <1>1, <2>1, <2>2, <2>6 DEF Join
    <3> QED
      BY <3>1, <3>2, <3>3, <3>4 DEF UnderwayInv
  <2> QED
    BY <2>3, <2>4, <2>5, <2>11 DEF InstallInv
<1> QED
  BY <1>2, <1>3

LEMMA CreateTemporaryKeeps ==
    ASSUME InstallInv, CreateTemporary
    PROVE  InstallInv'
<1>1. run \in Underway /\ run.pc = "next"
  BY RunKinds DEF CreateTemporary, InstallInv
<1> DEFINE r == [run EXCEPT !.pc = "rename"]
<1>2. run' = r /\ r \in Underway /\ r.pc = "rename" /\ r.room = run.room /\ r.role = run.role
      /\ r.pack = run.pack /\ r.force = run.force /\ r.todo = run.todo /\ r.outside = run.outside
  BY <1>1 DEF Underway, CreateTemporary
<1> HIDE DEF r
<1>3. States'
  BY <1>2 DEF InstallInv, States, CreateTemporary, Content
<1>4. OwnTemporary'
  <2>1. temps = {}
    BY <1>1 DEF InstallInv, OwnTemporary
  <2> QED
    BY <1>2, <2>1 DEF OwnTemporary, CreateTemporary
<1>5. Repeatable'
  BY <1>1 DEF InstallInv, UnderwayInv, Repeatable, CreateTemporary
<1>6. UnderwayInv'
  <2>1. PICK p, force, todo : p = run.pack /\ force = run.force /\ todo = run.todo
    OBVIOUS
  <2>2. Decided(p, force)' /\ Installed(p, todo)'
    <3>1. Decided(p, force) /\ Installed(p, todo)
      BY <1>1, <2>1 DEF InstallInv, UnderwayInv
    <3> QED
      BY <3>1, DecidedSame DEF CreateTemporary
  <2>3. (Decided(run.pack, run.force) /\ Installed(run.pack, run.todo))'
    BY <1>2, <2>1, <2>2
  <2> QED
    BY <1>1, <1>2, <2>3 DEF InstallInv, UnderwayInv, CreateTemporary
<1> QED
  BY <1>3, <1>4, <1>5, <1>6 DEF InstallInv

\* The ignore rules are looked at; a command that may go on has what it had.
LEMMA VerifyKeeps ==
    ASSUME InstallInv, VerifyLocal, ignored, run' = [run EXCEPT !.pc = "next"]
    PROVE  InstallInv'
<1>1. run \in Underway /\ run.pc = "verify"
  BY RunKinds DEF VerifyLocal, InstallInv
<1>2. interrupted = Idle /\ interrupted' = interrupted
  <2>1. interrupted = Idle
    BY <1>1 DEF InstallInv, UnderwayInv
  <2>2. Idle # run'
    <3>1. run'.pc = "next"
      BY <1>1 DEF Underway
    <3> QED
      BY <3>1 DEF Idle
  <2> QED
    BY <2>1, <2>2 DEF VerifyLocal, CutShort
<1> DEFINE r == [run EXCEPT !.pc = "next"]
<1>3. run' = r /\ r \in Underway /\ r.pc = "next" /\ r.room = run.room /\ r.role = run.role
      /\ r.pack = run.pack /\ r.force = run.force /\ r.todo = run.todo /\ r.outside = run.outside
  BY <1>1 DEF Underway
<1> HIDE DEF r
<1>4. States'
  BY <1>2, <1>3 DEF InstallInv, States, VerifyLocal, disk, Content
<1>5. OwnTemporary'
  BY <1>1, <1>3 DEF InstallInv, OwnTemporary, VerifyLocal, disk
<1>6. Repeatable'
  BY <1>2 DEF Repeatable
<1>7. UnderwayInv'
  <2>1. PICK p, force, todo : p = run.pack /\ force = run.force /\ todo = run.todo
    OBVIOUS
  <2>2. Decided(p, force)' /\ Installed(p, todo)'
    <3>1. Decided(p, force) /\ Installed(p, todo)
      BY <1>1, <2>1 DEF InstallInv, UnderwayInv
    <3> QED
      BY <3>1, DecidedSame DEF VerifyLocal, disk
  <2>3. (Decided(run.pack, run.force) /\ Installed(run.pack, run.todo))'
    BY <1>3, <2>1, <2>2
  <2> QED
    BY <1>1, <1>2, <1>3, <2>3 DEF InstallInv, UnderwayInv, VerifyLocal, disk
<1> QED
  BY <1>4, <1>5, <1>6, <1>7 DEF InstallInv

\* Whatever cuts a command short, what it would have been allowed to write
\* it still is: the files are as its pack has them, or as they were.
LEMMA CutShortKeeps ==
    ASSUME InstallInv, CutShort, run.pc \notin {"idle", "asked"},
           UNCHANGED <<files, outside, ignored, tracked, receipt, old>>,
           temps' = {} \/ killed'
    PROVE  InstallInv'
<1>1. run \in Underway /\ run' = Idle /\ Idle.pc = "idle"
  BY RunKinds DEF InstallInv, CutShort, Idle
<1>2. interrupted' \in CutOff /\ interrupted'.pack = run.pack /\ interrupted'.force = run.force
  BY <1>1 DEF CutShort, CutOff, Underway
<1>3. States'
  BY <1>1, <1>2 DEF InstallInv, States, Content
<1>4. OwnTemporary'
  BY <1>1 DEF OwnTemporary
<1>5. UnderwayInv'
  BY <1>1 DEF UnderwayInv
<1>6. Repeatable'
  <2>1. PICK p, force : p = run.pack /\ force = run.force
    OBVIOUS
  <2>2. Decided(p, force)'
    <3>1. Decided(p, force)
      BY <2>1 DEF InstallInv, UnderwayInv
    <3> QED
      BY <3>1, DecidedSame
  <2>3. force \/ \A f \in Paths : Allowed(p, f)'
    BY <2>2 DEF Decided
  <2>4. (interrupted.force \/ \A f \in Paths : Allowed(interrupted.pack, f))'
    BY <1>2, <2>1, <2>3
  <2> QED
    BY <1>1, <2>4 DEF Repeatable
<1> QED
  BY <1>3, <1>4, <1>5, <1>6 DEF InstallInv

\* Steps that touch no file: the end, the member's clearing up, Git's index.
LEMMA OthersKeep ==
    ASSUME InstallInv, Done \/ RemoveLeftovers \/ Track \/ UNCHANGED vars
    PROVE  InstallInv'
<1>1. UNCHANGED <<files, outside, ignored, receipt, old, interrupted>> /\ tracked' \in BOOLEAN
  BY DEF InstallInv, States, Done, RemoveLeftovers, Track, vars, disk
<1>2. CASE Done
  <2>1. run' = Idle /\ Idle.pc = "idle" /\ interrupted' = Idle /\ temps = {} /\ temps' = {}
    BY <1>2, RunKinds DEF Done, Idle, disk, InstallInv, OwnTemporary, UnderwayInv
  <2> QED
    BY <1>1, <2>1 DEF InstallInv, States, OwnTemporary, UnderwayInv, Repeatable, Content
<1>3. CASE ~Done
  <2>1. run' = run
    BY <1>3 DEF RemoveLeftovers, Track, vars
  <2>2. States'
    BY <1>1, <2>1 DEF InstallInv, States, Content
  <2>3. OwnTemporary'
    <3>1. CASE RemoveLeftovers
      BY <2>1, <3>1 DEF OwnTemporary, RemoveLeftovers
    <3>2. CASE temps' = temps /\ killed' = killed
      BY <2>1, <3>2 DEF InstallInv, OwnTemporary
    <3> QED
      BY <1>3, <3>1, <3>2 DEF Track, vars, disk
  <2>4. UnderwayInv'
    BY <1>1, <2>1 DEF InstallInv, UnderwayInv, Decided, Installed, Allowed, Owned, Matches, Replaceable
  <2>5. Repeatable'
    BY <1>1, <2>1 DEF InstallInv, Repeatable, Allowed, Owned, Matches
  <2> QED
    BY <2>2, <2>3, <2>4, <2>5 DEF InstallInv
<1> QED
  BY <1>2, <1>3

\* What a rename does: it writes one path, which is no more to be written.
LEMMA RenameWrites ==
    ASSUME InstallInv, Rename
    PROVE  \E path \in run.todo :
              /\ path = FirstOf(run.todo)
              /\ run \in Underway /\ run.pc = "rename" /\ run.todo \subseteq Targets /\ run.pack \in Packs
              /\ run' \in Underway /\ run'.pc = After(path) /\ run'.todo = run.todo \ {path}
              /\ run'.room = run.room /\ run'.role = run.role /\ run'.pack = run.pack
              /\ run'.force = run.force /\ run'.outside = run.outside
              /\ ".gitignore" \in run.todo => path = ".gitignore"
              /\ path = "receipt" => run.todo \cap Paths = {}
              /\ path \in {".gitignore", "receipt"} => path \notin Paths
<1>1. run \in Underway /\ run.pc = "rename"
  BY RunKinds DEF Rename, InstallInv
<1>2. run.todo \in SUBSET Targets /\ run.todo # {} /\ run.pack \in Packs
  BY <1>1 DEF Underway, InstallInv, UnderwayInv
<1>9. PICK path : path = FirstOf(run.todo)
  OBVIOUS
<1>3. /\ path \in run.todo
      /\ ".gitignore" \in run.todo => path = ".gitignore"
      /\ path = "receipt" => run.todo \cap Paths = {}
  BY <1>2, <1>9, FirstIs
<1>4. run' = [run EXCEPT !.pc = After(path), !.todo = run.todo \ {path}]
  BY <1>9 DEF Rename
<1>5. After(path) \in {"next", "verify"} /\ run.todo \ {path} \in SUBSET Targets
  BY <1>2 DEF After
<1> DEFINE r == [run EXCEPT !.pc = After(path), !.todo = run.todo \ {path}]
<1>6. /\ r \in Underway /\ r.pc = After(path) /\ r.todo = run.todo \ {path}
      /\ r.room = run.room /\ r.role = run.role /\ r.pack = run.pack
      /\ r.force = run.force /\ r.outside = run.outside
  BY <1>1, <1>5 DEF Underway
<1> HIDE DEF r
<1>7. run' = r
  BY <1>4 DEF r
<1>8. path \in {".gitignore", "receipt"} => path \notin Paths
  BY InstallAssumption DEF InstallAssumption
<1>10. /\ run'.pc = After(path) /\ run'.todo = run.todo \ {path} /\ run' \in Underway
       /\ run'.room = run.room /\ run'.role = run.role /\ run'.pack = run.pack
       /\ run'.force = run.force /\ run'.outside = run.outside /\ run.todo \subseteq Targets
  BY <1>2, <1>6, <1>7
<1> QED
  BY <1>1, <1>2, <1>3, <1>8, <1>9, <1>10, Zenon

LEMMA RenameKeeps ==
    ASSUME InstallInv, Rename
    PROVE  InstallInv'
<1>1. PICK path \in run.todo :
         /\ path = FirstOf(run.todo)
         /\ run \in Underway /\ run.pc = "rename" /\ run.todo \subseteq Targets /\ run.pack \in Packs
         /\ run' \in Underway /\ run'.pc = After(path) /\ run'.todo = run.todo \ {path}
         /\ run'.room = run.room /\ run'.role = run.role /\ run'.pack = run.pack
         /\ run'.force = run.force /\ run'.outside = run.outside
         /\ ".gitignore" \in run.todo => path = ".gitignore"
         /\ path = "receipt" => run.todo \cap Paths = {}
         /\ path \in {".gitignore", "receipt"} => path \notin Paths
  BY RenameWrites
<1>2. /\ ignored' = (ignored \/ path = ".gitignore")
      /\ receipt' = IF path = "receipt" THEN run.pack ELSE receipt
      /\ files' = IF path \in Paths THEN [files EXCEPT ![path] = ContentOf[run.pack][path]] ELSE files
      /\ outside' = IF path = "AGENTS.md" THEN run.outside ELSE outside
      /\ temps' = temps \ {path} /\ UNCHANGED <<tracked, old, killed, interrupted>>
  BY <1>1 DEF Rename
<1>3. PICK p, force, todo : p = run.pack /\ force = run.force /\ todo = run.todo
  OBVIOUS
<1>4. /\ Identity(p) = [room |-> run.room, role |-> run.role]
      /\ Decided(p, force) /\ Installed(p, todo)
      /\ run.outside = outside /\ interrupted = Idle
      /\ ".gitignore" \in run.todo \/ ignored
  BY <1>1, <1>3 DEF InstallInv, UnderwayInv
<1>5. \A f \in Paths : files'[f] = IF f = path THEN ContentOf[p][f] ELSE files[f]
  BY <1>2, <1>3 DEF InstallInv, States
<1>6. /\ files' \in [Paths -> UNION {Content(f) : f \in Paths}]
      /\ \A f \in Paths : files'[f] \in Content(f)
  <2>1. \A f \in Paths : ContentOf[p][f] \in Content(f)
    BY <1>1, <1>3 DEF Content
  <2>2. \A f \in Paths : ContentOf[p][f] \in UNION {Content(g) : g \in Paths}
    BY <2>1
  <2>3. files' \in [Paths -> UNION {Content(f) : f \in Paths}]
    BY <1>2, <1>3, <2>2 DEF InstallInv, States
  <2> QED
    BY <1>5, <2>1, <2>3 DEF InstallInv, States
<1>7. States'
  <2>1. outside' = outside /\ ignored' \in BOOLEAN /\ receipt' \in Packs \cup {NoFile}
    BY <1>1, <1>2, <1>4 DEF InstallInv, States
  <2> QED
    BY <1>1, <1>2, <1>6, <2>1 DEF InstallInv, States, Content
<1>8. OwnTemporary'
  <2>1. temps = {path}
    BY <1>1 DEF InstallInv, OwnTemporary
  <2>2. temps' = {} /\ run'.pc \notin {"idle", "asked", "rename"}
    BY <1>1, <1>2, <2>1 DEF After
  <2> QED
    BY <2>2 DEF OwnTemporary
<1>9. Repeatable'
  BY <1>2, <1>4 DEF Repeatable
<1>10. Decided(p, force)'
  <2>1. CASE force
    BY <2>1 DEF Decided
  <2>2. CASE ~force /\ path = "receipt"
    <3>1. \A f \in Paths : files'[f] = ContentOf[p][f]
      BY <1>1, <1>2, <1>3, <1>4, <1>5, <2>2 DEF Installed
    <3> QED
      BY <1>1, <1>3, <3>1 DEF Decided, Allowed, Replaceable
  <2>3. CASE ~force /\ path # "receipt"
    <3>1. receipt' = receipt /\ old' = old
      BY <1>2, <2>3
    <3>2. \A f \in Paths : Allowed(p, f) /\ Replaceable(p, f)
      BY <1>4, <2>3 DEF Decided
    <3>3. ASSUME NEW f \in Paths
          PROVE  Allowed(p, f)' /\ Replaceable(p, f)'
      <4>1. CASE f = path
        BY <1>1, <1>3, <1>5, <4>1 DEF Allowed, Replaceable
      <4>2. CASE f # path
        BY <1>5, <3>1, <3>2, <4>2 DEF Allowed, Owned, Matches, Replaceable
      <4> QED
        BY <4>1, <4>2
    <3> QED
      BY <3>3 DEF Decided
  <2> QED
    BY <2>1, <2>2, <2>3
<1>11. Installed(p, todo \ {path})'
  BY <1>1, <1>2, <1>3, <1>4, <1>5 DEF Installed
<1>12. UnderwayInv'
  <2>1. (Decided(run.pack, run.force) /\ Installed(run.pack, run.todo))'
    <3>1. run'.pack = p /\ run'.force = force /\ run'.todo = todo \ {path}
      BY <1>1, <1>3
    <3> QED
      BY <1>10, <1>11, <3>1 DEF Decided, Installed
  <2>2. outside' = run'.outside /\ Identity(run'.pack) = [room |-> run'.room, role |-> run'.role]
    BY <1>1, <1>2, <1>3, <1>4
  <2>3. IF run'.pc = "verify" THEN ".gitignore" \notin run'.todo ELSE ".gitignore" \in run'.todo \/ ignored'
    BY <1>1, <1>2, <1>4 DEF After
  <2>4. run'.pc # "rename" /\ interrupted' = Idle
    BY <1>1, <1>2, <1>4 DEF After
  <2> QED
    BY <2>1, <2>2, <2>3, <2>4 DEF UnderwayInv
<1> QED
  BY <1>7, <1>8, <1>9, <1>12 DEF InstallInv

LEMMA InstallStep == InstallInv /\ [Next]_vars => InstallInv'
<1> SUFFICES ASSUME InstallInv, [Next]_vars PROVE InstallInv'
  OBVIOUS
<1>1. CASE \E p \in Packs, force \in BOOLEAN : Ask(RoomOf[p], RoleOf[p], force)
  BY <1>1, AskKeeps
<1>2. CASE \E p \in Packs : Join(p)
  BY <1>2, JoinKeeps
<1>3. CASE CreateTemporary
  BY <1>3, CreateTemporaryKeeps
<1>4. CASE Rename
  BY <1>4, RenameKeeps
<1>5. CASE VerifyLocal
  <2>1. CASE ignored /\ ~tracked
    BY <1>5, <2>1, VerifyKeeps DEF VerifyLocal
  <2>2. CASE ~(ignored /\ ~tracked)
    <3>1. CutShort /\ run.pc = "verify" /\ UNCHANGED <<disk, killed>>
      BY <1>5, <2>2 DEF VerifyLocal
    <3>2. temps' = {} /\ UNCHANGED <<files, outside, ignored, tracked, receipt, old>>
      BY <3>1 DEF InstallInv, OwnTemporary, disk
    <3> QED
      BY <3>1, <3>2, CutShortKeeps
  <2> QED
    BY <2>1, <2>2
<1>6. CASE Fail
  BY <1>6, CutShortKeeps DEF Fail
<1>7. CASE Crash
  BY <1>7, CutShortKeeps DEF Crash, disk
<1>8. CASE Edit
  BY <1>8, EditKeeps
<1>9. CASE Done \/ RemoveLeftovers \/ Track \/ UNCHANGED vars
  BY <1>9, OthersKeep
<1> QED
  BY <1>1, <1>2, <1>3, <1>4, <1>5, <1>6, <1>7, <1>8, <1>9 DEF Next

\* What an installation has decided and done, in every reachable state.
THEOREM InstallInvariance == Spec => []InstallInv
<1> QED
  BY InstallInit, InstallStep, PTL DEF Spec

\* What is known makes the state as TypeOK has it.
LEMMA InstallTypes == InstallInv => TypeOK
<1> SUFFICES ASSUME InstallInv PROVE TypeOK
  OBVIOUS
<1>1. /\ \A f \in Paths : files[f] \in {ContentOf[p][f] : p \in Packs} \cup Edits \cup {NoFile}
      /\ outside \in Edits \cup {NoFile} /\ ignored \in BOOLEAN /\ tracked \in BOOLEAN
      /\ receipt \in Packs \cup {NoFile} /\ old \in Packs \cup {NoFile, Stamp}
  BY DEF InstallInv, States, Content
<1>2. temps = CASE run.pc = "rename" -> {FirstOf(run.todo)}
                [] run.pc \in {"idle", "asked"} /\ killed -> temps
                [] OTHER -> {}
  BY DEF InstallInv, OwnTemporary
<1> QED
  BY <1>1, <1>2 DEF TypeOK

\* An installation that was cut short anywhere, by a failure or by a crash, can
\* be repeated with the same pack: what it leaves, part old and part new, is
\* never taken for the member's edits (planInstall after executeInstall).
THEOREM InstallationsRepeat == Spec => []RetryAllowed
<1>1. InstallInv => RetryAllowed
  <2> SUFFICES ASSUME InstallInv PROVE RetryAllowed
    OBVIOUS
  <2>1. interrupted.pc = "cut" => interrupted # Idle
    BY DEF Idle
  <2> QED
    BY <2>1, InstallTypes DEF InstallInv, Repeatable, RetryAllowed, Blocked
<1> QED
  BY <1>1, InstallInvariance, PTL

\* Without --force nothing is replaced but what an earlier pack of the same room
\* had installed: what planInstall found is what executeInstall replaces.
THEOREM InstallationsKeepEdits == Spec => EditsKept
<1> DEFINE Spared ==
      run.pc = "rename" =>
         /\ outside' = outside
         /\ \A f \in Paths : files'[f] # files[f] =>
               \/ run.force \/ files[f] = NoFile
               \/ \E p \in Packs : RoomOf[p] = RoomOf[run.pack] /\ files[f] = ContentOf[p][f]
<1>1. InstallInv /\ [Next]_vars => [Spared]_vars
  <2> SUFFICES ASSUME InstallInv, [Next]_vars, run.pc = "rename" PROVE Spared
    OBVIOUS
  <2>1. run.outside = outside /\ Decided(run.pack, run.force)
    BY DEF InstallInv, UnderwayInv
  <2>2. outside' = outside
    BY <2>1 DEF Next, Ask, Join, CreateTemporary, Rename, VerifyLocal, Done, Fail, Crash, RemoveLeftovers, Edit, Track, vars, disk
  <2>3. \A f \in Paths : run.force \/ Replaceable(run.pack, f)
    BY <2>1 DEF Decided
  <2> QED
    BY <2>2, <2>3 DEF Replaceable
<1> QED
  BY <1>1, InstallInvariance, PTL DEF Spec, EditsKept

\* A receipt is written once every file it lists is there, and the team is told
\* of a role once its receipt is.
THEOREM ReceiptsCommit == Spec => CommitPoint
<1> DEFINE Committed ==
      /\ receipt' # receipt => \A f \in Paths : files[f] = ContentOf[receipt'][f]
      /\ claimed' \notin {claimed, NoFile} => receipt \in Packs /\ claimed' = Identity(receipt)
<1>1. InstallInv /\ [Next]_vars => [Committed]_vars
  <2> SUFFICES ASSUME InstallInv, [Next]_vars PROVE Committed
    OBVIOUS
  <2>1. CASE Rename
    <3>1. PICK path \in run.todo : path = FirstOf(run.todo) /\ (path = "receipt" => run.todo \cap Paths = {})
      BY <2>1, RenameWrites
    <3>2. receipt' = (IF path = "receipt" THEN run.pack ELSE receipt) /\ claimed' = claimed
      BY <2>1, <3>1 DEF Rename
    <3>3. Installed(run.pack, run.todo)
      BY <2>1 DEF InstallInv, UnderwayInv, Rename
    <3> QED
      BY <3>1, <3>2, <3>3 DEF Installed
  <2>2. CASE Done
    <3>1. run \in Underway /\ Installed(run.pack, {}) /\ Identity(run.pack) = [room |-> run.room, role |-> run.role]
      BY <2>2, RunKinds DEF InstallInv, UnderwayInv, Done
    <3>2. run.pack \in Packs /\ receipt = run.pack
      BY <3>1 DEF Underway, Installed
    <3> QED
      BY <2>2, <3>1, <3>2 DEF Done, disk
  <2>3. CASE ~Rename /\ ~Done
    <3>1. receipt' = receipt /\ claimed' \in {claimed, NoFile}
      BY <2>3 DEF Next, Ask, Join, CreateTemporary, VerifyLocal, Fail, Crash, RemoveLeftovers, Edit, Track, vars, disk
    <3> QED
      BY <3>1
  <2> QED
    BY <2>1, <2>2, <2>3
<1> QED
  BY <1>1, InstallInvariance, PTL DEF Spec, CommitPoint

\* What is local to the member is written once Git ignores it.
THEOREM LocalFilesIgnored == Spec => LocalIgnored
<1> DEFINE Local == run.pc = "rename" /\ (files'[Role] # files[Role] \/ receipt' # receipt) => ignored
<1>1. InstallInv /\ [Next]_vars => [Local]_vars
  <2> SUFFICES ASSUME InstallInv, [Next]_vars, run.pc = "rename",
                      files'[Role] # files[Role] \/ receipt' # receipt
               PROVE  ignored
    OBVIOUS
  <2>1. Rename
    BY DEF Next, Ask, Join, CreateTemporary, VerifyLocal, Done, Fail, Crash, RemoveLeftovers, Edit, Track, vars, disk
  <2>2. PICK path \in run.todo :
           /\ path = FirstOf(run.todo) /\ (".gitignore" \in run.todo => path = ".gitignore")
           /\ path \in {".gitignore", "receipt"} => path \notin Paths
    BY <2>1, RenameWrites
  <2>3. path # ".gitignore"
    BY <2>1, <2>2 DEF Rename
  <2> QED
    BY <2>2, <2>3 DEF InstallInv, UnderwayInv
<1> QED
  BY <1>1, InstallInvariance, PTL DEF Spec, LocalIgnored

-----------------------------------------------------------------------------
(* The file that the repository's own team writes too.  A file with one block  *)
(* is what is above it, the block, and what is under it; the installation puts *)
(* such parts together.                                                        *)

\* Pieces without a marker, and those of one block.
NoMarks(s)    == \A i \in DOMAIN s : s[i] \notin {START, END}
ABlock(s)  == /\ Len(s) >= 2 /\ s[1] = START /\ s[Len(s)] = END
              /\ \A i \in DOMAIN s \ {1, Len(s)} : s[i] \notin {START, END}

\* The one cut of a file is what OneFence finds.
LEMMA CutIs ==
    ASSUME NEW file \in Seq(Pieces), NEW cut \in Cuts(file)
    PROVE  /\ OneFence(file) /\ Start(file) = cut[1] /\ End(file) = cut[2]
           /\ cut[1] \in 1..Len(file) /\ cut[2] \in 1..Len(file) /\ cut[1] < cut[2]
<1>1. /\ cut[1] \in 1..Len(file) /\ cut[2] \in 1..Len(file) /\ cut[1] < cut[2]
      /\ file[cut[1]] = START /\ file[cut[2]] = END /\ DOMAIN file = 1..Len(file) /\ Len(file) \in Nat
      /\ \A i \in DOMAIN file \ {cut[1], cut[2]} : file[i] \notin {START, END}
  BY LenProperties DEF Cuts
<1>2. Where(file, START) = {cut[1]} /\ Where(file, END) = {cut[2]}
  BY <1>1, AgentsAssumption DEF Where
<1>3. Least({cut[1]}) = cut[1] /\ Least({cut[2]}) = cut[2]
  BY <1>1 DEF Least
<1> QED
  BY <1>1, <1>2, <1>3 DEF OneFence, Once, Start, End

LEMMA FenceIs ==
    ASSUME NEW file \in Seq(Pieces), OneFence(file)
    PROVE  <<Start(file), End(file)>> \in Cuts(file)
<1>1. PICK i, j : Where(file, START) = {i} /\ Where(file, END) = {j}
  BY DEF OneFence, Once
<1>2. i \in DOMAIN file /\ j \in DOMAIN file /\ DOMAIN file = 1..Len(file) /\ Len(file) \in Nat
      /\ file[i] = START /\ file[j] = END
  BY <1>1, LenProperties DEF Where
<1>3. Start(file) = i /\ End(file) = j
  <2>1. Least({i}) = i /\ Least({j}) = j
    BY <1>2 DEF Least
  <2> QED
    BY <1>1, <2>1 DEF Start, End
<1>4. i < j
  BY <1>3 DEF OneFence, Start, End
<1>5. \A k \in DOMAIN file \ {i, j} : file[k] \notin {START, END}
  BY <1>1 DEF Where
<1> QED
  BY <1>2, <1>3, <1>4, <1>5 DEF Cuts

\* A file is what is above its block, the block and what is under it ...
LEMMA Parted ==
    ASSUME NEW file \in Seq(Pieces), NEW cut \in Cuts(file)
    PROVE  /\ Above(file, cut) \in Seq(Pieces) /\ NoMarks(Above(file, cut))
           /\ Within(file, cut) \in Seq(Pieces) /\ ABlock(Within(file, cut))
           /\ Under(file, cut) \in Seq(Pieces) /\ NoMarks(Under(file, cut))
           /\ file = Above(file, cut) \o Within(file, cut) \o Under(file, cut)
<1> DEFINE s == cut[1]
           e == cut[2]
           n == Len(file)
<1>1. /\ s \in 1..n /\ e \in 1..n /\ s < e /\ file[s] = START /\ file[e] = END
      /\ DOMAIN file = 1..n /\ n \in Nat /\ \A i \in 1..n : file[i] \in Pieces
      /\ \A i \in 1..n \ {s, e} : file[i] \notin {START, END}
  BY LenProperties, ElementOfSeq DEF Cuts
<1> HIDE DEF s, e, n
<1>2. /\ SubSeq(file, 1, s - 1) \in Seq(Pieces) /\ Len(SubSeq(file, 1, s - 1)) = s - 1
      /\ \A i \in 1..s - 1 : SubSeq(file, 1, s - 1)[i] = file[i]
  BY <1>1, SubSeqProperties
<1>3. /\ SubSeq(file, s, e) \in Seq(Pieces) /\ Len(SubSeq(file, s, e)) = e - s + 1
      /\ \A i \in 1..e - s + 1 : SubSeq(file, s, e)[i] = file[s + i - 1]
  BY <1>1, SubSeqProperties
<1>4. /\ SubSeq(file, e + 1, n) \in Seq(Pieces) /\ Len(SubSeq(file, e + 1, n)) = n - e
      /\ \A i \in 1..n - e : SubSeq(file, e + 1, n)[i] = file[e + i]
  BY <1>1, SubSeqProperties
<1>5. NoMarks(SubSeq(file, 1, s - 1))
  <2>1. DOMAIN SubSeq(file, 1, s - 1) = 1..s - 1
    BY <1>2, LenProperties
  <2> QED
    BY <1>1, <1>2, <2>1 DEF NoMarks
<1>6. ABlock(SubSeq(file, s, e))
  <2>1. DOMAIN SubSeq(file, s, e) = 1..e - s + 1
    BY <1>3, LenProperties
  <2>2. PICK b : b = SubSeq(file, s, e)
    OBVIOUS
  <2>3. Len(b) = e - s + 1 /\ DOMAIN b = 1..Len(b) /\ \A i \in 1..Len(b) : b[i] = file[s + i - 1]
    BY <1>3, <2>1, <2>2
  <2>4. Len(b) >= 2 /\ s + 1 - 1 = s /\ s + Len(b) - 1 = e /\ Len(b) \in Nat
    BY <1>1, <2>3
  <2>5. \A i \in 1..Len(b) : s + i - 1 \in 1..n /\ (s + i - 1 = s <=> i = 1) /\ (s + i - 1 = e <=> i = Len(b))
    BY <1>1, <2>3
  <2>6. b[1] = START /\ b[Len(b)] = END
    BY <1>1, <2>3, <2>4
  <2>7. \A i \in 1..Len(b) \ {1, Len(b)} : b[i] \notin {START, END}
    BY <1>1, <2>3, <2>5
  <2> QED
    BY <2>2, <2>3, <2>4, <2>6, <2>7 DEF ABlock
<1>7. NoMarks(SubSeq(file, e + 1, n))
  <2>1. DOMAIN SubSeq(file, e + 1, n) = 1..n - e
    BY <1>4, LenProperties
  <2>2. ASSUME NEW i \in 1..n - e PROVE SubSeq(file, e + 1, n)[i] \notin {START, END}
    <3>1. e + i \in 1..n \ {s, e}
      BY <1>1
    <3> QED
      BY <1>1, <1>4, <3>1
  <2> QED
    BY <2>1, <2>2 DEF NoMarks
<1>8. SubSeq(file, 1, s - 1) \o SubSeq(file, s, e) = SubSeq(file, 1, e)
  BY <1>1, ConcatAdjacentSubSeq
<1>9. SubSeq(file, 1, e) \o SubSeq(file, e + 1, n) = SubSeq(file, 1, n)
  BY <1>1, ConcatAdjacentSubSeq
<1>10. SubSeq(file, 1, n) = file
  BY SubSeqFull DEF n
<1> QED
  BY <1>2, <1>3, <1>4, <1>5, <1>6, <1>7, <1>8, <1>9, <1>10 DEF Above, Within, Under, s, e, n

\* ... and three such parts make a file with one block.
Makes(a, b, c, file) ==
    /\ file \in Seq(Pieces)
    /\ \E cut \in Cuts(file) : /\ cut[1] = Len(a) + 1
                              /\ Above(file, cut) = a /\ Within(file, cut) = b /\ Under(file, cut) = c

LEMMA PartsMake ==
    ASSUME NEW a \in Seq(Pieces), NEW b \in Seq(Pieces), NEW c \in Seq(Pieces),
           NoMarks(a), ABlock(b), NoMarks(c),
           NEW file, file = (a \o b) \o c
    PROVE  Makes(a, b, c, file)
<1> DEFINE s == Len(a) + 1
           e == Len(a) + Len(b)
<1>1. /\ Len(a) \in Nat /\ Len(b) \in Nat /\ Len(c) \in Nat /\ Len(b) >= 2
      /\ DOMAIN a = 1..Len(a) /\ DOMAIN b = 1..Len(b) /\ DOMAIN c = 1..Len(c)
  BY LenProperties DEF ABlock
<1>2. a \o b \in Seq(Pieces) /\ Len(a \o b) = Len(a) + Len(b)
      /\ \A i \in 1..Len(a) + Len(b) : (a \o b)[i] = IF i <= Len(a) THEN a[i] ELSE b[i - Len(a)]
  BY ConcatProperties
<1>3. file \in Seq(Pieces) /\ Len(file) = Len(a) + Len(b) + Len(c)
      /\ \A i \in 1..Len(a) + Len(b) + Len(c) :
            file[i] = IF i <= Len(a) + Len(b) THEN (a \o b)[i] ELSE c[i - (Len(a) + Len(b))]
  BY <1>2, ConcatProperties
<1>4. DOMAIN file = 1..Len(file) /\ \A i \in 1..Len(file) : file[i] \in Pieces
  BY <1>3, LenProperties, ElementOfSeq
<1>5. /\ \A i \in 1..Len(a) : file[i] = a[i]
      /\ \A i \in 1..Len(b) : file[Len(a) + i] = b[i]
      /\ \A i \in 1..Len(c) : file[Len(a) + Len(b) + i] = c[i]
  <2>1. \A i \in 1..Len(a) : file[i] = a[i]
    BY <1>1, <1>2, <1>3
  <2>2. ASSUME NEW i \in 1..Len(b) PROVE file[Len(a) + i] = b[i]
    <3>1. PICK k : k = Len(a) + i
      OBVIOUS
    <3>2. k \in 1..Len(a) + Len(b) /\ k \in 1..Len(a) + Len(b) + Len(c) /\ ~(k <= Len(a)) /\ k - Len(a) = i
          /\ k <= Len(a) + Len(b)
      BY <1>1, <3>1
    <3> QED
      BY <1>2, <1>3, <3>1, <3>2
  <2>3. ASSUME NEW i \in 1..Len(c) PROVE file[Len(a) + Len(b) + i] = c[i]
    <3>1. PICK k : k = Len(a) + Len(b) + i
      OBVIOUS
    <3>2. k \in 1..Len(a) + Len(b) + Len(c) /\ ~(k <= Len(a) + Len(b)) /\ k - (Len(a) + Len(b)) = i
      BY <1>1, <3>1
    <3> QED
      BY <1>3, <3>1, <3>2
  <2> QED
    BY <2>1, <2>2, <2>3
<1>6. <<s, e>> \in Cuts(file)
  <2>1. s \in 1..Len(file) /\ e \in 1..Len(file) /\ s < e
    BY <1>1, <1>3
  <2>2. file[s] = START /\ file[e] = END
    BY <1>1, <1>5 DEF ABlock
  <2>3. ASSUME NEW i \in 1..Len(file), i # s, i # e PROVE file[i] \notin {START, END}
    <3>1. CASE i <= Len(a)
      BY <1>1, <1>5, <3>1 DEF NoMarks
    <3>2. CASE i > Len(a) /\ i <= Len(a) + Len(b)
      <4>1. PICK k \in 1..Len(b) : i = Len(a) + k
        <5>1. i - Len(a) \in 1..Len(b) /\ i = Len(a) + (i - Len(a))
          BY <1>1, <1>3, <3>2
        <5> QED
          BY <5>1
      <4>2. k # 1 /\ k # Len(b) /\ file[i] = b[k]
        BY <1>1, <1>5, <2>3, <4>1
      <4> QED
        BY <1>1, <4>1, <4>2 DEF ABlock
    <3>3. CASE i > Len(a) + Len(b)
      <4>1. PICK k \in 1..Len(c) : i = Len(a) + Len(b) + k
        <5>1. PICK m \in Nat : m = Len(a) + Len(b)
          BY <1>1
        <5>2. Len(file) = m + Len(c) /\ m < i
          BY <1>3, <3>3, <5>1
        <5>3. i - m \in 1..Len(c) /\ i = m + (i - m)
          BY <1>1, <5>1, <5>2
        <5> QED
          BY <5>1, <5>3
      <4> QED
        BY <1>1, <1>5, <4>1 DEF NoMarks
    <3> QED
      BY <1>1, <1>3, <3>1, <3>2, <3>3
  <2> HIDE DEF s, e
  <2> QED
    BY <1>4, <2>1, <2>2, <2>3 DEF Cuts
<1>7. SubSeq(file, 1, s - 1) = a
  <2>1. /\ SubSeq(file, 1, Len(a)) \in Seq(Pieces) /\ Len(SubSeq(file, 1, Len(a))) = Len(a)
        /\ \A i \in 1..Len(a) : SubSeq(file, 1, Len(a))[i] = file[i]
    BY <1>1, <1>3, <1>4, SubSeqProperties
  <2>2. SubSeq(file, 1, Len(a)) = a
    BY <1>5, <2>1, SeqEqual
  <2> QED
    BY <1>1, <2>2
<1>8. SubSeq(file, s, e) = b
  <2>1. /\ SubSeq(file, s, e) \in Seq(Pieces) /\ Len(SubSeq(file, s, e)) = Len(b)
        /\ \A i \in 1..Len(b) : SubSeq(file, s, e)[i] = file[Len(a) + i]
    <3>1. /\ SubSeq(file, s, e) \in Seq(Pieces)
          /\ Len(SubSeq(file, s, e)) = e - s + 1
          /\ \A i \in 1..e - s + 1 : SubSeq(file, s, e)[i] = file[s + i - 1]
      BY <1>1, <1>3, <1>4, SubSeqProperties
    <3>2. e - s + 1 = Len(b) /\ \A i \in 1..Len(b) : s + i - 1 = Len(a) + i
      BY <1>1
    <3> QED
      BY <3>1, <3>2
  <2> QED
    BY <1>5, <2>1, SeqEqual
<1>9. SubSeq(file, e + 1, Len(file)) = c
  <2>1. /\ SubSeq(file, e + 1, Len(file)) \in Seq(Pieces) /\ Len(SubSeq(file, e + 1, Len(file))) = Len(c)
        /\ \A i \in 1..Len(c) : SubSeq(file, e + 1, Len(file))[i] = file[Len(a) + Len(b) + i]
    <3>1. /\ SubSeq(file, e + 1, Len(file)) \in Seq(Pieces)
          /\ Len(SubSeq(file, e + 1, Len(file))) = IF e + 1 <= Len(file) THEN Len(file) - (e + 1) + 1 ELSE 0
          /\ \A i \in 1..Len(file) - (e + 1) + 1 : SubSeq(file, e + 1, Len(file))[i] = file[(e + 1) + i - 1]
      BY <1>1, <1>3, <1>4, SubSeqProperties
    <3>2. Len(file) - (e + 1) + 1 = Len(c) /\ \A i \in 1..Len(c) : (e + 1) + i - 1 = Len(a) + Len(b) + i
      BY <1>1, <1>3
    <3>3. (IF e + 1 <= Len(file) THEN Len(file) - (e + 1) + 1 ELSE 0) = Len(c)
      BY <1>1, <1>3
    <3> QED
      BY <3>1, <3>2, <3>3
  <2> QED
    BY <1>5, <2>1, SeqEqual
<1>10. PICK cut : cut = <<s, e>>
  OBVIOUS
<1>11. cut[1] = s /\ cut[2] = e
  BY <1>10
<1> QED
  BY <1>3, <1>6, <1>7, <1>8, <1>9, <1>10, <1>11 DEF Above, Within, Under, Makes

\* What a part of a file is made of.
LEMMA PieceOf ==
    ASSUME NEW s \in Seq(Pieces), NEW m \in Nat, m >= 1, NEW n \in Nat, n <= Len(s), NEW p, p = SubSeq(s, m, n)
    PROVE  \A i \in DOMAIN p : i \in Nat /\ m + i - 1 \in m..n /\ p[i] = s[m + i - 1]
<1>1. Len(s) \in Nat /\ \A i \in m..n : s[i] \in Pieces
  BY LenProperties, ElementOfSeq
<1>2. /\ p \in Seq(Pieces) /\ Len(p) = IF m <= n THEN n - m + 1 ELSE 0
      /\ \A i \in 1..n - m + 1 : p[i] = s[m + i - 1]
  BY <1>1, SubSeqProperties
<1>3. DOMAIN p = 1..Len(p)
  BY <1>2, LenProperties
<1> QED
  BY <1>2, <1>3

LEMMA BlankIs ==
    ASSUME NEW s
    PROVE  IsBlank(s) <=> \A i \in DOMAIN s : s[i] = Break
BY DEF IsBlank, ToSet

LEMMA NoMarksNoCut ==
    ASSUME NEW file \in Seq(Pieces), NoMarks(file)
    PROVE  Cuts(file) = {} /\ ~OneFence(file)
<1>1. Cuts(file) = {}
  BY LenProperties DEF Cuts, NoMarks
<1> QED
  BY <1>1, FenceIs

\* Refused is exactly what is not plain, or brings more than a block.
LEMMA LocalIs ==
    ASSUME NEW file \in Seq(Pieces) \cup {NoText}
    PROVE  LocalOk(file) <=> Plain(Own(file))
<1>1. CASE file = NoText
  BY <1>1 DEF LocalOk, Plain, Own
<1>2. CASE file # NoText
  <2>1. file \in Seq(Pieces) /\ Own(file) = file
    BY <1>2 DEF Own
  <2>2. OneFence(file) <=> Cuts(file) # {}
    BY <2>1, FenceIs, CutIs
  <2>3. Unmarked(file) <=> \A i \in DOMAIN file : file[i] \notin {START, END}
    BY DEF Unmarked, Where
  <2> QED
    BY <1>2, <2>1, <2>2, <2>3 DEF LocalOk, Plain
<1> QED
  BY <1>1, <1>2

LEMMA IncomingIs ==
    ASSUME NEW file \in Seq(Pieces)
    PROVE  IncomingOk(file) <=> \E cut \in Cuts(file) : OnlyBlock(file, cut)
<1>1. ASSUME NEW cut \in Cuts(file)
      PROVE  /\ OneFence(file)
             /\ Above(file, cut) = SubSeq(file, 1, Start(file) - 1)
             /\ Under(file, cut) = SubSeq(file, End(file) + 1, Len(file))
  BY CutIs DEF Above, Under
<1>2. ASSUME IncomingOk(file) PROVE \E cut \in Cuts(file) : OnlyBlock(file, cut)
  <2>1. <<Start(file), End(file)>> \in Cuts(file)
    BY <1>2, FenceIs DEF IncomingOk
  <2> QED
    BY <1>1, <1>2, <2>1 DEF IncomingOk, OnlyBlock
<1>3. ASSUME NEW cut \in Cuts(file), OnlyBlock(file, cut) PROVE IncomingOk(file)
  BY <1>1, <1>3 DEF IncomingOk, OnlyBlock
<1> QED
  BY <1>2, <1>3

\* A file that has the block already is left as it is.
LEMMA Again ==
    ASSUME NEW new \in Seq(Pieces), NEW incoming \in Seq(Pieces),
           NEW at \in Cuts(new), NEW cut \in Cuts(incoming), Within(new, at) = Within(incoming, cut)
    PROVE  Spliced(new, incoming) = new
<1>1. OneFence(new) /\ Start(new) = at[1] /\ End(new) = at[2] /\ new # NoText
  BY CutIs, AgentsAssumption
<1>2. Block(incoming) = Within(incoming, cut)
  BY CutIs DEF Block, Within
<1>3. Spliced(new, incoming) = Above(new, at) \o Within(new, at) \o Under(new, at)
  BY <1>1, <1>2 DEF Spliced, Above, Under
<1> QED
  BY <1>3, Parted

\* The block of the download gets into a file, and the file keeps what it had.
BlockIn(was, new, incoming, cut) ==
    /\ new \in Seq(Pieces)
    /\ \E at \in Cuts(new) : Within(new, at) = Within(incoming, cut) /\ Keeps(was, new, at)

\* The block replaces the one that was there.
LEMMA Replaces ==
    ASSUME NEW was \in Seq(Pieces), OneFence(was),
           NEW incoming \in Seq(Pieces), NEW cut \in Cuts(incoming),
           NEW new, new = Spliced(was, incoming)
    PROVE  BlockIn(was, new, incoming, cut)
<1> DEFINE own == <<Start(was), End(was)>>
           a == Above(was, own)
           b == Within(incoming, cut)
           c == Under(was, own)
<1>1. own \in Cuts(was)
  BY FenceIs
<1>2. a \in Seq(Pieces) /\ NoMarks(a) /\ c \in Seq(Pieces) /\ NoMarks(c)
  BY <1>1, Parted
<1>3. b \in Seq(Pieces) /\ ABlock(b)
  BY Parted
<1>4. Spliced(was, incoming) = a \o b \o c
  <2>1. b = Block(incoming) /\ was # NoText
    BY CutIs, AgentsAssumption DEF Block, Within
  <2> QED
    BY <2>1 DEF Spliced, Above, Under
<1>5. new = (a \o b) \o c
  BY <1>4
<1> HIDE DEF a, b, c
<1>6. Makes(a, b, c, new)
  BY <1>2, <1>3, <1>5, PartsMake
<1>7. PICK at \in Cuts(new) : Above(new, at) = a /\ Within(new, at) = b /\ Under(new, at) = c
  BY <1>6 DEF Makes
<1>8. Keeps(was, new, at)
  BY <1>1, <1>7 DEF Keeps, a, c
<1> QED
  BY <1>6, <1>7, <1>8 DEF b, Makes, BlockIn

SameFour(p, x, b, z) == p \o ((x \o b) \o z) = ((p \o x) \o b) \o z

LEMMA FourParts ==
    ASSUME NEW p \in Seq(Pieces), NEW x \in Seq(Pieces), NEW b \in Seq(Pieces), NEW z \in Seq(Pieces)
    PROVE  SameFour(p, x, b, z)
<1>1. x \o b \in Seq(Pieces)
  BY ConcatProperties
<1>2. p \o ((x \o b) \o z) = (p \o (x \o b)) \o z
  BY <1>1, ConcatAssociative
<1>3. p \o (x \o b) = (p \o x) \o b
  BY ConcatAssociative
<1> QED
  BY <1>2, <1>3 DEF SameFour

\* The pieces of a file, and breaks behind them.
Padded(p, was) == /\ Len(was) <= Len(p) /\ \A i \in 1..Len(was) : p[i] = was[i]
                  /\ \A i \in Len(was) + 1..Len(p) : p[i] = Break

\* The download goes behind a file without a block, whose pieces p are, but for
\* breaks behind them.
LEMMA Follows ==
    ASSUME NEW was \in Seq(Pieces), NoMarks(was),
           NEW p \in Seq(Pieces), Padded(p, was),
           NEW incoming \in Seq(Pieces), NEW cut \in Cuts(incoming), OnlyBlock(incoming, cut),
           NEW new, new = p \o incoming
    PROVE  BlockIn(was, new, incoming, cut)
<1>0. PICK x, b, z : x = Above(incoming, cut) /\ b = Within(incoming, cut) /\ z = Under(incoming, cut)
  OBVIOUS
<1>1. /\ x \in Seq(Pieces) /\ b \in Seq(Pieces) /\ z \in Seq(Pieces)
      /\ NoMarks(x) /\ ABlock(b) /\ NoMarks(z) /\ incoming = (x \o b) \o z
  BY <1>0, Parted
<1>2. IsBlank(x) /\ IsBlank(z)
  BY <1>0 DEF OnlyBlock
<1>a. PICK a : a = p \o x
  OBVIOUS
<1>3. new = (a \o b) \o z
  <2>1. SameFour(p, x, b, z)
    BY <1>1, FourParts
  <2> QED
    BY <1>1, <1>a, <2>1 DEF SameFour
<1>4. /\ a \in Seq(Pieces) /\ Len(a) = Len(p) + Len(x) /\ Len(p) \in Nat /\ Len(x) \in Nat /\ Len(was) \in Nat
      /\ \A i \in 1..Len(p) + Len(x) : a[i] = IF i <= Len(p) THEN p[i] ELSE x[i - Len(p)]
      /\ DOMAIN a = 1..Len(a) /\ DOMAIN p = 1..Len(p) /\ DOMAIN x = 1..Len(x) /\ DOMAIN was = 1..Len(was)
  BY <1>1, <1>a, ConcatProperties, LenProperties
<1>p. /\ Len(was) <= Len(p) /\ \A i \in 1..Len(was) : p[i] = was[i]
      /\ \A i \in Len(was) + 1..Len(p) : p[i] = Break
  BY DEF Padded
<1>5. /\ \A i \in 1..Len(was) : a[i] = was[i]
      /\ \A i \in Len(was) + 1..Len(a) : a[i] = Break
  <2>1. \A i \in 1..Len(was) : a[i] = was[i]
    BY <1>4, <1>p
  <2>2. ASSUME NEW i \in Len(was) + 1..Len(a) PROVE a[i] = Break
    <3>1. CASE i <= Len(p)
      BY <1>4, <1>p, <3>1
    <3>2. CASE ~(i <= Len(p))
      <4>1. i - Len(p) \in DOMAIN x /\ a[i] = x[i - Len(p)]
        BY <1>4, <1>p, <3>2
      <4> QED
        BY <1>2, <4>1, BlankIs
    <3> QED
      BY <3>1, <3>2
  <2> QED
    BY <2>1, <2>2
<1>6. NoMarks(a)
  <2> SUFFICES ASSUME NEW i \in 1..Len(a) PROVE a[i] \notin {START, END}
    BY <1>4 DEF NoMarks
  <2>1. CASE i <= Len(was)
    <3>1. a[i] = was[i] /\ i \in DOMAIN was
      BY <1>4, <1>5, <2>1
    <3> QED
      BY <3>1 DEF NoMarks
  <2>2. CASE ~(i <= Len(was))
    BY <1>4, <1>5, <2>2, AgentsAssumption
  <2> QED
    BY <2>1, <2>2
<1>c. Makes(a, b, z, new)
  <2>1. a \in Seq(Pieces)
    BY <1>4
  <2> QED
    BY <1>1, <1>3, <1>6, <2>1, PartsMake
<1>7. new \in Seq(Pieces)
  BY <1>c DEF Makes
<1>8. PICK at \in Cuts(new) : /\ at[1] = Len(a) + 1
                              /\ Above(new, at) = a /\ Within(new, at) = b /\ Under(new, at) = z
  BY <1>c DEF Makes
<1>9. IsPrefix(was, a)
  <2>1. Len(was) <= Len(a)
    BY <1>4, <1>p
  <2>2. /\ SubSeq(a, 1, Len(was)) \in Seq(Pieces) /\ Len(SubSeq(a, 1, Len(was))) = Len(was)
        /\ \A i \in 1..Len(was) : SubSeq(a, 1, Len(was))[i] = a[i]
    BY <1>4, <2>1, SubSeqProperties, ElementOfSeq
  <2>3. SubSeq(a, 1, Len(was)) = was
    BY <1>5, <2>2, SeqEqual
  <2>4. SubSeq(was, 1, Len(was)) = was
    BY SubSeqFull
  <2> QED
    BY <2>1, <2>3, <2>4 DEF IsPrefix
<1>10. IsBlank(SubSeq(new, Len(was) + 1, at[1] - 1))
  <2>1. at[1] - 1 = Len(a) /\ Len(a) \in Nat
    BY <1>4, <1>8
  <2>2. Len(a) <= Len(new) /\ \A i \in 1..Len(a) : new[i] = a[i]
    <3>1. SubSeq(new, 1, Len(a)) = a
      BY <1>7, <1>8, <2>1 DEF Above
    <3>2. at[1] \in 1..Len(new) /\ Len(new) \in Nat
      BY <1>7, <1>8, LenProperties, CutIs
    <3>3. Len(a) <= Len(new)
      BY <2>1, <3>2
    <3>4. \A i \in 1..Len(a) : i \in DOMAIN a /\ 1 + i - 1 = i
      BY <1>4
    <3> QED
      BY <2>1, <3>1, <3>2, <3>3, <3>4, <1>7, PieceOf
  <2>3. PICK s : s = SubSeq(new, Len(was) + 1, Len(a))
    OBVIOUS
  <2>4. \A i \in DOMAIN s : i \in Nat /\ Len(was) + 1 + i - 1 \in Len(was) + 1..Len(a) /\ s[i] = new[Len(was) + 1 + i - 1]
    <3>1. Len(was) + 1 \in Nat /\ Len(was) + 1 >= 1
      BY <1>4
    <3> QED
      BY <1>7, <2>1, <2>2, <2>3, <3>1, PieceOf
  <2>5. ASSUME NEW i \in DOMAIN s PROVE s[i] = Break
    <3>3. PICK k \in Len(was) + 1..Len(a) : k = Len(was) + 1 + i - 1
      BY <2>4
    <3>4. k \in 1..Len(a)
      BY <1>4, <2>1
    <3> QED
      BY <1>5, <2>1, <2>2, <2>4, <3>3, <3>4
  <2> QED
    BY <2>1, <2>3, <2>5, BlankIs
<1>11. Cuts(was) = {}
  BY NoMarksNoCut
<1>12. Keeps(was, new, at)
  BY <1>2, <1>8, <1>9, <1>10, <1>11 DEF Keeps
<1> QED
  BY <1>0, <1>7, <1>8, <1>12 DEF BlockIn

LEMMA SplicedKeeps ==
    ASSUME NEW current \in Seq(Pieces) \cup {NoText}, LocalOk(current),
           NEW incoming \in Seq(Pieces), NEW cut \in Cuts(incoming), OnlyBlock(incoming, cut),
           NEW new, new = Spliced(current, incoming)
    PROVE  BlockIn(Own(current), new, incoming, cut)
<1>1. CASE current = NoText
  <2>1. PICK e : e = <<>>
    OBVIOUS
  <2>2. /\ e \in Seq(Pieces) /\ Len(e) = 0 /\ NoMarks(e) /\ new = e \o incoming /\ Own(current) = e
    <3>1. <<>> \in Seq(Pieces) /\ Len(<<>>) = 0 /\ NoMarks(<<>>) /\ <<>> \o incoming = incoming
      BY EmptySeq, ConcatEmptySeq DEF NoMarks
    <3> QED
      BY <1>1, <2>1, <3>1 DEF Spliced, Own
  <2>3. \A i \in 1..Len(e) : FALSE
    BY <2>2
  <2>4. Padded(e, e)
    BY <2>2 DEF Padded
  <2>5. BlockIn(e, new, incoming, cut)
    BY <2>2, <2>4, Follows
  <2> QED
    BY <2>2, <2>5
<1>2. CASE current # NoText /\ OneFence(current)
  <2>1. current \in Seq(Pieces) /\ Own(current) = current
    BY <1>2 DEF Own
  <2> QED
    BY <1>2, <2>1, Replaces
<1>3. CASE current # NoText /\ ~OneFence(current)
  <2>1. current \in Seq(Pieces) /\ NoMarks(current) /\ Len(current) \in Nat /\ Own(current) = current
    BY <1>3, LenProperties DEF LocalOk, Unmarked, Where, NoMarks, Own
  <2>2. CASE new = current \o incoming
    <3>1. Padded(current, current)
      BY <2>1 DEF Padded
    <3>2. BlockIn(current, new, incoming, cut)
      BY <2>1, <2>2, <3>1, Follows
    <3> QED
      BY <2>1, <3>2
  <2>3. CASE new = (current \o <<Break>>) \o incoming
    <3>1. <<Break>> \in Seq(Pieces) /\ Len(<<Break>>) = 1 /\ <<Break>>[1] = Break
      BY DEF Pieces
    <3>2. PICK p : p = current \o <<Break>>
      OBVIOUS
    <3>3. /\ p \in Seq(Pieces) /\ Len(p) = Len(current) + 1
          /\ \A i \in 1..Len(current) + 1 : p[i] = IF i <= Len(current) THEN current[i] ELSE <<Break>>[i - Len(current)]
      BY <2>1, <3>1, <3>2, ConcatProperties
    <3>4. p[Len(current) + 1] = Break
      <4>1. Len(current) + 1 - Len(current) = 1 /\ ~(Len(current) + 1 <= Len(current))
            /\ Len(current) + 1 \in 1..Len(current) + 1
        BY <2>1
      <4> QED
        BY <3>1, <3>3, <4>1
    <3>5. Padded(p, current)
      <4>1. \A i \in Len(current) + 1..Len(p) : i = Len(current) + 1
        BY <2>1, <3>3
      <4> QED
        BY <2>1, <3>3, <3>4, <4>1 DEF Padded
    <3>6. new = p \o incoming
      BY <2>3, <3>2
    <3>7. BlockIn(current, new, incoming, cut)
      BY <2>1, <3>3, <3>5, <3>6, Follows
    <3> QED
      BY <2>1, <3>7
  <2> QED
    BY <1>3, <2>2, <2>3 DEF Spliced
<1> QED
  BY <1>1, <1>2, <1>3

AgentsTyped == agents \in Seq(Pieces) \cup {NoText}

LEMMA AgentsStart == AgentsInit => AgentsTyped
<1>1. BoundedSeq(Pieces, MaxPieces) \subseteq Seq(Pieces)
  BY SeqDef, AgentsAssumption DEF BoundedSeq, SeqOf
<1> QED
  BY <1>1 DEF AgentsInit, AgentsTyped, AgentsFiles

\* What an installation does to the file.
LEMMA SpliceKeeps ==
    ASSUME AgentsTyped, NEW incoming \in Downloads, Splice(incoming)
    PROVE  /\ AgentsTyped'
           /\ LET was  == Own(agents)
                  ours == {cut \in Cuts(download') : OnlyBlock(download', cut)}
              IN  /\ installed' = "yes" <=> Plain(was) /\ ours # {}
                  /\ installed' = "yes" =>
                        \E cut \in ours, new \in Cuts(agents') :
                           /\ Within(agents', new) = Within(download', cut)
                           /\ Keeps(was, agents', new)
                           /\ Spliced(agents', download') = agents'
<1>1. incoming \in Seq(Pieces) /\ download' = incoming /\ agents \in Seq(Pieces) \cup {NoText}
  BY AgentsAssumption DEF Splice, AgentsTyped
<1>2. PICK new, said : new = agents' /\ said = installed'
  OBVIOUS
<1>3. IncomingOk(incoming) <=> \E cut \in Cuts(incoming) : OnlyBlock(incoming, cut)
  BY <1>1, IncomingIs
<1>4. LocalOk(agents) <=> Plain(Own(agents))
  BY <1>1, LocalIs
<1>5. CASE IncomingOk(incoming) /\ LocalOk(agents)
  <2>1. new = Spliced(agents, incoming) /\ said = "yes"
    BY <1>2, <1>5 DEF Splice
  <2>2. PICK cut \in Cuts(incoming) : OnlyBlock(incoming, cut)
    BY <1>3, <1>5
  <2>0. BlockIn(Own(agents), new, incoming, cut)
    BY <1>1, <1>5, <2>1, <2>2, SplicedKeeps
  <2>3. new \in Seq(Pieces)
    BY <2>0 DEF BlockIn
  <2>4. PICK at \in Cuts(new) : Within(new, at) = Within(incoming, cut) /\ Keeps(Own(agents), new, at)
    BY <2>0 DEF BlockIn
  <2>5. Spliced(new, incoming) = new
    BY <1>1, <2>3, <2>4, Again
  <2> QED
    BY <1>1, <1>2, <1>4, <1>5, <2>1, <2>2, <2>3, <2>4, <2>5 DEF AgentsTyped
<1>6. CASE ~(IncomingOk(incoming) /\ LocalOk(agents))
  <2>1. said = "no" /\ new = agents
    BY <1>2, <1>6 DEF Splice
  <2> QED
    BY <1>1, <1>2, <1>3, <1>4, <1>6, <2>1 DEF AgentsTyped
<1> QED
  BY <1>5, <1>6

(* BlocksKept, for every file that a team may have written and every download  *)
(* that arrives: a step of the installation either leaves the file, or puts    *)
(* the block where there was one, or behind all that was there.                *)
THEOREM TeamTextStays == AgentsSpec => BlocksKept
<1>1. AgentsTyped /\ [AgentsNext]_<<agents, download, installed>> => AgentsTyped'
  BY SpliceKeeps DEF AgentsNext, AgentsTyped
<1>2. AgentsTyped /\ [AgentsNext]_<<agents, download, installed>> =>
        [installed' # installed =>
          LET was  == Own(agents)
              ours == {cut \in Cuts(download') : OnlyBlock(download', cut)}
          IN  /\ installed' = "yes" <=> Plain(was) /\ ours # {}
              /\ installed' = "yes" =>
                    \E cut \in ours, new \in Cuts(agents') :
                       /\ Within(agents', new) = Within(download', cut)
                       /\ Keeps(was, agents', new)
                       /\ Spliced(agents', download') = agents']_<<agents, download, installed>>
  BY SpliceKeeps DEF AgentsNext
<1> QED
  BY <1>1, <1>2, AgentsStart, PTL DEF AgentsSpec, BlocksKept

-----------------------------------------------------------------------------
(* Reading a document line by line, and reading it as blocks.  The places that *)
(* a reader is at, before each line and behind the last, say by themselves     *)
(* what it makes of a line; and they are what the blocks say.                  *)

Lines == SpecLines \cup ContractLines

\* What a line is to a reader who comes to it at a place.
ShownAt(at, line)   == at.fence = NoFence /\ ~Opens(line) /\ (at.comment => line.comment = "ends")
StrayAt(at, line)   == line.comment = "ends" /\ ~at.comment
HeadingAt(at, line) == ShownAt(at, line) /\ Heading(line.text) /\ ~StrayAt(at, line)
CodeAt(at, line)    == at.fence # NoFence /\ ~Closes(at.fence, line)
ContentAt(at, line) == \/ ShownAt(at, line) /\ ~HeadingAt(at, line) /\ (line.text # "blank" \/ StrayAt(at, line))
                       \/ CodeAt(at, line) /\ Literal(line) # "blank"
GoodAt(at, line)    == HeadingAt(at, line) /\ line.text \in Required /\ line.comment = "none"
EdgeAt(at, line)    == /\ at.fence = NoFence /\ ~Opens(line) /\ ~at.comment /\ line.comment # "ends"
                       /\ line.text \in Agreements \/ Heading(line.text)
StartAt(at, line)   == EdgeAt(at, line) /\ line.text \in Agreements /\ line.comment = "none"

Places == [fence : Lines \cup {NoFence}, comment : BOOLEAN]

LEMMA LinesAre ==
    /\ \A line \in Lines : line # NoFence /\ line.comment \in {"none", "begins", "ends", "whole"}
    /\ NoFence \notin Lines
    /\ \A text : Heading(text) => text \notin {"", "blank", "words"}
    /\ "" \notin Required /\ "blank" \notin Agreements /\ "words" \notin Agreements
BY DocumentAssumption DEF Lines, Heading, Required

LEMMA OutsideIs == Outside \in Places /\ Outside.fence = NoFence /\ Outside.comment = FALSE
BY DEF Outside, Places

\* Where a reader is behind a line.
LEMMA PastIs ==
    ASSUME NEW at \in Places, NEW line \in Lines
    PROVE  /\ Past(at, line) \in Places
           /\ at.fence # NoFence => Past(at, line) = IF Closes(at.fence, line) THEN Outside ELSE at
           /\ at.fence = NoFence /\ Opens(line) /\ at.comment => Past(at, line) = at
           /\ at.fence = NoFence /\ Opens(line) /\ ~at.comment =>
                 Past(at, line).fence = line /\ Past(at, line).comment = FALSE
           /\ at.fence = NoFence /\ ~Opens(line) =>
                 /\ Past(at, line).fence = NoFence
                 /\ Past(at, line).comment = (line.comment = "begins" \/ (at.comment /\ line.comment = "none"))
<1>1. at.fence \in Lines \cup {NoFence} /\ at.comment \in BOOLEAN /\ at = [fence |-> at.fence, comment |-> at.comment]
  BY DEF Places
<1>2. CASE at.fence # NoFence
  BY <1>2, OutsideIs DEF Past
<1>3. CASE at.fence = NoFence /\ Opens(line) /\ at.comment
  BY <1>3 DEF Past
<1>4. CASE at.fence = NoFence /\ Opens(line) /\ ~at.comment
  <2>1. Past(at, line) = [at EXCEPT !.fence = line]
    BY <1>4 DEF Past
  <2> QED
    BY <1>1, <1>4, <2>1 DEF Places
<1>5. CASE at.fence = NoFence /\ ~Opens(line)
  <2>1. PICK in \in BOOLEAN : in = (line.comment = "begins" \/ (at.comment /\ line.comment = "none"))
    OBVIOUS
  <2>2. Past(at, line) = [at EXCEPT !.comment = in]
    BY <1>5, <2>1 DEF Past
  <2>3. Past(at, line) \in Places /\ Past(at, line).fence = NoFence /\ Past(at, line).comment = in
    BY <1>1, <1>5, <2>2 DEF Places
  <2> QED
    BY <1>5, <2>1, <2>3
<1> QED
  BY <1>1, <1>2, <1>3, <1>4, <1>5

\* What validateSpec makes of a line ...
LEMMA SpecLineIs ==
    ASSUME NEW r, NEW at \in Places, NEW line \in Lines
    PROVE  /\ GoodAt(at, line) =>
                 ReadSpecLine(r, at, line) = [r EXCEPT !.section = line.text, !.found = Append(@, line.text)]
           /\ HeadingAt(at, line) /\ ~GoodAt(at, line) =>
                 ReadSpecLine(r, at, line) = [r EXCEPT !.section = "", !.bad = TRUE]
           /\ ContentAt(at, line) /\ r.section # "" =>
                 ReadSpecLine(r, at, line) = [r EXCEPT !.filled = @ \cup {r.section}]
           /\ ~HeadingAt(at, line) /\ ~(ContentAt(at, line) /\ r.section # "") => ReadSpecLine(r, at, line) = r
           /\ ~(HeadingAt(at, line) /\ ContentAt(at, line))
<1> DEFINE text == Visible(at, line)
           unfenced == IF ~Heading(text) THEN Fill(r, text)
                       ELSE IF text \in Required /\ line.comment = "none"
                       THEN [r EXCEPT !.section = text, !.found = Append(@, text)]
                       ELSE [r EXCEPT !.section = "", !.bad = TRUE]
<1>1. at.comment \in BOOLEAN
  BY DEF Places
<1>2. CASE at.fence # NoFence
  <2>1. ReadSpecLine(r, at, line) = IF Closes(at.fence, line) THEN r ELSE Fill(r, Literal(line))
    BY <1>2 DEF ReadSpecLine
  <2>2. ~HeadingAt(at, line) /\ ~GoodAt(at, line)
        /\ (ContentAt(at, line) <=> ~Closes(at.fence, line) /\ Literal(line) # "blank")
    BY <1>2 DEF HeadingAt, GoodAt, ContentAt, CodeAt, ShownAt
  <2> QED
    BY <2>1, <2>2 DEF Fill
<1>3. CASE at.fence = NoFence
  <2>1. ReadSpecLine(r, at, line) = unfenced
    BY <1>3 DEF ReadSpecLine
  <2>2. ~CodeAt(at, line)
    BY <1>3 DEF CodeAt
  <2>3. CASE HeadingAt(at, line)
    <3>1. text = line.text /\ Heading(text)
      BY <1>1, <2>3 DEF HeadingAt, ShownAt, StrayAt, Visible
    <3> QED
      BY <2>1, <2>2, <2>3, <3>1 DEF GoodAt, ContentAt
  <2>4. CASE ~HeadingAt(at, line)
    <3>1. ~Heading(text)
      BY <1>1, <1>3, <2>4, LinesAre DEF HeadingAt, ShownAt, StrayAt, Visible
    <3>2. ContentAt(at, line) <=> text # "blank"
      BY <1>1, <1>3, <2>2, <2>4 DEF ContentAt, ShownAt, StrayAt, Visible
    <3>3. ReadSpecLine(r, at, line) = Fill(r, text)
      BY <2>1, <3>1
    <3> QED
      BY <2>4, <3>2, <3>3 DEF GoodAt, Fill
  <2> QED
    BY <2>3, <2>4
<1> QED
  BY <1>2, <1>3

\* ... and agreementHashes: a new agreement, the end of one, or a line of it.
Anew(r, id)   == [r EXCEPT !.current = {id}, !.ids = Append(@, id)]
Ended(r)      == [r EXCEPT !.current = {}]
OneMore(r, i) == [r EXCEPT !.lines = @ \cup {<<i, id>> : id \in r.current}]

LEMMA AgreementLineIs ==
    ASSUME NEW r, NEW at \in Places, NEW line \in Lines, NEW i
    PROVE  /\ StartAt(at, line) => ReadAgreementLine(r, at, line, i) = Anew(r, line.text)
           /\ EdgeAt(at, line) /\ ~StartAt(at, line) => ReadAgreementLine(r, at, line, i) = Ended(r)
           /\ ~EdgeAt(at, line) => ReadAgreementLine(r, at, line, i) = OneMore(r, i)
<1> DEFINE text == Visible(at, line)
           starts == at.fence = NoFence /\ ~Opens(line) /\ ~(at.comment /\ line.comment = "ends")
<1>1. at.comment \in BOOLEAN
  BY DEF Places
<1>2. EdgeAt(at, line) <=> starts /\ (text \in Agreements \/ Heading(text))
  BY <1>1, LinesAre DEF EdgeAt, Visible
<1>3. EdgeAt(at, line) => text = line.text
  BY <1>1 DEF EdgeAt, Visible
<1>4. StartAt(at, line) <=> EdgeAt(at, line) /\ text \in Agreements /\ line.comment = "none"
  BY <1>3 DEF StartAt
<1>5. ReadAgreementLine(r, at, line, i) =
        IF ~EdgeAt(at, line) THEN OneMore(r, i) ELSE IF StartAt(at, line) THEN Anew(r, text) ELSE Ended(r)
  BY <1>2, <1>4 DEF ReadAgreementLine, OneMore, Anew, Ended
<1> QED
  BY <1>3, <1>4, <1>5

\* The places of a reader of the document.
Along(P) ==
    /\ doc \in Seq(Lines) /\ P \in [1..Len(doc) + 1 -> Places] /\ P[1] = Outside
    /\ \A i \in 1..Len(doc) : P[i + 1] = Past(P[i], doc[i])

\* Inside the block that a line began; the beginnings that a reader takes for one.
InBlock(at, first) == IF Opens(first) THEN at.fence = first ELSE at.fence = NoFence /\ at.comment
Begun(P) == {i \in Starts : P[i] = Outside}

LEMMA OnlyOutside ==
    ASSUME NEW at \in Places, at.fence = NoFence, ~at.comment
    PROVE  at = Outside
BY DEF Places, Outside

LEMMA BeginningIs ==
    ASSUME NEW line \in Lines
    PROVE  /\ Opens(line) \/ line.comment = "begins" => InBlock(Past(Outside, line), line)
           /\ ~Opens(line) /\ line.comment # "begins" => Past(Outside, line) = Outside
           /\ ~InBlock(Outside, line)
<1>1. Past(Outside, line) \in Places
  BY OutsideIs, PastIs
<1>2. CASE Opens(line)
  BY <1>2, OutsideIs, PastIs, LinesAre DEF InBlock
<1>3. CASE ~Opens(line)
  <2>1. Past(Outside, line).fence = NoFence /\ (Past(Outside, line).comment <=> line.comment = "begins")
    BY <1>3, OutsideIs, PastIs
  <2> QED
    BY <1>1, <1>3, <2>1, OutsideIs, OnlyOutside DEF InBlock
<1> QED
  BY <1>2, <1>3

LEMMA InsideIs ==
    ASSUME NEW at \in Places, NEW first \in Lines, NEW line \in Lines, InBlock(at, first)
    PROVE  /\ EndsBlock(first, line) => Past(at, line) = Outside
           /\ ~EndsBlock(first, line) => InBlock(Past(at, line), first)
<1>1. Past(at, line) \in Places
  BY PastIs
<1>2. CASE Opens(first)
  <2>1. at.fence = first /\ at.fence # NoFence /\ (EndsBlock(first, line) <=> Closes(at.fence, line))
    BY <1>2, LinesAre DEF InBlock, EndsBlock, Closes, Opens
  <2> QED
    BY <1>2, <2>1, PastIs DEF InBlock
<1>3. CASE ~Opens(first)
  <2>1. at.fence = NoFence /\ at.comment /\ (EndsBlock(first, line) <=> ~Opens(line) /\ line.comment \in {"ends", "whole"})
    BY <1>3 DEF InBlock, EndsBlock
  <2>2. CASE Opens(line)
    BY <1>3, <2>1, <2>2, PastIs DEF InBlock
  <2>3. CASE ~Opens(line)
    <3>1. Past(at, line).fence = NoFence /\ (Past(at, line).comment <=> line.comment \in {"begins", "none"})
      BY <2>1, <2>3, PastIs
    <3> QED
      BY <1>1, <1>3, <2>1, <2>3, <3>1, LinesAre, OnlyOutside DEF InBlock
  <2> QED
    BY <2>2, <2>3
<1> QED
  BY <1>2, <1>3

\* A block goes on to the first line that ends it, or to the end of the document.
LEMMA LastIs ==
    ASSUME doc \in Seq(Lines), NEW b \in DOMAIN doc
    PROVE  /\ LastOf(b) \in Nat /\ b < LastOf(b) /\ LastOf(b) <= Len(doc) + 1
           /\ \A k \in DOMAIN doc : b < k /\ k < LastOf(b) => ~EndsBlock(doc[b], doc[k])
           /\ LastOf(b) \in DOMAIN doc => EndsBlock(doc[b], doc[LastOf(b)])
<1> DEFINE Ends == {k \in DOMAIN doc : k > b /\ EndsBlock(doc[b], doc[k])} \cup {Len(doc) + 1}
<1>1. Len(doc) \in Nat /\ DOMAIN doc = 1..Len(doc) /\ b \in Nat
  BY LenProperties
<1>2. Ends \in SUBSET Nat /\ Len(doc) + 1 \in Ends
  BY <1>1
<1>3. PICK least \in Ends : \A k \in Ends : least <= k
  BY <1>2, LeastNumber
<1>4. LastOf(b) \in Ends /\ \A k \in Ends : LastOf(b) <= k
  BY <1>3 DEF LastOf, Min
<1> QED
  BY <1>1, <1>2, <1>4

\* Between the two ends of a block a reader is inside it, and then outside.
LEMMA Inside ==
    ASSUME NEW P, Along(P), NEW b \in Begun(P)
    PROVE  /\ \A i \in Nat : b < i /\ i <= LastOf(b) => InBlock(P[i], doc[b])
           /\ LastOf(b) \in DOMAIN doc => P[LastOf(b) + 1] = Outside
<1>1. /\ Len(doc) \in Nat /\ DOMAIN doc = 1..Len(doc) /\ b \in 1..Len(doc) /\ P[b] = Outside
      /\ Opens(doc[b]) \/ doc[b].comment = "begins"
      /\ \A i \in 1..Len(doc) : doc[i] \in Lines /\ P[i] \in Places /\ P[i + 1] = Past(P[i], doc[i])
  BY LenProperties, ElementOfSeq DEF Along, Begun, Starts
<1>2. /\ LastOf(b) \in Nat /\ b < LastOf(b) /\ LastOf(b) <= Len(doc) + 1
      /\ \A k \in DOMAIN doc : b < k /\ k < LastOf(b) => ~EndsBlock(doc[b], doc[k])
      /\ LastOf(b) \in DOMAIN doc => EndsBlock(doc[b], doc[LastOf(b)])
  BY <1>1, LastIs DEF Along
<1>3. \A i \in Nat : b < i /\ i <= LastOf(b) => InBlock(P[i], doc[b])
  <2> DEFINE Wrong == {i \in Nat : b < i /\ i <= LastOf(b) /\ ~InBlock(P[i], doc[b])}
  <2> SUFFICES ASSUME Wrong # {} PROVE FALSE
    OBVIOUS
  <2>1. PICK i \in Wrong : \A j \in Wrong : i <= j
    BY LeastNumber
  <2>2. i \in Nat /\ b < i /\ i <= LastOf(b) /\ ~InBlock(P[i], doc[b])
    BY <2>1
  <2>3. PICK j : j = i - 1
    OBVIOUS
  <2>4. j \in 1..Len(doc) /\ b <= j /\ j < LastOf(b) /\ i = j + 1 /\ j < i
    BY <1>1, <1>2, <2>2, <2>3
  <2>5. P[i] = Past(P[j], doc[j])
    BY <1>1, <2>4
  <2>6. CASE j = b
    BY <1>1, <2>2, <2>5, <2>6, BeginningIs
  <2>7. CASE j # b
    <3>1. b < j /\ j \notin Wrong
      BY <1>1, <2>1, <2>4, <2>7
    <3>2. InBlock(P[j], doc[b]) /\ ~EndsBlock(doc[b], doc[j])
      BY <1>1, <1>2, <2>4, <3>1
    <3> QED
      BY <1>1, <2>2, <2>4, <2>5, <3>2, InsideIs
  <2> QED
    BY <2>6, <2>7
<1>4. ASSUME LastOf(b) \in DOMAIN doc PROVE P[LastOf(b) + 1] = Outside
  <2>1. InBlock(P[LastOf(b)], doc[b]) /\ EndsBlock(doc[b], doc[LastOf(b)])
    BY <1>2, <1>3, <1>4
  <2> QED
    BY <1>1, <1>4, <2>1, InsideIs
<1> QED
  BY <1>3, <1>4

\* A reader who is not outside is in a block.
LEMMA Covered ==
    ASSUME NEW P, Along(P), NEW at \in 1..Len(doc) + 1, P[at] # Outside
    PROVE  \E b \in Begun(P) : b < at /\ at <= LastOf(b)
<1> DEFINE Wrong == {i \in 1..Len(doc) + 1 : P[i] # Outside /\ ~\E b \in Begun(P) : b < i /\ i <= LastOf(b)}
<1> SUFFICES ASSUME at \in Wrong PROVE FALSE
  OBVIOUS
<1>1. /\ Len(doc) \in Nat /\ DOMAIN doc = 1..Len(doc) /\ P[1] = Outside
      /\ \A i \in 1..Len(doc) : doc[i] \in Lines /\ P[i] \in Places /\ P[i + 1] = Past(P[i], doc[i])
  BY LenProperties, ElementOfSeq DEF Along
<1>2. \A b \in Begun(P) : b \in 1..Len(doc) /\ LastOf(b) \in Nat /\ b < LastOf(b)
  BY <1>1, LastIs DEF Begun, Starts, Along
<1>3. Wrong \in SUBSET Nat /\ Wrong # {}
  BY <1>1
<1>4. PICK i \in Wrong : \A j \in Wrong : i <= j
  BY <1>3, LeastNumber
<1>5. i \in 1..Len(doc) + 1 /\ P[i] # Outside /\ ~\E b \in Begun(P) : b < i /\ i <= LastOf(b)
  BY <1>4
<1>6. PICK j : j = i - 1
  OBVIOUS
<1>7. j \in 1..Len(doc) /\ i = j + 1 /\ j < i /\ j \in 1..Len(doc) + 1 /\ j \notin Wrong
  BY <1>1, <1>4, <1>5, <1>6
<1>8. P[i] = Past(P[j], doc[j])
  BY <1>1, <1>7
<1>9. CASE P[j] = Outside
  <2>1. Opens(doc[j]) \/ doc[j].comment = "begins"
    BY <1>1, <1>5, <1>7, <1>8, <1>9, BeginningIs
  <2>2. j \in Begun(P)
    BY <1>1, <1>7, <1>9, <2>1 DEF Begun, Starts
  <2>3. i <= LastOf(j)
    BY <1>2, <1>7, <2>2
  <2> QED
    BY <1>5, <1>7, <2>2, <2>3
<1>10. CASE P[j] # Outside
  <2>1. PICK b \in Begun(P) : b < j /\ j <= LastOf(b)
    BY <1>7, <1>10
  <2>2. b < i /\ ~(i <= LastOf(b))
    BY <1>2, <1>5, <1>7, <2>1
  <2>3. LastOf(b) = j
    BY <1>2, <1>7, <2>1, <2>2
  <2> QED
    BY <1>1, <1>5, <1>7, <2>3, Inside
<1> QED
  BY <1>9, <1>10

\* So the blocks are those that the reader takes for some.
LEMMA BlocksAre ==
    ASSUME NEW P, Along(P)
    PROVE  Blocks = {[first |-> b, last |-> LastOf(b)] : b \in Begun(P)}
<1>1. Len(doc) \in Nat /\ DOMAIN doc = 1..Len(doc) /\ P[1] = Outside /\ Begun(P) \subseteq Starts
      /\ Starts \subseteq 1..Len(doc) /\ \A i \in 1..Len(doc) : doc[i] \in Lines
  BY LenProperties, ElementOfSeq DEF Along, Starts, Begun
<1>2. \A b \in Starts : b \in Nat /\ LastOf(b) \in Nat /\ b < LastOf(b)
  <2> TAKE b \in Starts
  <2>1. b \in DOMAIN doc /\ b \in Nat /\ doc \in Seq(Lines)
    BY <1>1 DEF Along
  <2> QED
    BY <2>1, LastIs
<1>3. ASSUME NEW i \in Starts
      PROVE  i \in Begun(P) <=> \A c \in Begun(P) : c < i => LastOf(c) < i
  <2>1. ASSUME i \in Begun(P), NEW c \in Begun(P), c < i PROVE LastOf(c) < i
    <3>1. ~InBlock(P[i], doc[c])
      BY <1>1, <2>1, BeginningIs DEF Begun
    <3>2. ~(i <= LastOf(c))
      BY <1>1, <2>1, <3>1, Inside
    <3>3. c \in Starts
      BY <1>1
    <3>4. LastOf(c) \in Nat /\ i \in Nat
      BY <1>2, <3>3
    <3> QED
      BY <3>2, <3>4
  <2>2. ASSUME i \notin Begun(P) PROVE \E c \in Begun(P) : c < i /\ ~(LastOf(c) < i)
    <3>1. P[i] # Outside /\ i \in 1..Len(doc) + 1
      BY <1>1, <2>2 DEF Begun
    <3>2. PICK c \in Begun(P) : c < i /\ i <= LastOf(c)
      BY <3>1, Covered
    <3>3. c \in Starts
      BY <1>1
    <3>4. LastOf(c) \in Nat /\ i \in Nat
      BY <1>2, <3>3
    <3> QED
      BY <3>2, <3>4
  <2> QED
    BY <2>1, <2>2
<1>4. Begun(P) \in SUBSET Starts /\ Counted(Begun(P))
  BY <1>1, <1>3 DEF Counted
<1>5. ASSUME NEW S \in SUBSET Starts, Counted(S) PROVE S = Begun(P)
  <2> DEFINE Wrong == {i \in Starts : ~(i \in S <=> i \in Begun(P))}
  <2> SUFFICES ASSUME Wrong # {} PROVE FALSE
    <3>1. \A i \in Starts : i \in S <=> i \in Begun(P)
      OBVIOUS
    <3>2. \A i : i \in S => i \in Starts
      BY <1>5
    <3>3. \A i : i \in Begun(P) => i \in Starts
      BY <1>1
    <3>4. \A i : i \in S <=> i \in Begun(P)
      BY <3>1, <3>2, <3>3
    <3> QED
      BY <3>4
  <2>1. Wrong \in SUBSET Nat
    BY <1>2
  <2>2. PICK i \in Wrong : \A j \in Wrong : i <= j
    BY <2>1, LeastNumber
  <2>3. \A c \in Starts : c < i => (c \in S <=> c \in Begun(P))
    BY <1>1, <2>2
  <2>4. i \in Starts /\ (i \in S <=> \A c \in S : c < i => LastOf(c) < i)
    BY <1>5, <2>2 DEF Counted
  <2>5. i \in S <=> i \in Begun(P)
    BY <1>1, <1>3, <2>3, <2>4
  <2> QED
    BY <2>2, <2>5
<1>6. (CHOOSE S \in SUBSET Starts : Counted(S)) = Begun(P)
  BY <1>4, <1>5
<1> QED
  BY <1>6 DEF Blocks

\* What the blocks leave to see is what the reader sees.
LEMMA SeenIs ==
    ASSUME NEW P, Along(P), NEW i \in DOMAIN doc
    PROVE  /\ i \in Shown(Blocks) <=> ShownAt(P[i], doc[i])
           /\ i \in Shown(Blocks) => (Stray(Blocks, i) <=> StrayAt(P[i], doc[i]))
           /\ i \in Code(Blocks) <=> CodeAt(P[i], doc[i])
<1>1. /\ i \in Nat /\ i \in 1..Len(doc) /\ i \in 1..Len(doc) + 1 /\ doc \in Seq(Lines)
      /\ \A j \in DOMAIN doc : j \in Nat /\ doc[j] \in Lines /\ P[j] \in Places
  BY LenProperties, ElementOfSeq DEF Along
<1>2. /\ Fenced(Blocks, i)  <=> \E b \in Begun(P) : Opens(doc[b]) /\ b <= i /\ i <= LastOf(b)
      /\ Comment(Blocks, i) <=> \E b \in Begun(P) : ~Opens(doc[b]) /\ b < i /\ i <= LastOf(b)
      /\ Behind(Blocks, i)  <=> \E b \in Begun(P) : ~Opens(doc[b]) /\ i = LastOf(b) /\ doc[i].comment = "ends"
      /\ i \in Code(Blocks) <=> \E b \in Begun(P) : Opens(doc[b]) /\ b < i /\ i < LastOf(b)
  <2>1. \A b \in Begun(P) : \E x \in Blocks : x.first = b /\ x.last = LastOf(b)
    <3> TAKE b \in Begun(P)
    <3>1. [first |-> b, last |-> LastOf(b)] \in Blocks
      BY BlocksAre
    <3> QED
      BY <3>1
  <2>2. \A x \in Blocks : x.first \in Begun(P) /\ x.last = LastOf(x.first)
    BY BlocksAre
  <2>3. Fenced(Blocks, i) <=> \E b \in Begun(P) : Opens(doc[b]) /\ b <= i /\ i <= LastOf(b)
    BY <2>1, <2>2 DEF Fenced
  <2>4. Comment(Blocks, i) <=> \E b \in Begun(P) : ~Opens(doc[b]) /\ b < i /\ i <= LastOf(b)
    BY <2>1, <2>2 DEF Comment
  <2>5. Behind(Blocks, i)  <=> \E b \in Begun(P) : ~Opens(doc[b]) /\ i = LastOf(b) /\ doc[i].comment = "ends"
    BY <2>1, <2>2 DEF Behind
  <2>6. i \in Code(Blocks) <=> \E b \in Begun(P) : Opens(doc[b]) /\ b < i /\ i < LastOf(b)
    BY <2>1, <2>2 DEF Code
  <2> QED
    BY <2>3, <2>4, <2>5, <2>6
<1>3. \A b \in Begun(P) : b \in DOMAIN doc /\ b \in Nat /\ LastOf(b) \in Nat /\ b < LastOf(b) /\ P[b] = Outside
  BY <1>1, LastIs DEF Begun, Starts
<1>4. \A b, c \in Begun(P) : ~(b < c /\ c <= LastOf(b))
  <2> SUFFICES ASSUME NEW b \in Begun(P), NEW c \in Begun(P), b < c, c <= LastOf(b) PROVE FALSE
    OBVIOUS
  <2>1. InBlock(P[c], doc[b]) /\ P[c] = Outside /\ doc[b] \in Lines
    BY <1>1, <1>3, Inside
  <2> QED
    BY <2>1, BeginningIs
<1>5. CASE P[i] = Outside
  <2>1. \A b \in Begun(P) : ~(b < i /\ i <= LastOf(b))
    <3> SUFFICES ASSUME NEW b \in Begun(P), b < i, i <= LastOf(b) PROVE FALSE
      OBVIOUS
    <3>1. InBlock(P[i], doc[b]) /\ doc[b] \in Lines
      BY <1>1, <1>3, Inside
    <3> QED
      BY <1>5, <3>1, BeginningIs
  <2>2. ~Comment(Blocks, i) /\ ~Behind(Blocks, i) /\ i \notin Code(Blocks)
    <3>1. \A b \in Begun(P) : i = LastOf(b) \/ i < LastOf(b) => i <= LastOf(b)
      BY <1>1, <1>3
    <3> QED
      BY <1>2, <1>3, <2>1, <3>1
  <2>3. Fenced(Blocks, i) <=> Opens(doc[i])
    <3>1. ASSUME Opens(doc[i]) PROVE i \in Begun(P) /\ i <= i /\ i <= LastOf(i)
      <4>1. i \in Begun(P)
        BY <1>5, <3>1 DEF Begun, Starts
      <4> QED
        BY <1>1, <1>3, <4>1
    <3>2. \A b \in Begun(P) : b <= i /\ i <= LastOf(b) => b = i
      BY <1>1, <1>3, <2>1
    <3> QED
      BY <1>2, <3>1, <3>2
  <2> QED
    BY <1>5, <2>2, <2>3, OutsideIs DEF Shown, Stray, ShownAt, StrayAt, CodeAt
<1>6. CASE P[i] # Outside
  <2>1. PICK b \in Begun(P) : b < i /\ i <= LastOf(b)
    BY <1>1, <1>6, Covered
  <2>2. InBlock(P[i], doc[b])
    BY <1>1, <2>1, Inside
  <2>3. \A c \in Begun(P) : c <= i /\ i <= LastOf(c) => c = b
    <3> TAKE c \in Begun(P)
    <3>1. c # i
      BY <1>6, <1>3
    <3> QED
      BY <1>1, <1>3, <1>4, <2>1, <3>1
  <2>4. i = LastOf(b) <=> EndsBlock(doc[b], doc[i])
    BY <1>1, <1>3, <2>1, LastIs
  <2>5. /\ Fenced(Blocks, i) <=> Opens(doc[b])
        /\ Comment(Blocks, i) <=> ~Opens(doc[b])
        /\ Behind(Blocks, i) <=> ~Opens(doc[b]) /\ EndsBlock(doc[b], doc[i]) /\ doc[i].comment = "ends"
        /\ i \in Code(Blocks) <=> Opens(doc[b]) /\ ~EndsBlock(doc[b], doc[i])
    <3>1. \A c \in Begun(P) : /\ c < i /\ i <= LastOf(c) => c <= i /\ i <= LastOf(c)
                              /\ i = LastOf(c) => c <= i /\ i <= LastOf(c)
                              /\ c < i /\ i < LastOf(c) => c <= i /\ i <= LastOf(c)
      BY <1>1, <1>3
    <3>2. b <= i /\ (i < LastOf(b) <=> ~EndsBlock(doc[b], doc[i]))
      BY <1>1, <1>3, <2>1, <2>4
    <3> QED
      BY <1>2, <2>1, <2>3, <2>4, <3>1, <3>2
  <2>6. CASE Opens(doc[b])
    <3>1. P[i].fence = doc[b] /\ P[i].fence # NoFence /\ (Closes(P[i].fence, doc[i]) <=> EndsBlock(doc[b], doc[i]))
      BY <1>1, <1>3, <2>2, <2>6, LinesAre DEF InBlock, EndsBlock, Closes, Opens
    <3> QED
      BY <2>5, <2>6, <3>1 DEF Shown, ShownAt, CodeAt
  <2>7. CASE ~Opens(doc[b])
    <3>1. P[i].fence = NoFence /\ P[i].comment
      BY <2>2, <2>7 DEF InBlock
    <3>2. EndsBlock(doc[b], doc[i]) /\ doc[i].comment = "ends" <=> ~Opens(doc[i]) /\ doc[i].comment = "ends"
      BY <2>7 DEF EndsBlock
    <3> QED
      BY <2>5, <2>7, <3>1, <3>2 DEF Shown, Stray, ShownAt, StrayAt, CodeAt
  <2> QED
    BY <2>6, <2>7
<1> QED
  BY <1>5, <1>6

-----------------------------------------------------------------------------
\* The places S of a document where the texts of a list are, in its order.
Reads(lines, list, S) ==
    \E at \in [DOMAIN list -> S] :
        /\ S = {at[k] : k \in DOMAIN list}
        /\ \A k, l \in DOMAIN list : k < l => at[k] < at[l]
        /\ \A k \in DOMAIN list : lines[at[k]].text = list[k]

\* Of two enumerations in order, what one has next the other cannot have later.
LEMMA NoEarlier ==
    ASSUME NEW m \in Nat, NEW n \in Nat, NEW f, NEW g, NEW k \in 1..m,
           \A l \in 1..m : f[l] \in Nat, \A l \in 1..n : g[l] \in Nat, k \in 1..n,
           \A i, l \in 1..m : i < l => f[i] < f[l], \A i, l \in 1..n : i < l => g[i] < g[l],
           \E l \in 1..n : f[k] = g[l],
           \A l \in 1..m : l < k => f[l] = g[l]
    PROVE  g[k] <= f[k]
<1>1. PICK l \in 1..n : f[k] = g[l]
  OBVIOUS
<1>2. CASE l < k
  BY <1>1, <1>2
<1>3. CASE l = k
  BY <1>1, <1>3
<1>4. CASE k < l
  BY <1>1, <1>4
<1> QED
  BY <1>2, <1>3, <1>4

LEMMA NoLonger ==
    ASSUME NEW m \in Nat, NEW n \in Nat, NEW f, NEW g,
           \A l \in 1..n : g[l] \in Nat, \A i, l \in 1..n : i < l => g[i] < g[l],
           \A k \in 1..n : \E l \in 1..m : g[k] = f[l],
           \A l \in 1..m : l \in 1..n => f[l] = g[l]
    PROVE  n <= m
<1> SUFFICES ASSUME m < n PROVE FALSE
  OBVIOUS
<1>1. PICK k : k = m + 1
  OBVIOUS
<1>2. k \in 1..n /\ m < k
  BY <1>1
<1>3. PICK l \in 1..m : g[k] = f[l]
  BY <1>2
<1>4. l \in 1..n /\ l < k
  BY <1>2
<1> QED
  BY <1>2, <1>3, <1>4

\* A set of numbers has one enumeration in order.
Enumerates(f, m, S) ==
    /\ \A l \in 1..m : f[l] \in S
    /\ \A i \in S : \E l \in 1..m : i = f[l]
    /\ \A i, l \in 1..m : i < l => f[i] < f[l]

LEMMA OneOrder ==
    ASSUME NEW m \in Nat, NEW n \in Nat, NEW f, NEW g, NEW S \in SUBSET Nat,
           Enumerates(f, m, S), Enumerates(g, n, S)
    PROVE  m = n /\ \A l \in 1..m : f[l] = g[l]
<1>1. /\ \A l \in 1..m : f[l] \in Nat /\ \E k \in 1..n : f[l] = g[k]
      /\ \A l \in 1..n : g[l] \in Nat /\ \E k \in 1..m : g[l] = f[k]
      /\ \A i, l \in 1..m : i < l => f[i] < f[l]
      /\ \A i, l \in 1..n : i < l => g[i] < g[l]
  BY DEF Enumerates
<1>2. \A l \in 1..m : l \in 1..n => f[l] = g[l]
  <2> DEFINE Wrong == {l \in 1..m : l \in 1..n /\ f[l] # g[l]}
  <2> SUFFICES ASSUME Wrong # {} PROVE FALSE
    OBVIOUS
  <2>1. Wrong \in SUBSET Nat
    OBVIOUS
  <2>2. PICK k \in Wrong : \A l \in Wrong : k <= l
    BY <2>1, LeastNumber
  <2>3. k \in 1..m /\ k \in 1..n /\ f[k] # g[k]
    BY <2>2
  <2>4. \A l \in 1..m : l < k => l \in 1..n /\ f[l] = g[l]
    <3> TAKE l \in 1..m
    <3> HAVE l < k
    <3>1. l \in 1..n /\ l \notin Wrong
      BY <2>2, <2>3
    <3> QED
      BY <3>1
  <2>5. \A l \in 1..n : l < k => g[l] = f[l]
    BY <2>3, <2>4
  <2>6. g[k] <= f[k]
    BY <1>1, <2>3, <2>4, NoEarlier
  <2>7. f[k] <= g[k]
    BY <1>1, <2>3, <2>5, NoEarlier
  <2> QED
    BY <1>1, <2>3, <2>6, <2>7
<1>3. n <= m
  BY <1>1, <1>2, NoLonger
<1>4. m <= n
  <2>1. \A l \in 1..n : l \in 1..m => g[l] = f[l]
    BY <1>2
  <2> QED
    BY <1>1, <2>1, NoLonger
<1> QED
  BY <1>2, <1>3, <1>4

\* So two lists that are read at the same places are one.
LEMMA OneReading ==
    ASSUME NEW T, NEW U, NEW lines, NEW list \in Seq(T), NEW other \in Seq(U), NEW S \in SUBSET Nat,
           Reads(lines, list, S), Reads(lines, other, S)
    PROVE  list = other
<1>1. PICK m \in Nat, n \in Nat : m = Len(list) /\ n = Len(other) /\ DOMAIN list = 1..m /\ DOMAIN other = 1..n
  BY LenProperties
<1>2. PICK f \in [DOMAIN list -> S] : /\ S = {f[k] : k \in DOMAIN list}
                                      /\ \A k, l \in DOMAIN list : k < l => f[k] < f[l]
                                      /\ \A k \in DOMAIN list : lines[f[k]].text = list[k]
  BY DEF Reads
<1>3. PICK g \in [DOMAIN other -> S] : /\ S = {g[k] : k \in DOMAIN other}
                                       /\ \A k, l \in DOMAIN other : k < l => g[k] < g[l]
                                       /\ \A k \in DOMAIN other : lines[g[k]].text = other[k]
  BY DEF Reads
<1>4. Enumerates(f, m, S)
  BY <1>1, <1>2 DEF Enumerates
<1>5. Enumerates(g, n, S)
  BY <1>1, <1>3 DEF Enumerates
<1>6. m = n /\ \A l \in 1..m : f[l] = g[l]
  BY <1>4, <1>5, OneOrder
<1>7. \A l \in 1..m : list[l] = other[l]
  BY <1>1, <1>2, <1>3, <1>6
<1>8. list \in Seq(T \cup U) /\ other \in Seq(T \cup U)
  BY SeqDef
<1> QED
  BY <1>1, <1>6, <1>7, <1>8, SeqEqual

\* A list goes on with the text of a later place.
LEMMA ReadsOn ==
    ASSUME NEW T, NEW lines, NEW more, NEW list \in Seq(T), NEW S, NEW n \in Nat, NEW x \in T,
           Reads(lines, list, S),
           \A i \in S : i \in Nat /\ i < n /\ more[i] = lines[i]
    PROVE  /\ Reads(more, list, S)
           /\ more[n].text = x => Reads(more, Append(list, x), S \cup {n})
<1>1. PICK at \in [DOMAIN list -> S] : /\ S = {at[k] : k \in DOMAIN list}
                                       /\ \A k, l \in DOMAIN list : k < l => at[k] < at[l]
                                       /\ \A k \in DOMAIN list : lines[at[k]].text = list[k]
  BY DEF Reads
<1>2. Reads(more, list, S)
  <2>1. \A k \in DOMAIN list : more[at[k]].text = list[k]
    BY <1>1
  <2> QED
    BY <1>1, <2>1 DEF Reads
<1>3. ASSUME more[n].text = x PROVE Reads(more, Append(list, x), S \cup {n})
  <2>1. PICK last : last = Len(list) + 1
    OBVIOUS
  <2>2. /\ Append(list, x) \in Seq(T) /\ DOMAIN Append(list, x) = DOMAIN list \cup {last}
        /\ \A k \in DOMAIN list : k \in Nat /\ k < last /\ k # last /\ Append(list, x)[k] = list[k]
        /\ Append(list, x)[last] = x /\ last \in Nat
    <3>1. /\ Append(list, x) \in Seq(T) /\ Len(Append(list, x)) = Len(list) + 1
          /\ \A k \in 1..Len(list) : Append(list, x)[k] = list[k]
          /\ Append(list, x)[Len(list) + 1] = x
      BY AppendProperties
    <3>2. DOMAIN list = 1..Len(list) /\ Len(list) \in Nat /\ DOMAIN Append(list, x) = 1..Len(Append(list, x))
      BY <3>1, LenProperties
    <3> QED
      BY <2>1, <3>1, <3>2
  <2> DEFINE new == [k \in DOMAIN Append(list, x) |-> IF k = last THEN n ELSE at[k]]
  <2>3. \A k \in DOMAIN list : new[k] = at[k] /\ at[k] \in S
    BY <1>1, <2>2
  <2>4. new[last] = n
    BY <2>2
  <2>5. new \in [DOMAIN Append(list, x) -> S \cup {n}]
    BY <2>2, <2>3, <2>4
  <2>6. S \cup {n} = {new[k] : k \in DOMAIN Append(list, x)}
    BY <1>1, <2>2, <2>3, <2>4
  <2>7. \A k, l \in DOMAIN Append(list, x) : k < l => new[k] < new[l]
    <3> TAKE k, l \in DOMAIN Append(list, x)
    <3> HAVE k < l
    <3>1. k \in DOMAIN list
      BY <2>2
    <3>2. CASE l = last
      <4>1. at[k] \in S /\ new[k] = at[k] /\ at[k] < n
        BY <2>3, <3>1
      <4> QED
        BY <2>4, <3>2, <4>1
    <3>3. CASE l \in DOMAIN list
      BY <1>1, <2>3, <3>1, <3>3
    <3> QED
      BY <2>2, <3>2, <3>3
  <2>8. \A k \in DOMAIN Append(list, x) : more[new[k]].text = Append(list, x)[k]
    BY <1>1, <1>3, <2>2, <2>3, <2>4
  <2> HIDE DEF new
  <2> QED
    BY <2>5, <2>6, <2>7, <2>8 DEF Reads
<1> QED
  BY <1>2, <1>3

\* The headings that a valid spec has found are the required ones as they come.
LEMMA RequiredIs ==
    /\ SPEC_HEADINGS \in Seq(Required) /\ Required \subseteq ToSet(SPEC_HEADINGS)
    /\ IsInjective(SPEC_HEADINGS) /\ InOrder(SPEC_HEADINGS)
<1>1. PICK n \in Nat : n = Len(SPEC_HEADINGS) /\ DOMAIN SPEC_HEADINGS = 1..n
  BY DocumentAssumption, LenProperties
<1>2. \A k, l \in DOMAIN SPEC_HEADINGS : SPEC_HEADINGS[k] = SPEC_HEADINGS[l] => k = l
  BY DocumentAssumption DEF IsInjective
<1>3. Required = {SPEC_HEADINGS[k] : k \in DOMAIN SPEC_HEADINGS}
  BY DEF Required, ToSet
<1>4. SPEC_HEADINGS \in Seq(Required)
  <2>1. \A k \in 1..n : SPEC_HEADINGS[k] \in Required
    BY <1>1, <1>3
  <2>2. SPEC_HEADINGS = [k \in 1..n |-> SPEC_HEADINGS[k]]
    BY <1>1, DocumentAssumption, LenProperties
  <2>3. SPEC_HEADINGS \in [1..n -> Required]
    BY <2>1, <2>2
  <2> QED
    BY <2>3, SeqDef
<1>5. InOrder(SPEC_HEADINGS)
  BY <1>1, <1>2 DEF InOrder
<1> QED
  BY <1>4, <1>5, DocumentAssumption DEF Required

LEMMA FoundIs ==
    ASSUME NEW found \in Seq(Required), IsInjective(found), Required \subseteq ToSet(found), InOrder(found)
    PROVE  found = SPEC_HEADINGS
<1>1. PICK m \in Nat, n \in Nat : /\ m = Len(found) /\ DOMAIN found = 1..m
                                  /\ n = Len(SPEC_HEADINGS) /\ DOMAIN SPEC_HEADINGS = 1..n
  BY RequiredIs, LenProperties
<1>2. Required = {SPEC_HEADINGS[k] : k \in 1..n} /\ Required = {found[k] : k \in 1..m}
  <2>1. \A k \in 1..m : found[k] \in Required
    BY <1>1, ElementOfSeq
  <2> QED
    BY <1>1, <2>1 DEF Required, ToSet
<1>3. /\ \A k, l \in 1..n : SPEC_HEADINGS[k] = SPEC_HEADINGS[l] => k = l
      /\ \A k, l \in 1..m : found[k] = found[l] => k = l
      /\ \A i, j \in 1..m, k, l \in 1..n : i <= j /\ found[i] = SPEC_HEADINGS[k] /\ found[j] = SPEC_HEADINGS[l] => k <= l
  BY <1>1, RequiredIs DEF IsInjective, InOrder
<1> DEFINE rank == [i \in 1..m |-> CHOOSE k \in 1..n : SPEC_HEADINGS[k] = found[i]]
           same == [k \in 1..n |-> k]
<1>4. \A i \in 1..m : rank[i] \in 1..n /\ SPEC_HEADINGS[rank[i]] = found[i]
  <2> TAKE i \in 1..m
  <2>1. \E k \in 1..n : SPEC_HEADINGS[k] = found[i]
    BY <1>2
  <2> QED
    BY <2>1
<1> HIDE DEF rank
<1>5. Enumerates(rank, m, 1..n)
  <2>1. \A k \in 1..n : \E i \in 1..m : k = rank[i]
    <3> TAKE k \in 1..n
    <3>1. PICK i \in 1..m : found[i] = SPEC_HEADINGS[k]
      BY <1>2
    <3> QED
      BY <1>3, <1>4, <3>1
  <2>2. \A i, j \in 1..m : i < j => rank[i] < rank[j]
    <3> TAKE i, j \in 1..m
    <3> HAVE i < j
    <3>1. rank[i] <= rank[j]
      BY <1>3, <1>4
    <3>2. rank[i] # rank[j]
      BY <1>3, <1>4
    <3> QED
      BY <1>4, <3>1, <3>2
  <2> QED
    BY <1>4, <2>1, <2>2 DEF Enumerates
<1>6. Enumerates(same, n, 1..n)
  BY DEF Enumerates
<1>7. 1..n \in SUBSET Nat /\ \A k \in 1..n : same[k] = k
  OBVIOUS
<1> HIDE DEF same
<1>8. m = n /\ \A i \in 1..m : rank[i] = same[i]
  BY <1>5, <1>6, <1>7, OneOrder
<1>9. \A i \in 1..m : found[i] = SPEC_HEADINGS[i]
  BY <1>4, <1>7, <1>8
<1> QED
  BY <1>1, <1>8, <1>9, RequiredIs, SeqEqual

-----------------------------------------------------------------------------
\* What each reader has made of the lines so far.
HeadingsIn(P) == {i \in DOMAIN doc : HeadingAt(P[i], doc[i])}
GoodIn(P)     == {i \in DOMAIN doc : GoodAt(P[i], doc[i])}
ContentIn(P)  == {i \in DOMAIN doc : ContentAt(P[i], doc[i])}
EdgesIn(P)    == {i \in DOMAIN doc : EdgeAt(P[i], doc[i])}
StartsIn(P)   == {i \in DOMAIN doc : StartAt(P[i], doc[i])}
BelowIn(P, j) == {i \in DOMAIN doc : i > j /\ ~\E e \in EdgesIn(P) : j < e /\ e <= i}

SpecRead(P) ==
    /\ spec \in [section : Required \cup {""}, found : Seq(Required), filled : SUBSET Required, bad : BOOLEAN]
    /\ Reads(doc, spec.found, GoodIn(P))
    /\ spec.bad <=> HeadingsIn(P) # GoodIn(P)
    /\ ~spec.bad => (spec.section = "" <=> HeadingsIn(P) = {})
    /\ ~spec.bad => (spec.filled # {} <=> \E i \in ContentIn(P), j \in HeadingsIn(P) : j < i)

AgreementsRead(P) ==
    /\ agreements \in [current : SUBSET Agreements, ids : Seq(Agreements), lines : SUBSET (Nat \X Agreements)]
    /\ Reads(doc, agreements.ids, StartsIn(P))
    /\ \A id : id \in agreements.current <=> \E j \in StartsIn(P) : id = doc[j].text /\ \A e \in EdgesIn(P) : e <= j
    /\ \A x : x \in agreements.lines <=> \E j \in StartsIn(P) : \E i \in BelowIn(P, j) : x = <<i, doc[j].text>>

ReadInv == \E P : Along(P) /\ place = P[Len(doc) + 1] /\ SpecRead(P) /\ AgreementsRead(P)

\* What validateSpec has made of a document is what the property says of its blocks.
LEMMA SpecsAre ==
    ASSUME NEW P, Along(P), SpecRead(P)
    PROVE  SpecsSound
<1>1. /\ spec.found \in Seq(Required) /\ spec.bad \in BOOLEAN
      /\ Reads(doc, spec.found, GoodIn(P))
      /\ spec.bad <=> HeadingsIn(P) # GoodIn(P)
      /\ ~spec.bad => (spec.filled # {} <=> \E i \in ContentIn(P), j \in HeadingsIn(P) : j < i)
  BY DEF SpecRead
<1> DEFINE H       == {i \in Shown(Blocks) : Heading(doc[i].text) /\ ~Stray(Blocks, i)}
           content == {i \in Shown(Blocks) \ H : doc[i].text # "blank" \/ Stray(Blocks, i)}
                      \cup {i \in Code(Blocks) : Literal(doc[i]) # "blank"}
           ordered == Reads(doc, SPEC_HEADINGS, HeadingsIn(P))
           clean   == \A i \in HeadingsIn(P) : doc[i].comment = "none"
           below   == \E i \in ContentIn(P), j \in HeadingsIn(P) : j < i
<1>2. \A i : i \in Shown(Blocks) \/ i \in Code(Blocks) => i \in DOMAIN doc
  BY DEF Shown, Code
<1>3. H = HeadingsIn(P)
  BY <1>2, SeenIs DEF HeadingsIn, HeadingAt
<1>4. content = ContentIn(P)
  BY <1>2, <1>3, SeenIs DEF ContentIn, ContentAt, HeadingsIn
<1>5. SpecsSound <=> (ValidSpec <=> clean /\ ordered /\ below)
  BY <1>3, <1>4 DEF SpecsSound, Reads
<1>6. GoodIn(P) \in SUBSET Nat
  BY LenProperties DEF GoodIn, Along
<1>7. HeadingsIn(P) = GoodIn(P) => clean
  BY DEF GoodIn, GoodAt
<1>8. clean /\ ordered => HeadingsIn(P) = GoodIn(P)
  <2> SUFFICES ASSUME clean, ordered, NEW i \in HeadingsIn(P) PROVE i \in GoodIn(P)
    BY DEF GoodIn, HeadingsIn, GoodAt
  <2>1. doc[i].text \in Required
    <3>1. PICK at \in [DOMAIN SPEC_HEADINGS -> HeadingsIn(P)] :
              /\ HeadingsIn(P) = {at[k] : k \in DOMAIN SPEC_HEADINGS}
              /\ \A k \in DOMAIN SPEC_HEADINGS : doc[at[k]].text = SPEC_HEADINGS[k]
      BY DEF Reads
    <3>2. PICK k \in DOMAIN SPEC_HEADINGS : i = at[k]
      BY <3>1
    <3> QED
      BY <3>1, <3>2 DEF Required, ToSet
  <2> QED
    BY <2>1 DEF GoodIn, HeadingsIn, GoodAt
<1> HIDE DEF clean, ordered, below
<1>9. CASE HeadingsIn(P) # GoodIn(P)
  BY <1>1, <1>5, <1>8, <1>9 DEF ValidSpec
<1>10. CASE HeadingsIn(P) = GoodIn(P)
  <2>1. ordered <=> spec.found = SPEC_HEADINGS
    BY <1>1, <1>6, <1>10, RequiredIs, OneReading DEF ordered
  <2>2. IsInjective(spec.found) /\ Required \subseteq ToSet(spec.found) /\ InOrder(spec.found) <=> spec.found = SPEC_HEADINGS
    BY <1>1, RequiredIs, FoundIs
  <2>3. spec.filled # {} <=> below
    BY <1>1, <1>10 DEF below
  <2> QED
    BY <1>1, <1>5, <1>7, <1>10, <2>1, <2>2, <2>3 DEF ValidSpec
<1> QED
  BY <1>9, <1>10

\* And the same for agreementHashes.
LEMMA AgreementsAre ==
    ASSUME NEW P, Along(P), AgreementsRead(P)
    PROVE  AgreementsSound
<1>1. /\ agreements.ids \in Seq(Agreements) /\ agreements.lines \in SUBSET (Nat \X Agreements)
      /\ Reads(doc, agreements.ids, StartsIn(P))
      /\ \A x : x \in agreements.lines <=> \E j \in StartsIn(P) : \E i \in BelowIn(P, j) : x = <<i, doc[j].text>>
  BY DEF AgreementsRead
<1> DEFINE edges    == {i \in Shown(Blocks) : (doc[i].text \in Agreements \/ Heading(doc[i].text)) /\ doc[i].comment # "ends"}
           starts   == {i \in edges : doc[i].text \in Agreements /\ doc[i].comment = "none"}
           Below(j) == {i \in DOMAIN doc : i > j /\ ~\E e \in edges : j < e /\ e <= i}
           texts    == UNION {BelowIn(P, j) \X {doc[j].text} : j \in StartsIn(P)}
           once     == \A j, k \in StartsIn(P) : doc[j].text = doc[k].text => j = k
           full     == \A j \in StartsIn(P) : \E i \in BelowIn(P, j) : Literal(doc[i]) # "blank"
<1>2. \A i \in DOMAIN doc : P[i].comment \in BOOLEAN
  BY LenProperties DEF Along, Places
<1>3. edges = EdgesIn(P)
  <2>1. \A i : i \in Shown(Blocks) => i \in DOMAIN doc
    BY DEF Shown
  <2> QED
    BY <1>2, <2>1, SeenIs DEF EdgesIn, EdgeAt, ShownAt
<1>4. starts = StartsIn(P)
  BY <1>3 DEF EdgesIn, StartsIn, StartAt
<1>5. \A j : Below(j) = BelowIn(P, j)
  BY <1>3 DEF BelowIn
<1>6. AgreementsSound <=> /\ agreements.lines = texts
                          /\ ValidAgreements <=> StartsIn(P) # {} /\ once /\ full
  BY <1>3, <1>4, <1>5 DEF AgreementsSound
<1>7. agreements.lines = texts
  <2>1. \A x : x \in texts <=> \E j \in StartsIn(P) : \E i \in BelowIn(P, j) : x = <<i, doc[j].text>>
    OBVIOUS
  <2> QED
    BY <1>1, <2>1
<1>8. PICK at \in [DOMAIN agreements.ids -> StartsIn(P)] :
          /\ StartsIn(P) = {at[k] : k \in DOMAIN agreements.ids}
          /\ \A k, l \in DOMAIN agreements.ids : k < l => at[k] < at[l]
          /\ \A k \in DOMAIN agreements.ids : doc[at[k]].text = agreements.ids[k]
  BY <1>1 DEF Reads
<1>9. agreements.ids # <<>> <=> StartsIn(P) # {}
  BY <1>1, <1>8, EmptySeq, LenProperties
<1>10. (\A k, l \in DOMAIN agreements.ids : k # l => agreements.ids[k] # agreements.ids[l]) <=> once
  <2>1. \A k, l \in DOMAIN agreements.ids : k # l => at[k] # at[l]
    <3>1. DOMAIN agreements.ids \in SUBSET Nat /\ StartsIn(P) \in SUBSET Nat
      BY <1>1, LenProperties DEF StartsIn, Along
    <3> TAKE k, l \in DOMAIN agreements.ids
    <3>2. k \in Nat /\ l \in Nat /\ at[k] \in Nat /\ at[l] \in Nat
      BY <1>8, <3>1
    <3>3. k < l => at[k] < at[l]
      BY <1>8
    <3>4. l < k => at[l] < at[k]
      BY <1>8
    <3> QED
      BY <3>2, <3>3, <3>4
  <2> QED
    BY <1>8, <2>1
<1>11. (\A k \in DOMAIN agreements.ids :
            \E l \in agreements.lines : l[2] = agreements.ids[k] /\ Literal(doc[l[1]]) # "blank")
       <=> \A j \in StartsIn(P) : \E h \in StartsIn(P) :
              doc[h].text = doc[j].text /\ \E i \in BelowIn(P, h) : Literal(doc[i]) # "blank"
  <2> DEFINE told(id)   == \E l \in agreements.lines : l[2] = id /\ Literal(doc[l[1]]) # "blank"
             holds(id)  == \E h \in StartsIn(P) : doc[h].text = id /\ \E i \in BelowIn(P, h) : Literal(doc[i]) # "blank"
  <2>1. ASSUME NEW id, told(id) PROVE holds(id)
    <3>1. PICK l \in agreements.lines : l[2] = id /\ Literal(doc[l[1]]) # "blank"
      BY <2>1
    <3>2. PICK h \in StartsIn(P) : \E i \in BelowIn(P, h) : l = <<i, doc[h].text>>
      BY <1>1
    <3> QED
      BY <3>1, <3>2
  <2>2. ASSUME NEW id, holds(id) PROVE told(id)
    <3>1. PICK h \in StartsIn(P) : doc[h].text = id /\ \E i \in BelowIn(P, h) : Literal(doc[i]) # "blank"
      BY <2>2
    <3>2. PICK i \in BelowIn(P, h) : Literal(doc[i]) # "blank"
      BY <3>1
    <3>3. <<i, id>> \in agreements.lines
      BY <1>1, <3>1
    <3> QED
      BY <3>2, <3>3
  <2>3. \A id : told(id) <=> holds(id)
    BY <2>1, <2>2
  <2> HIDE DEF told, holds
  <2>4. (\A k \in DOMAIN agreements.ids : told(agreements.ids[k])) <=> \A j \in StartsIn(P) : holds(doc[j].text)
    BY <1>8, <2>3
  <2> QED
    BY <2>4 DEF told, holds
<1>12. once => ((\A j \in StartsIn(P) : \E h \in StartsIn(P) :
                    doc[h].text = doc[j].text /\ \E i \in BelowIn(P, h) : Literal(doc[i]) # "blank")
                <=> full)
  OBVIOUS
<1> HIDE DEF once, full, texts
<1> QED
  BY <1>6, <1>7, <1>9, <1>10, <1>11, <1>12 DEF ValidAgreements

-----------------------------------------------------------------------------
\* A line more: its place is known, and those before it stay.
Grows(P, Q, n, line) ==
    /\ n \in Nat /\ P[n] \in Places /\ line \in Lines
    /\ DOMAIN doc' = DOMAIN doc \cup {n} /\ doc'[n] = line /\ Q[n] = P[n]
    /\ \A i \in DOMAIN doc : i \in Nat /\ i < n /\ doc'[i] = doc[i] /\ Q[i] = P[i]

LEMMA GrowsOn ==
    ASSUME NEW P, Along(P), NEW line \in Lines, doc' = Append(doc, line), place = P[Len(doc) + 1],
           place' = Past(place, line)
    PROVE  \E Q, n : Along(Q)' /\ place' = Q[Len(doc') + 1] /\ place = P[n] /\ n = Len(doc') /\ Grows(P, Q, n, line)
<1>1. PICK n : n = Len(doc) + 1
  OBVIOUS
<1>2. /\ doc \in Seq(Lines) /\ Len(doc) \in Nat /\ n \in Nat /\ n + 1 # n /\ 1..n + 1 = 1..n \cup {n + 1}
      /\ DOMAIN doc = 1..Len(doc) /\ 1..n = 1..Len(doc) \cup {n} /\ \A i \in 1..Len(doc) : i \in Nat /\ i < n /\ i + 1 \in 1..n
      /\ P \in [1..n -> Places] /\ P[1] = Outside /\ \A i \in 1..Len(doc) : P[i + 1] = Past(P[i], doc[i])
  BY <1>1, LenProperties DEF Along
<1>3. /\ doc' \in Seq(Lines) /\ Len(doc') = n /\ DOMAIN doc' = 1..n
      /\ \A i \in DOMAIN doc : doc'[i] = doc[i] /\ doc'[n] = line
  BY <1>1, <1>2, AppendProperties, LenProperties
<1>4. n \in 1..n /\ P[n] \in Places /\ place = P[n] /\ Past(place, line) \in Places
  BY <1>1, <1>2, PastIs
<1>5. PICK Q \in [1..n + 1 -> Places] : Q[n + 1] = Past(place, line) /\ \A i \in 1..n : Q[i] = P[i]
  <2> DEFINE new == [i \in 1..n + 1 |-> IF i = n + 1 THEN Past(place, line) ELSE P[i]]
  <2>1. new \in [1..n + 1 -> Places] /\ new[n + 1] = Past(place, line) /\ \A i \in 1..n : new[i] = P[i]
    BY <1>2, <1>4
  <2> HIDE DEF new
  <2> QED
    BY <2>1
<1>6. Along(Q)'
  <2>1. \A i \in 1..n : Q[i + 1] = Past(Q[i], doc'[i])
    <3> TAKE i \in 1..n
    <3>1. CASE i = n
      BY <1>2, <1>3, <1>4, <1>5, <3>1
    <3>2. CASE i \in 1..Len(doc)
      BY <1>2, <1>3, <1>5, <3>2
    <3> QED
      BY <1>2, <3>1, <3>2
  <2>2. Q[1] = Outside
    BY <1>2, <1>5
  <2> QED
    BY <1>3, <1>5, <2>1, <2>2 DEF Along
<1>7. Grows(P, Q, n, line)
  BY <1>2, <1>3, <1>4, <1>5 DEF Grows
<1> QED
  BY <1>3, <1>4, <1>5, <1>6, <1>7

\* Each sort of place has the new line's, if it is of that sort.
LEMMA PlacesGrow ==
    ASSUME NEW P, NEW Q, NEW n, NEW line, Grows(P, Q, n, line)
    PROVE  /\ GoodIn(Q)'     = GoodIn(P) \cup (IF GoodAt(P[n], line) THEN {n} ELSE {})
           /\ HeadingsIn(Q)' = HeadingsIn(P) \cup (IF HeadingAt(P[n], line) THEN {n} ELSE {})
           /\ ContentIn(Q)'  = ContentIn(P) \cup (IF ContentAt(P[n], line) THEN {n} ELSE {})
           /\ EdgesIn(Q)'    = EdgesIn(P) \cup (IF EdgeAt(P[n], line) THEN {n} ELSE {})
           /\ StartsIn(Q)'   = StartsIn(P) \cup (IF StartAt(P[n], line) THEN {n} ELSE {})
<1>1. GoodIn(Q)' = GoodIn(P) \cup (IF GoodAt(P[n], line) THEN {n} ELSE {})
  BY DEF Grows, GoodIn
<1>2. HeadingsIn(Q)' = HeadingsIn(P) \cup (IF HeadingAt(P[n], line) THEN {n} ELSE {})
  BY DEF Grows, HeadingsIn
<1>3. ContentIn(Q)' = ContentIn(P) \cup (IF ContentAt(P[n], line) THEN {n} ELSE {})
  BY DEF Grows, ContentIn
<1>4. EdgesIn(Q)' = EdgesIn(P) \cup (IF EdgeAt(P[n], line) THEN {n} ELSE {})
  BY DEF Grows, EdgesIn
<1>5. StartsIn(Q)' = StartsIn(P) \cup (IF StartAt(P[n], line) THEN {n} ELSE {})
  BY DEF Grows, StartsIn
<1> QED
  BY <1>1, <1>2, <1>3, <1>4, <1>5

LEMMA SpecGoesOn ==
    ASSUME NEW P, NEW Q, NEW n, NEW line, Grows(P, Q, n, line), SpecRead(P), spec' = ReadSpecLine(spec, P[n], line)
    PROVE  SpecRead(Q)'
<1> DEFINE Shaped(s) == s \in [section : Required \cup {""}, found : Seq(Required), filled : SUBSET Required, bad : BOOLEAN]
<1>1. /\ n \in Nat /\ P[n] \in Places /\ line \in Lines /\ doc'[n] = line
      /\ \A i \in DOMAIN doc : i \in Nat /\ i < n /\ doc'[i] = doc[i]
  BY DEF Grows
<1>2. /\ spec.found \in Seq(Required) /\ spec.section \in Required \cup {""}
      /\ spec.filled \in SUBSET Required /\ spec.bad \in BOOLEAN
      /\ Reads(doc, spec.found, GoodIn(P))
      /\ spec.bad <=> HeadingsIn(P) # GoodIn(P)
      /\ ~spec.bad => (spec.section = "" <=> HeadingsIn(P) = {})
      /\ ~spec.bad => (spec.filled # {} <=> \E i \in ContentIn(P), j \in HeadingsIn(P) : j < i)
      /\ Shaped(spec)
  BY DEF SpecRead
<1>3. /\ GoodIn(P) \subseteq HeadingsIn(P) /\ HeadingsIn(P) \subseteq DOMAIN doc /\ n \notin DOMAIN doc
      /\ \A i \in DOMAIN doc : i \in Nat /\ i < n /\ ~(n < i)
      /\ ContentIn(P) \subseteq DOMAIN doc
      /\ ~(n < n)
  BY <1>1 DEF GoodIn, HeadingsIn, GoodAt, ContentIn
<1>4. GoodAt(P[n], line) => HeadingAt(P[n], line) /\ line.text \in Required
  BY DEF GoodAt
<1>5. "" \notin Required
  BY LinesAre
<1>6. /\ Reads(doc', spec.found, GoodIn(P))
      /\ line.text \in Required => Reads(doc', Append(spec.found, line.text), GoodIn(P) \cup {n})
  <2>1. \A i \in GoodIn(P) : i \in Nat /\ i < n /\ doc'[i] = doc[i]
    BY <1>1, <1>3
  <2>2. PICK text : text = line.text
    OBVIOUS
  <2>3. Reads(doc', spec.found, GoodIn(P))
    <3>1. PICK at \in [DOMAIN spec.found -> GoodIn(P)] :
              /\ GoodIn(P) = {at[k] : k \in DOMAIN spec.found}
              /\ \A k, l \in DOMAIN spec.found : k < l => at[k] < at[l]
              /\ \A k \in DOMAIN spec.found : doc[at[k]].text = spec.found[k]
      BY <1>2 DEF Reads
    <3>2. \A k \in DOMAIN spec.found : doc'[at[k]].text = spec.found[k]
      BY <2>1, <3>1
    <3> QED
      BY <3>1, <3>2 DEF Reads
  <2> QED
    BY <1>1, <1>2, <2>1, <2>2, <2>3, ReadsOn
<1>7. /\ GoodIn(Q)'     = GoodIn(P) \cup (IF GoodAt(P[n], line) THEN {n} ELSE {})
      /\ HeadingsIn(Q)' = HeadingsIn(P) \cup (IF HeadingAt(P[n], line) THEN {n} ELSE {})
      /\ ContentIn(Q)'  = ContentIn(P) \cup (IF ContentAt(P[n], line) THEN {n} ELSE {})
  BY PlacesGrow
<1>8. ~(HeadingAt(P[n], line) /\ ContentAt(P[n], line))
  BY <1>1, SpecLineIs
<1>9. CASE GoodAt(P[n], line)
  <2>1. spec' = [spec EXCEPT !.section = line.text, !.found = Append(@, line.text)]
    BY <1>1, <1>9, SpecLineIs
  <2>2. /\ spec'.section = line.text /\ spec'.found = Append(spec.found, line.text)
        /\ spec'.filled = spec.filled /\ spec'.bad = spec.bad /\ Shaped(spec')
    <3>1. PICK text \in Required, list \in Seq(Required) : text = line.text /\ list = Append(spec.found, line.text)
      BY <1>2, <1>4, <1>9, AppendProperties
    <3>2. spec' = [spec EXCEPT !.section = text, !.found = list]
      BY <2>1, <3>1
    <3> QED
      BY <1>2, <3>1, <3>2
  <2>3. /\ GoodIn(Q)' = GoodIn(P) \cup {n} /\ HeadingsIn(Q)' = HeadingsIn(P) \cup {n} /\ ContentIn(Q)' = ContentIn(P)
    BY <1>4, <1>7, <1>8, <1>9
  <2>4. Reads(doc', spec'.found, GoodIn(Q)')
    BY <1>4, <1>6, <1>9, <2>2, <2>3
  <2>5. spec'.bad <=> HeadingsIn(Q)' # GoodIn(Q)'
    BY <1>2, <1>3, <2>2, <2>3
  <2>6. (\E i \in ContentIn(Q)', j \in HeadingsIn(Q)' : j < i) <=> \E i \in ContentIn(P), j \in HeadingsIn(P) : j < i
    BY <1>3, <2>3
  <2> QED
    BY <1>2, <1>4, <1>5, <1>9, <2>2, <2>3, <2>4, <2>5, <2>6 DEF SpecRead
<1>10. CASE HeadingAt(P[n], line) /\ ~GoodAt(P[n], line)
  <2>1. spec' = [spec EXCEPT !.section = "", !.bad = TRUE]
    BY <1>1, <1>10, SpecLineIs
  <2>2. spec'.found = spec.found /\ spec'.bad = TRUE /\ Shaped(spec')
    BY <1>2, <2>1
  <2>3. GoodIn(Q)' = GoodIn(P) /\ HeadingsIn(Q)' = HeadingsIn(P) \cup {n}
    BY <1>7, <1>10
  <2> QED
    BY <1>3, <1>6, <2>2, <2>3 DEF SpecRead
<1>11. CASE ~HeadingAt(P[n], line)
  <2>1. GoodIn(Q)' = GoodIn(P) /\ HeadingsIn(Q)' = HeadingsIn(P)
    BY <1>4, <1>7, <1>11
  <2>2. CASE ContentAt(P[n], line) /\ spec.section # ""
    <3>1. spec' = [spec EXCEPT !.filled = @ \cup {spec.section}]
      BY <1>1, <2>2, SpecLineIs
    <3>2. /\ spec'.section = spec.section /\ spec'.found = spec.found /\ spec'.bad = spec.bad
          /\ spec'.filled # {} /\ Shaped(spec')
      BY <1>2, <2>2, <3>1
    <3>3. ~spec.bad => \E i \in ContentIn(Q)', j \in HeadingsIn(Q)' : j < i
      BY <1>1, <1>2, <1>3, <1>7, <2>1, <2>2
    <3> QED
      BY <1>2, <1>6, <2>1, <3>2, <3>3 DEF SpecRead
  <2>3. CASE ~(ContentAt(P[n], line) /\ spec.section # "")
    <3>1. spec' = spec
      BY <1>1, <1>11, <2>3, SpecLineIs
    <3>2. ~spec.bad => ((\E i \in ContentIn(Q)', j \in HeadingsIn(Q)' : j < i)
                        <=> \E i \in ContentIn(P), j \in HeadingsIn(P) : j < i)
      BY <1>2, <1>7, <2>1, <2>3
    <3> QED
      BY <1>2, <1>6, <2>1, <3>1, <3>2 DEF SpecRead
  <2> QED
    BY <2>2, <2>3
<1> QED
  BY <1>9, <1>10, <1>11

LEMMA BelowGrows ==
    ASSUME NEW P, NEW Q, NEW n, NEW line, Grows(P, Q, n, line)
    PROVE  /\ EdgeAt(P[n], line) => \A j \in StartsIn(P) : BelowIn(Q, j)' = BelowIn(P, j)
           /\ ~EdgeAt(P[n], line) =>
                 \A j \in StartsIn(P) : BelowIn(Q, j)' = BelowIn(P, j) \cup (IF \A e \in EdgesIn(P) : e <= j THEN {n} ELSE {})
           /\ BelowIn(Q, n)' = {}
<1>1. /\ n \in Nat /\ DOMAIN doc' = DOMAIN doc \cup {n} /\ n \notin DOMAIN doc
      /\ \A i \in DOMAIN doc : i \in Nat /\ i < n /\ ~(n <= i)
  BY DEF Grows
<1>2. EdgesIn(Q)' = EdgesIn(P) \cup (IF EdgeAt(P[n], line) THEN {n} ELSE {}) /\ EdgesIn(P) \subseteq DOMAIN doc
  BY PlacesGrow DEF EdgesIn
<1>3. BelowIn(Q, n)' = {}
  BY <1>1 DEF BelowIn
<1>4. ASSUME NEW j \in StartsIn(P)
      PROVE  /\ EdgeAt(P[n], line) => BelowIn(Q, j)' = BelowIn(P, j)
             /\ ~EdgeAt(P[n], line) =>
                   BelowIn(Q, j)' = BelowIn(P, j) \cup (IF \A e \in EdgesIn(P) : e <= j THEN {n} ELSE {})
  <2>1. j \in Nat /\ j < n /\ j \in DOMAIN doc
    BY <1>1 DEF StartsIn
  <2>2. \A i : i \in BelowIn(Q, j)' <=> i \in DOMAIN doc \cup {n} /\ i > j /\ ~\E e \in EdgesIn(Q)' : j < e /\ e <= i
    BY <1>1 DEF BelowIn
  <2>3. \A i : i \in BelowIn(P, j) <=> i \in DOMAIN doc /\ i > j /\ ~\E e \in EdgesIn(P) : j < e /\ e <= i
    BY DEF BelowIn
  <2>4. \A i \in DOMAIN doc : i \in BelowIn(Q, j)' <=> i \in BelowIn(P, j)
    BY <1>1, <1>2, <2>2, <2>3
  <2>5. CASE EdgeAt(P[n], line)
    <3>1. n \notin BelowIn(Q, j)'
      BY <1>1, <1>2, <2>1, <2>2, <2>5
    <3> QED
      BY <2>2, <2>3, <2>4, <2>5, <3>1
  <2>6. CASE ~EdgeAt(P[n], line)
    <3>1. n \in BelowIn(Q, j)' <=> \A e \in EdgesIn(P) : e <= j
      <4>1. \A e \in EdgesIn(P) : e \in Nat /\ e <= n /\ (j < e <=> ~(e <= j))
        BY <1>1, <1>2, <2>1
      <4> QED
        BY <1>1, <1>2, <2>1, <2>2, <2>6, <4>1
    <3> QED
      BY <1>1, <2>2, <2>3, <2>4, <2>6, <3>1
  <2> QED
    BY <2>5, <2>6
<1> QED
  BY <1>3, <1>4

LEMMA AgreementsGoOn ==
    ASSUME NEW P, NEW Q, NEW n, NEW line, Grows(P, Q, n, line), AgreementsRead(P),
           agreements' = ReadAgreementLine(agreements, P[n], line, n)
    PROVE  AgreementsRead(Q)'
<1> DEFINE Seen(a) == a \in [current : SUBSET Agreements, ids : Seq(Agreements), lines : SUBSET (Nat \X Agreements)]
<1>1. /\ n \in Nat /\ P[n] \in Places /\ line \in Lines /\ doc'[n] = line
      /\ \A i \in DOMAIN doc : i \in Nat /\ i < n /\ doc'[i] = doc[i]
  BY DEF Grows
<1>2. /\ agreements.ids \in Seq(Agreements) /\ agreements.current \in SUBSET Agreements
      /\ agreements.lines \in SUBSET (Nat \X Agreements)
      /\ Reads(doc, agreements.ids, StartsIn(P))
      /\ \A id : id \in agreements.current <=> \E j \in StartsIn(P) : id = doc[j].text /\ \A e \in EdgesIn(P) : e <= j
      /\ \A x : x \in agreements.lines <=> \E j \in StartsIn(P) : \E i \in BelowIn(P, j) : x = <<i, doc[j].text>>
      /\ Seen(agreements)
  BY DEF AgreementsRead
<1>3. /\ EdgesIn(Q)'  = EdgesIn(P) \cup (IF EdgeAt(P[n], line) THEN {n} ELSE {})
      /\ StartsIn(Q)' = StartsIn(P) \cup (IF StartAt(P[n], line) THEN {n} ELSE {})
  BY PlacesGrow
<1>4. /\ \A j \in StartsIn(P) : j \in Nat /\ j < n /\ ~(n <= j) /\ doc'[j].text = doc[j].text /\ j # n
      /\ \A e \in EdgesIn(P) : e \in Nat /\ e <= n
      /\ n <= n
  BY <1>1 DEF StartsIn, EdgesIn
<1>5. StartAt(P[n], line) => EdgeAt(P[n], line) /\ line.text \in Agreements
  BY DEF StartAt
<1>6. /\ EdgeAt(P[n], line) => \A j \in StartsIn(P) : BelowIn(Q, j)' = BelowIn(P, j)
      /\ ~EdgeAt(P[n], line) =>
            \A j \in StartsIn(P) : BelowIn(Q, j)' = BelowIn(P, j) \cup (IF \A e \in EdgesIn(P) : e <= j THEN {n} ELSE {})
      /\ BelowIn(Q, n)' = {}
  BY BelowGrows
<1>7. /\ Reads(doc', agreements.ids, StartsIn(P))
      /\ line.text \in Agreements => Reads(doc', Append(agreements.ids, line.text), StartsIn(P) \cup {n})
  <2>1. \A i \in StartsIn(P) : i \in Nat /\ i < n /\ doc'[i] = doc[i]
    BY <1>1 DEF StartsIn
  <2>2. PICK text : text = line.text
    OBVIOUS
  <2>3. Reads(doc', agreements.ids, StartsIn(P))
    <3>1. PICK at \in [DOMAIN agreements.ids -> StartsIn(P)] :
              /\ StartsIn(P) = {at[k] : k \in DOMAIN agreements.ids}
              /\ \A k, l \in DOMAIN agreements.ids : k < l => at[k] < at[l]
              /\ \A k \in DOMAIN agreements.ids : doc[at[k]].text = agreements.ids[k]
      BY <1>2 DEF Reads
    <3>2. \A k \in DOMAIN agreements.ids : doc'[at[k]].text = agreements.ids[k]
      BY <2>1, <3>1
    <3> QED
      BY <3>1, <3>2 DEF Reads
  <2> QED
    BY <1>1, <1>2, <2>1, <2>2, <2>3, ReadsOn
<1>8. /\ StartAt(P[n], line) => agreements' = Anew(agreements, line.text)
      /\ EdgeAt(P[n], line) /\ ~StartAt(P[n], line) => agreements' = Ended(agreements)
      /\ ~EdgeAt(P[n], line) => agreements' = OneMore(agreements, n)
  BY <1>1, AgreementLineIs
<1>9. CASE EdgeAt(P[n], line)
  <2>1. /\ agreements'.lines = agreements.lines /\ Seen(agreements')
        /\ StartAt(P[n], line) => agreements'.current = {line.text} /\ agreements'.ids = Append(agreements.ids, line.text)
        /\ ~StartAt(P[n], line) => agreements'.current = {} /\ agreements'.ids = agreements.ids
    <3>1. CASE StartAt(P[n], line)
      <4>1. agreements' = [agreements EXCEPT !.current = {line.text}, !.ids = Append(@, line.text)]
        BY <1>8, <3>1 DEF Anew
      <4>2. PICK text \in Agreements, list \in Seq(Agreements) : text = line.text /\ list = Append(agreements.ids, line.text)
        BY <1>2, <1>5, <3>1, AppendProperties
      <4>3. PICK one \in SUBSET Agreements : one = {line.text}
        BY <1>5, <3>1
      <4>4. agreements' = [agreements EXCEPT !.current = one, !.ids = list]
        BY <4>1, <4>2, <4>3
      <4>5. /\ agreements'.current = one /\ agreements'.ids = list /\ agreements'.lines = agreements.lines
            /\ Seen(agreements')
        BY <1>2, <4>4
      <4> QED
        BY <3>1, <4>2, <4>3, <4>5
    <3>2. CASE ~StartAt(P[n], line)
      <4>1. agreements' = [agreements EXCEPT !.current = {}]
        BY <1>8, <1>9, <3>2 DEF Ended
      <4> QED
        BY <1>2, <3>2, <4>1
    <3> QED
      BY <3>1, <3>2
  <2>2. Reads(doc', agreements'.ids, StartsIn(Q)')
    BY <1>3, <1>5, <1>7, <2>1
  <2>3. \A id : id \in agreements'.current <=> \E j \in StartsIn(Q)' : id = doc'[j].text /\ \A e \in EdgesIn(Q)' : e <= j
    <3>1. \A j \in StartsIn(Q)' : (\A e \in EdgesIn(Q)' : e <= j) <=> j = n
      BY <1>3, <1>4, <1>9
    <3> QED
      BY <1>1, <1>3, <1>4, <2>1, <3>1
  <2>4. \A x : x \in agreements'.lines <=> \E j \in StartsIn(Q)' : \E i \in BelowIn(Q, j)' : x = <<i, doc'[j].text>>
    <3>1. ASSUME NEW x
          PROVE  (\E j \in StartsIn(Q)' : \E i \in BelowIn(Q, j)' : x = <<i, doc'[j].text>>)
                 <=> \E j \in StartsIn(P) : \E i \in BelowIn(P, j) : x = <<i, doc[j].text>>
      BY <1>3, <1>4, <1>6, <1>9
    <3> QED
      BY <1>2, <2>1, <3>1
  <2> QED
    BY <2>1, <2>2, <2>3, <2>4 DEF AgreementsRead
<1>10. CASE ~EdgeAt(P[n], line)
  <2>1. agreements' = [agreements EXCEPT !.lines = @ \cup {<<n, id>> : id \in agreements.current}]
    BY <1>8, <1>10 DEF OneMore
  <2>2. /\ agreements'.lines = agreements.lines \cup {<<n, id>> : id \in agreements.current}
        /\ agreements'.current = agreements.current /\ agreements'.ids = agreements.ids
        /\ Seen(agreements')
    BY <1>1, <1>2, <2>1
  <2>3. StartsIn(Q)' = StartsIn(P) /\ EdgesIn(Q)' = EdgesIn(P)
    BY <1>3, <1>5, <1>10
  <2>4. \A x : x \in agreements'.lines <=> \E j \in StartsIn(P) : \E i \in BelowIn(Q, j)' : x = <<i, doc[j].text>>
    <3>1. ASSUME NEW x, NEW j \in StartsIn(P)
          PROVE  (\E i \in BelowIn(Q, j)' : x = <<i, doc[j].text>>)
                 <=> \/ \E i \in BelowIn(P, j) : x = <<i, doc[j].text>>
                     \/ (\A e \in EdgesIn(P) : e <= j) /\ x = <<n, doc[j].text>>
      BY <1>6, <1>10
    <3>2. ASSUME NEW x
          PROVE  x \in {<<n, id>> : id \in agreements.current}
                 <=> \E j \in StartsIn(P) : (\A e \in EdgesIn(P) : e <= j) /\ x = <<n, doc[j].text>>
      BY <1>2
    <3> QED
      BY <1>2, <2>2, <3>1, <3>2
  <2>5. \A x : x \in agreements'.lines <=> \E j \in StartsIn(Q)' : \E i \in BelowIn(Q, j)' : x = <<i, doc'[j].text>>
    BY <1>4, <2>3, <2>4
  <2>6. \A id : id \in agreements'.current <=> \E j \in StartsIn(Q)' : id = doc'[j].text /\ \A e \in EdgesIn(Q)' : e <= j
    BY <1>2, <1>4, <2>2, <2>3
  <2> QED
    BY <1>7, <2>2, <2>3, <2>5, <2>6 DEF AgreementsRead
<1> QED
  BY <1>9, <1>10

-----------------------------------------------------------------------------
LEMMA ReadInvInit == ReadInit => ReadInv
<1> SUFFICES ASSUME ReadInit PROVE ReadInv
  OBVIOUS
<1>1. doc = <<>> /\ Len(doc) = 0 /\ doc \in Seq(Lines) /\ DOMAIN doc = {}
  BY EmptySeq, LenProperties DEF ReadInit
<1> DEFINE P == [i \in 1..1 |-> Outside]
<1>2. Along(P) /\ place = P[Len(doc) + 1]
  <2>1. Len(doc) + 1 = 1 /\ 1..Len(doc) = {} /\ P \in [1..1 -> Places] /\ P[1] = Outside
    BY <1>1, OutsideIs
  <2> HIDE DEF P
  <2> QED
    BY <1>1, <2>1 DEF Along, ReadInit
<1> HIDE DEF P
<1>3. GoodIn(P) = {} /\ HeadingsIn(P) = {} /\ ContentIn(P) = {} /\ StartsIn(P) = {}
  BY <1>1 DEF GoodIn, HeadingsIn, ContentIn, StartsIn
<1>4. \A T : <<>> \in Seq(T)
  BY EmptySeq
<1>5. Reads(doc, <<>>, {})
  <2>1. DOMAIN <<>> = {}
    BY <1>1
  <2>2. [k \in {} |-> 0] \in [DOMAIN <<>> -> {}]
    BY <2>1
  <2> QED
    BY <2>1, <2>2 DEF Reads
<1>6. SpecRead(P)
  BY <1>3, <1>4, <1>5 DEF SpecRead, ReadInit, Unread
<1>7. AgreementsRead(P)
  BY <1>3, <1>4, <1>5 DEF AgreementsRead, ReadInit, NoAgreement
<1> QED
  BY <1>2, <1>6, <1>7 DEF ReadInv

LEMMA ReadInvNext == ReadInv /\ [ReadNext]_reading => ReadInv'
<1> SUFFICES ASSUME ReadInv, [ReadNext]_reading PROVE ReadInv'
  OBVIOUS
<1>1. PICK P : Along(P) /\ place = P[Len(doc) + 1] /\ SpecRead(P) /\ AgreementsRead(P)
  BY DEF ReadInv
<1>2. ASSUME NEW line \in SpecLines \cup ContractLines, ReadLine(line) PROVE ReadInv'
  <2>1. /\ line \in Lines /\ doc' = Append(doc, line) /\ place' = Past(place, line)
        /\ spec' = ReadSpecLine(spec, place, line)
        /\ agreements' = ReadAgreementLine(agreements, place, line, Len(doc'))
    BY <1>2 DEF ReadLine, Lines
  <2>2. PICK Q, n : Along(Q)' /\ place' = Q[Len(doc') + 1] /\ place = P[n] /\ n = Len(doc') /\ Grows(P, Q, n, line)
    BY <1>1, <2>1, GrowsOn
  <2>3. SpecRead(Q)'
    BY <1>1, <2>1, <2>2, SpecGoesOn
  <2>4. AgreementsRead(Q)'
    BY <1>1, <2>1, <2>2, AgreementsGoOn
  <2> QED
    BY <2>2, <2>3, <2>4 DEF ReadInv
<1>3. CASE UNCHANGED reading
  <2>1. doc' = doc /\ place' = place /\ spec' = spec /\ agreements' = agreements
    BY <1>3 DEF reading
  <2>2. Along(P)' /\ place' = P[Len(doc') + 1]
    BY <1>1, <2>1 DEF Along
  <2>3. SpecRead(P)'
    BY <1>1, <2>1 DEF SpecRead, GoodIn, HeadingsIn, ContentIn
  <2>4. AgreementsRead(P)'
    BY <1>1, <2>1 DEF AgreementsRead, StartsIn, EdgesIn, BelowIn
  <2> QED
    BY <2>2, <2>3, <2>4 DEF ReadInv
<1> QED
  BY <1>2, <1>3 DEF ReadNext

(* At every line, the places of a reader are the ones behind the lines before, *)
(* and validateSpec and agreementHashes have what those places let them see.   *)
THEOREM DocumentRead == ReadSpec => []ReadInv
<1> QED
  BY ReadInvInit, ReadInvNext, PTL DEF ReadSpec

(* A spec passes validateSpec exactly if the required headings are there in    *)
(* order, outside fences and comments, with content below one.                 *)
THEOREM SpecsReadRight == ReadSpec => []SpecsSound
<1>1. ReadInv => SpecsSound
  BY SpecsAre DEF ReadInv
<1> QED
  BY <1>1, DocumentRead, PTL

(* agreementHashes hashes each agreement's lines, up to the next heading that   *)
(* is no example, and finds exactly the documents whose agreements are distinct *)
(* and not empty.                                                              *)
THEOREM AgreementsReadRight == ReadSpec => []AgreementsSound
<1>1. ReadInv => AgreementsSound
  BY AgreementsAre DEF ReadInv
<1> QED
  BY <1>1, DocumentRead, PTL
=============================================================================
