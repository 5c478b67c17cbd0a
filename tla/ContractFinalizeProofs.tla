----------------------- MODULE ContractFinalizeProofs -----------------------
(* Whatever a checkout's terminals do, in whatever order, and wherever they  *)
(* fail or are killed: the history only grows, an interruption can be        *)
(* retried, and a status is true, for any drafts and any number of terminals. *)
EXTENDS ContractFinalize, FiniteSetTheorems, SequenceTheorems, WellFoundedInduction, TLAPS

-----------------------------------------------------------------------------
(* The artifacts, and what a plan makes of them.                             *)

LEMMA FilesAre == Files = {"CONTRACT.md", "contract.ts", "CHANGES", "HISTORY", "STATE"}
BY DEF Files, Paths, ToSet

\* The state is replaced last.
LEMMA FirstIs ==
    ASSUME NEW S \in SUBSET Files, S # {}
    PROVE  First[S] \in S /\ (First[S] = "STATE" => S = {"STATE"})
<1> DEFINE Leads(i) == Paths[i] \in S /\ \A j \in 1..(i - 1) : Paths[j] \notin S
           n == CHOOSE i \in DOMAIN Paths : Leads(i)
<1>1. DOMAIN Paths = 1..5 /\ Len(Paths) = 5
  BY DEF Paths
<1>2. Paths[1] = "CONTRACT.md" /\ Paths[2] = "contract.ts" /\ Paths[3] = "CHANGES" /\ Paths[4] = "HISTORY" /\ Paths[5] = "STATE"
  BY DEF Paths
<1>3. \E i \in 1..5 : Leads(i)
  <2>1. CASE Paths[1] \in S
    <3>1. Leads(1) /\ 1 \in 1..5
      BY <2>1
    <3> QED
      BY <3>1
  <2>2. CASE Paths[1] \notin S /\ Paths[2] \in S
    <3>1. \A j \in 1..(2 - 1) : j = 1
      OBVIOUS
    <3>2. Leads(2) /\ 2 \in 1..5
      BY <2>2, <3>1
    <3> QED
      BY <3>2
  <2>3. CASE Paths[1] \notin S /\ Paths[2] \notin S /\ Paths[3] \in S
    <3>1. \A j \in 1..(3 - 1) : j \in {1, 2}
      OBVIOUS
    <3>2. Leads(3) /\ 3 \in 1..5
      BY <2>3, <3>1
    <3> QED
      BY <3>2
  <2>4. CASE Paths[1] \notin S /\ Paths[2] \notin S /\ Paths[3] \notin S /\ Paths[4] \in S
    <3>1. \A j \in 1..(4 - 1) : j \in {1, 2, 3}
      OBVIOUS
    <3>2. Leads(4) /\ 4 \in 1..5
      BY <2>4, <3>1
    <3> QED
      BY <3>2
  <2>5. CASE Paths[1] \notin S /\ Paths[2] \notin S /\ Paths[3] \notin S /\ Paths[4] \notin S
    <3>1. \A j \in 1..(5 - 1) : j \in {1, 2, 3, 4}
      OBVIOUS
    <3>2. Paths[5] \in S
      BY <1>2, <2>5, FilesAre
    <3>3. Leads(5) /\ 5 \in 1..5
      BY <2>5, <3>1, <3>2
    <3> QED
      BY <3>3
  <2> QED
    BY <2>1, <2>2, <2>3, <2>4, <2>5
<1>4. n \in 1..5 /\ Leads(n)
  BY <1>1, <1>3
<1>5. First[S] = Paths[n]
  BY DEF First
<1> HIDE DEF n
<1>6. Paths[n] = "STATE" => n = 5
  BY <1>2, <1>4
<1>7. n = 5 => \A j \in 1..4 : Paths[j] \notin S
  <2>1. \A j \in 1..4 : j \in 1..(5 - 1)
    OBVIOUS
  <2> QED
    BY <1>4, <2>1
<1>8. n = 5 => S = {"STATE"}
  <2>1. 1 \in 1..4 /\ 2 \in 1..4 /\ 3 \in 1..4 /\ 4 \in 1..4
    OBVIOUS
  <2> QED
    BY <1>2, <1>4, <1>7, <2>1, FilesAre
<1> QED
  BY <1>4, <1>5, <1>6, <1>8

\* A set of numbers up to n that is not empty has a greatest one: the interval
\* from it is the smallest of the intervals.
LEMMA GreatestNumber ==
    ASSUME NEW n \in Nat, NEW S \in SUBSET (1..n), S # {}
    PROVE  \E i \in S : \A j \in S : j <= i
<1> DEFINE Intervals == {i..n : i \in S}
<1>1. Intervals # {} /\ Intervals \subseteq FiniteSubsetsOf(Nat)
  <2>1. \A i \in S : i..n \in SUBSET Nat /\ IsFiniteSet(i..n)
    BY FS_Interval
  <2> QED
    BY <2>1 DEF FiniteSubsetsOf
<1>2. PICK least \in Intervals : \A other \in Intervals : <<other, least>> \notin StrictSubsetOrdering(Nat)
  BY <1>1, FS_StrictSubsetOrderingWellFounded, WFMin
<1>3. PICK i \in S : least = i..n
  OBVIOUS
<1>4. ASSUME NEW j \in S, i < j
      PROVE  FALSE
  <2>1. j..n \subseteq i..n /\ i \in i..n /\ i \notin j..n
    BY <1>4
  <2>2. j..n \in SUBSET Nat /\ i..n \in SUBSET Nat /\ j..n # i..n
    BY <2>1
  <2>3. <<j..n, i..n>> \in StrictSubsetOrdering(Nat)
    BY <2>1, <2>2 DEF StrictSubsetOrdering
  <2> QED
    BY <1>2, <1>3, <2>3
<1> QED
  BY <1>4

\* Histories, and what is appended to them.
LEMMA HistoryFacts ==
    ASSUME NEW h \in Histories
    PROVE  /\ h \in Seq(Drafts) /\ Len(h) \in 0..MaxRevisions /\ DOMAIN h = 1..Len(h) /\ \A i \in 1..Len(h) : h[i] \in Drafts
           /\ h # <<>> => Len(h) \in 1..MaxRevisions
<1>1. PICK n \in 0..MaxRevisions : h \in [1..n -> Drafts]
  BY DEF Histories
<1>2. h \in Seq(Drafts) /\ Len(h) = n
  BY <1>1, FinalizeAssumption
<1> QED
  BY <1>1, <1>2, FinalizeAssumption

LEMMA Appended ==
    ASSUME NEW h \in Histories, Len(h) < MaxRevisions, NEW d \in Drafts
    PROVE  /\ Append(h, d) \in Named /\ Len(Append(h, d)) = Len(h) + 1
           /\ \A i \in 1..Len(h) : Append(h, d)[i] = h[i]
           /\ Append(h, d)[Len(h) + 1] = d
<1>1. h \in Seq(Drafts) /\ Len(h) \in Nat
  BY HistoryFacts, FinalizeAssumption
<1>2. /\ Append(h, d) \in Seq(Drafts) /\ Len(Append(h, d)) = Len(h) + 1
      /\ \A i \in 1..Len(h) : Append(h, d)[i] = h[i]
      /\ Append(h, d)[Len(h) + 1] = d
  BY <1>1
<1>3. Append(h, d) \in [1..(Len(h) + 1) -> Drafts] /\ Append(h, d) # <<>>
  <2>1. PICK longer \in Seq(Drafts) : longer = Append(h, d)
    BY <1>2
  <2>2. longer \in [1..Len(longer) -> Drafts] /\ (longer = <<>> => Len(longer) = 0)
    BY <2>1, LenProperties, EmptySeq
  <2> QED
    BY <1>1, <1>2, <2>1, <2>2
<1>4. Len(h) + 1 \in 0..MaxRevisions
  BY <1>1, FinalizeAssumption
<1> QED
  BY <1>2, <1>3, <1>4 DEF Named, Histories

\* The types after a revision are those its history replaced last, or those its
\* first revision found and preserved.
LEMMA LastTypes ==
    ASSUME NEW h \in Histories
    PROVE  /\ Replacing(h) = {} => TypesAfter(h) = IF TypesOf[h[1]] = "preserve" THEN Legacy ELSE NoFile
           /\ Replacing(h) # {} => \E i \in Replacing(h) : /\ \A j \in Replacing(h) : j <= i
                                                           /\ TypesAfter(h) = TypesOf[h[i]]
                                                           /\ h[i] \in Drafts
<1>1. Replacing(h) \in SUBSET (1..Len(h)) /\ Len(h) \in Nat /\ \A i \in 1..Len(h) : h[i] \in Drafts
  BY HistoryFacts, FinalizeAssumption DEF Replacing
<1>2. Replacing(h) = {} => TypesAfter(h) = IF TypesOf[h[1]] = "preserve" THEN Legacy ELSE NoFile
  BY DEF TypesAfter
<1>3. ASSUME Replacing(h) # {}
      PROVE  \E i \in Replacing(h) : /\ \A j \in Replacing(h) : j <= i
                                     /\ TypesAfter(h) = TypesOf[h[i]]
                                     /\ h[i] \in Drafts
  <2> DEFINE n == CHOOSE i \in Replacing(h) : \A j \in Replacing(h) : j <= i
  <2>1. \E i \in Replacing(h) : \A j \in Replacing(h) : j <= i
    BY <1>1, <1>3, GreatestNumber
  <2>2. n \in Replacing(h) /\ \A j \in Replacing(h) : j <= n
    BY <2>1
  <2>3. TypesAfter(h) = TypesOf[h[n]]
    BY <1>3 DEF TypesAfter
  <2> HIDE DEF n
  <2> QED
    BY <1>1, <2>2, <2>3
<1> QED
  BY <1>2, <1>3

LEMMA TypesAppended ==
    ASSUME NEW h \in Histories, Len(h) < MaxRevisions, NEW d \in Drafts
    PROVE  LET rev == Append(h, d)
           IN  /\ TypesOf[d] = "preserve" => TypesAfter(rev) = IF h = <<>> THEN Legacy ELSE TypesAfter(h)
               /\ TypesOf[d] \notin {"none", "preserve"} => TypesAfter(rev) = TypesOf[d]
               /\ TypesAfter(rev) \in {TypesOf[e] : e \in Drafts} \cup {NoFile, Legacy}
<1> DEFINE rev == Append(h, d)
<1>1. /\ rev \in Histories /\ Len(rev) = Len(h) + 1 /\ Len(h) \in Nat
      /\ \A i \in 1..Len(h) : rev[i] = h[i]
      /\ rev[Len(h) + 1] = d /\ DOMAIN rev = 1..(Len(h) + 1) /\ DOMAIN h = 1..Len(h)
  BY Appended, HistoryFacts, FinalizeAssumption DEF Named
<1>2. TypesAfter(rev) \in {TypesOf[e] : e \in Drafts} \cup {NoFile, Legacy}
  BY <1>1, LastTypes
<1>3. ASSUME TypesOf[d] = "preserve" PROVE TypesAfter(rev) = IF h = <<>> THEN Legacy ELSE TypesAfter(h)
  <2>1. Replacing(rev) = Replacing(h)
    <3>1. \A i \in 1..(Len(h) + 1) : i \in 1..Len(h) \/ i = Len(h) + 1
      BY <1>1
    <3>2. \A i \in 1..Len(h) : i \in 1..(Len(h) + 1) /\ i # Len(h) + 1
      BY <1>1
    <3> QED
      BY <1>1, <1>3, <3>1, <3>2 DEF Replacing
  <2>2. CASE Replacing(h) = {}
    <3>1. /\ TypesAfter(rev) = IF TypesOf[rev[1]] = "preserve" THEN Legacy ELSE NoFile
          /\ TypesAfter(h) = IF TypesOf[h[1]] = "preserve" THEN Legacy ELSE NoFile
      BY <1>1, <2>1, <2>2, LastTypes
    <3>2. CASE h = <<>>
      <4>1. rev[1] = d
        BY <1>1, <3>2
      <4> QED
        BY <1>3, <3>1, <3>2, <4>1
    <3>3. CASE h # <<>>
      <4>1. rev[1] = h[1]
        BY <1>1, <3>3, HistoryFacts, FinalizeAssumption
      <4> QED
        BY <3>1, <3>3, <4>1
    <3> QED
      BY <3>2, <3>3
  <2>3. CASE Replacing(h) # {}
    <3>0. h # <<>>
      BY <1>1, <2>3 DEF Replacing
    <3>1. PICK i \in Replacing(h) : (\A j \in Replacing(h) : j <= i) /\ TypesAfter(h) = TypesOf[h[i]]
      BY <2>3, LastTypes
    <3>2. PICK k \in Replacing(rev) : (\A j \in Replacing(rev) : j <= k) /\ TypesAfter(rev) = TypesOf[rev[k]]
      BY <1>1, <2>1, <2>3, LastTypes
    <3>3. i \in 1..Len(h) /\ k \in 1..Len(h) /\ i <= k /\ k <= i
      BY <1>1, <2>1, <3>1, <3>2 DEF Replacing
    <3>4. i = k /\ rev[k] = h[i]
      BY <1>1, <3>3
    <3> QED
      BY <3>0, <3>1, <3>2, <3>4
  <2> QED
    BY <2>2, <2>3
<1>4. ASSUME TypesOf[d] \notin {"none", "preserve"} PROVE TypesAfter(rev) = TypesOf[d]
  <2>1. Len(h) + 1 \in Replacing(rev) /\ \A j \in Replacing(rev) : j \in 1..(Len(h) + 1)
    BY <1>1, <1>4 DEF Replacing
  <2>2. PICK k \in Replacing(rev) : (\A j \in Replacing(rev) : j <= k) /\ TypesAfter(rev) = TypesOf[rev[k]]
    BY <1>1, <2>1, LastTypes
  <2>3. k = Len(h) + 1
    BY <1>1, <2>1, <2>2
  <2> QED
    BY <1>1, <2>2, <2>3
<1> QED
  BY <1>2, <1>3, <1>4

\* A revision's artifacts.
LEMMA ContentFacts ==
    ASSUME NEW h \in Named
    PROVE  /\ Content[h] \in Contents
           /\ Content[h]["STATE"] = h /\ Content[h]["HISTORY"] = h /\ Content[h]["CHANGES"] = h
           /\ Content[h]["CONTRACT.md"] # NoFile /\ Content[h]["contract.ts"] = TypesAfter(h)
<1>1. /\ Content[h] = [f \in Files |-> CASE f = "CONTRACT.md" -> ProseOf[Last(h)]
                                         [] f = "contract.ts" -> TypesAfter(h)
                                         [] OTHER -> h]
  BY DEF Content
<1>2. ProseOf[Last(h)] \in Values /\ ProseOf[Last(h)] # NoFile
  <2>1. Len(h) \in 1..Len(h) /\ \A i \in 1..Len(h) : h[i] \in Drafts
    BY HistoryFacts, FinalizeAssumption DEF Named
  <2>2. Last(h) \in Drafts
    BY <2>1 DEF Last
  <2> QED
    BY <2>2, FinalizeAssumption DEF Values
<1>3. TypesAfter(h) \in Values
  <2>1. TypesAfter(h) \in {TypesOf[e] : e \in Drafts} \cup {NoFile, Legacy}
    BY LastTypes DEF Named
  <2> QED
    BY <2>1 DEF Values
<1>4. h \in Values
  BY DEF Values
<1>5. /\ Content[h]["STATE"] = h /\ Content[h]["HISTORY"] = h /\ Content[h]["CHANGES"] = h
      /\ Content[h]["CONTRACT.md"] = ProseOf[Last(h)] /\ Content[h]["contract.ts"] = TypesAfter(h)
  BY <1>1, FilesAre
<1>6. Content[h] \in [Files -> Values]
  BY <1>1, <1>2, <1>3, <1>4
<1> QED
  BY <1>2, <1>5, <1>6 DEF Contents

\* The revision whose state this is; and no revision recorded.
RevisionOf(fs) == IF fs["STATE"] = NoFile THEN <<>> ELSE fs["STATE"]
Blank(fs)      == fs["STATE"] = NoFile /\ fs["HISTORY"] = NoFile /\ \A f \in Files : fs[f] \in {NoFile, Legacy}
Settled(fs)    == Blank(fs) \/ \E h \in Named : fs = Content[h]

\* What planContract made sure of, and what the journal rests on.
Fits(plan)  == /\ plan.parent \in Current(plan.before)
               /\ TypesOf[plan.draft] = "none" => plan.before["contract.ts"] = NoFile
               /\ TypesOf[plan.draft] = "preserve" => plan.before["contract.ts"] # NoFile
Sound(plan) == Fits(plan) /\ Settled(plan.before)

LEMMA NamedFacts == <<>> \in Histories /\ NoFile \notin Histories /\ NoFile \notin Named
<1>1. <<>> \in [1..0 -> Drafts] /\ 0 \in 0..MaxRevisions
  BY FinalizeAssumption
<1> QED
  BY <1>1, FinalizeAssumption DEF Named, Histories

LEMMA CurrentFacts ==
    ASSUME NEW fs \in Contents, NEW h \in Current(fs)
    PROVE  /\ h = RevisionOf(fs) /\ h \in Histories
           /\ h = <<>> => fs["STATE"] = NoFile /\ fs["HISTORY"] = NoFile
           /\ h # <<>> => h \in Named /\ fs = Content[h]
<1>1. fs["STATE"] \in Named \cup {NoFile}
  BY DEF Contents
<1>2. <<>> \notin Named /\ Named \subseteq Histories
  BY DEF Named
<1> QED
  BY <1>1, <1>2, NamedFacts DEF Current, RevisionOf

\* What is settled is in place.
LEMMA SettledInPlace ==
    ASSUME NEW fs \in Contents, Settled(fs)
    PROVE  /\ RevisionOf(fs) \in InPlace(fs)
           /\ Blank(fs) \/ InPlace(fs) \notin {{}, {<<>>}}
<1>1. CASE Blank(fs)
  <2>1. fs["STATE"] = NoFile /\ fs["HISTORY"] = NoFile
    BY <1>1 DEF Blank
  <2> QED
    BY <1>1, <2>1, NamedFacts DEF RevisionOf, InPlace
<1>2. CASE ~Blank(fs)
  <2>1. PICK h \in Named : fs = Content[h]
    BY <1>2 DEF Settled
  <2>2. fs["STATE"] = h /\ h # <<>> /\ h # NoFile
    BY <2>1, ContentFacts, NamedFacts DEF Named
  <2>3. h \in InPlace(fs)
    BY <2>1, <2>2 DEF InPlace
  <2> QED
    BY <2>2, <2>3 DEF RevisionOf
<1> QED
  BY <1>1, <1>2

LEMMA InPlaceFacts ==
    ASSUME NEW fs \in Contents
    PROVE  InPlace(fs) \subseteq Histories
BY NamedFacts DEF InPlace, Contents, Named

LEMMA PlanFacts ==
    ASSUME NEW plan \in Plans
    PROVE  /\ Revision(plan) \in Named
           /\ DOMAIN Outputs(plan) \subseteq Files
           /\ \A f \in DOMAIN Outputs(plan) : Outputs(plan)[f] = Content[Revision(plan)][f]
           /\ \A f \in Files : f \notin DOMAIN Outputs(plan) => f = "contract.ts" /\ Content[Revision(plan)][f] = NoFile
           /\ plan.parent \in Histories /\ plan.draft \in Drafts /\ plan.before \in Contents /\ IsPlan(plan)
<1>1. plan.parent \in Histories /\ Len(plan.parent) < MaxRevisions /\ plan.draft \in Drafts /\ plan.before \in Contents
  BY DEF Plans, Parents
<1>2. Revision(plan) \in Named
  BY <1>1, Appended DEF Revision
<1>3. \A f \in Files : Content[Revision(plan)][f] = NoFile => f = "contract.ts"
  BY <1>2, ContentFacts, NamedFacts, FilesAre
<1>4. IsPlan(plan)
  BY FinalizeAssumption DEF IsPlan
<1> QED
  BY <1>1, <1>2, <1>3, <1>4 DEF Outputs

\* A plan that preserves types rests on some, so a revision without types
\* leaves none behind.
LEMMA NoTypesLeft ==
    ASSUME NEW plan \in Plans, Sound(plan), TypesAfter(Revision(plan)) = NoFile
    PROVE  plan.before["contract.ts"] = NoFile
<1> DEFINE h == plan.parent
           d == plan.draft
<1>1. h \in Histories /\ Len(h) < MaxRevisions /\ d \in Drafts /\ plan.before \in Contents /\ h \in Current(plan.before)
  BY DEF Plans, Parents, Sound, Fits
<1>2. TypesOf[d] \in {"none", "preserve"}
  BY <1>1, TypesAppended, FinalizeAssumption DEF Revision
<1>3. CASE TypesOf[d] = "none"
  BY <1>3 DEF Sound, Fits
<1>4. CASE TypesOf[d] = "preserve"
  <2>1. h # <<>> /\ TypesAfter(h) = NoFile /\ plan.before["contract.ts"] # NoFile
    BY <1>1, <1>4, TypesAppended, FinalizeAssumption DEF Revision, Sound, Fits
  <2>2. ~Blank(plan.before)
    BY <1>1, <2>1, CurrentFacts DEF Blank, RevisionOf
  <2>3. PICK r \in Named : plan.before = Content[r]
    BY <2>2 DEF Sound, Settled
  <2>4. plan.before["STATE"] = r /\ r # NoFile /\ plan.before["contract.ts"] = TypesAfter(r)
    BY <2>3, ContentFacts, NamedFacts
  <2>5. h = r
    BY <1>1, <2>4, CurrentFacts DEF RevisionOf
  <2> QED
    BY <2>1, <2>4, <2>5
<1> QED
  BY <1>2, <1>3, <1>4

\* Once every output is in place the artifacts are the new revision's.
LEMMA Completed ==
    ASSUME NEW plan \in Plans, Sound(plan), NEW fs \in Contents,
           \A f \in Files : fs[f] = plan.before[f] \/ (f \in DOMAIN Outputs(plan) /\ fs[f] = Outputs(plan)[f]),
           \A f \in DOMAIN Outputs(plan) : fs[f] = Outputs(plan)[f]
    PROVE  fs = Content[Revision(plan)]
<1>1. Revision(plan) \in Named /\ Content[Revision(plan)] \in Contents
  BY PlanFacts, ContentFacts
<1>2. \A f \in Files : fs[f] = Content[Revision(plan)][f]
  <2> SUFFICES ASSUME NEW f \in Files PROVE fs[f] = Content[Revision(plan)][f]
    OBVIOUS
  <2>1. CASE f \in DOMAIN Outputs(plan)
    BY <2>1, PlanFacts
  <2>2. CASE f \notin DOMAIN Outputs(plan)
    <3>1. f = "contract.ts" /\ Content[Revision(plan)][f] = NoFile /\ fs[f] = plan.before[f]
      BY <2>2, PlanFacts
    <3>2. TypesAfter(Revision(plan)) = NoFile
      BY <1>1, <3>1, ContentFacts
    <3> QED
      BY <3>1, <3>2, NoTypesLeft
  <2> QED
    BY <2>1, <2>2
<1>3. fs \in [Files -> Values] /\ Content[Revision(plan)] \in [Files -> Values]
  BY <1>1 DEF Contents
<1> QED
  BY <1>2, <1>3

\* A history starts with itself, and one that is appended to with what it was.
LEMMA PrefixSelf ==
    ASSUME NEW h \in Histories
    PROVE  IsPrefix(h, h)
BY HistoryFacts, FinalizeAssumption DEF IsPrefix

LEMMA PrefixAppended ==
    ASSUME NEW g \in Histories, NEW h \in Histories, Len(h) < MaxRevisions, NEW d \in Drafts, IsPrefix(g, h)
    PROVE  IsPrefix(g, Append(h, d))
<1> DEFINE longer == Append(h, d)
<1>1. g \in Seq(Drafts) /\ h \in Seq(Drafts) /\ Len(g) \in Nat /\ Len(h) \in Nat /\ Len(g) <= Len(h)
  BY HistoryFacts, FinalizeAssumption DEF IsPrefix
<1>2. /\ longer \in Seq(Drafts) /\ Len(longer) = Len(h) + 1 /\ \A i \in 1..Len(h) : longer[i] = h[i]
  BY Appended, HistoryFacts DEF Named
<1> HIDE DEF longer
<1>3. /\ SubSeq(h, 1, Len(g)) = [i \in 1..Len(g) |-> h[i]]
      /\ SubSeq(longer, 1, Len(g)) = [i \in 1..Len(g) |-> longer[i]]
  <2>1. ASSUME NEW s \in Seq(Drafts) PROVE SubSeq(s, 1, Len(g)) = [i \in 1..Len(g) |-> s[i]]
    BY <1>1
  <2> QED
    BY <1>1, <1>2, <2>1
<1>4. \A i \in 1..Len(g) : longer[i] = h[i]
  BY <1>1, <1>2
<1>5. SubSeq(longer, 1, Len(g)) = SubSeq(h, 1, Len(g))
  BY <1>3, <1>4
<1> QED
  BY <1>1, <1>2, <1>5 DEF IsPrefix, longer

-----------------------------------------------------------------------------
(* What holds throughout.  Only the terminal that holds the lock changes      *)
(* anything; before it does, the artifacts are those of its plan, and from    *)
(* then until the journal goes each has its old or its new value.  The state  *)
(* is replaced last: so the revision that it names was in place when it was,  *)
(* which whoever was reading has seen.                                        *)

Raws == {raw \in UNION {[D -> Values] : D \in SUBSET Files} :
            /\ "CHANGES" \in DOMAIN raw => raw["CHANGES"] \in Named \cup {NoFile, Legacy}
            /\ \A f \in DOMAIN raw \cap {"HISTORY", "STATE"} : raw[f] \in Named \cup {NoFile}}

Asking   == [pc : {"journal"}, proposal : Proposals \cup {NoFile}]
Looking  == [pc : {"read"}, proposal : Proposals \cup {NoFile}, raw : Raws, seen : SUBSET Histories]
Planning == [pc : {"lock", "recheck", "open", "snapshot", "write", "targets", "unlock"},
             plan : Plans, then : {"open", "recheck"}]
Writing  == [pc : {"create", "rename", "finish", "unlock"}, plan : Plans, left : SUBSET Files]
Telling  == [pc : {"reported"}, revision : Histories, raw : Raws, seen : SUBSET Histories]
Runs     == {Idle} \cup Asking \cup Looking \cup Planning \cup Writing \cup Telling

Types ==
    /\ files \in Contents /\ temps \subseteq Files /\ journal \in Plans \cup {NoFile, Torn}
    /\ lock \in Terminals \cup {NoFile} /\ run \in [Terminals -> Runs]
    /\ acked \subseteq Histories /\ faults \in 0..MaxFaults

JournalInv == IF IsPlan(journal) THEN Sound(journal) /\ OldOrNew(journal) ELSE Settled(files)

InOrder(p) ==
    /\ Locked(p) => lock = p
    /\ At(p, "lock") \/ Locked(p) => Fits(run[p].plan)
    /\ At(p, "snapshot") \/ At(p, "write") => journal = Torn
    /\ At(p, "write") => files = run[p].plan.before
    /\ run[p].pc \in {"targets", "create", "rename", "finish"} => journal = run[p].plan
    /\ run[p].pc \in {"create", "rename", "finish"} =>
          /\ run[p].left \subseteq DOMAIN Outputs(run[p].plan)
          /\ run[p].left = {} <=> At(p, "finish")
          /\ \A f \in DOMAIN Outputs(run[p].plan) \ run[p].left : files[f] = Outputs(run[p].plan)[f]

Watchful(p) ==
    /\ Reading(p) => /\ RevisionOf(files) \in run[p].seen
                     /\ "STATE" \in DOMAIN run[p].raw => RevisionOf(run[p].raw) \in run[p].seen
    /\ At(p, "reported") => /\ run[p].revision \in run[p].seen
                            /\ run[p].revision # <<>> => run[p].raw = Content[run[p].revision]

FinalizeInv == Types /\ JournalInv /\ Durable /\ \A p \in Terminals : InOrder(p) /\ Watchful(p)

\* What a terminal runs has the fields of its place.
LEMMA RunFacts ==
    ASSUME Types, NEW p \in Terminals
    PROVE  /\ DOMAIN run = Terminals /\ run[p] \in Runs
           /\ At(p, "idle") => run[p] = Idle
           /\ At(p, "journal") => run[p] \in Asking
           /\ At(p, "read") => run[p] \in Looking
           /\ run[p].pc \in {"lock", "recheck", "open", "snapshot", "write", "targets"} => run[p] \in Planning
           /\ run[p].pc \in {"create", "rename", "finish"} => run[p] \in Writing
           /\ At(p, "unlock") => run[p] \in Planning \cup Writing
           /\ At(p, "reported") => run[p] \in Telling
<1>1. DOMAIN run = Terminals /\ run[p] \in Runs
  BY DEF Types
<1>2. PICK x \in Runs : x = run[p]
  BY <1>1
<1>3. /\ x = Idle => x.pc = "idle"
      /\ x \in Asking => x.pc = "journal"
      /\ x \in Looking => x.pc = "read"
      /\ x \in Planning => x.pc \in {"lock", "recheck", "open", "snapshot", "write", "targets", "unlock"}
      /\ x \in Writing => x.pc \in {"create", "rename", "finish", "unlock"}
      /\ x \in Telling => x.pc = "reported"
  BY DEF Idle, Asking, Looking, Planning, Writing, Telling
<1> QED
  BY <1>1, <1>2, <1>3 DEF At, Runs

\* A terminal that has the lock has a plan.
LEMMA LockedFacts ==
    ASSUME Types, NEW p \in Terminals, At(p, "lock") \/ Locked(p)
    PROVE  run[p] \in Planning \cup Writing /\ run[p].plan \in Plans
<1>1. run[p] \in Planning \cup Writing
  BY RunFacts DEF At, Locked
<1> QED
  BY <1>1 DEF Planning, Writing

\* A step that replaces no artifact.
LEMMA StepKeeps ==
    ASSUME FinalizeInv, NEW p \in Terminals, NEW x \in Runs, run' = [run EXCEPT ![p] = x], files' = files,
           temps' \subseteq Files, journal' \in Plans \cup {NoFile, Torn}, faults' \in 0..MaxFaults,
           lock' = lock \/ (lock = NoFile /\ lock' = p) \/ (lock = p /\ lock' = NoFile),
           journal' = journal \/ Locked(p), acked' \subseteq Histories,
           JournalInv', Durable', InOrder(p)', Watchful(p)'
    PROVE  FinalizeInv'
<1>1. Types /\ run \in [Terminals -> Runs] /\ NoFile \notin Terminals
  BY FinalizeAssumption DEF FinalizeInv, Types
<1>2. Types'
  BY <1>1 DEF Types
<1>3. ASSUME NEW q \in Terminals, q # p PROVE InOrder(q)' /\ Watchful(q)'
  <2>1. run'[q] = run[q] /\ InOrder(q) /\ Watchful(q)
    BY <1>1, <1>3 DEF FinalizeInv
  <2>2. Locked(q) => lock' = q /\ journal' = journal
    <3>1. SUFFICES ASSUME Locked(q) PROVE lock' = q /\ journal' = journal
      OBVIOUS
    <3>2. lock = q /\ (Locked(p) => lock = p)
      BY <3>1, <2>1 DEF InOrder, FinalizeInv
    <3> QED
      BY <1>1, <1>3, <3>2
  <2>3. InOrder(q)'
    BY <2>1, <2>2 DEF InOrder, Locked, At
  <2>4. Watchful(q)'
    BY <2>1 DEF Watchful, Reading, At
  <2> QED
    BY <2>3, <2>4
<1> QED
  BY <1>2, <1>3 DEF FinalizeInv

\* One that only moves on at the terminal.
LEMMA MoveKeeps ==
    ASSUME FinalizeInv, NEW p \in Terminals, NEW x \in Runs, run' = [run EXCEPT ![p] = x],
           UNCHANGED <<files, journal>>, UNCHANGED acked,
           temps' \subseteq Files, faults' \in 0..MaxFaults,
           lock' = lock \/ (lock = NoFile /\ lock' = p) \/ (lock = p /\ lock' = NoFile),
           InOrder(p)', Watchful(p)'
    PROVE  FinalizeInv'
<1>1. JournalInv' /\ Durable' /\ acked' \subseteq Histories /\ journal' \in Plans \cup {NoFile, Torn}
  BY DEF FinalizeInv, JournalInv, Durable, Types, OldOrNew
<1> QED
  BY <1>1, StepKeeps

-----------------------------------------------------------------------------
\* A command that ends has nothing to keep in order.
LEMMA Ended ==
    ASSUME Types, NEW p \in Terminals, Stop(p)
    PROVE  InOrder(p)' /\ Watchful(p)' /\ Idle \in Runs /\ run' = [run EXCEPT ![p] = Idle]
<1>1. run'[p].pc = "idle" /\ run' = [run EXCEPT ![p] = Idle]
  BY RunFacts DEF Stop, Idle
<1> QED
  BY <1>1 DEF InOrder, Watchful, Locked, Reading, At, Runs

\* One that gives up goes to give the lock back.
LEMMA GivesUp ==
    ASSUME FinalizeInv, NEW p \in Terminals, Locked(p), Goto(p, "unlock"), lock' = lock
    PROVE  /\ InOrder(p)' /\ Watchful(p)'
           /\ \E x \in Runs : run' = [run EXCEPT ![p] = x]
<1> DEFINE x == [run[p] EXCEPT !.pc = "unlock"]
<1>1. Types /\ lock = p /\ Fits(run[p].plan) /\ run[p] \in Planning \cup Writing /\ DOMAIN run = Terminals
  BY RunFacts, LockedFacts DEF FinalizeInv, InOrder
<1>2. x \in Planning \cup Writing /\ x.pc = "unlock" /\ x.plan = run[p].plan
  BY <1>1 DEF Planning, Writing
<1>3. run' = [run EXCEPT ![p] = x] /\ run'[p] = x
  BY <1>1 DEF Goto
<1> HIDE DEF x
<1>4. Fits(run[p].plan)' = Fits(run'[p].plan) /\ (Fits(x.plan) <=> Fits(run[p].plan))
  BY <1>2 DEF Fits, Current
<1> QED
  BY <1>1, <1>2, <1>3, <1>4 DEF InOrder, Watchful, Locked, Reading, At, Runs

-----------------------------------------------------------------------------
\* Reading.
LEMMA StartKeeps ==
    ASSUME FinalizeInv, NEW p \in Terminals, NEW proposal \in Proposals \cup {NoFile}, Start(p, proposal)
    PROVE  FinalizeInv'
<1>1. PICK x : x = [pc |-> "journal", proposal |-> proposal] /\ run' = [run EXCEPT ![p] = x]
  BY DEF Start
<1>2. x \in Runs /\ x.pc = "journal"
  BY <1>1 DEF Asking, Runs
<1>3. run'[p] = x
  BY <1>1 DEF FinalizeInv, Types
<1>4. InOrder(p)' /\ Watchful(p)'
  BY <1>2, <1>3 DEF InOrder, Watchful, Locked, Reading, At
<1>5. UNCHANGED <<files, journal>> /\ UNCHANGED acked /\ lock' = lock /\ temps' \subseteq Files /\ faults' \in 0..MaxFaults
  BY DEF Start, disk, FinalizeInv, Types
<1> QED
  BY <1>1, <1>2, <1>4, <1>5, MoveKeeps

LEMMA ReadJournalKeeps ==
    ASSUME FinalizeInv, NEW p \in Terminals, ReadJournal(p)
    PROVE  FinalizeInv'
<1>1. Types /\ run[p] \in Asking /\ DOMAIN run = Terminals /\ files \in Contents
  BY RunFacts DEF FinalizeInv, Types, ReadJournal
<1>2. UNCHANGED <<files, journal>> /\ UNCHANGED acked /\ lock' = lock /\ temps' \subseteq Files /\ faults' \in 0..MaxFaults
  BY <1>1 DEF ReadJournal, disk, Types
<1>3. CASE journal = NoFile
  <2>1. PICK x : run' = [run EXCEPT ![p] = x]
                 /\ x = [pc |-> "read", proposal |-> run[p].proposal, raw |-> <<>>,
                         seen |-> IF run[p].proposal = NoFile THEN InPlace(files) ELSE {}]
    BY <1>3 DEF ReadJournal, IsPlan
  <2>2. <<>> \in Raws /\ DOMAIN <<>> = {}
    <3>1. <<>> \in [{} -> Values] /\ DOMAIN <<>> = {}
      OBVIOUS
    <3> QED
      BY <3>1 DEF Raws
  <2>3. x \in Looking
    <3>1. run[p].proposal \in Proposals \cup {NoFile} /\ InPlace(files) \subseteq Histories
      BY <1>1, InPlaceFacts DEF Asking
    <3> QED
      BY <2>1, <2>2, <3>1 DEF Looking
  <2>4. RevisionOf(files) \in InPlace(files)
    BY <1>1, <1>3, SettledInPlace DEF FinalizeInv, JournalInv, IsPlan
  <2>5. run'[p] = x /\ x.pc = "read" /\ x.raw = <<>> /\ (x.proposal = NoFile => x.seen = InPlace(files))
    BY <1>1, <2>1
  <2>6. RevisionOf(files)' = RevisionOf(files)
    BY <1>2 DEF RevisionOf
  <2>7. InOrder(p)' /\ Watchful(p)'
    BY <2>2, <2>4, <2>5, <2>6 DEF InOrder, Watchful, Locked, Reading, At
  <2> QED
    BY <1>2, <2>1, <2>3, <2>7, MoveKeeps DEF Runs
<1>4. CASE journal # NoFile /\ IsPlan(journal) /\ run' = [run EXCEPT ![p] = [pc |-> "lock", plan |-> journal, then |-> "recheck"]]
  <2>1. PICK x : run' = [run EXCEPT ![p] = x] /\ x = [pc |-> "lock", plan |-> journal, then |-> "recheck"]
    BY <1>4
  <2>2. journal \in Plans /\ Fits(journal)
    BY <1>1, <1>4 DEF FinalizeInv, JournalInv, Sound, IsPlan, Types
  <2>3. x \in Planning /\ run'[p] = x /\ x.pc = "lock" /\ x.plan = journal
    BY <1>1, <2>1, <2>2 DEF Planning
  <2>4. Fits(run[p].plan)' = Fits(run'[p].plan) /\ (Fits(x.plan) <=> Fits(journal))
    BY <2>3 DEF Fits, Current
  <2>5. InOrder(p)' /\ Watchful(p)'
    BY <2>2, <2>3, <2>4 DEF InOrder, Watchful, Locked, Reading, At
  <2> QED
    BY <1>2, <2>1, <2>3, <2>5, MoveKeeps DEF Runs
<1>5. CASE Stop(p)
  BY <1>1, <1>2, <1>5, Ended, MoveKeeps
<1> QED
  BY <1>3, <1>4, <1>5 DEF ReadJournal

LEMMA ReadFileKeeps ==
    ASSUME FinalizeInv, NEW p \in Terminals, NEW f \in Files, ReadFile(p, f)
    PROVE  FinalizeInv'
<1>1. Types /\ run[p] \in Looking /\ DOMAIN run = Terminals /\ files \in Contents /\ f \notin DOMAIN run[p].raw
  BY RunFacts DEF FinalizeInv, Types, ReadFile
<1>2. UNCHANGED <<files, journal>> /\ UNCHANGED acked /\ lock' = lock /\ temps' \subseteq Files /\ faults' \in 0..MaxFaults
  BY <1>1 DEF ReadFile, disk, Types
<1>3. PICK old : old = run[p].raw
  OBVIOUS
<1>4. PICK raw : raw = [g \in DOMAIN old \cup {f} |-> IF g = f THEN files[f] ELSE old[g]]
  OBVIOUS
<1>5. PICK x : x = [run[p] EXCEPT !.raw = raw]
  OBVIOUS
<1>6. run' = [run EXCEPT ![p] = x]
  BY <1>1, <1>3, <1>4, <1>5 DEF ReadFile
<1>7. raw \in Raws
  <2>1. old \in Raws
    BY <1>1, <1>3 DEF Looking
  <2>2. PICK D \in SUBSET Files : old \in [D -> Values]
    BY <2>1 DEF Raws
  <2>3. raw \in [D \cup {f} -> Values] /\ D \cup {f} \in SUBSET Files
    BY <1>1, <1>4, <2>2 DEF Contents
  <2>4. /\ "CHANGES" \in DOMAIN raw => raw["CHANGES"] \in Named \cup {NoFile, Legacy}
        /\ \A g \in DOMAIN raw \cap {"HISTORY", "STATE"} : raw[g] \in Named \cup {NoFile}
    BY <1>1, <1>4, <2>1 DEF Raws, Contents
  <2> QED
    BY <2>3, <2>4 DEF Raws
<1>8. x \in Looking /\ x.pc = "read" /\ x.raw = raw /\ x.seen = run[p].seen /\ x.proposal = run[p].proposal /\ run'[p] = x
  BY <1>1, <1>5, <1>6, <1>7 DEF Looking
<1>9. Reading(p)' => Reading(p)
  BY <1>1, <1>8 DEF Reading, At, Looking
<1>10. Reading(p) => RevisionOf(files) \in run[p].seen /\ ("STATE" \in DOMAIN old => RevisionOf(old) \in run[p].seen)
  BY <1>3 DEF FinalizeInv, Watchful
<1>11. Reading(p) /\ "STATE" \in DOMAIN raw => RevisionOf(raw) \in run[p].seen
  <2>1. CASE f = "STATE"
    BY <1>4, <1>10, <2>1 DEF RevisionOf
  <2>2. CASE f # "STATE"
    BY <1>4, <1>10, <2>2 DEF RevisionOf
  <2> QED
    BY <2>1, <2>2
<1>12. Watchful(p)'
  <2>1. RevisionOf(files)' = RevisionOf(files) /\ RevisionOf(run[p].raw)' = RevisionOf(raw)
    BY <1>2, <1>8 DEF RevisionOf
  <2> QED
    BY <1>8, <1>9, <1>10, <1>11, <2>1 DEF Watchful, At
<1>13. InOrder(p)'
  BY <1>8 DEF InOrder, Locked, At
<1> QED
  BY <1>2, <1>6, <1>8, <1>12, <1>13, MoveKeeps DEF Runs

LEMMA PlanKeeps ==
    ASSUME FinalizeInv, NEW p \in Terminals, Plan(p)
    PROVE  FinalizeInv'
<1>1. Types /\ run[p] \in Looking /\ DOMAIN run = Terminals /\ run[p].proposal # NoFile
  BY RunFacts DEF FinalizeInv, Plan, Reading
<1>2. UNCHANGED <<files, journal>> /\ UNCHANGED acked /\ lock' = lock /\ temps' \subseteq Files /\ faults' \in 0..MaxFaults
  BY <1>1 DEF Plan, disk, Types
<1>3. CASE Stop(p)
  BY <1>1, <1>2, <1>3, Ended, MoveKeeps
<1>4. CASE ~Stop(p)
  <2>1. PICK raw : raw = run[p].raw
    OBVIOUS
  <2>2. PICK plan : plan = [parent |-> run[p].proposal.parent, draft |-> run[p].proposal.draft, before |-> raw]
    OBVIOUS
  <2>3. raw \in Contents
    <3>1. raw \in Raws /\ DOMAIN raw = Files
      BY <1>1, <2>1 DEF Plan, Looking
    <3> QED
      BY <3>1, FilesAre DEF Raws, Contents
  <2>4. plan \in Plans /\ plan.before = raw
    <3>1. run[p].proposal \in Proposals
      BY <1>1 DEF Looking
    <3>2. run[p].proposal.parent \in Parents /\ run[p].proposal.draft \in Drafts
      BY <3>1 DEF Proposals
    <3> QED
      BY <2>2, <2>3, <3>2 DEF Plans
  <2>5. PICK x : x = [pc |-> "lock", plan |-> plan, then |-> "open"]
    OBVIOUS
  <2>6. run' = [run EXCEPT ![p] = x] /\ Fits(plan)
    BY <1>4, <2>1, <2>2, <2>4, <2>5 DEF Plan, Fits
  <2>7. x \in Planning /\ run'[p] = x /\ x.pc = "lock" /\ x.plan = plan
    BY <1>1, <2>4, <2>5, <2>6 DEF Planning
  <2>8. Fits(run[p].plan)' = Fits(run'[p].plan)
    BY DEF Fits, Current
  <2>9. InOrder(p)' /\ Watchful(p)'
    BY <2>6, <2>7, <2>8 DEF InOrder, Watchful, Locked, Reading, At
  <2> QED
    BY <1>2, <2>6, <2>7, <2>9, MoveKeeps DEF Runs
<1> QED
  BY <1>3, <1>4

LEMMA ReportKeeps ==
    ASSUME FinalizeInv, NEW p \in Terminals, Report(p)
    PROVE  FinalizeInv'
<1>1. Types /\ run[p] \in Looking /\ DOMAIN run = Terminals /\ Watchful(p) /\ Reading(p)
  BY RunFacts DEF FinalizeInv, Report, Reading
<1>2. UNCHANGED <<files, journal>> /\ UNCHANGED acked /\ lock' = lock /\ temps' \subseteq Files /\ faults' \in 0..MaxFaults
  BY <1>1 DEF Report, disk, Types
<1>3. PICK raw : raw = run[p].raw
  OBVIOUS
<1>4. CASE Current(raw) = {}
  BY <1>1, <1>2, <1>3, <1>4, Ended, MoveKeeps DEF Report
<1>5. CASE Current(raw) # {}
  <2>1. PICK h \in Current(raw) :
          run' = [run EXCEPT ![p] = [pc |-> "reported", revision |-> h, raw |-> raw, seen |-> run[p].seen]]
    BY <1>3, <1>5 DEF Report
  <2>2. raw \in Raws /\ raw \in Contents /\ "STATE" \in DOMAIN raw
    <3>1. raw \in Raws /\ DOMAIN raw = Files
      BY <1>1, <1>3 DEF Report, Looking
    <3> QED
      BY <3>1, FilesAre DEF Raws, Contents
  <2>3. h \in Histories /\ h = RevisionOf(raw) /\ (h # <<>> => raw = Content[h])
    BY <2>2, CurrentFacts
  <2>4. h \in run[p].seen /\ run[p].seen \subseteq Histories
    BY <1>1, <1>3, <2>2, <2>3 DEF Watchful, Looking
  <2>5. PICK x : x = [pc |-> "reported", revision |-> h, raw |-> raw, seen |-> run[p].seen]
    OBVIOUS
  <2>6. x \in Telling /\ run' = [run EXCEPT ![p] = x]
    BY <2>1, <2>2, <2>3, <2>4, <2>5 DEF Telling
  <2>7. run'[p] = x /\ x.pc = "reported" /\ x.revision = h /\ x.raw = raw /\ x.seen = run[p].seen
    BY <1>1, <2>5, <2>6
  <2>8. InOrder(p)' /\ Watchful(p)'
    BY <2>3, <2>4, <2>7 DEF InOrder, Watchful, Locked, Reading, At
  <2> QED
    BY <1>2, <2>6, <2>8, MoveKeeps DEF Runs
<1> QED
  BY <1>4, <1>5

LEMMA ReportedKeeps ==
    ASSUME FinalizeInv, NEW p \in Terminals, Reported(p) \/ Crash(p)
    PROVE  FinalizeInv'
<1>1. Types /\ Stop(p)
  BY DEF FinalizeInv, Reported, Crash
<1>2. UNCHANGED <<files, journal>> /\ UNCHANGED acked /\ lock' = lock /\ temps' \subseteq Files /\ faults' \in 0..MaxFaults
  BY <1>1, FinalizeAssumption DEF Reported, Crash, Fault, disk, Types
<1> QED
  BY <1>1, <1>2, Ended, MoveKeeps

-----------------------------------------------------------------------------
\* With the lock: a plan is carried from place to place.
LEMMA Carried ==
    ASSUME FinalizeInv, NEW p \in Terminals, run[p] \in Planning, At(p, "lock") \/ Locked(p),
           NEW pc \in {"recheck", "open", "snapshot", "write", "targets", "unlock"}, Goto(p, pc)
    PROVE  LET x == [run[p] EXCEPT !.pc = pc]
           IN  /\ x \in Runs /\ run' = [run EXCEPT ![p] = x] /\ run'[p] = x
               /\ x.pc = pc /\ x.plan = run[p].plan /\ x.plan \in Plans
               /\ Fits(run[p].plan) /\ Fits(run[p].plan)' /\ Watchful(p)'
<1> DEFINE x == [run[p] EXCEPT !.pc = pc]
<1>1. DOMAIN run = Terminals /\ Fits(run[p].plan)
  BY RunFacts DEF FinalizeInv, InOrder
<1>2. x \in Planning /\ x.pc = pc /\ x.plan = run[p].plan /\ x.plan \in Plans
  BY DEF Planning
<1>3. run' = [run EXCEPT ![p] = x] /\ run'[p] = x
  BY <1>1 DEF Goto
<1> HIDE DEF x
<1>4. Fits(run[p].plan)' = Fits(run'[p].plan) /\ Fits(x.plan)
  BY <1>1, <1>2 DEF Fits, Current
<1>5. Watchful(p)'
  BY <1>2, <1>3 DEF Watchful, Reading, At
<1> QED
  BY <1>1, <1>2, <1>3, <1>4, <1>5 DEF Runs, x

LEMMA AcquireKeeps ==
    ASSUME FinalizeInv, NEW p \in Terminals, Acquire(p)
    PROVE  FinalizeInv'
<1>1. Types /\ run[p] \in Planning /\ run[p].pc = "lock" /\ At(p, "lock")
  BY RunFacts DEF FinalizeInv, Acquire, At
<1>2. UNCHANGED <<files, journal>> /\ UNCHANGED acked /\ temps' \subseteq Files /\ faults' \in 0..MaxFaults
  BY <1>1 DEF Acquire, Types
<1>3. CASE lock = NoFile
  <2>1. PICK pc \in {"recheck", "open", "snapshot", "write", "targets", "unlock"} : pc = run[p].then /\ pc \in {"recheck", "open"}
    BY <1>1 DEF Planning
  <2>2. Goto(p, pc) /\ lock' = p
    BY <1>3, <2>1 DEF Acquire
  <2>3. PICK x : x = [run[p] EXCEPT !.pc = pc]
    OBVIOUS
  <2>4. /\ x \in Runs /\ run' = [run EXCEPT ![p] = x] /\ run'[p].pc = pc /\ Fits(run[p].plan)' /\ Watchful(p)'
    BY <1>1, <2>1, <2>2, <2>3, Carried
  <2>5. InOrder(p)'
    BY <2>1, <2>2, <2>4 DEF InOrder, Locked, At
  <2> QED
    BY <1>2, <1>3, <2>2, <2>4, <2>5, MoveKeeps
<1>4. CASE lock # NoFile
  BY <1>1, <1>2, <1>4, Ended, MoveKeeps DEF Acquire
<1> QED
  BY <1>3, <1>4

LEMMA RecheckKeeps ==
    ASSUME FinalizeInv, NEW p \in Terminals, Recheck(p)
    PROVE  FinalizeInv'
<1>1. Types /\ run[p] \in Planning /\ Locked(p) /\ lock = p
  BY RunFacts DEF FinalizeInv, InOrder, Recheck, At, Locked
<1>2. UNCHANGED <<files, journal>> /\ UNCHANGED acked /\ temps' \subseteq Files /\ faults' \in 0..MaxFaults /\ lock' = lock
  BY <1>1 DEF Recheck, disk, Types
<1>3. PICK pc \in {"recheck", "open", "snapshot", "write", "targets", "unlock"} :
         Goto(p, pc) /\ (pc = "unlock" \/ (pc = "targets" /\ journal = run[p].plan))
  BY DEF Recheck
<1>4. PICK x : x = [run[p] EXCEPT !.pc = pc]
  OBVIOUS
<1>5. /\ x \in Runs /\ run' = [run EXCEPT ![p] = x] /\ run'[p].pc = pc /\ run'[p].plan = run[p].plan
      /\ Fits(run[p].plan)' /\ Watchful(p)'
  BY <1>1, <1>3, <1>4, Carried
<1>6. InOrder(p)'
  BY <1>1, <1>2, <1>3, <1>5 DEF InOrder, Locked, At
<1> QED
  BY <1>2, <1>5, <1>6, MoveKeeps

\* The journal, while it is being made, stands for no plan.
LEMMA JournalKeeps ==
    ASSUME FinalizeInv, NEW p \in Terminals, OpenJournal(p) \/ CheckSnapshot(p)
    PROVE  FinalizeInv'
<1>1. Types /\ run[p] \in Planning /\ Locked(p) /\ lock = p /\ (At(p, "snapshot") => journal = Torn)
  BY RunFacts DEF FinalizeInv, InOrder, OpenJournal, CheckSnapshot, At, Locked
<1>2. /\ files' = files /\ UNCHANGED acked /\ temps' \subseteq Files /\ faults' \in 0..MaxFaults /\ lock' = lock
      /\ acked' \subseteq Histories
  BY <1>1 DEF OpenJournal, CheckSnapshot, Types
<1>3. PICK pc \in {"recheck", "open", "snapshot", "write", "targets", "unlock"} :
         /\ Goto(p, pc)
         /\ \/ pc = "snapshot" /\ journal = NoFile /\ journal' = Torn
            \/ pc = "unlock" /\ journal' = journal
            \/ pc = "write" /\ journal = Torn /\ journal' = Torn /\ files = run[p].plan.before
            \/ pc = "unlock" /\ journal = Torn /\ journal' = NoFile
  BY <1>1 DEF OpenJournal, CheckSnapshot
<1>4. PICK x : x = [run[p] EXCEPT !.pc = pc]
  OBVIOUS
<1>5. /\ x \in Runs /\ run' = [run EXCEPT ![p] = x] /\ run'[p].pc = pc /\ run'[p].plan = run[p].plan
      /\ Fits(run[p].plan)' /\ Watchful(p)'
  BY <1>1, <1>3, <1>4, Carried
<1>6. InOrder(p)'
  BY <1>1, <1>2, <1>3, <1>5 DEF InOrder, Locked, At
<1>7. JournalInv' /\ journal' \in Plans \cup {NoFile, Torn}
  <2>1. CASE journal' = journal
    BY <1>1, <1>2, <2>1 DEF FinalizeInv, JournalInv, Types, OldOrNew
  <2>2. CASE journal \in {NoFile, Torn} /\ journal' \in {NoFile, Torn}
    BY <1>2, <2>2 DEF FinalizeInv, JournalInv, IsPlan, Settled, Blank
  <2> QED
    BY <1>3, <2>1, <2>2
<1>8. Durable'
  BY <1>2 DEF FinalizeInv, Durable
<1> QED
  BY <1>1, <1>2, <1>5, <1>6, <1>7, <1>8, StepKeeps

LEMMA WriteJournalKeeps ==
    ASSUME FinalizeInv, NEW p \in Terminals, WriteJournal(p)
    PROVE  FinalizeInv'
<1>1. Types /\ run[p] \in Planning /\ Locked(p) /\ lock = p /\ journal = Torn /\ files = run[p].plan.before
  BY RunFacts DEF FinalizeInv, InOrder, WriteJournal, At, Locked
<1>2. /\ files' = files /\ UNCHANGED acked /\ temps' \subseteq Files /\ faults' \in 0..MaxFaults /\ lock' = lock
      /\ acked' \subseteq Histories
  BY <1>1 DEF WriteJournal, Types
<1>3. PICK pc \in {"recheck", "open", "snapshot", "write", "targets", "unlock"} : pc = "targets" /\ Goto(p, pc)
  BY DEF WriteJournal
<1>4. PICK x : x = [run[p] EXCEPT !.pc = pc]
  OBVIOUS
<1>5. /\ x \in Runs /\ run' = [run EXCEPT ![p] = x] /\ run'[p].pc = pc /\ run'[p].plan = run[p].plan
      /\ run[p].plan \in Plans /\ Fits(run[p].plan) /\ Fits(run[p].plan)' /\ Watchful(p)'
  BY <1>1, <1>3, <1>4, Carried
<1>6. PICK plan \in Plans : plan = run[p].plan /\ journal' = plan /\ Fits(plan) /\ files = plan.before
  BY <1>1, <1>5 DEF WriteJournal
<1>7. InOrder(p)'
  BY <1>1, <1>2, <1>3, <1>5, <1>6 DEF InOrder, Locked, At
<1>8. JournalInv' /\ journal' \in Plans \cup {NoFile, Torn}
  <2>1. Sound(plan)
    BY <1>1, <1>6 DEF FinalizeInv, JournalInv, IsPlan, Sound
  <2>2. Sound(journal)' /\ OldOrNew(journal)' /\ IsPlan(journal)'
    <3>1. Sound(journal)' = Sound(journal') /\ Sound(journal')
      BY <1>6, <2>1 DEF Sound, Fits, Settled, Blank, Current
    <3>2. IsPlan(journal')
      BY <1>6, PlanFacts
    <3> QED
      BY <1>2, <1>6, <3>1, <3>2 DEF OldOrNew, IsPlan
  <2> QED
    BY <1>6, <2>2 DEF JournalInv
<1>9. Durable'
  BY <1>2 DEF FinalizeInv, Durable
<1> QED
  BY <1>1, <1>2, <1>5, <1>7, <1>8, <1>9, StepKeeps

LEMMA CheckTargetsKeeps ==
    ASSUME FinalizeInv, NEW p \in Terminals, CheckTargets(p)
    PROVE  FinalizeInv'
<1>1. /\ Types /\ run[p] \in Planning /\ Locked(p) /\ lock = p /\ journal = run[p].plan /\ Fits(run[p].plan)
      /\ run[p].plan \in Plans /\ DOMAIN run = Terminals
  BY RunFacts, LockedFacts DEF FinalizeInv, InOrder, CheckTargets, At, Locked
<1>2. UNCHANGED <<files, journal>> /\ UNCHANGED acked /\ temps' \subseteq Files /\ faults' \in 0..MaxFaults /\ lock' = lock
  BY <1>1 DEF CheckTargets, disk, Types
<1>3. PICK plan \in Plans : plan = run[p].plan
  BY <1>1
<1>4. CASE run' = [run EXCEPT ![p] = [pc |-> "create", plan |-> plan, left |-> DOMAIN Outputs(plan)]]
  <2>1. PICK x : x = [pc |-> "create", plan |-> plan, left |-> DOMAIN Outputs(plan)]
    OBVIOUS
  <2>2. DOMAIN Outputs(plan) \subseteq Files /\ DOMAIN Outputs(plan) # {}
    BY <1>3, PlanFacts, FilesAre
  <2>3. x \in Writing /\ x.pc = "create" /\ x.plan = plan /\ x.left = DOMAIN Outputs(plan) /\ run'[p] = x /\ run' = [run EXCEPT ![p] = x]
    BY <1>1, <1>4, <2>1, <2>2 DEF Writing
  <2>4. Fits(run[p].plan)' = Fits(run'[p].plan) /\ Fits(plan)
    BY <1>1, <1>3 DEF Fits, Current
  <2>5. Watchful(p)'
    BY <2>3 DEF Watchful, Reading, At
  <2>6. Outputs(run[p].plan)' = Outputs(run'[p].plan)
    BY DEF Outputs, Revision
  <2>7. InOrder(p)'
    BY <1>1, <1>2, <1>3, <2>2, <2>3, <2>4, <2>6 DEF InOrder, Locked, At
  <2> QED
    BY <1>2, <2>3, <2>5, <2>7, MoveKeeps DEF Runs
<1>5. CASE Goto(p, "unlock")
  BY <1>1, <1>2, <1>5, GivesUp, MoveKeeps
<1> QED
  BY <1>3, <1>4, <1>5 DEF CheckTargets

LEMMA CreateTemporaryKeeps ==
    ASSUME FinalizeInv, NEW p \in Terminals, CreateTemporary(p)
    PROVE  FinalizeInv'
<1>1. /\ Types /\ run[p] \in Writing /\ Locked(p) /\ lock = p /\ journal = run[p].plan /\ Fits(run[p].plan)
      /\ run[p].plan \in Plans /\ DOMAIN run = Terminals /\ run[p].pc = "create"
  BY RunFacts, LockedFacts DEF FinalizeInv, InOrder, CreateTemporary, At, Locked
<1>2. /\ run[p].left \in SUBSET Files /\ run[p].left # {} /\ run[p].left \subseteq DOMAIN Outputs(run[p].plan)
      /\ \A f \in DOMAIN Outputs(run[p].plan) \ run[p].left : files[f] = Outputs(run[p].plan)[f]
  BY <1>1 DEF FinalizeInv, InOrder, Writing, At
<1>3. First[run[p].left] \in Files
  BY <1>2, FirstIs
<1>4. UNCHANGED <<files, journal>> /\ UNCHANGED acked /\ temps' \subseteq Files /\ faults' \in 0..MaxFaults /\ lock' = lock
  BY <1>1, <1>3 DEF CreateTemporary, Types
<1>5. CASE Goto(p, "rename")
  <2>1. PICK x : x = [run[p] EXCEPT !.pc = "rename"]
    OBVIOUS
  <2>2. x \in Writing /\ x.pc = "rename" /\ x.plan = run[p].plan /\ x.left = run[p].left
    BY <1>1, <2>1 DEF Writing
  <2>3. run' = [run EXCEPT ![p] = x] /\ run'[p] = x
    BY <1>1, <1>5, <2>1 DEF Goto
  <2>4. Fits(run[p].plan)' = Fits(run'[p].plan) /\ Fits(x.plan) /\ Outputs(run[p].plan)' = Outputs(run'[p].plan)
    BY <1>1, <2>2 DEF Fits, Current, Outputs, Revision
  <2>5. Watchful(p)'
    BY <2>2, <2>3 DEF Watchful, Reading, At
  <2>6. InOrder(p)'
    BY <1>1, <1>2, <1>4, <2>2, <2>3, <2>4 DEF InOrder, Locked, At
  <2> QED
    BY <1>4, <2>2, <2>3, <2>5, <2>6, MoveKeeps DEF Runs
<1>6. CASE Goto(p, "unlock")
  BY <1>1, <1>4, <1>6, GivesUp, MoveKeeps
<1> QED
  BY <1>5, <1>6 DEF CreateTemporary

-----------------------------------------------------------------------------
\* One artifact is replaced.
LEMMA ReplacedFacts ==
    ASSUME FinalizeInv, NEW p \in Terminals, RenameTemporary(p)
    PROVE  \E plan \in Plans, f \in Files, left \in SUBSET Files :
               /\ plan = run[p].plan /\ left = run[p].left \ {f} /\ f = First[run[p].left] /\ f \in run[p].left
               /\ Sound(plan) /\ journal = plan /\ journal' = plan
               /\ OldOrNew(plan) /\ f \in DOMAIN Outputs(plan) /\ left \subseteq DOMAIN Outputs(plan)
               /\ files' = [files EXCEPT ![f] = Content[Revision(plan)][f]] /\ files' \in Contents
               /\ \A g \in Files : files'[g] = plan.before[g] \/ (g \in DOMAIN Outputs(plan) /\ files'[g] = Outputs(plan)[g])
               /\ \A g \in DOMAIN Outputs(plan) \ left : files'[g] = Outputs(plan)[g]
               /\ f = "STATE" => left = {}
<1>1. /\ Types /\ run[p] \in Writing /\ journal = run[p].plan /\ run[p].plan \in Plans
  BY RunFacts, LockedFacts DEF FinalizeInv, InOrder, RenameTemporary, At, Locked
<1>2. /\ run[p].left \in SUBSET Files /\ run[p].left # {} /\ run[p].left \subseteq DOMAIN Outputs(run[p].plan)
      /\ \A g \in DOMAIN Outputs(run[p].plan) \ run[p].left : files[g] = Outputs(run[p].plan)[g]
  BY <1>1 DEF FinalizeInv, InOrder, Writing, At, RenameTemporary
<1>3. PICK plan \in Plans : plan = run[p].plan
  BY <1>1
<1>4. PICK left \in SUBSET Files : left = run[p].left
  BY <1>2
<1>5. PICK f \in Files : f = First[left] /\ f \in left /\ (f = "STATE" => left = {"STATE"})
  BY <1>2, <1>4, FirstIs
<1>6. f \in DOMAIN Outputs(plan) /\ Outputs(plan)[f] = Content[Revision(plan)][f]
  BY <1>2, <1>3, <1>4, <1>5, PlanFacts
<1>7. files' = [files EXCEPT ![f] = Outputs(plan)[f]] /\ journal' = plan /\ journal = plan
  BY <1>1, <1>3, <1>4, <1>5 DEF RenameTemporary
<1>8. Sound(plan) /\ OldOrNew(plan)
  BY <1>1, <1>3, PlanFacts DEF FinalizeInv, JournalInv
<1>9. files' \in Contents /\ DOMAIN files = Files
  <2>1. PICK new \in Contents : new = Content[Revision(plan)]
    BY PlanFacts, ContentFacts
  <2>2. new \in [Files -> Values] /\ files \in [Files -> Values] /\ files' = [files EXCEPT ![f] = new[f]]
    BY <1>1, <1>6, <1>7, <2>1 DEF Contents, Types
  <2>3. files' \in [Files -> Values] /\ \A g \in Files : files'[g] = IF g = f THEN new[g] ELSE files[g]
    BY <2>2
  <2>4. /\ new["CHANGES"] \in Named \cup {NoFile, Legacy} /\ files["CHANGES"] \in Named \cup {NoFile, Legacy}
        /\ \A g \in {"HISTORY", "STATE"} : new[g] \in Named \cup {NoFile} /\ files[g] \in Named \cup {NoFile}
        /\ {"CHANGES", "HISTORY", "STATE"} \subseteq Files
    BY <1>1, <2>1, FilesAre DEF Contents, Types
  <2> QED
    BY <2>2, <2>3, <2>4 DEF Contents
<1>10. files'[f] = Outputs(plan)[f] /\ \A g \in Files : g # f => files'[g] = files[g]
  BY <1>7, <1>9
<1>11. \A g \in Files : files'[g] = plan.before[g] \/ (g \in DOMAIN Outputs(plan) /\ files'[g] = Outputs(plan)[g])
  BY <1>6, <1>8, <1>10 DEF OldOrNew
<1>12. \A g \in DOMAIN Outputs(plan) \ (left \ {f}) : files'[g] = Outputs(plan)[g]
  BY <1>2, <1>3, <1>4, <1>10, PlanFacts
<1>13. left \ {f} \in SUBSET Files /\ left \ {f} \subseteq DOMAIN Outputs(plan) /\ (f = "STATE" => left \ {f} = {})
  BY <1>2, <1>3, <1>4, <1>5
<1>14. files' = [files EXCEPT ![f] = Content[Revision(plan)][f]]
  BY <1>6, <1>7
<1>15. PICK rest \in SUBSET Files : rest = left \ {f}
  BY <1>13
<1>16. /\ plan = run[p].plan /\ rest = run[p].left \ {f} /\ f = First[run[p].left] /\ f \in run[p].left
       /\ rest \subseteq DOMAIN Outputs(plan) /\ (f = "STATE" => rest = {})
       /\ \A g \in DOMAIN Outputs(plan) \ rest : files'[g] = Outputs(plan)[g]
  BY <1>3, <1>4, <1>5, <1>12, <1>13, <1>15
<1>17. /\ plan = run[p].plan /\ rest = run[p].left \ {f} /\ f = First[run[p].left] /\ f \in run[p].left
       /\ Sound(plan) /\ journal = plan /\ journal' = plan
       /\ OldOrNew(plan) /\ f \in DOMAIN Outputs(plan) /\ rest \subseteq DOMAIN Outputs(plan)
       /\ files' = [files EXCEPT ![f] = Content[Revision(plan)][f]] /\ files' \in Contents
       /\ \A g \in Files : files'[g] = plan.before[g] \/ (g \in DOMAIN Outputs(plan) /\ files'[g] = Outputs(plan)[g])
       /\ \A g \in DOMAIN Outputs(plan) \ rest : files'[g] = Outputs(plan)[g]
       /\ f = "STATE" => rest = {}
  BY <1>6, <1>7, <1>8, <1>9, <1>11, <1>14, <1>16
<1> QED
  BY <1>17

LEMMA RenameTemporaryKeeps ==
    ASSUME FinalizeInv, NEW p \in Terminals, RenameTemporary(p)
    PROVE  FinalizeInv'
<1>1. PICK plan \in Plans, f \in Files, left \in SUBSET Files :
               /\ plan = run[p].plan /\ left = run[p].left \ {f} /\ f = First[run[p].left] /\ f \in run[p].left
               /\ Sound(plan) /\ journal = plan /\ journal' = plan
               /\ OldOrNew(plan) /\ f \in DOMAIN Outputs(plan) /\ left \subseteq DOMAIN Outputs(plan)
               /\ files' = [files EXCEPT ![f] = Content[Revision(plan)][f]] /\ files' \in Contents
               /\ \A g \in Files : files'[g] = plan.before[g] \/ (g \in DOMAIN Outputs(plan) /\ files'[g] = Outputs(plan)[g])
               /\ \A g \in DOMAIN Outputs(plan) \ left : files'[g] = Outputs(plan)[g]
               /\ f = "STATE" => left = {}
  BY ReplacedFacts
<1>2. /\ Types /\ run[p] \in Writing /\ run[p].pc = "rename" /\ lock = p /\ DOMAIN run = Terminals
      /\ DOMAIN files = Files /\ files \in Contents
  BY RunFacts DEF FinalizeInv, InOrder, RenameTemporary, At, Locked, Types, Contents
<1>3. /\ Revision(plan) \in Named /\ plan.parent \in Histories /\ Len(plan.parent) < MaxRevisions /\ plan.draft \in Drafts
      /\ plan.before \in Contents /\ IsPlan(plan) /\ Revision(plan) \in Histories
      /\ Revision(plan) = Append(plan.parent, plan.draft)
  BY PlanFacts DEF Plans, Parents, Named, Revision
<1>4. PICK seen \in SUBSET Histories : seen = InPlace(files')
  BY <1>1, InPlaceFacts
<1>5. PICK x : x = [run[p] EXCEPT !.left = left, !.pc = IF left = {} THEN "finish" ELSE "create"]
  OBVIOUS
<1>6. x \in Writing /\ x.pc \in {"create", "finish"} /\ x.plan = plan /\ x.left = left /\ (left = {} <=> x.pc = "finish")
  BY <1>1, <1>2, <1>5 DEF Writing
<1>7. run' = [q \in Terminals |-> IF q = p THEN x ELSE IF Reading(q) THEN [run[q] EXCEPT !.seen = @ \cup seen] ELSE run[q]]
  BY <1>1, <1>4, <1>5 DEF RenameTemporary
<1>8. run'[p] = x
  BY <1>7
<1>9. ASSUME NEW q \in Terminals, q # p, Reading(q)
      PROVE  /\ run'[q] \in Looking /\ run'[q].pc = "read" /\ run'[q].raw = run[q].raw
             /\ run'[q].seen = run[q].seen \cup seen
  <2>1. run[q] \in Looking
    BY <1>2, <1>9, RunFacts DEF Reading
  <2>2. PICK y : y = [run[q] EXCEPT !.seen = run[q].seen \cup seen]
    OBVIOUS
  <2>3. y \in Looking /\ y.pc = "read" /\ y.raw = run[q].raw /\ y.seen = run[q].seen \cup seen
    BY <2>1, <2>2 DEF Looking
  <2>4. run'[q] = y
    BY <1>7, <1>9, <2>2
  <2> QED
    BY <2>3, <2>4
<1>10. ASSUME NEW q \in Terminals, q # p, ~Reading(q)
       PROVE  run'[q] = run[q]
  BY <1>7, <1>10
<1>11. Types'
  <2>1. \A q \in Terminals : run'[q] \in Runs
    BY <1>2, <1>6, <1>8, <1>9, <1>10 DEF Runs, Types
  <2>2. run' \in [Terminals -> Runs]
    BY <1>7, <2>1
  <2>3. temps' \subseteq Files /\ lock' = lock /\ acked' = acked /\ faults' = faults
    BY <1>2 DEF RenameTemporary, Types
  <2> QED
    BY <1>1, <1>2, <2>2, <2>3 DEF Types
<1>12. JournalInv'
  <2>1. Sound(journal)' = Sound(journal') /\ Sound(journal')
    BY <1>1 DEF Sound, Fits, Settled, Blank, Current
  <2>2. OldOrNew(journal)'
    BY <1>1 DEF OldOrNew
  <2>3. IsPlan(journal)'
    BY <1>1, <1>3 DEF IsPlan
  <2> QED
    BY <2>1, <2>2, <2>3 DEF JournalInv
<1>13. Durable'
  <2>1. acked' = acked /\ acked \subseteq Histories
    BY <1>2 DEF RenameTemporary, Types
  <2> SUFFICES ASSUME NEW h \in acked
               PROVE  files'["HISTORY"] # NoFile /\ IsPrefix(h, files'["HISTORY"])
    BY <2>1 DEF Durable
  <2>2. files["HISTORY"] # NoFile /\ IsPrefix(h, files["HISTORY"]) /\ h \in Histories
    BY <2>1 DEF FinalizeInv, Durable
  <2>3. CASE f # "HISTORY"
    BY <1>1, <1>2, <2>2, <2>3, FilesAre
  <2>4. CASE f = "HISTORY"
    <3>1. files'["HISTORY"] = Revision(plan) /\ Revision(plan) # NoFile
      BY <1>1, <1>2, <1>3, <2>4, ContentFacts, NamedFacts
    <3>2. files["HISTORY"] = plan.before["HISTORY"] \/ files["HISTORY"] = Revision(plan)
      BY <1>1, <1>3, <2>4, ContentFacts, PlanFacts DEF OldOrNew
    <3>3. CASE files["HISTORY"] = Revision(plan)
      BY <2>2, <3>1, <3>3
    <3>4. CASE files["HISTORY"] = plan.before["HISTORY"]
      <4>1. plan.parent \in Current(plan.before) /\ plan.before["HISTORY"] # NoFile
        BY <1>1, <2>2, <3>4 DEF Sound, Fits
      <4>2. plan.parent \in Named /\ plan.before = Content[plan.parent]
        BY <1>3, <4>1, CurrentFacts
      <4>3. files["HISTORY"] = plan.parent
        BY <3>4, <4>2, ContentFacts
      <4>4. IsPrefix(h, plan.parent)
        BY <2>2, <4>3
      <4> QED
        BY <1>3, <2>2, <3>1, <4>4, PrefixAppended
    <3> QED
      BY <3>2, <3>3, <3>4
  <2> QED
    BY <2>3, <2>4
\* Whoever reads has seen the revision that the state now names.
<1>14. RevisionOf(files') = RevisionOf(files) \/ RevisionOf(files') \in seen
  <2>1. CASE f # "STATE"
    BY <1>1, <1>2, <2>1, FilesAre DEF RevisionOf
  <2>2. CASE f = "STATE"
    <3>1. files' = Content[Revision(plan)]
      <4>1. PICK fs \in Contents : fs = files'
        BY <1>1
      <4>2. \A g \in Files : fs[g] = plan.before[g] \/ (g \in DOMAIN Outputs(plan) /\ fs[g] = Outputs(plan)[g])
        BY <1>1, <4>1
      <4>3. \A g \in DOMAIN Outputs(plan) : fs[g] = Outputs(plan)[g]
        BY <1>1, <2>2, <4>1
      <4>4. Sound(plan)
        BY <1>1
      <4> QED
        BY <4>1, <4>2, <4>3, <4>4, Completed
    <3>2. Settled(files')
      BY <1>3, <3>1 DEF Settled
    <3> QED
      BY <1>1, <1>4, <3>2, SettledInPlace
  <2> QED
    BY <2>1, <2>2
<1>15. InOrder(p)' /\ Watchful(p)'
  <2>1. Fits(run[p].plan)' = Fits(run'[p].plan) /\ Fits(plan) /\ Outputs(run[p].plan)' = Outputs(run'[p].plan)
    BY <1>1 DEF Sound, Fits, Current, Outputs, Revision
  <2>2. lock' = lock
    BY DEF RenameTemporary
  <2> QED
    BY <1>1, <1>2, <1>6, <1>8, <2>1, <2>2 DEF InOrder, Watchful, Locked, Reading, At
<1>16. ASSUME NEW q \in Terminals, q # p PROVE InOrder(q)' /\ Watchful(q)'
  <2>1. InOrder(q) /\ Watchful(q) /\ ~Locked(q)
    BY <1>2, <1>16 DEF FinalizeInv, InOrder
  <2>2. CASE Reading(q)
    <3>1. InOrder(q)'
      BY <1>9, <1>16, <2>2 DEF InOrder, Locked, At
    <3>2. RevisionOf(files)' = RevisionOf(files') /\ RevisionOf(run[q].raw)' = RevisionOf(run'[q].raw)
      BY DEF RevisionOf
    <3>3. Watchful(q)'
      BY <1>9, <1>14, <1>16, <2>1, <2>2, <3>2 DEF Watchful, At
    <3> QED
      BY <3>1, <3>3
  <2>3. CASE ~Reading(q)
    <3>1. run'[q] = run[q]
      BY <1>10, <1>16, <2>3
    <3> QED
      BY <2>1, <2>3, <3>1 DEF InOrder, Watchful, Locked, Reading, At
  <2> QED
    BY <2>2, <2>3
<1> QED
  BY <1>11, <1>12, <1>13, <1>15, <1>16 DEF FinalizeInv

LEMMA FinishKeeps ==
    ASSUME FinalizeInv, NEW p \in Terminals, Finish(p)
    PROVE  FinalizeInv'
<1>1. /\ Types /\ run[p] \in Writing /\ Locked(p) /\ lock = p /\ run[p].plan \in Plans /\ journal = run[p].plan
  BY RunFacts, LockedFacts DEF FinalizeInv, InOrder, Finish, At, Locked
<1>2. PICK plan \in Plans : plan = run[p].plan /\ journal = plan
  BY <1>1
<1>3. \A f \in DOMAIN Outputs(plan) : files[f] = Outputs(plan)[f]
  BY <1>2 DEF FinalizeInv, InOrder, Finish, At
<1>4. /\ files' = files /\ temps' \subseteq Files /\ faults' \in 0..MaxFaults /\ lock' = lock
      /\ journal' = NoFile /\ acked' = acked \cup {Revision(plan)} /\ Goto(p, "unlock")
  BY <1>1, <1>2 DEF Finish, Types
<1>5. Sound(plan) /\ OldOrNew(plan) /\ Revision(plan) \in Named /\ Revision(plan) \in Histories
  BY <1>2, PlanFacts DEF FinalizeInv, JournalInv, Named
<1>6. files = Content[Revision(plan)]
  <2>1. files \in Contents
    BY <1>1 DEF Types
  <2>2. \A f \in Files : files[f] = plan.before[f] \/ (f \in DOMAIN Outputs(plan) /\ files[f] = Outputs(plan)[f])
    BY <1>5 DEF OldOrNew
  <2> QED
    BY <1>3, <1>5, <2>1, <2>2, Completed
<1>7. JournalInv'
  <2>1. Settled(files)
    BY <1>5, <1>6 DEF Settled
  <2> QED
    BY <1>4, <2>1 DEF JournalInv, IsPlan, Settled, Blank
<1>8. Durable'
  <2>1. files["HISTORY"] = Revision(plan) /\ Revision(plan) # NoFile /\ IsPrefix(Revision(plan), Revision(plan))
    BY <1>5, <1>6, ContentFacts, NamedFacts, PrefixSelf
  <2> QED
    BY <1>4, <2>1 DEF FinalizeInv, Durable
<1>9. /\ InOrder(p)' /\ Watchful(p)'
      /\ \E x \in Runs : run' = [run EXCEPT ![p] = x]
  BY <1>1, <1>4, GivesUp
<1>10. acked' \subseteq Histories /\ journal' \in Plans \cup {NoFile, Torn}
  BY <1>1, <1>4, <1>5 DEF Types
<1> QED
  BY <1>1, <1>4, <1>7, <1>8, <1>9, <1>10, StepKeeps

LEMMA UnlockKeeps ==
    ASSUME FinalizeInv, NEW p \in Terminals, Unlock(p)
    PROVE  FinalizeInv'
<1>1. Types /\ Stop(p) /\ lock = p /\ lock' = NoFile
  BY DEF FinalizeInv, Unlock, InOrder, Locked, At
<1>2. UNCHANGED <<files, journal>> /\ UNCHANGED acked /\ temps' \subseteq Files /\ faults' \in 0..MaxFaults
  BY <1>1 DEF Unlock, Types
<1> QED
  BY <1>1, <1>2, Ended, MoveKeeps

\* An unwritten journal goes with the failure; a written one stays.
LEMMA FailKeeps ==
    ASSUME FinalizeInv, NEW p \in Terminals, Fail(p)
    PROVE  FinalizeInv'
<1>1. Types /\ Locked(p) /\ Goto(p, "unlock") /\ (At(p, "snapshot") \/ At(p, "write") => journal = Torn)
  BY DEF FinalizeInv, Fail, InOrder
<1>2. /\ files' = files /\ UNCHANGED acked /\ temps' \subseteq Files /\ faults' \in 0..MaxFaults /\ lock' = lock
      /\ acked' \subseteq Histories /\ (journal' = journal \/ (journal = Torn /\ journal' = NoFile))
  BY <1>1, FinalizeAssumption DEF Fail, Fault, Types
<1>3. JournalInv' /\ journal' \in Plans \cup {NoFile, Torn}
  <2>1. CASE journal' = journal
    BY <1>1, <1>2, <2>1 DEF FinalizeInv, JournalInv, Types, OldOrNew
  <2>2. CASE journal = Torn /\ journal' = NoFile
    BY <1>2, <2>2 DEF FinalizeInv, JournalInv, IsPlan, Settled, Blank
  <2> QED
    BY <1>2, <2>1, <2>2
<1>4. Durable'
  BY <1>2 DEF FinalizeInv, Durable
<1>5. /\ InOrder(p)' /\ Watchful(p)'
      /\ \E x \in Runs : run' = [run EXCEPT ![p] = x]
  BY <1>1, <1>2, GivesUp
<1> QED
  BY <1>1, <1>2, <1>3, <1>4, <1>5, StepKeeps

LEMMA RemoveLeftoversKeeps ==
    ASSUME FinalizeInv, RemoveLeftovers
    PROVE  FinalizeInv'
<1>1. /\ Types /\ lock \in Terminals /\ ~Locked(lock) /\ lock' = NoFile /\ temps' = {}
      /\ UNCHANGED <<files, journal>> /\ UNCHANGED acked /\ run' = run /\ faults' = faults
  BY DEF FinalizeInv, Types, RemoveLeftovers
<1>2. Types' /\ JournalInv' /\ Durable'
  BY <1>1 DEF FinalizeInv, Types, JournalInv, Durable, OldOrNew
<1>3. ASSUME NEW q \in Terminals PROVE InOrder(q)' /\ Watchful(q)'
  <2>1. InOrder(q) /\ Watchful(q) /\ ~Locked(q)
    BY <1>1 DEF FinalizeInv, InOrder
  <2> QED
    BY <1>1, <2>1 DEF InOrder, Watchful, Locked, Reading, At
<1> QED
  BY <1>2, <1>3 DEF FinalizeInv

-----------------------------------------------------------------------------
LEMMA FinalizeInvStarts == Init => FinalizeInv
<1> SUFFICES ASSUME Init PROVE FinalizeInv
  OBVIOUS
<1>1. PICK old \in LegacySets : files = [f \in Files |-> IF f \in old THEN Legacy ELSE NoFile]
  BY DEF Init
<1>2. NoFile \in Values /\ Legacy \in Values
  BY DEF Values
<1>3. files \in Contents /\ Blank(files)
  <2>1. files \in [Files -> Values]
    BY <1>1, <1>2
  <2>2. files["STATE"] = NoFile /\ files["HISTORY"] = NoFile /\ \A f \in Files : files[f] \in {NoFile, Legacy}
    BY <1>1, FilesAre, FinalizeAssumption
  <2> QED
    BY <2>1, <2>2, FilesAre DEF Contents, Blank
<1>4. Types
  BY <1>3, FinalizeAssumption DEF Init, Types, Runs
<1>5. JournalInv /\ Durable
  BY <1>3 DEF Init, JournalInv, IsPlan, Settled, Durable
<1>6. ASSUME NEW p \in Terminals PROVE InOrder(p) /\ Watchful(p)
  <2>1. run[p].pc = "idle"
    BY DEF Init, Idle
  <2> QED
    BY <2>1 DEF InOrder, Watchful, Locked, Reading, At
<1> QED
  BY <1>4, <1>5, <1>6 DEF FinalizeInv

LEMMA FinalizeInvLasts == FinalizeInv /\ [Next]_vars => FinalizeInv'
<1> SUFFICES ASSUME FinalizeInv, [Next]_vars PROVE FinalizeInv'
  OBVIOUS
<1>1. ASSUME NEW p \in Terminals, NEW proposal \in Proposals \cup {NoFile}, Start(p, proposal) PROVE FinalizeInv'
  BY <1>1, StartKeeps
<1>2. ASSUME NEW p \in Terminals, Step(p) PROVE FinalizeInv'
  <2>1. CASE ReadJournal(p) \/ Plan(p) \/ Report(p) \/ Reported(p)
    BY <2>1, ReadJournalKeeps, PlanKeeps, ReportKeeps, ReportedKeeps
  <2>2. ASSUME NEW f \in Files, ReadFile(p, f) PROVE FinalizeInv'
    BY <2>2, ReadFileKeeps
  <2>3. CASE Acquire(p) \/ Recheck(p) \/ OpenJournal(p) \/ CheckSnapshot(p) \/ WriteJournal(p)
    BY <2>3, AcquireKeeps, RecheckKeeps, JournalKeeps, WriteJournalKeeps
  <2>4. CASE CheckTargets(p) \/ CreateTemporary(p) \/ RenameTemporary(p) \/ Finish(p) \/ Unlock(p)
    BY <2>4, CheckTargetsKeeps, CreateTemporaryKeeps, RenameTemporaryKeeps, FinishKeeps, UnlockKeeps
  <2> QED
    BY <1>2, <2>1, <2>2, <2>3, <2>4 DEF Step
<1>3. ASSUME NEW p \in Terminals, Fail(p) \/ Crash(p) PROVE FinalizeInv'
  BY <1>3, FailKeeps, ReportedKeeps
<1>4. CASE RemoveLeftovers
  BY <1>4, RemoveLeftoversKeeps
<1>5. CASE UNCHANGED vars
  <2>1. /\ files' = files /\ temps' = temps /\ journal' = journal /\ lock' = lock /\ run' = run /\ acked' = acked /\ faults' = faults
    BY <1>5 DEF vars, disk
  <2>2. Types' /\ JournalInv' /\ Durable'
    BY <2>1 DEF FinalizeInv, Types, JournalInv, Durable, OldOrNew
  <2>3. ASSUME NEW p \in Terminals PROVE InOrder(p)' /\ Watchful(p)'
    BY <2>1 DEF FinalizeInv, InOrder, Watchful, Locked, Reading, At
  <2> QED
    BY <2>2, <2>3 DEF FinalizeInv
<1> QED
  BY <1>1, <1>2, <1>3, <1>4, <1>5, FinalizeAssumption DEF Next

THEOREM FinalizeInvariance == Spec => []FinalizeInv
BY FinalizeInvStarts, FinalizeInvLasts, PTL DEF Spec

\* A revision that was reported as finalized stays in the history for good.
THEOREM FinalizedForGood == Spec => []Durable
<1>1. FinalizeInv => Durable
  BY DEF FinalizeInv
<1> QED
  BY <1>1, FinalizeInvariance, PTL

\* Wherever a process is killed, a complete journal is there to retry from, or
\* the artifacts are those of one revision or still of none.
THEOREM AlwaysRecoverable == Spec => []Recoverable
<1>1. ASSUME FinalizeInv PROVE Recoverable
  <2>1. Types /\ JournalInv /\ files \in Contents
    BY <1>1 DEF FinalizeInv, Types
  <2>2. TypeOK
    <3>1. /\ DOMAIN files = Files /\ files["CHANGES"] \in Histories \cup {NoFile, Legacy}
          /\ \A f \in {"HISTORY", "STATE"} : files[f] \in Histories \cup {NoFile}
      BY <2>1 DEF Contents, Named
    <3>2. IsPlan(journal) => journal.parent \in Histories /\ journal.draft \in Drafts /\ DOMAIN journal.before = Files
      <4>1. SUFFICES ASSUME IsPlan(journal) PROVE journal.parent \in Histories /\ journal.draft \in Drafts /\ DOMAIN journal.before = Files
        OBVIOUS
      <4>2. journal \in Plans
        BY <2>1, <4>1 DEF Types, IsPlan
      <4> QED
        BY <4>2, PlanFacts DEF Contents
    <3>3. ASSUME NEW p \in Terminals
          PROVE  /\ Locked(p) => lock = p
                 /\ At(p, "snapshot") \/ At(p, "write") => journal = Torn
                 /\ run[p].pc \in {"create", "rename", "finish"} => journal = run[p].plan
      BY <1>1 DEF FinalizeInv, InOrder
    <3> QED
      BY <2>1, <3>1, <3>2, <3>3 DEF TypeOK, Types
  <2>3. IF IsPlan(journal) THEN OldOrNew(journal) ELSE Unrecorded \/ InPlace(files) \notin {{}, {<<>>}}
    BY <2>1, SettledInPlace DEF JournalInv, Unrecorded, Blank
  <2> QED
    BY <2>2, <2>3 DEF Recoverable
<1> QED
  BY <1>1, FinalizeInvariance, PTL

\* A status names a revision whose artifacts were in place, all at once, at
\* some moment of its reading.
THEOREM StatusTrue == Spec => []StatusSound
<1>1. FinalizeInv => StatusSound
  BY DEF FinalizeInv, Watchful, StatusSound
<1> QED
  BY <1>1, FinalizeInvariance, PTL
=============================================================================
