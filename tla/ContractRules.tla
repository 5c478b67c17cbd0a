---------------------------- MODULE ContractRules ----------------------------
(***************************************************************************)
(* What planContract accepts as the next revision of a contract, and what   *)
(* that means for an amendment many revisions later.                        *)
(*                                                                          *)
(* A history is the sequence of the accepted records; a record, like the    *)
(* proposal it comes from, says what every agreement's text and the types   *)
(* hash to, what changed, and what became of earlier amendments, which are  *)
(* named by their number.                                                   *)
(***************************************************************************)
EXTENDS Naturals, Sequences, FiniteSets

CONSTANTS
    Ids,          \* agreement ids
    Hashes,       \* what the text of an agreement hashes to
    TypeHashes,   \* what grill/contract.ts hashes to
    NoTypes,
    MaxRevisions  \* bound: how long a history gets

VARIABLE history

Prose      == UNION {[S -> Hashes] : S \in SUBSET Ids \ {{}}}
Nothing    == [id \in {} |-> id]
Before(h)  == IF h = <<>> THEN [agreements |-> Nothing, types |-> NoTypes] ELSE h[Len(h)]
Differ(a, b) == {id \in DOMAIN a \cup DOMAIN b : id \notin DOMAIN a \cap DOMAIN b \/ a[id] # b[id]}
Amendments(h) == {n \in DOMAIN h : h[n].kind = "amend"}

\* parseProposal, as far as it matters here; agreements and types are staged
\* beside it.
Proposals(h) ==
    [kind : {"merge", "amend", "adopt"}, agreements : Prose, types : TypeHashes \cup {NoTypes},
     changed : SUBSET Ids,
     resolution : UNION {[S -> {"preserved", "reconciled"}] : S \in {Amendments(h), {}}}]

\* The kind fits what there is.
KindFits(h, p) == (p.kind = "amend" => h # <<>>) /\ (p.kind = "adopt" => h = <<>>)

\* Types may not be dropped; what changed is named, more than that only if the
\* types changed.
ChangesNamed(h, p) ==
    LET prose == Differ(p.agreements, Before(h).agreements)
    IN  /\ p.types = NoTypes => Before(h).types = NoTypes
        /\ p.changed \subseteq DOMAIN p.agreements \cup DOMAIN Before(h).agreements
        /\ prose \subseteq p.changed
        /\ IF p.types = Before(h).types THEN p.changed = prose ELSE p.changed # {}

\* Faulty: only the amendment that is the parent has to be resolved.
ResolvesLast(h, p) ==
    p.kind = "merge" =>
        /\ h # <<>> /\ h[Len(h)].kind = "amend" => Len(h) \in DOMAIN p.resolution
        /\ \A n \in DOMAIN p.resolution : p.resolution[n] = "preserved" =>
              /\ h[n].types # NoTypes => p.types = Before(h).types
              /\ h[n].changed \cap Differ(p.agreements, Before(h).agreements) = {}

\* A merge says of every amendment whether it is preserved; then what that
\* changed is as in the parent.
Resolves(h, p) ==
    p.kind = "merge" =>
        /\ DOMAIN p.resolution = Amendments(h)
        /\ \A n \in Amendments(h) : p.resolution[n] = "preserved" =>
              /\ h[n].types # NoTypes => p.types = Before(h).types
              /\ h[n].changed \cap Differ(p.agreements, Before(h).agreements) = {}

Accepts(h, p) == KindFits(h, p) /\ ChangesNamed(h, p) /\ Resolves(h, p)

\* A revision is accepted.
Revise(p) == /\ Len(history) < MaxRevisions
             /\ Accepts(history, p)
             /\ history' = Append(history, p)

HistoryInit == history = <<>>
HistoryNext == \E p \in Proposals(history) : Revise(p)
HistorySpec == HistoryInit /\ [][HistoryNext]_history

-----------------------------------------------------------------------------
\* No later merge reconciled revision n of a history with something else.
Unreconciled(h, n) == \A m \in DOMAIN h : ~(n \in DOMAIN h[m].resolution /\ h[m].kind = "merge" /\ h[m].resolution[n] = "reconciled")

Untouched(h, n) == {id \in h[n].changed : \A m \in Amendments(h) : m > n => id \notin h[m].changed}

Kept(h) == \A n \in Amendments(h) :
              Unreconciled(h, n) => Untouched(h, n) \cap Differ(Before(h).agreements, h[n].agreements) = {}

(* An amendment that no later merge reconciled and no later amendment        *)
(* touched still stands word for word, however many merges ago it was made.  *)
AmendmentsKept == Kept(history)
=============================================================================
