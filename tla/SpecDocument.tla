---------------------------- MODULE SpecDocument ----------------------------
(***************************************************************************)
(* How the Markdown of a role spec (validateSpec) and of a contract         *)
(* (agreementHashes) is read, line by line: what is inside a code fence or   *)
(* an HTML comment is neither a heading nor, in a comment, content.          *)
(*                                                                          *)
(* A line is a fence delimiter, or a text: what it says and where a comment  *)
(* begins or ends on it.  "blank" stands for no text and, in a spec, for a   *)
(* bare list marker.                                                        *)
(***************************************************************************)
EXTENDS Naturals, SequencesExt, FiniteSetsExt

CONSTANTS
    SPEC_HEADINGS, \* the headings a spec must have, in order
    Agreements,    \* the ids in agreement headings
    NoFence,
    SpecLines,     \* bound: the lines a spec is made of
    ContractLines, \* bound: the lines a contract is made of
    MaxLines       \* bound: how many

ASSUME DocumentAssumption ==
    /\ SPEC_HEADINGS \in Seq(STRING) /\ IsInjective(SPEC_HEADINGS)
    /\ {"", "blank", "words"} \cap ToSet(SPEC_HEADINGS) = {} /\ {"blank", "words"} \cap Agreements = {}
    /\ \A line \in SpecLines \cup ContractLines :
          line # NoFence /\ line.comment \in {"none", "begins", "ends", "whole"}

VARIABLES
    doc,           \* the lines read
    place,         \* whether the next one is in a fence or a comment
    spec,          \* what validateSpec has seen
    agreements     \* what agreementHashes has seen

reading == <<doc, place, spec, agreements>>

Required      == ToSet(SPEC_HEADINGS)
Heading(text) == text \in Required \cup {"other heading"}
Opens(line)   == line.kind = "fence"

\* Faulty: any delimiter of the same character closes a fence.
ClosesShorter(fence, line) == line.kind = "fence" /\ line.mark = fence.mark /\ ~line.info

\* A closing delimiter has the opening one's character, is no shorter and has
\* nothing behind it.
Closes(fence, line) == line.kind = "fence" /\ line.mark = fence.mark /\ line.length >= fence.length /\ ~line.info

Outside == [fence |-> NoFence, comment |-> FALSE]

\* Where the next line begins: fences hide comments, comments hide fences.
Past(at, line) ==
    IF at.fence # NoFence THEN IF Closes(at.fence, line) THEN Outside ELSE at
    ELSE IF Opens(line) THEN IF at.comment THEN at ELSE [at EXCEPT !.fence = line]
    ELSE [at EXCEPT !.comment = line.comment = "begins" \/ (@ /\ line.comment = "none")]

\* What is left of a line that no fence hides, once comments are blanked: the
\* text before one that begins, or behind one that ends.  An end without a
\* beginning is text.
Visible(at, line) ==
    CASE Opens(line)                                               -> "blank"
      [] ~Opens(line) /\ at.comment                                -> IF line.comment = "ends" THEN line.text ELSE "blank"
      [] ~Opens(line) /\ ~at.comment                               -> IF line.comment = "ends" THEN "words" ELSE line.text

\* In a fence every character counts.
Literal(line) == IF Opens(line) \/ line.comment # "none" THEN "words" ELSE line.text

-----------------------------------------------------------------------------
\* validateSpec: the section being read, the headings found, the sections that
\* have content, and whether a heading was unexpected.
Unread == [section |-> "", found |-> <<>>, filled |-> {}, bad |-> FALSE]
Fill(r, text) == IF text = "blank" \/ r.section = "" THEN r ELSE [r EXCEPT !.filled = @ \cup {r.section}]

ReadSpecLine(r, at, line) ==
    LET text == Visible(at, line)
    IN  IF at.fence # NoFence THEN IF Closes(at.fence, line) THEN r ELSE Fill(r, Literal(line))
        ELSE IF ~Heading(text) THEN Fill(r, text)
        ELSE IF text \in Required /\ line.comment = "none"
        THEN [r EXCEPT !.section = text, !.found = Append(@, text)]
        ELSE [r EXCEPT !.section = "", !.bad = TRUE]

\* No heading is found before one that should come first.
InOrder(found) ==
    \A i, j \in DOMAIN found, k, l \in DOMAIN SPEC_HEADINGS :
        i <= j /\ found[i] = SPEC_HEADINGS[k] /\ found[j] = SPEC_HEADINGS[l] => k <= l

\* Every heading once and in order, no other, and content under at least one.
ValidSpec ==
    /\ ~spec.bad /\ IsInjective(spec.found)
    /\ Required \subseteq ToSet(spec.found)
    /\ InOrder(spec.found)
    /\ spec.filled # {}

-----------------------------------------------------------------------------
\* agreementHashes: the lines that are hashed under each agreement, by their
\* position.  Hidden lines belong to the agreement around them; any other heading
\* of the first three levels ends it.
NoAgreement == [current |-> {}, ids |-> <<>>, lines |-> {}]

ReadAgreementLine(r, at, line, i) ==
    LET text   == Visible(at, line)
        keep   == [r EXCEPT !.lines = @ \cup {<<i, id>> : id \in r.current}]
        starts == at.fence = NoFence /\ ~Opens(line) /\ ~(at.comment /\ line.comment = "ends")
    IN  IF ~starts \/ ~(text \in Agreements \/ Heading(text)) THEN keep
        ELSE IF text \in Agreements /\ line.comment = "none"
        THEN [r EXCEPT !.current = {text}, !.ids = Append(@, text)]
        ELSE [r EXCEPT !.current = {}]

\* No id twice, at least one, and none without text.
ValidAgreements ==
    /\ agreements.ids # <<>>
    /\ \A i, j \in DOMAIN agreements.ids : i # j => agreements.ids[i] # agreements.ids[j]
    /\ \A i \in DOMAIN agreements.ids :
          \E l \in agreements.lines : l[2] = agreements.ids[i] /\ Literal(doc[l[1]]) # "blank"

-----------------------------------------------------------------------------
\* Both readers go through the lines of a document, of either sort.
ReadInit == doc = <<>> /\ place = Outside /\ spec = Unread /\ agreements = NoAgreement

ReadLine(line) ==
    /\ Len(doc) < MaxLines
    /\ \E Lines \in {SpecLines, ContractLines} : ToSet(doc) \cup {line} \subseteq Lines
    /\ doc' = Append(doc, line)
    /\ place' = Past(place, line)
    /\ spec' = ReadSpecLine(spec, place, line)
    /\ agreements' = ReadAgreementLine(agreements, place, line, Len(doc'))

ReadNext == \E line \in SpecLines \cup ContractLines : ReadLine(line)
ReadSpec == ReadInit /\ [][ReadNext]_reading

-----------------------------------------------------------------------------
\* The same, said of whole blocks: from a beginning to the first end that fits
\* it, or to the end of the document, everything is hidden.
EndsBlock(first, line) ==
    IF Opens(first)
    THEN Opens(line) /\ line.mark = first.mark /\ line.length >= first.length /\ ~line.info
    ELSE ~Opens(line) /\ line.comment \in {"ends", "whole"}

Starts     == {i \in DOMAIN doc : Opens(doc[i]) \/ doc[i].comment = "begins"}
LastOf(b)  == Min({k \in DOMAIN doc : k > b /\ EndsBlock(doc[b], doc[k])} \cup {Len(doc) + 1})

\* A beginning counts if it is not itself inside a block that counts.
Counted(S) == S = {b \in Starts : \A c \in S : c < b => LastOf(c) < b}
Blocks     == {[first |-> b, last |-> LastOf(b)] : b \in CHOOSE S \in SUBSET Starts : Counted(S)}

\* What the blocks B of a document leave to see: not a fence and its code, not
\* a comment but for what stands before its beginning and behind its end.
Fenced(B, i)  == \E b \in B : Opens(doc[b.first]) /\ b.first <= i /\ i <= b.last
Behind(B, i)  == \E b \in B : ~Opens(doc[b.first]) /\ i = b.last /\ doc[i].comment = "ends"
Comment(B, i) == \E b \in B : ~Opens(doc[b.first]) /\ b.first < i /\ i <= b.last
Shown(B)      == {i \in DOMAIN doc : ~Fenced(B, i) /\ (Comment(B, i) => Behind(B, i))}
Stray(B, i)   == doc[i].comment = "ends" /\ ~Behind(B, i)
Code(B)       == {i \in DOMAIN doc : \E b \in B : Opens(doc[b.first]) /\ b.first < i /\ i < b.last}

(* A spec passes exactly if the headings outside fences and comments are the *)
(* required ones, in order and untouched, and there is content below one:    *)
(* neither an example in a fence nor a comment can supply a heading, nor a   *)
(* comment content, and neither can hide one that is there.                  *)
SpecsSound ==
    LET B       == Blocks
        H       == {i \in Shown(B) : Heading(doc[i].text) /\ ~Stray(B, i)}
        content == {i \in Shown(B) \ H : doc[i].text # "blank" \/ Stray(B, i)}
                   \cup {i \in Code(B) : Literal(doc[i]) # "blank"}
    IN  ValidSpec <=>
            /\ \A i \in H : doc[i].comment = "none"
            /\ \E at \in [DOMAIN SPEC_HEADINGS -> H] :
                  /\ H = {at[k] : k \in DOMAIN SPEC_HEADINGS}
                  /\ \A k, l \in DOMAIN SPEC_HEADINGS : k < l => at[k] < at[l]
                  /\ \A k \in DOMAIN SPEC_HEADINGS : doc[at[k]].text = SPEC_HEADINGS[k]
            /\ \E i \in content, j \in H : j < i

(* An agreement's text is every line from its heading to the next heading    *)
(* that is no example, hidden lines included; so no example makes an         *)
(* agreement, ends one or is left out of its hash.                           *)
AgreementsSound ==
    LET B        == Blocks
        edges    == {i \in Shown(B) : (doc[i].text \in Agreements \/ Heading(doc[i].text)) /\ doc[i].comment # "ends"}
        starts   == {i \in edges : doc[i].text \in Agreements /\ doc[i].comment = "none"}
        Below(j) == {i \in DOMAIN doc : i > j /\ ~\E e \in edges : j < e /\ e <= i}
    IN  /\ agreements.lines = UNION {Below(j) \X {doc[j].text} : j \in starts}
        /\ ValidAgreements <=>
              /\ starts # {}
              /\ \A j, k \in starts : doc[j].text = doc[k].text => j = k
              /\ \A j \in starts : \E i \in Below(j) : Literal(doc[i]) # "blank"
=============================================================================
