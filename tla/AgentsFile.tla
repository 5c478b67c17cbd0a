------------------------------ MODULE AgentsFile ------------------------------
(***************************************************************************)
(* How the block of a downloaded AGENTS.md gets into a repository's own      *)
(* (agentsBlock, planInstall).  A file is a sequence of markers, pieces of   *)
(* text, and breaks, which are blank.  The team may have written any.        *)
(***************************************************************************)
EXTENDS Naturals, SequencesExt

CONSTANTS
    START, END,
    Break,
    Texts,
    NoText,    \* there is no file, or no block
    MaxPieces, \* bound: how long a file is at first
    Downloads  \* bound: the files of packs

Pieces == Texts \cup {START, END, Break}

ASSUME AgentsAssumption ==
    /\ START # END /\ Break \notin {START, END}
    /\ Downloads \subseteq Seq(Pieces) /\ NoText \notin Seq(Pieces) /\ MaxPieces \in Nat

VARIABLES
    agents,    \* the file in the repository
    download,  \* the file of the last pack
    installed  \* what came of it

Where(file, piece) == {i \in DOMAIN file : file[i] = piece}
IsBlank(pieces)    == ToSet(pieces) \subseteq {Break}
Once(S)            == \E i \in S : S = {i}
Least(S)           == CHOOSE i \in S : \A j \in S : i <= j

\* Faulty: the first markers are taken, whatever follows.
FirstFence(file) == /\ Where(file, START) # {} /\ Where(file, END) # {}
                    /\ Least(Where(file, START)) < Least(Where(file, END))

\* One marker of each kind, in order.
OneFence(file) == /\ Once(Where(file, START)) /\ Once(Where(file, END))
                  /\ Least(Where(file, START)) < Least(Where(file, END))

Start(file) == Least(Where(file, START))
End(file)   == Least(Where(file, END))
Block(file) == SubSeq(file, Start(file), End(file))

\* A file without any marker is somebody's own; a download is nothing else.
Unmarked(file)  == Where(file, START) = {} /\ Where(file, END) = {}
LocalOk(file)   == file = NoText \/ Unmarked(file) \/ OneFence(file)
IncomingOk(file) == /\ OneFence(file)
                    /\ IsBlank(SubSeq(file, 1, Start(file) - 1))
                    /\ IsBlank(SubSeq(file, End(file) + 1, Len(file)))

\* The block replaces an old one; without one, the download goes behind a break.
Spliced(current, incoming) ==
    IF current = NoText THEN incoming
    ELSE IF OneFence(current)
    THEN SubSeq(current, 1, Start(current) - 1) \o Block(incoming) \o SubSeq(current, End(current) + 1, Len(current))
    ELSE IF current # <<>> /\ Last(current) = Break THEN current \o incoming
    ELSE current \o <<Break>> \o incoming

AgentsFiles == BoundedSeq(Pieces, MaxPieces)

AgentsInit == agents \in AgentsFiles \cup {NoText} /\ download = NoText /\ installed = ""

\* A pack arrives, and is installed or refused.  Bound: one pack; the file may
\* have the block of an earlier one.
Splice(incoming) ==
    /\ installed = ""
    /\ download' = incoming
    /\ IF IncomingOk(incoming) /\ LocalOk(agents)
       THEN agents' = Spliced(agents, incoming) /\ installed' = "yes"
       ELSE installed' = "no" /\ UNCHANGED agents

AgentsNext == \E incoming \in Downloads : Splice(incoming)
AgentsSpec == AgentsInit /\ [][AgentsNext]_<<agents, download, installed>>

-----------------------------------------------------------------------------
\* Where a file has a block: its first piece and its last.
Cuts(file) == {cut \in (1..Len(file)) \X (1..Len(file)) :
                  /\ cut[1] < cut[2] /\ file[cut[1]] = START /\ file[cut[2]] = END
                  /\ \A i \in DOMAIN file \ {cut[1], cut[2]} : file[i] \notin {START, END}}
Above(file, cut)  == SubSeq(file, 1, cut[1] - 1)
Within(file, cut) == SubSeq(file, cut[1], cut[2])
Under(file, cut)  == SubSeq(file, cut[2] + 1, Len(file))

\* It is plain which text of a file is ours: the block, or none.
Own(file)   == IF file = NoText THEN <<>> ELSE file
Plain(file) == Cuts(file) # {} \/ \A i \in DOMAIN file : file[i] \notin {START, END}

\* A file that is only a block, and breaks.
OnlyBlock(file, cut) == IsBlank(Above(file, cut)) /\ IsBlank(Under(file, cut))

\* What is around the block at cut is what was in the file around its block; or,
\* if it had none, the block is behind all that was in it, and only breaks with it.
Keeps(was, new, cut) ==
    \/ \E own \in Cuts(was) : Above(new, cut) = Above(was, own) /\ Under(new, cut) = Under(was, own)
    \/ /\ Cuts(was) = {}
       /\ IsPrefix(was, Above(new, cut))
       /\ IsBlank(SubSeq(new, Len(was) + 1, cut[1] - 1)) /\ IsBlank(Under(new, cut))

(* Joining, and joining again after a republish, never eats a team's own     *)
(* instructions: what is around the block stays, the block is the download's, *)
(* and the same download once more changes nothing.  Refused is exactly a    *)
(* file in which it is not plain which text is ours, or a download that      *)
(* brings more than a block.                                                 *)
BlocksKept ==
    [][installed' # installed =>
          LET was == Own(agents)
              ours == {cut \in Cuts(download') : OnlyBlock(download', cut)}
          IN  /\ installed' = "yes" <=> Plain(was) /\ ours # {}
              /\ installed' = "yes" =>
                    \E cut \in ours, new \in Cuts(agents') :
                       /\ Within(agents', new) = Within(download', cut)
                       /\ Keeps(was, agents', new)
                       /\ Spliced(agents', download') = agents']_<<agents, download, installed>>
=============================================================================
