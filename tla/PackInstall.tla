----------------------------- MODULE PackInstall -----------------------------
(***************************************************************************)
(* grill join: a role chosen from the room's summary, its pack fetched and   *)
(* its files written one by one into a checkout, with a receipt that says   *)
(* which contents were installed, for which room; then the team is told.    *)
(* Between commands, and while one asks, the member edits files; a command   *)
(* may fail or be killed between any two steps.  No two commands run at once. *)
(*                                                                          *)
(* A file's content, and the hash of it in a receipt, is a value; of        *)
(* AGENTS.md that is the fenced block, and the text around it is "outside". *)
(***************************************************************************)
EXTENDS Naturals, FiniteSets, Sequences

CONSTANTS
    Payload,      \* files of a pack, in the order of their installation
    Role,         \* the one that is local to the checkout: MY-ROLE.md
    Packs,        \* what the service may serve, by room, role and version
    RoomOf,       \* the origin and room of a pack
    RoleOf,       \* the role it is for
    ContentOf,    \* the content of a file in a pack
    Edits,        \* contents a member may write
    NoFile, Stamp \* an absent file; an old stamp that proves no ownership

\* Only these files can come with a pack: not the ignore rules, nor the receipt.
Paths == {Payload[i] : i \in DOMAIN Payload}

InstallAssumption == Payload \in Seq(STRING) /\ Paths \cap {".gitignore", "receipt"} = {}

ASSUME InstallAssumption

VARIABLES
    files,        \* the payload
    outside,      \* the text around the block of AGENTS.md
    ignored,      \* .gitignore ends with the member's block
    tracked,      \* a file of .grill-with-me/ is in Git's index
    receipt,      \* .grill-with-me/member.json: the pack installed
    old,          \* grill/.room of earlier versions: a pack, or a stamp
    temps,        \* files with a *.grill-tmp
    claimed,      \* what the last command told the team: a room and a role
    run,          \* the command running
    killed,       \* history: a command was killed and left a temporary
    interrupted   \* history: the last command, if it was cut short

disk == <<files, outside, ignored, tracked, receipt, old, temps>>
vars == <<disk, claimed, run, killed, interrupted>>

Idle  == [pc |-> "idle"]

\* Faulty: the receipt goes first.
OrderReceiptFirst == <<".gitignore", "receipt">> \o Payload

\* Faulty: the ignore rules go last.
OrderIgnoreLast == Payload \o <<"receipt", ".gitignore">>

\* The order of installation; the receipt is the commit point.
Order == <<".gitignore">> \o Payload \o <<"receipt">>

\* Of what is still to be written, what comes first in that order.
FirstOf(todo) == Order[CHOOSE i \in DOMAIN Order : Order[i] \in todo /\ \A j \in 1..i - 1 : Order[j] \notin todo]

Init ==
    /\ files \in [Paths -> {NoFile}] \cup {[f \in Paths |-> IF f = Role THEN NoFile ELSE ContentOf[p][f]] : p \in Packs}
    /\ outside \in {NoFile} \cup Edits
    /\ ignored = FALSE /\ tracked \in BOOLEAN /\ receipt = NoFile
    /\ old \in {NoFile, Stamp} \cup Packs
    /\ temps = {} /\ claimed = NoFile /\ run = Idle /\ killed = FALSE /\ interrupted = Idle

\* Faulty: a receipt is believed for any room.
OwnedByAny(p, f) ==
    IF receipt # NoFile THEN {ContentOf[receipt][f]}
    ELSE IF old \in Packs /\ f # Role THEN {ContentOf[old][f]} ELSE {}

\* receiptMatches: the receipt, if it is none of the old stamps, is of this
\* origin and room.
Matches(r, p) == r \in Packs /\ RoomOf[r] = RoomOf[p]

\* The content that a matching receipt says was installed; an old one, read if
\* there is no other, says it of every file but the role's, which was elsewhere.
Owned(p, f) ==
    CASE Matches(receipt, p) -> {ContentOf[receipt][f]}
      [] receipt = NoFile /\ Matches(old, p) /\ f # Role -> {ContentOf[old][f]}
      [] OTHER -> {}

\* Faulty: what is already as desired is not recognised.
AllowedUnlessNew(p, f) ==
    \/ files[f] # NoFile /\ files[f] \in Owned(p, f)
    \/ files[f] = NoFile /\ Owned(p, f) = {}

\* A file may be written if it is as desired, as the receipt says, or new.
Allowed(p, f) ==
    \/ files[f] = ContentOf[p][f]
    \/ files[f] # NoFile /\ files[f] \in Owned(p, f)
    \/ files[f] = NoFile /\ Owned(p, f) = {}

Changes(p, path) == CASE path = ".gitignore" -> ~ignored
                      [] path = "receipt"    -> receipt # p
                      [] OTHER               -> files[path] # ContentOf[p][path]

\* planInstall refuses leftovers and blocked files; else what is to be written.
Blocked(p) == temps # {} \/ \E f \in Paths : ~Allowed(p, f)
PlanOf(p)  == {path \in Paths \cup {".gitignore", "receipt"} : Changes(p, path)}

\* Where the next path leads: once the ignore rules are written, to their check.
After(path) == IF path = ".gitignore" THEN "verify" ELSE "next"

Identity(p) == [room |-> RoomOf[p], role |-> RoleOf[p]]

\* Faulty: the pack is not compared with what was asked for.
AnyAnswer(p, room, role) == TRUE

\* validateMemberIdentity.
IsFor(p, room, role) == Identity(p) = [room |-> room, role |-> role]

\* The room's summary and the receipt are read, and the member is asked.
Ask(room, role, force) ==
    /\ run.pc = "idle" /\ ~tracked
    /\ run' = [pc |-> "asked", room |-> room, role |-> role, force |-> force]
    /\ claimed' = NoFile /\ interrupted' = Idle
    /\ UNCHANGED <<disk, killed>>

\* The pack is fetched, and everything is decided before anything is written.
\* What answers may have been republished since the summary, or be no answer to
\* this question.
Join(p) ==
    /\ run.pc = "asked"
    /\ run' = IF IsFor(p, run.room, run.role) /\ ~tracked /\ temps = {} /\ (run.force \/ ~Blocked(p))
              THEN [pc |-> IF Changes(p, ".gitignore") THEN "next" ELSE "verify", room |-> run.room, role |-> run.role,
                    pack |-> p, force |-> run.force, todo |-> PlanOf(p), outside |-> outside]
              ELSE Idle
    /\ UNCHANGED <<disk, claimed, killed, interrupted>>

\* atomicWrite: the temporary, created (wx), written and synced ...
CreateTemporary ==
    /\ run.pc = "next" /\ run.todo # {}
    /\ temps' = temps \cup {FirstOf(run.todo)}
    /\ run' = [run EXCEPT !.pc = "rename"]
    /\ UNCHANGED <<files, outside, ignored, tracked, receipt, old, claimed, killed, interrupted>>

\* ... and renamed.  AGENTS.md keeps the text around its block.
Rename ==
    /\ run.pc = "rename"
    /\ LET path == FirstOf(run.todo)
       IN  /\ ignored' = (ignored \/ path = ".gitignore")
           /\ receipt' = IF path = "receipt" THEN run.pack ELSE receipt
           /\ files' = IF path \in Paths THEN [files EXCEPT ![path] = ContentOf[run.pack][path]] ELSE files
           /\ outside' = IF path = "AGENTS.md" THEN run.outside ELSE outside
           /\ temps' = temps \ {path}
    /\ run' = [run EXCEPT !.pc = After(FirstOf(run.todo)), !.todo = @ \ {FirstOf(run.todo)}]
    /\ UNCHANGED <<tracked, old, claimed, killed, interrupted>>

CutShort == interrupted' = [pc |-> "cut", pack |-> run.pack, force |-> run.force] /\ run' = Idle

\* assertMemberLocalStorage: Git ignores the member's directory and tracks
\* nothing of it, or the command stops before it writes anything there.
VerifyLocal ==
    /\ run.pc = "verify"
    /\ IF ignored /\ ~tracked
       THEN run' = [run EXCEPT !.pc = "next"] /\ UNCHANGED interrupted
       ELSE CutShort
    /\ UNCHANGED <<disk, claimed, killed>>

\* Everything is installed; the team is told who took the role, unless nobody
\* gave a name, or the claim fails, which is shrugged off.
Done == /\ run.pc = "next" /\ run.todo = {}
        /\ run' = Idle
        /\ claimed' \in {NoFile, [room |-> run.room, role |-> run.role]}
        /\ UNCHANGED <<disk, killed, interrupted>>

\* Faulty: a failed write leaves its temporary.
FailDirty == /\ run.pc \notin {"idle", "asked"} /\ CutShort
             /\ UNCHANGED <<disk, claimed, killed>>

\* A file operation fails: its temporary is removed.
Fail == /\ run.pc \notin {"idle", "asked"} /\ CutShort
        /\ temps' = {}
        /\ UNCHANGED <<files, outside, ignored, tracked, receipt, old, claimed, killed>>

Crash == /\ run.pc \notin {"idle", "asked"} /\ CutShort
         /\ killed' = TRUE
         /\ UNCHANGED <<disk, claimed>>

\* The member inspects and removes leftovers.
RemoveLeftovers == /\ run.pc = "idle" /\ temps # {}
                   /\ temps' = {} /\ killed' = FALSE
                   /\ UNCHANGED <<files, outside, ignored, tracked, receipt, old, claimed, run, interrupted>>

\* The member, or a teammate's commit, changes or deletes a file.
Edit ==
    /\ run.pc \in {"idle", "asked"}
    /\ \/ \E f \in Paths, c \in Edits \cup {NoFile} : files' = [files EXCEPT ![f] = c] /\ UNCHANGED <<outside, ignored>>
       \/ outside' \in Edits /\ UNCHANGED <<files, ignored>>
       \/ ignored' = FALSE /\ UNCHANGED <<files, outside>>
    /\ interrupted' = Idle
    /\ UNCHANGED <<tracked, receipt, old, temps, claimed, run, killed>>

\* git add --force, a merge, or git rm --cached: at any time.
Track == tracked' = ~tracked /\ UNCHANGED <<files, outside, ignored, receipt, old, temps, claimed, run, killed, interrupted>>

Next == \/ \E p \in Packs, force \in BOOLEAN : Ask(RoomOf[p], RoleOf[p], force)
        \/ \E p \in Packs : Join(p)
        \/ CreateTemporary \/ Rename \/ VerifyLocal \/ Done \/ Fail \/ Crash
        \/ RemoveLeftovers \/ Edit \/ Track

Spec == Init /\ [][Next]_vars

-----------------------------------------------------------------------------
(* Type correctness; only a killed command leaves a temporary, and a running *)
(* one has none but its own.                                                 *)
TypeOK ==
    /\ \A f \in Paths : files[f] \in {ContentOf[p][f] : p \in Packs} \cup Edits \cup {NoFile}
    /\ outside \in Edits \cup {NoFile} /\ ignored \in BOOLEAN /\ tracked \in BOOLEAN
    /\ receipt \in Packs \cup {NoFile} /\ old \in Packs \cup {NoFile, Stamp}
    /\ temps = CASE run.pc = "rename" -> {FirstOf(run.todo)}
                 [] run.pc \in {"idle", "asked"} /\ killed -> temps
                 [] OTHER -> {}

(* Without --force, nothing is replaced but what an earlier pack of the same *)
(* room had installed: no edit, and no other room's file, whatever was       *)
(* interrupted before.  The text around the block stays in any case.         *)
EditsKept ==
    [][run.pc = "rename" =>
         /\ outside' = outside
         /\ \A f \in Paths : files'[f] # files[f] =>
               \/ run.force \/ files[f] = NoFile
               \/ \E p \in Packs : RoomOf[p] = RoomOf[run.pack] /\ files[f] = ContentOf[p][f]]_vars

(* Types; and an installation cut short can be repeated with the same pack:   *)
(* a mixture of old and new files does not look like edits.                  *)
RetryAllowed == TypeOK /\ (interrupted.pc = "cut" /\ temps = {} => interrupted.force \/ ~Blocked(interrupted.pack))

(* A receipt is written when every file it lists is as it says, and the team *)
(* is told of a role when the receipt of its pack is there.                  *)
CommitPoint ==
    [][/\ receipt' # receipt => \A f \in Paths : files[f] = ContentOf[receipt'][f]
       /\ claimed' \notin {claimed, NoFile} => receipt \in Packs /\ claimed' = Identity(receipt)]_vars

(* The files that are local to the member are written once Git ignores them. *)
LocalIgnored == [][run.pc = "rename" /\ (files'[Role] # files[Role] \/ receipt' # receipt) => ignored]_vars
=============================================================================
