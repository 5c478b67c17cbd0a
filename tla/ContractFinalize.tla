-------------------------- MODULE ContractFinalize --------------------------
(***************************************************************************)
(* grill contract-finalize and contract-status in one checkout: five        *)
(* artifacts replaced one by one under a lock file and a journal, by        *)
(* processes that may fail or be killed between any two steps, while others *)
(* read the artifacts without the lock.                                     *)
(*                                                                          *)
(* A revision is named by a hash chain, so its name is the sequence of the  *)
(* drafts that led to it.  What a proposal says beyond its parent and its   *)
(* staged prose and types decides only whether it is refused: any may be.   *)
(***************************************************************************)
EXTENDS Naturals, SequencesExt

CONSTANTS
    Terminals,             \* where contract-finalize and contract-status run
    Drafts,                \* staged outputs
    ProseOf, TypesOf,      \* the prose and the types policy of a draft
    Legacy,                \* prose, types or changes that no revision records
    LegacySets,            \* which of these a checkout may start with
    Made,                  \* bound: the proposals, each a parent and a draft
    NoFile, Torn,          \* an absent file, a journal opened and not yet written
    MaxRevisions,          \* bound: length of the history
    MaxFaults              \* bound: failures and kills

VARIABLES
    files,      \* the artifacts
    temps,      \* artifacts with a *.contract-tmp
    journal,    \* CONTRACT-PENDING.json
    lock,       \* CONTRACT-FINALIZE.lock
    run,        \* what each terminal runs
    acked,      \* history: revisions reported as finalized
    faults      \* bound: failures and kills so far

disk == <<files, temps, journal, lock>>
vars == <<disk, run, acked, faults>>

\* CONTRACT_PATHS: the order in which artifacts are replaced.
Paths == <<"CONTRACT.md", "contract.ts", "CHANGES", "HISTORY", "STATE">>
Files == ToSet(Paths)
First == [S \in (SUBSET Files) \ {{}} |->
    Paths[CHOOSE i \in DOMAIN Paths : Paths[i] \in S /\ \A j \in 1..(i - 1) : Paths[j] \notin S]]

\* Types are replaced or preserved, which a first revision may do with those that
\* no revision recorded, or never were.
Replacing(h) == {i \in DOMAIN h : TypesOf[h[i]] \notin {"none", "preserve"}}
TypesAfter(h) == IF Replacing(h) # {} THEN TypesOf[h[CHOOSE i \in Replacing(h) : \A j \in Replacing(h) : j <= i]]
                 ELSE IF TypesOf[h[1]] = "preserve" THEN Legacy ELSE NoFile

Histories == UNION {[1..n -> Drafts] : n \in 0..MaxRevisions}

Parents   == {h \in Histories : Len(h) < MaxRevisions}
Proposals == {[parent |-> h, draft |-> d] : h \in Parents, d \in Drafts}

\* What artifacts may hold; the chained ones are known by their last revision.
Named    == Histories \ {<<>>}
Values   == Named \cup {ProseOf[d] : d \in Drafts} \cup {TypesOf[d] : d \in Drafts} \cup {Legacy, NoFile}
Contents == {fs \in [Files -> Values] : /\ fs["CHANGES"] \in Named \cup {NoFile, Legacy}
                                        /\ \A f \in {"HISTORY", "STATE"} : fs[f] \in Named \cup {NoFile}}
Plans    == [parent : Parents, draft : Drafts, before : Contents]

ASSUME FinalizeAssumption ==
    /\ MaxRevisions \in Nat /\ MaxFaults \in Nat
    /\ Made \subseteq Proposals
    /\ LegacySets \subseteq SUBSET {"CONTRACT.md", "contract.ts", "CHANGES"}
    /\ Legacy # NoFile /\ Torn # NoFile
    /\ \A d \in Drafts : ProseOf[d] # NoFile /\ TypesOf[d] # NoFile
    /\ NoFile \notin Terminals \cup Histories \cup Proposals \cup Plans
    /\ Torn \notin Plans

\* The artifacts of revision h.
Content == [h \in Named |-> [f \in Files |-> CASE f = "CONTRACT.md" -> ProseOf[Last(h)]
                                              [] f = "contract.ts" -> TypesAfter(h)
                                              [] OTHER -> h]]

\* A plan is a proposal with the artifacts it was made from.
Revision(plan) == Append(plan.parent, plan.draft)
Outputs(plan)  == [f \in {x \in Files : Content[Revision(plan)][x] # NoFile} |-> Content[Revision(plan)][f]]
IsPlan(j) == j \notin {NoFile, Torn}

\* Faulty: only the state and the history are compared.
CurrentByState(raw) ==
    IF raw["STATE"] = NoFile THEN IF raw["HISTORY"] = NoFile THEN {<<>>} ELSE {}
    ELSE IF raw["HISTORY"] = raw["STATE"] THEN {raw["STATE"]} ELSE {}

\* currentRevision: the revision that these contents agree on, if they agree.
Current(raw) ==
    IF raw["STATE"] = NoFile THEN IF raw["HISTORY"] = NoFile THEN {<<>>} ELSE {}
    ELSE IF raw = Content[raw["STATE"]] THEN {raw["STATE"]} ELSE {}

\* The revision whose artifacts are all in place, if one's are.
InPlace(fs) == {h \in {<<>>, fs["STATE"]} \ {NoFile} :
                   IF h = <<>> THEN fs["STATE"] = NoFile /\ fs["HISTORY"] = NoFile ELSE fs = Content[h]}

Idle == [pc |-> "idle"]
At(p, pc) == run[p].pc = pc
Goto(p, pc) == run' = [run EXCEPT ![p].pc = pc]
Stop(p) == run' = [run EXCEPT ![p] = Idle]

\* contract-status is reading.
Reading(p) == At(p, "read") /\ run[p].proposal = NoFile

Init ==
    /\ \E old \in LegacySets :
          files = [f \in Files |-> IF f \in old THEN Legacy ELSE NoFile]
    /\ temps = {} /\ journal = NoFile /\ lock = NoFile
    /\ run = [p \in Terminals |-> Idle]
    /\ acked = {} /\ faults = 0

-----------------------------------------------------------------------------
(* Reading, without the lock *)

\* contract-finalize with a proposal and its staged outputs, or contract-status.
Start(p, proposal) ==
    /\ At(p, "idle")
    /\ run' = [run EXCEPT ![p] = [pc |-> "journal", proposal |-> proposal]]
    /\ UNCHANGED <<disk, acked, faults>>

\* A journal stops a status; a finalizer only retries the journal's proposal.
ReadJournal(p) ==
    /\ At(p, "journal")
    /\ CASE journal = NoFile ->
              run' = [run EXCEPT ![p] = [pc |-> "read", proposal |-> run[p].proposal, raw |-> <<>>,
                                         seen |-> IF run[p].proposal = NoFile THEN InPlace(files) ELSE {}]]
         [] /\ IsPlan(journal)
            /\ run[p].proposal = [parent |-> journal.parent, draft |-> journal.draft] ->
              run' = [run EXCEPT ![p] = [pc |-> "lock", plan |-> journal, then |-> "recheck"]]
         [] OTHER -> Stop(p)
    /\ UNCHANGED <<disk, acked, faults>>

\* State and history first; the rest in turn, or at once if there is no state.
ReadFile(p, f) ==
    /\ At(p, "read")
    /\ LET unread == Files \ DOMAIN run[p].raw
       IN  /\ f \in unread
           /\ "STATE" \in unread => f = "STATE"
           /\ "STATE" \notin unread /\ "HISTORY" \in unread => f = "HISTORY"
           /\ unread \cap {"STATE", "HISTORY"} = {} /\ run[p].raw["STATE"] # NoFile => f = First[unread]
    /\ run' = [run EXCEPT ![p].raw = [g \in DOMAIN @ \cup {f} |-> IF g = f THEN files[f] ELSE run[p].raw[g]]]
    /\ UNCHANGED <<disk, acked, faults>>

\* planContract refuses another parent, and types lost or preserved from nothing.
Plan(p) ==
    /\ At(p, "read") /\ ~Reading(p) /\ DOMAIN run[p].raw = Files
    /\ LET raw  == run[p].raw
           plan == [parent |-> run[p].proposal.parent, draft |-> run[p].proposal.draft, before |-> raw]
       IN  \/ Stop(p)
           \/ /\ plan.parent \in Current(raw)
              /\ TypesOf[plan.draft] = "none" => raw["contract.ts"] = NoFile
              /\ TypesOf[plan.draft] = "preserve" => raw["contract.ts"] # NoFile
              /\ run' = [run EXCEPT ![p] = [pc |-> "lock", plan |-> plan, then |-> "open"]]
    /\ UNCHANGED <<disk, acked, faults>>

\* contract-status answers with a revision, or that the artifacts disagree.
Report(r) ==
    /\ Reading(r) /\ DOMAIN run[r].raw = Files
    /\ IF Current(run[r].raw) = {} THEN Stop(r)
       ELSE \E h \in Current(run[r].raw) :
              run' = [run EXCEPT ![r] = [pc |-> "reported", revision |-> h, raw |-> run[r].raw, seen |-> run[r].seen]]
    /\ UNCHANGED <<disk, acked, faults>>

Reported(r) == At(r, "reported") /\ Stop(r) /\ UNCHANGED <<disk, acked, faults>>

-----------------------------------------------------------------------------
(* Finalizing, with the lock *)

\* Faulty: the lock file is not opened exclusively.
AcquireShared(p) ==
    /\ At(p, "lock")
    /\ lock' = p /\ Goto(p, run[p].then)
    /\ UNCHANGED <<files, temps, journal, acked, faults>>

\* exclusively: the lock file is created (wx) or the command stops.
Acquire(p) ==
    /\ At(p, "lock")
    /\ IF lock = NoFile THEN lock' = p /\ Goto(p, run[p].then) ELSE Stop(p) /\ UNCHANGED lock
    /\ UNCHANGED <<files, temps, journal, acked, faults>>

\* completeRevision reads the journal again.
Recheck(p) ==
    /\ At(p, "recheck")
    /\ Goto(p, IF journal = run[p].plan THEN "targets" ELSE "unlock")
    /\ UNCHANGED <<disk, acked, faults>>

\* publishRevision: no leftover temporary, and the journal is created (wx).
OpenJournal(p) ==
    /\ At(p, "open")
    /\ IF journal = NoFile /\ temps \cap DOMAIN Outputs(run[p].plan) = {}
       THEN journal' = Torn /\ Goto(p, "snapshot")
       ELSE Goto(p, "unlock") /\ UNCHANGED journal
    /\ UNCHANGED <<files, temps, lock, acked, faults>>

\* The artifacts must still be those of the plan, or the journal goes again.
CheckSnapshot(p) ==
    /\ At(p, "snapshot")
    /\ IF files = run[p].plan.before
       THEN Goto(p, "write") /\ UNCHANGED journal
       ELSE Goto(p, "unlock") /\ journal' = NoFile
    /\ UNCHANGED <<files, temps, lock, acked, faults>>

WriteJournal(p) ==
    /\ At(p, "write")
    /\ journal' = run[p].plan
    /\ Goto(p, "targets")
    /\ UNCHANGED <<files, temps, lock, acked, faults>>

\* Faulty: a retry insists on the old artifacts.
OldOnly(plan) == \A f \in Files : files[f] = plan.before[f]

\* Every artifact has its recorded old or its intended new value.
OldOrNew(plan) ==
    \A f \in Files : files[f] = plan.before[f] \/ (f \in DOMAIN Outputs(plan) /\ files[f] = Outputs(plan)[f])

CheckTargets(p) ==
    /\ At(p, "targets")
    /\ LET plan == run[p].plan
       IN  IF temps \cap DOMAIN Outputs(plan) = {} /\ OldOrNew(plan)
           THEN run' = [run EXCEPT ![p] = [pc |-> "create", plan |-> plan, left |-> DOMAIN Outputs(plan)]]
           ELSE Goto(p, "unlock")
    /\ UNCHANGED <<disk, acked, faults>>

\* atomicWrite: the next artifact's temporary, created (wx) and written ...
CreateTemporary(p) ==
    /\ At(p, "create")
    /\ LET f == First[run[p].left]
       IN  IF f \in temps THEN Goto(p, "unlock") /\ UNCHANGED temps
                         ELSE temps' = temps \cup {f} /\ Goto(p, "rename")
    /\ UNCHANGED <<files, journal, lock, acked, faults>>

\* ... and renamed into place.  Whoever is reading has seen this.
RenameTemporary(p) ==
    /\ At(p, "rename")
    /\ LET f    == First[run[p].left]
           left == run[p].left \ {f}
       IN  /\ files' = [files EXCEPT ![f] = Outputs(run[p].plan)[f]]
           /\ temps' = temps \ {f}
           /\ run' = [q \in Terminals |->
                 IF q = p THEN [run[p] EXCEPT !.left = left, !.pc = IF left = {} THEN "finish" ELSE "create"]
                 ELSE IF Reading(q) THEN [run[q] EXCEPT !.seen = @ \cup InPlace(files')]
                 ELSE run[q]]
    /\ UNCHANGED <<journal, lock, acked, faults>>

Finish(p) ==
    /\ At(p, "finish")
    /\ journal' = NoFile
    /\ acked' = acked \cup {Revision(run[p].plan)}
    /\ Goto(p, "unlock")
    /\ UNCHANGED <<files, temps, lock, faults>>

Unlock(p) ==
    /\ At(p, "unlock")
    /\ lock' = NoFile
    /\ Stop(p)
    /\ UNCHANGED <<files, temps, journal, acked, faults>>

Locked(p) == run[p].pc \in {"recheck", "open", "snapshot", "write", "targets", "create", "rename", "finish", "unlock"}
Fault == faults < MaxFaults /\ faults' = faults + 1

\* Faulty: any failure removes the journal.
FailWithoutJournal(p) ==
    /\ Fault /\ Locked(p) /\ ~At(p, "unlock")
    /\ journal' = NoFile
    /\ temps' = IF At(p, "rename") THEN temps \ {First[run[p].left]} ELSE temps
    /\ Goto(p, "unlock")
    /\ UNCHANGED <<files, lock, acked>>

\* A file operation fails: the temporary goes, and so does an unwritten journal.
Fail(p) ==
    /\ Fault /\ Locked(p) /\ ~At(p, "unlock")
    /\ journal' = IF At(p, "snapshot") \/ At(p, "write") THEN NoFile ELSE journal
    /\ temps' = IF At(p, "rename") THEN temps \ {First[run[p].left]} ELSE temps
    /\ Goto(p, "unlock")
    /\ UNCHANGED <<files, lock, acked>>

\* The process is killed.
Crash(p) == Fault /\ Locked(p) /\ Stop(p) /\ UNCHANGED <<disk, acked>>

\* Once the process that left them has stopped, a lock and temporaries are removed.
RemoveLeftovers ==
    /\ lock # NoFile /\ ~Locked(lock)
    /\ lock' = NoFile /\ temps' = {}
    /\ UNCHANGED <<files, journal, run, acked, faults>>

Step(p) ==
    \/ ReadJournal(p) \/ Plan(p) \/ Report(p) \/ Reported(p)
    \/ \E f \in Files : ReadFile(p, f)
    \/ Acquire(p) \/ Recheck(p) \/ OpenJournal(p) \/ CheckSnapshot(p) \/ WriteJournal(p)
    \/ CheckTargets(p) \/ CreateTemporary(p) \/ RenameTemporary(p) \/ Finish(p) \/ Unlock(p)

Next ==
    \/ \E p \in Terminals, proposal \in Made \cup {NoFile} : Start(p, proposal)
    \/ \E p \in Terminals : Step(p) \/ Fail(p) \/ Crash(p)
    \/ RemoveLeftovers

Spec == Init /\ [][Next]_vars

\* Commands run to their end; the host clears leftovers and retries the
\* proposal of the journal, until a retry finds the lock free.
Retry   == \E p \in Terminals : IsPlan(journal) /\ Start(p, [parent |-> journal.parent, draft |-> journal.draft])
Succeed == \E p \in Terminals : Acquire(p) /\ lock' = p

FairSpec == /\ Spec
            /\ WF_vars(RemoveLeftovers) /\ SF_vars(Retry) /\ SF_vars(Succeed)
            /\ \A p \in Terminals : WF_vars(Step(p))

-----------------------------------------------------------------------------
(* Type correctness: whoever is past the lock holds it, alone, and an        *)
(* unwritten journal is its holder's or a killed process's.                  *)
TypeOK ==
    /\ DOMAIN files = Files /\ temps \subseteq Files
    /\ files["CHANGES"] \in Histories \cup {NoFile, Legacy}
    /\ \A f \in {"HISTORY", "STATE"} : files[f] \in Histories \cup {NoFile}
    /\ IsPlan(journal) => journal.parent \in Histories /\ journal.draft \in Drafts /\ DOMAIN journal.before = Files
    /\ lock \in Terminals \cup {NoFile}
    /\ \A p \in Terminals : Locked(p) => lock = p
    /\ \A p \in Terminals : At(p, "snapshot") \/ At(p, "write") => journal = Torn
    /\ \A p \in Terminals : run[p].pc \in {"create", "rename", "finish"} => journal = run[p].plan
    /\ acked \subseteq Histories /\ faults \in 0..MaxFaults

(* A revision reported as finalized stays in the history for good: no stale  *)
(* plan, competing finalizer or late retry replaces it or forks the chain.   *)
Durable == \A h \in acked : files["HISTORY"] # NoFile /\ IsPrefix(h, files["HISTORY"])

(* Whenever a process is killed, a complete journal is there from which the  *)
(* same proposal can be retried, or the artifacts are those of one revision, *)
(* or still those that no revision records.                                  *)
Unrecorded == /\ files["HISTORY"] = NoFile /\ files["STATE"] = NoFile
              /\ \A f \in Files : files[f] \in {NoFile, Legacy}

Recoverable == /\ TypeOK
               /\ IF IsPlan(journal) THEN OldOrNew(journal)
                  ELSE Unrecorded \/ InPlace(files) \notin {{}, {<<>>}}

(* A status that names a revision has read five artifacts that were in place *)
(* together at some moment of its reading, although it reads them one by one *)
(* and finalizers do not wait for it.                                        *)
StatusSound ==
    \A r \in Terminals : At(r, "reported") =>
        /\ run[r].revision \in run[r].seen
        /\ run[r].revision # <<>> => run[r].raw = Content[run[r].revision]

(* An interrupted finalization whose journal was written is completed by     *)
(* retrying the same proposal.                                               *)
RetryEnds == IsPlan(journal) ~> journal = NoFile

(* "A killed process can leave a lock or *.contract-tmp: [...] remove only   *)
(* those abandoned leftovers before identical retry" (                       *)
(* doc/contract-revisions.md, Freshness and recovery): that, and never       *)
(* removing the journal, is enough to get out of every interruption.         *)
JournalEnds == journal # NoFile ~> journal = NoFile
=============================================================================
