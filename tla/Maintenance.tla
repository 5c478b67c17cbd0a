---------------------------- MODULE Maintenance ----------------------------
(***************************************************************************)
(* The retention purge: GET /api/maintenance/purge, started by the daily    *)
(* cron or by an operator, runs purgeExpiredData, which calls the database  *)
(* function purge_expired_data batch after batch.  A batch locks expired    *)
(* rows of three tables in turn, the oldest first, passing over rows that   *)
(* others hold, and deletes them when it commits.  Rows are slots: a        *)
(* deleted row's slot may hold a new row later.                             *)
(***************************************************************************)
EXTENDS Integers, SequencesExt, FiniteSets

CONSTANTS
    Workers,     \* server processes that may run the purge at the same time
    Rows,        \* slots for rows of the three tables
    TableOf,     \* the table of a slot
    Limit,       \* p_room_limit, p_quota_limit, p_room_limit, by table
    MaxBatches,  \* PURGE_MAX_BATCHES
    MaxBusy      \* bound: rows other transactions hold at a time

Tables == <<"rooms", "request_quotas", "publication_requests">>

ASSUME MaintenanceAssumption ==
    /\ TableOf \in [Rows -> ToSet(Tables)]
    /\ Limit \in [ToSet(Tables) -> Nat \ {0}]
    /\ MaxBatches \in Nat \ {0} /\ MaxBusy \in Nat

VARIABLES
    due,     \* expired rows
    older,   \* their order by expires_at: the first of a pair expired first
    busy,    \* rows that other transactions hold
    run,     \* purgeExpiredData on each worker
    batch    \* the transaction of its purgeBatch

rows == <<due, older>>
purgeVars == <<rows, busy, run, batch>>

\* missed is history: rows that were expired when the run's last batch began,
\* that the batch left, and that nobody held as it passed.
NewRun == [pc |-> "loop", batches |-> 0, needsAnotherRun |-> FALSE, missed |-> {}]
NoBatch == [table |-> 0, expired |-> {}, deleting |-> {}, skipped |-> {}]

Doing(w, pc) == run[w].pc = pc

PurgeInit == /\ due = {} /\ older = {}
             /\ busy = {}
             /\ run = [w \in Workers |-> [NewRun EXCEPT !.pc = "idle"]]
             /\ batch = [w \in Workers |-> NoBatch]

Expire(r) == /\ r \notin due
             /\ due' = due \cup {r}
             /\ older' = older \cup (due \X {r})
             /\ UNCHANGED <<busy, run, batch>>

\* Rows are deleted.
Gone(D) == due' = due \ D /\ older' = older \cap (due' \X due')

LockedBy(w) == IF batch[w].table > 0 THEN batch[w].deleting ELSE {}

\* Faulty: rows are selected without for update.
HeldByNobody(w) == {}

HeldByOthers(w) == busy \cup UNION {LockedBy(v) : v \in Workers \ {w}}

Hold(r) == /\ \A w \in Workers : r \notin LockedBy(w)
           /\ Cardinality(busy \cup {r}) <= MaxBusy
           /\ busy' = busy \cup {r}
           /\ UNCHANGED <<rows, run, batch>>

\* The other transaction ends; it may have deleted the row, as another run,
\* the host or consume_request_quota does.
LetGo(r) == /\ r \in busy
            /\ busy' = busy \ {r}
            /\ \/ UNCHANGED <<rows, batch>>
               \/ /\ Gone({r})
                  /\ batch' = [w \in Workers |-> [batch[w] EXCEPT !.expired = @ \ {r}, !.skipped = @ \ {r}]]
            /\ UNCHANGED run

\* An authorized request, while the worker's last batch is not still running.
Start(w) == /\ run[w].pc \in {"idle", "done", "failed"} /\ batch[w] = NoBatch
            /\ run' = [run EXCEPT ![w] = NewRun]
            /\ UNCHANGED <<rows, busy, batch>>

\* purge_expired_data reads the clock once: checked_at.
Call(w) == /\ Doing(w, "loop")
           /\ run' = [run EXCEPT ![w].pc = "waiting"]
           /\ batch' = [batch EXCEPT ![w] = [NoBatch EXCEPT !.table = 1, !.expired = due]]
           /\ UNCHANGED <<rows, busy>>

\* PURGE_MAX_RUNTIME_MS has passed before another batch.
Deadline(w) == /\ Doing(w, "loop") /\ run[w].batches > 0
               /\ run' = [run EXCEPT ![w].pc = "done", ![w].needsAnotherRun = TRUE]
               /\ UNCHANGED <<rows, busy, batch>>

Share(S, n) == IF n < Cardinality(S) THEN n ELSE Cardinality(S)

\* Faulty: no order by.
TakeAny(S, n) == {T \in SUBSET S : Cardinality(T) = Share(S, n)}

\* order by expires_at limit n.
Take(S, n) == {T \in TakeAny(S, n) : T \X (S \ T) \subseteq older}

\* delete ... where expires_at <= checked_at ... for update skip locked.
Select(w) ==
    LET b == batch[w]
        expired == {r \in b.expired \cap due : TableOf[r] = Tables[b.table]}
        free == expired \ HeldByOthers(w)
    IN  /\ b.table \in 1..Len(Tables)
        /\ \E S \in Take(free, Limit[Tables[b.table]]) :
              batch' = [batch EXCEPT ![w] = [b EXCEPT !.table = @ + 1,
                                                      !.deleting = @ \cup S,
                                                      !.skipped = @ \cup (expired \ free)]]
        /\ UNCHANGED <<rows, busy, run>>

DeletedOf(w, t) == {r \in batch[w].deleting : TableOf[r] = t}

\* Faulty: the count of publications is not compared.
FullOfRoomsOrQuotas(w) ==
    \E t \in {"rooms", "request_quotas"} : Cardinality(DeletedOf(w, t)) = Limit[t]

Full(w) == \E t \in ToSet(Tables) : Cardinality(DeletedOf(w, t)) = Limit[t]

\* The transaction ends; what the deleted slots held is no longer of concern
\* to the other batches.
End(w) == batch' = [v \in Workers |-> IF v = w THEN NoBatch
                                      ELSE [batch[v] EXCEPT !.expired = @ \ batch[w].deleting,
                                                            !.skipped = @ \ batch[w].deleting]]

\* The batch commits, and its counts reach the run if it still waits for them.
CommitBatch(w) ==
    /\ batch[w].table > Len(Tables)
    /\ Gone(batch[w].deleting)
    /\ End(w)
    /\ IF Doing(w, "waiting")
       THEN run' = [run EXCEPT ![w] =
                [pc |-> IF Full(w) /\ @.batches + 1 < MaxBatches THEN "loop" ELSE "done",
                 batches |-> @.batches + 1, needsAnotherRun |-> Full(w),
                 missed |-> (batch[w].expired \cap due) \ (batch[w].deleting \cup batch[w].skipped)]]
       ELSE UNCHANGED run
    /\ UNCHANGED busy

\* The database refuses or cancels the batch: purgeBatch throws, 503.
RollbackBatch(w) ==
    /\ batch[w].table > 0
    /\ batch' = [batch EXCEPT ![w] = NoBatch]
    /\ run' = [run EXCEPT ![w].pc = IF @ = "waiting" THEN "failed" ELSE @]
    /\ UNCHANGED <<rows, busy>>

\* Its answer is late, lost or invalid, or the worker is stopped: the batch
\* may still commit.
Abandon(w) ==
    /\ run[w].pc \in {"loop", "waiting"}
    /\ run' = [run EXCEPT ![w].pc = "failed"]
    /\ UNCHANGED <<rows, busy, batch>>

PurgeNext == \/ \E r \in Rows : Expire(r) \/ Hold(r) \/ LetGo(r)
             \/ \E w \in Workers : \/ Start(w) \/ Call(w) \/ Deadline(w) \/ Select(w)
                                   \/ CommitBatch(w) \/ RollbackBatch(w) \/ Abandon(w)

PurgeSpec == PurgeInit /\ [][PurgeNext]_purgeVars

\* The cron starts a run again and again; not every run is stopped before its
\* first batch, and not every batch fails, at any of its statements.
FairSpec == /\ PurgeSpec
            /\ \A w \in Workers : /\ WF_purgeVars(Start(w)) /\ SF_purgeVars(Call(w))
                                  /\ \A t \in 1..Len(Tables) : SF_purgeVars(batch[w].table = t /\ Select(w))
                                  /\ SF_purgeVars(CommitBatch(w))

-----------------------------------------------------------------------------
(* Type correctness; no two transactions hold one row, and a row is held for *)
(* deletion only while it is an expired one.                                 *)
PurgeTypeOK ==
    /\ due \subseteq Rows /\ older \subseteq due \X due /\ busy \subseteq Rows
    /\ \A r, s \in due : r # s => (<<r, s>> \in older <=> <<s, r>> \notin older)
    /\ \A w \in Workers :
          /\ run[w].pc \in {"idle", "loop", "waiting", "done", "failed"}
          /\ run[w].batches \in 0..MaxBatches
          /\ batch[w].table \in 0..Len(Tables) + 1
          /\ LockedBy(w) \subseteq due
          /\ LockedBy(w) \cap busy = {}
          /\ \A v \in Workers \ {w} : LockedBy(w) \cap LockedBy(v) = {}

(* Types and locks; and needsAnotherRun is false only if everything that had *)
(* expired when the last batch began is gone, except rows that others held as *)
(* it passed: a backlog hint, and a certificate up to the locks.             *)
HintSound == PurgeTypeOK /\ \A w \in Workers : Doing(w, "done") /\ ~run[w].needsAnotherRun => run[w].missed = {}

(* No row stays expired and left alone for ever: however many rows expire    *)
(* after it, in whatever table, and however small a run's share of the       *)
(* backlog, a run comes that deletes it.                                     *)
Drains == \A r \in Rows : []<>(r \notin due \/ r \in busy)
=============================================================================
