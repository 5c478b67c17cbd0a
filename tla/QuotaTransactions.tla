------------------------- MODULE QuotaTransactions -------------------------
(***************************************************************************)
(* The shared limiter: consume_request_quota as it runs in PostgreSQL under *)
(* READ COMMITTED for one scope, against the part of purge_expired_data     *)
(* that deletes client counters.  A step is a statement, or a wait for the  *)
(* row it needs; writes stay private until commit.                          *)
(***************************************************************************)
EXTENDS RequestBudget, FiniteSets

CONSTANTS
    Servers,       \* connections that consume
    Purgers,       \* connections that run maintenance
    Free,          \* the owner of a row nobody has locked
    CleanupLimit,  \* how many stale counters one request may delete: 128
    QuotaLimit     \* p_quota_limit

ASSUME QuotaAssumption == Free \notin Servers \cup Purgers /\ Servers \cap Purgers = {}

VARIABLES
    globalRow,     \* the committed global row
    clients,       \* the committed client rows
    globalLock,    \* who holds the global row
    clientLock,    \* who holds or has written a client row
    tx,            \* the transaction running on each connection
    unseen         \* history: requests allowed whose client row was missing

rows  == <<globalRow, clients>>
locks == <<globalLock, clientLock>>
sharedVars == <<now, budget, rows, locks, tx, unseen>>

Conns == Servers \cup Purgers
Idle == [pc |-> "idle"]
At(p, pc) == tx[p].pc = pc
Goto(p, pc) == tx' = [tx EXCEPT ![p].pc = pc]

SharedInit ==
    /\ BudgetInit
    /\ globalRow = NoRow
    /\ clients = [c \in {} |-> c]
    /\ globalLock = Free
    /\ clientLock = [c \in Clients |-> Free]
    /\ tx = [p \in Conns |-> Idle]
    /\ unseen = [w \in Windows |-> [c \in Clients |-> 0]]

Release(p) == /\ globalLock' = IF globalLock = p THEN Free ELSE globalLock
              /\ clientLock' = [c \in Clients |-> IF clientLock[c] = p THEN Free ELSE clientLock[c]]

Fail(p) == /\ ~At(p, "idle")
           /\ Release(p) /\ tx' = [tx EXCEPT ![p] = Idle]
           /\ UNCHANGED <<now, budget, rows>>

\* Expired long enough at p's reading of the clock.
Expired(p) == {c \in DOMAIN clients : clients[c].expires <= tx[p].at - Retention}

Batch(S, due, limit) == /\ S \subseteq due
                        /\ Cardinality(S) <= limit
                        /\ S = due \/ Cardinality(S) = limit

Begin(p) ==
    /\ At(p, "idle")
    /\ \E c \in Clients : tx' = [tx EXCEPT ![p] = [pc |-> "global", client |-> c, at |-> now, doomed |-> {}]]
    /\ UNCHANGED <<now, budget, rows, locks>>

\* Faulty: select without for update.
ReadGlobal(p) ==
    /\ At(p, "global")
    /\ tx' = [tx EXCEPT ![p].pc = "cleanup", ![p].at = now]
    /\ UNCHANGED <<now, budget, rows, locks>>

\* Faulty: the clock is read before the wait.
LockGlobalLate(p) ==
    /\ At(p, "global")
    /\ globalLock = Free
    /\ globalLock' = p
    /\ Goto(p, "cleanup")
    /\ UNCHANGED <<now, budget, rows, clientLock>>

\* insert ... on conflict do nothing, select ... for update, then the clock.
LockGlobal(p) ==
    /\ At(p, "global")
    /\ globalLock = Free
    /\ globalLock' = p
    /\ tx' = [tx EXCEPT ![p].pc = "cleanup", ![p].at = now]
    /\ UNCHANGED <<now, budget, rows, clientLock>>

\* A row's counter as the transaction sees it, started again if it expired.
Restarted(p, row) == IF row = NoRow \/ row.expires <= tx[p].at
                   THEN [hits |-> 0, expires |-> EndOf(tx[p].at)] ELSE row

\* delete ... where (scope, bucket) in (select ... limit 128).
Cleanup(p) ==
    /\ At(p, "cleanup")
    /\ \E S \in SUBSET Clients :
          /\ Batch(S, Expired(p), CleanupLimit)
          /\ tx' = [tx EXCEPT ![p].pc = "delete", ![p].doomed = S]
    /\ UNCHANGED <<now, budget, rows, locks>>

\* The rows chosen are deleted in turn, once nobody holds them; gone is gone.
DeleteStale(p) ==
    /\ At(p, "delete")
    /\ LET pending == {c \in tx[p].doomed \cap DOMAIN clients : clientLock[c] # p}
       IN  IF pending = {}
           THEN Goto(p, "budget") /\ UNCHANGED clientLock
           ELSE \E c \in pending : /\ clientLock[c] = Free
                                   /\ clientLock' = [clientLock EXCEPT ![c] = p]
                                   /\ UNCHANGED tx
    /\ UNCHANGED <<now, budget, rows, globalLock>>

Kept(p) == DOMAIN clients \ {c \in tx[p].doomed : clientLock[c] = p}

\* End with the client's counter r (or with none), and the global counter g.
Commit(p, g, own) ==
    /\ globalRow' = g
    /\ clients' = [c \in Kept(p) \cup DOMAIN own |-> IF c \in DOMAIN own THEN own[c] ELSE clients[c]]
    /\ Release(p)
    /\ tx' = [tx EXCEPT ![p] = Idle]
    /\ UNCHANGED now

None == [c \in {} |-> c]

\* The global budget is spent: no client row is created.
GlobalSpent(p) ==
    /\ At(p, "budget")
    /\ LET g == Restarted(p, globalRow)
       IN  IF g.hits >= GlobalLimit
           THEN Commit(p, g, None) /\ Refuse(tx[p].client, WindowOf(tx[p].at))
           ELSE Goto(p, "insert") /\ UNCHANGED <<now, budget, rows, locks>>

\* insert ... on conflict do nothing waits only for a delete in progress.
InsertClient(p) ==
    /\ At(p, "insert")
    /\ LET c == tx[p].client
       IN  /\ clientLock[c] \in {Free, p}
           /\ clientLock' = IF c \in Kept(p) THEN clientLock ELSE [clientLock EXCEPT ![c] = p]
    /\ Goto(p, "client")
    /\ UNCHANGED <<now, budget, rows, globalLock>>

\* select ... for update: the row is p's own, or the committed one, or it is
\* found deleted meanwhile, and then every comparison with it is null.
LockClient(p) ==
    /\ At(p, "client")
    /\ clientLock[tx[p].client] \in {Free, p}
    /\ clientLock' = [clientLock EXCEPT ![tx[p].client] = p]
    /\ Goto(p, IF clientLock[tx[p].client] = Free /\ tx[p].client \notin DOMAIN clients
               THEN "missing" ELSE "decide")
    /\ UNCHANGED <<now, budget, rows, globalLock>>

Charged(row) == [row EXCEPT !.hits = @ + 1]

\* Faulty: the global counter is charged before the client's is known.
DecideChargingFirst(p) ==
    /\ At(p, "decide")
    /\ LET c == tx[p].client
           w == WindowOf(tx[p].at)
           g == Charged(Restarted(p, globalRow))
           row == Restarted(p, IF c \in Kept(p) THEN clients[c] ELSE NoRow)
       IN  IF row.hits >= ClientLimit
           THEN Commit(p, g, [d \in {c} |-> row]) /\ Refuse(c, w)
           ELSE Commit(p, g, [d \in {c} |-> Charged(row)]) /\ Allow(c, w)

\* Faulty: the limit is exceeded before it refuses.
DecideAbove(p) ==
    /\ At(p, "decide")
    /\ LET c == tx[p].client
           w == WindowOf(tx[p].at)
           row == Restarted(p, IF c \in Kept(p) THEN clients[c] ELSE NoRow)
       IN  IF row.hits > ClientLimit
           THEN Commit(p, Restarted(p, globalRow), [d \in {c} |-> row]) /\ Refuse(c, w)
           ELSE Commit(p, Charged(Restarted(p, globalRow)), [d \in {c} |-> Charged(row)]) /\ Allow(c, w)

Decide(p) ==
    /\ At(p, "decide")
    /\ LET c == tx[p].client
           w == WindowOf(tx[p].at)
           g == Restarted(p, globalRow)
           row == Restarted(p, IF c \in Kept(p) THEN clients[c] ELSE NoRow)
       IN  IF row.hits >= ClientLimit
           THEN Commit(p, g, [d \in {c} |-> row]) /\ Refuse(c, w)
           ELSE Commit(p, Charged(g), [d \in {c} |-> Charged(row)]) /\ Allow(c, w)

\* No client row: neither reset nor refused, and only the global row to update.
DecideMissing(p) ==
    /\ At(p, "missing")
    /\ Commit(p, Charged(Restarted(p, globalRow)), None)
    /\ Allow(tx[p].client, WindowOf(tx[p].at))
    /\ unseen' = [unseen EXCEPT ![WindowOf(tx[p].at)][tx[p].client] = @ + 1]

-----------------------------------------------------------------------------
(* purge_expired_data: client counters, of any scope *)

PurgeBegin(q) ==
    /\ At(q, "idle")
    /\ tx' = [tx EXCEPT ![q] = [pc |-> "purge", at |-> now, doomed |-> {}]]
    /\ UNCHANGED <<now, budget, rows, locks>>

\* Faulty: maintenance waits for the rows in use instead of skipping them.
PurgeWaiting(q) ==
    /\ At(q, "purge")
    /\ LET pending == {c \in Expired(q) : clientLock[c] # q}
       IN  IF pending = {}
           THEN tx' = [tx EXCEPT ![q].pc = "purged", ![q].doomed = Expired(q)] /\ UNCHANGED clientLock
           ELSE \E c \in pending : /\ clientLock[c] = Free
                                   /\ clientLock' = [clientLock EXCEPT ![c] = q]
                                   /\ UNCHANGED tx
    /\ UNCHANGED <<now, budget, rows, globalLock>>

\* for update skip locked, and the delete.
PurgeDelete(q) ==
    /\ At(q, "purge")
    /\ \E S \in SUBSET Clients :
          /\ Batch(S, {c \in Expired(q) : clientLock[c] = Free}, QuotaLimit)
          /\ clientLock' = [c \in Clients |-> IF c \in S THEN q ELSE clientLock[c]]
          /\ tx' = [tx EXCEPT ![q].pc = "purged", ![q].doomed = S]
    /\ UNCHANGED <<now, budget, rows, globalLock>>

PurgeCommit(q) ==
    /\ At(q, "purged")
    /\ clients' = [c \in Kept(q) |-> clients[c]]
    /\ Release(q)
    /\ tx' = [tx EXCEPT ![q] = Idle]
    /\ UNCHANGED <<now, budget, globalRow>>

Consumption(p) ==
    \/ DecideMissing(p)
    \/ /\ \/ LockGlobal(p) \/ Cleanup(p) \/ DeleteStale(p) \/ GlobalSpent(p)
          \/ InsertClient(p) \/ LockClient(p) \/ Decide(p)
       /\ UNCHANGED unseen

Purging(q) == (PurgeDelete(q) \/ PurgeCommit(q)) /\ UNCHANGED unseen

Statement(p) == IF p \in Servers THEN Consumption(p) ELSE Purging(p)

SharedNext ==
    \/ \E p \in Conns : Statement(p)
    \/ /\ \/ Tick /\ UNCHANGED <<budget, rows, locks, tx>>
          \/ \E p \in Servers : Begin(p)
          \/ \E q \in Purgers : PurgeBegin(q)
          \/ \E p \in Conns : Fail(p)
       /\ UNCHANGED unseen

SharedSpec == SharedInit /\ [][SharedNext]_sharedVars

-----------------------------------------------------------------------------
(* Type correctness; locks belong to running transactions, and whoever is    *)
(* past the first statement holds the global row.                            *)
SharedTypeOK ==
    /\ now \in 0..MaxNow
    /\ globalRow = NoRow \/ globalRow.hits \in 0..GlobalLimit
    /\ DOMAIN clients \subseteq Clients
    /\ \A c \in DOMAIN clients : clients[c].hits \in 0..ClientLimit
    /\ globalLock \in {p \in Servers : ~At(p, "idle")} \cup {Free}
    /\ clientLock \in [Clients -> {p \in Conns : ~At(p, "idle")} \cup {Free}]
    /\ \A p \in Servers : ~At(p, "idle") /\ ~At(p, "global") => globalLock = p

(* Types and locks; and all servers together never allow more than the global *)
(* budget in a window, whatever maintenance deletes, and the counter of the   *)
(* window that is running holds what was allowed in it, not what was refused: *)
(* failures and retries neither lose nor charge any.                          *)
GlobalBudget == /\ SharedTypeOK
                /\ \A w \in Windows : spent[w] <= GlobalLimit
                /\ globalRow # NoRow /\ globalRow.expires > now => globalRow.hits = spent[WindowOf(now)]

\* The next statement of p needs a row that another transaction has.
Waits(p) ==
    \/ At(p, "global") /\ globalLock # Free
    \/ /\ At(p, "delete")
       /\ LET pending == {c \in tx[p].doomed \cap DOMAIN clients : clientLock[c] # p}
          IN  pending # {} /\ \A c \in pending : clientLock[c] # Free
    \/ tx[p].pc \in {"insert", "client"} /\ clientLock[tx[p].client] \notin {Free, p}

(* Requests and maintenance never wait for each other in a circle: requests  *)
(* queue on the global row before they touch a client's, and maintenance     *)
(* waits for nobody.                                                         *)
NoCircle == (\E p \in Conns : ~At(p, "idle")) => \E p \in Conns : ~At(p, "idle") /\ ~Waits(p)

(* ... and the next statement of one that waits for nobody can be taken.     *)
NoDeadlock ==
    (\E p \in Conns : ~At(p, "idle")) =>
        \E p \in Conns : ~At(p, "idle") /\ ~Waits(p) /\ ENABLED Statement(p)

(* In the window that is running no client is allowed more than its limit,   *)
(* nor lost count of, except for the requests whose client row was deleted   *)
(* between their insert and their select.                                    *)
ClientCounts ==
    \A c \in Clients :
        LET w    == WindowOf(now)
            seen == granted[w][c] - unseen[w][c]
        IN  /\ seen <= ClientLimit
            /\ c \in DOMAIN clients /\ clients[c].expires > now => clients[c].hits = seen

(* Both budgets of the window that is running are kept and counted: across   *)
(* servers, failures and maintenance, for all clients together and for each. *)
BudgetsKept == GlobalBudget /\ ClientCounts

(* A request is refused only when one of its two budgets was spent, however  *)
(* late its transaction read the clock, and whatever others failed.          *)
RefusedWhenSpent ==
    answer # NoRow /\ ~answer.allowed =>
        \/ granted[answer.window][answer.client] >= ClientLimit
        \/ spent[answer.window] >= GlobalLimit

(* "Fixed one-hour operation budget, per trusted client IP"                  *)
(* (doc/2026-10-02-shared-abuse-quotas.md:17), of which the same page says   *)
(* that the function "increments both only when both allow the request": no  *)
(* client is allowed more than its limit in the window that is running.      *)
ClientBudget == \A c \in Clients : granted[WindowOf(now)][c] <= ClientLimit
=============================================================================
