---------------------------- MODULE MemoryQuota ----------------------------
(***************************************************************************)
(* class MemoryRequestLimiter of lib/rate-limit.ts: a Map of counters, one  *)
(* global and one per client, consulted without an await.  An expired       *)
(* counter starts again; one that expired Retention ago is removed, by the  *)
(* next request of its scope or by maintenance.                             *)
(***************************************************************************)
EXTENDS RequestBudget, FiniteSets

CONSTANTS PurgeLimit   \* how many counters one purge call may delete

VARIABLES
    global,     \* the counter of the scope
    counters    \* the counters of the clients seen

vars == <<now, budget, global, counters>>

Init == /\ BudgetInit
        /\ global = NoRow
        /\ counters = [c \in {} |-> c]

Fresh == [hits |-> 0, expires |-> EndOf(now)]
Hit(row) == [row EXCEPT !.hits = @ + 1]

\* Faulty: a counter is only started, never started again.
CurrentForever(row) == IF row = NoRow THEN Fresh ELSE row

\* The counter to use now: a new one when it is missing or its window is over.
Current(row) == IF row = NoRow \/ row.expires <= now THEN Fresh ELSE row

Stale == {c \in DOMAIN counters : counters[c].expires <= now - Retention}

\* One call of consume, to its return.
Request(c) ==
    LET w    == WindowOf(now)
        kept == DOMAIN counters \ Stale
        g    == Current(global)
        row  == Current(IF c \in kept THEN counters[c] ELSE NoRow)
        put(r) == [d \in kept \cup {c} |-> IF d = c THEN r ELSE counters[d]]
    IN  /\ \/ /\ g.hits >= GlobalLimit
              /\ Refuse(c, w)
              /\ global' = g /\ counters' = [d \in kept |-> counters[d]]
           \/ /\ g.hits < GlobalLimit /\ row.hits >= ClientLimit
              /\ Refuse(c, w)
              /\ global' = g /\ counters' = put(row)
           \/ /\ g.hits < GlobalLimit /\ row.hits < ClientLimit
              /\ Allow(c, w)
              /\ global' = Hit(g) /\ counters' = put(Hit(row))
        /\ UNCHANGED now

Purge(S) == /\ S \subseteq Stale
            /\ Cardinality(S) <= PurgeLimit
            /\ S = Stale \/ Cardinality(S) = PurgeLimit
            /\ counters' = [c \in DOMAIN counters \ S |-> counters[c]]
            /\ UNCHANGED <<now, budget, global>>

Next == \/ Tick /\ UNCHANGED <<budget, global, counters>>
        \/ \E c \in Clients : Request(c)
        \/ \E S \in SUBSET Clients : Purge(S)

Spec == Init /\ [][Next]_vars

-----------------------------------------------------------------------------
\* Counters end with a window and stay within the limits.
Row(limit) == [hits : 0..limit, expires : {EndOf(t) : t \in 0..now}]

TypeOK == /\ now \in 0..MaxNow
          /\ global \in Row(GlobalLimit) \cup {NoRow}
          /\ DOMAIN counters \subseteq Clients
          /\ counters \in [DOMAIN counters -> Row(ClientLimit)]
          /\ spent \in [Windows -> 0..GlobalLimit]
          /\ granted \in [Windows -> [Clients -> 0..ClientLimit]]

(* The counters are well formed, and those of the open window count exactly  *)
(* what was allowed in it: no reset, retention or purge forgets a request     *)
(* that still matters.                                                        *)
CountersCount ==
    LET w == WindowOf(now)
    IN  /\ TypeOK
        /\ Current(global).hits = spent[w]
        /\ \A c \in Clients :
              Current(IF c \in DOMAIN counters THEN counters[c] ELSE NoRow).hits = granted[w][c]

(* The in-process limiter keeps both budgets, and refuses nothing that they  *)
(* still allow.                                                              *)
Budget == INSTANCE RequestBudget
ImplementsBudget == Budget!BudgetSpec
=============================================================================
