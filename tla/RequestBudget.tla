--------------------------- MODULE RequestBudget ---------------------------
(***************************************************************************)
(* What the request limiter promises for one scope of requests ("create",   *)
(* "read", ...): RequestLimiter.consume of lib/rate-limit.ts.  Time is cut  *)
(* into fixed windows; in each window a client gets at most ClientLimit     *)
(* requests and all clients together at most GlobalLimit, and a request is  *)
(* refused only when one of the two budgets is spent.                       *)
(***************************************************************************)
EXTENDS Integers

CONSTANTS
    Clients,        \* client buckets
    ClientLimit,    \* policy.client
    GlobalLimit,    \* policy.global
    Span,           \* policy.seconds
    Retention,      \* how long an expired client counter is kept: one hour
    NoRow,          \* no counter yet
    MaxNow          \* bound: the clock stops here

ASSUME BudgetAssumption ==
    /\ ClientLimit \in Nat \ {0} /\ GlobalLimit \in Nat \ {0}
    /\ Span \in Nat \ {0} /\ Retention \in Nat /\ MaxNow \in Nat
    /\ NoRow \notin [hits : Nat, expires : Nat]

VARIABLES
    now,
    granted,        \* requests allowed, by window and client
    spent,          \* requests allowed, by window
    answer          \* the last decision

budget == <<granted, spent, answer>>

WindowOf(t) == t \div Span
Windows == 0..WindowOf(MaxNow)

\* When the window of t ends: what a counter started at t expires at.
EndOf(t) == (WindowOf(t) + 1) * Span

BudgetInit == /\ now = 0
              /\ granted = [w \in Windows |-> [c \in Clients |-> 0]]
              /\ spent = [w \in Windows |-> 0]
              /\ answer = NoRow

Tick == now < MaxNow /\ now' = now + 1

Allow(c, w) == /\ granted' = [granted EXCEPT ![w][c] = @ + 1]
               /\ spent' = [spent EXCEPT ![w] = @ + 1]
               /\ answer' = [client |-> c, window |-> w, allowed |-> TRUE]

Refuse(c, w) == /\ answer' = [client |-> c, window |-> w, allowed |-> FALSE]
                /\ UNCHANGED <<granted, spent>>

\* A decision belongs to the window of a clock reading t made for it.
Consume(c, t) ==
    LET w == WindowOf(t)
    IN  IF granted[w][c] < ClientLimit /\ spent[w] < GlobalLimit THEN Allow(c, w) ELSE Refuse(c, w)

BudgetNext == \/ Tick /\ UNCHANGED budget
              \/ \E c \in Clients, t \in 0..now : Consume(c, t) /\ UNCHANGED now

BudgetSpec == BudgetInit /\ [][BudgetNext]_<<now, budget>>
=============================================================================
