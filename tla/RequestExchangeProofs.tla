------------------------ MODULE RequestExchangeProofs ------------------------
(* What clients are told is true, and a page's confirmed claims do not        *)
(* overtake each other, for any number of posts, any bodies and any limit;    *)
(* and the limiters behind the route, MemoryQuota's and the shared one, keep  *)
(* both budgets.                                                              *)
EXTENDS RequestExchange, QuotaTransactions, TLAPS

-----------------------------------------------------------------------------
(* The in-process limiter keeps both budgets, for any clients, limits,        *)
(* windows and retention.  That the counters of the open window count what    *)
(* was allowed in it is inductive once nothing was allowed in a window that   *)
(* has not begun.                                                             *)

\* A window is an interval of instants, and the windows of later instants are no
\* earlier ones.
LEMMA WindowBounds ==
    ASSUME NEW t \in Nat
    PROVE  /\ WindowOf(t) \in Nat
           /\ WindowOf(t) * Span <= t /\ t < (WindowOf(t) + 1) * Span
<1>1. WindowOf(t) \in Int /\ WindowOf(t) * Span <= t /\ t < (WindowOf(t) + 1) * Span
  BY BudgetAssumption DEF WindowOf
<1>2. WindowOf(t) \in Nat
  BY <1>1, BudgetAssumption
<1> QED
  BY <1>1, <1>2

\* Windows are numbered in the order of time.
LEMMA WindowsGrow ==
    ASSUME NEW s \in Nat, NEW t \in Nat, s <= t
    PROVE  WindowOf(s) <= WindowOf(t)
<1> DEFINE v == WindowOf(s)
           w == WindowOf(t)
<1>1. v \in Nat /\ w \in Nat /\ v * Span <= s /\ t < (w + 1) * Span
  BY WindowBounds
<1> HIDE DEF v, w
<1>2. v * Span < (w + 1) * Span
  BY <1>1, BudgetAssumption
<1>3. v < w + 1
  BY <1>1, <1>2, BudgetAssumption
<1> QED
  BY <1>1, <1>3 DEF v, w

\* A counter started at s has expired at t when t is in a later window.
LEMMA ExpiresWithWindow ==
    ASSUME NEW s \in Nat, NEW t \in Nat
    PROVE  EndOf(s) \in Nat /\ (EndOf(s) <= t <=> WindowOf(s) < WindowOf(t))
<1> DEFINE v == WindowOf(s)
           w == WindowOf(t)
<1>1. v \in Nat /\ w \in Nat /\ w * Span <= t /\ t < (w + 1) * Span
  BY WindowBounds
<1> HIDE DEF v, w
<1>2. (v + 1) * Span \in Nat
  BY <1>1, BudgetAssumption
<1>3. (v + 1) * Span <= t <=> v < w
  BY <1>1, BudgetAssumption
<1> QED
  BY <1>2, <1>3 DEF EndOf, v, w

-----------------------------------------------------------------------------
\* The counters that can be: well formed, or none.
Counter(limit) == Row(limit) \cup {NoRow}

\* Nothing was allowed in a window that has not begun.
Future == \A v \in Windows : v > WindowOf(now) => spent[v] = 0 /\ \A c \in Clients : granted[v][c] = 0

IInv == CountersCount /\ Future

\* The counter of a client, if any.
RowOf(c) == IF c \in DOMAIN counters THEN counters[c] ELSE NoRow

\* What a counter says now.
LEMMA CurrentFacts ==
    ASSUME now \in Nat, NEW limit \in Nat, NEW row \in Counter(limit)
    PROVE  /\ Current(row) \in Row(limit)
           /\ Current(row) # NoRow
           /\ Current(Current(row)) = Current(row)
           /\ Current(row).hits < limit => Hit(Current(row)) \in Row(limit)
           /\ Current(Hit(Current(row))).hits = Current(row).hits + 1
<1>1. \A t \in 0..now : EndOf(t) \in Nat
  BY ExpiresWithWindow
<1>2. Fresh \in Row(limit) /\ EndOf(now) > now
  <2>1. ~(EndOf(now) <= now) /\ now \in 0..now
    BY ExpiresWithWindow, WindowBounds
  <2> QED
    BY <1>1, <2>1 DEF Fresh, Row
<1>3. Row(limit) \subseteq [hits : Nat, expires : Nat] /\ NoRow \notin Row(limit)
  BY <1>1, BudgetAssumption DEF Row
<1>4. /\ Current(row) \in Row(limit) /\ Current(row).expires > now
  BY <1>2, <1>3 DEF Current, Counter, Fresh
<1> DEFINE r == Current(row)
           h == Hit(r)
<1> HIDE DEF r
<1>5. /\ h.hits = r.hits + 1 /\ h.expires = r.expires
      /\ h \in [hits : Nat, expires : Nat]
      /\ r.hits < limit => h \in Row(limit)
  BY <1>3, <1>4 DEF r, Hit, Row
<1>6. Current(r) = r /\ Current(h) = h
  <2> HIDE DEF h
  <2> QED
    BY <1>3, <1>4, <1>5, BudgetAssumption DEF Current, r
<1> QED
  BY <1>3, <1>4, <1>5, <1>6 DEF r

\* Nothing is counted at first.
LEMMA InitInv == Init => IInv
<1> SUFFICES ASSUME Init PROVE IInv
  OBVIOUS
<1>1. now = 0 /\ now \in 0..MaxNow /\ WindowOf(now) \in Windows
  BY WindowsGrow, WindowBounds, BudgetAssumption DEF Init, BudgetInit, Windows
<1>2. TypeOK
  BY <1>1, BudgetAssumption DEF Init, BudgetInit, TypeOK
<1>3. Current(NoRow).hits = 0
  BY DEF Current, Fresh
<1> QED
  BY <1>1, <1>2, <1>3 DEF Init, BudgetInit, IInv, CountersCount, Future

-----------------------------------------------------------------------------
\* When the clock moves on, counters go on counting within a window and start
\* again in the next.
LEMMA TickInv == IInv /\ Tick /\ UNCHANGED <<budget, global, counters>> => IInv'
<1> SUFFICES ASSUME IInv, Tick, UNCHANGED <<budget, global, counters>> PROVE IInv'
  OBVIOUS
<1> DEFINE w == WindowOf(now)
<1>1. /\ now \in Nat /\ now' = now + 1 /\ now' \in 0..MaxNow /\ MaxNow \in Nat
      /\ UNCHANGED <<granted, spent, global, counters>>
  BY BudgetAssumption DEF Tick, IInv, CountersCount, TypeOK, budget
<1>2. /\ w \in Windows /\ w' \in Windows /\ w \in Nat /\ w' \in Nat /\ w <= w'
  BY <1>1, WindowsGrow, WindowBounds DEF Windows
<1>3. \A limit : Row(limit) \subseteq Row(limit)'
  BY <1>1 DEF Row, EndOf, WindowOf
<1>4. TypeOK'
  BY <1>1, <1>3 DEF IInv, CountersCount, TypeOK
<1>5. ASSUME NEW limit \in Nat, NEW row \in Counter(limit)
      PROVE  Current(row)'.hits = IF w' = w THEN Current(row).hits ELSE 0
  <2>1. CASE row = NoRow
    BY <2>1 DEF Current, Fresh
  <2>2. CASE row \in Row(limit)
    <3>1. PICK s \in 0..now : row.expires = EndOf(s)
      BY <2>2 DEF Row
    <3>2. WindowOf(s) <= w
      BY <1>1, WindowsGrow
    <3>3. /\ row.expires <= now <=> WindowOf(s) < w
          /\ row.expires <= now' <=> WindowOf(s) < w'
      BY <1>1, <3>1, ExpiresWithWindow
    <3> QED
      BY <1>1, <1>2, <3>2, <3>3, WindowBounds DEF Current, Fresh
  <2> QED
    BY <2>1, <2>2 DEF Counter
<1>6. spent[w'] = (IF w' = w THEN spent[w] ELSE 0) /\ \A c \in Clients : granted[w'][c] = IF w' = w THEN granted[w][c] ELSE 0
  <2>1. CASE w' = w
    BY <2>1
  <2>2. CASE w' # w
    <3>1. w' \in Windows /\ w' > WindowOf(now)
      BY <1>2, <2>2
    <3>2. spent[w'] = 0 /\ \A c \in Clients : granted[w'][c] = 0
      BY <3>1 DEF IInv, Future
    <3> QED
      BY <2>2, <3>2
  <2> QED
    BY <2>1, <2>2
<1>7. Current(global)'.hits = spent'[w']
  BY <1>1, <1>5, <1>6, BudgetAssumption DEF IInv, CountersCount, TypeOK, Counter
<1>8. ASSUME NEW c \in Clients
      PROVE  Current(RowOf(c))'.hits = granted'[w'][c]
  BY <1>1, <1>5, <1>6, BudgetAssumption DEF IInv, CountersCount, TypeOK, Counter, RowOf
<1>9. Future'
  BY <1>1, <1>2 DEF IInv, Future, Windows
<1> QED
  BY <1>4, <1>7, <1>8, <1>9 DEF IInv, CountersCount, RowOf
-----------------------------------------------------------------------------
\* A counter that is removed has expired, so it counts as much as none.
LEMMA Removed ==
    ASSUME IInv, NEW c \in Stale
    PROVE  Current(counters[c]).hits = Current(NoRow).hits
<1>1. counters[c].expires <= now - Retention /\ counters[c] \in Row(ClientLimit) /\ now \in Nat
  BY BudgetAssumption DEF Stale, IInv, CountersCount, TypeOK
<1>2. PICK t \in 0..now : counters[c].expires = EndOf(t)
  BY <1>1 DEF Row
<1>3. EndOf(t) \in Nat
  BY <1>1, ExpiresWithWindow
<1>4. counters[c].expires <= now
  BY <1>1, <1>2, <1>3, BudgetAssumption
<1> QED
  BY <1>4 DEF Current, Fresh

\* What an answer changes: the client's account and the whole one, or neither.
LEMMA RequestInv ==
    ASSUME IInv, NEW c \in Clients, Request(c)
    PROVE  IInv' /\ Consume(c, now) /\ UNCHANGED now
<1> DEFINE w    == WindowOf(now)
           kept == DOMAIN counters \ Stale
           g    == Current(global)
           row  == Current(IF c \in kept THEN counters[c] ELSE NoRow)
           put(r) == [d \in kept \cup {c} |-> IF d = c THEN r ELSE counters[d]]
<1>1. /\ now \in 0..MaxNow /\ now \in Nat /\ w \in Windows /\ w \in Nat
      /\ GlobalLimit \in Nat /\ ClientLimit \in Nat
      /\ spent \in [Windows -> 0..GlobalLimit] /\ granted \in [Windows -> [Clients -> 0..ClientLimit]]
      /\ global \in Counter(GlobalLimit)
      /\ DOMAIN counters \subseteq Clients /\ \A d \in DOMAIN counters : counters[d] \in Row(ClientLimit)
  <2>1. TypeOK /\ now \in Nat /\ now <= MaxNow /\ MaxNow \in Nat
    BY BudgetAssumption DEF IInv, CountersCount, TypeOK
  <2>2. w \in Nat /\ w \in Windows
    BY <2>1, WindowsGrow, WindowBounds DEF Windows
  <2> QED
    BY <2>1, <2>2, BudgetAssumption DEF TypeOK, Counter
<1>2. g.hits = spent[w]
  BY DEF IInv, CountersCount
<1>3. \A d \in Clients : Current(IF d \in kept THEN counters[d] ELSE NoRow).hits = granted[w][d]
  <2> TAKE d \in Clients
  <2>1. Current(RowOf(d)).hits = granted[w][d]
    BY DEF IInv, CountersCount, RowOf
  <2>2. CASE d \in Stale
    BY <2>1, <2>2, Removed DEF RowOf, Stale
  <2>3. CASE d \notin Stale
    BY <2>1, <2>3 DEF RowOf
  <2> QED
    BY <2>2, <2>3
<1>4. row.hits = granted[w][c]
  BY <1>3
<1>5. (IF c \in kept THEN counters[c] ELSE NoRow) \in Counter(ClientLimit)
  BY <1>1 DEF Counter
<1>6. /\ g \in Row(GlobalLimit) /\ Current(g) = g
      /\ g.hits < GlobalLimit => Hit(g) \in Row(GlobalLimit) /\ Current(Hit(g)).hits = g.hits + 1
  BY <1>1, CurrentFacts
<1>7. /\ row \in Row(ClientLimit) /\ Current(row) = row
      /\ row.hits < ClientLimit => Hit(row) \in Row(ClientLimit) /\ Current(Hit(row)).hits = row.hits + 1
  BY <1>1, <1>5, CurrentFacts
<1>8. /\ \/ g.hits >= GlobalLimit /\ Refuse(c, w) /\ global' = g /\ counters' = [d \in kept |-> counters[d]]
         \/ /\ g.hits < GlobalLimit /\ row.hits >= ClientLimit /\ Refuse(c, w)
            /\ global' = g /\ counters' = put(row)
         \/ /\ g.hits < GlobalLimit /\ row.hits < ClientLimit /\ Allow(c, w)
            /\ global' = Hit(g) /\ counters' = put(Hit(row))
      /\ now' = now
  BY DEF Request
<1> HIDE DEF w, kept, g, row
<1>9. w = WindowOf(now) /\ kept \subseteq DOMAIN counters /\ g.hits \in Nat /\ row.hits \in Nat
  BY <1>6, <1>7 DEF w, kept, Row
<1>10. \A r : Current(r)' = Current(r) /\ Row(r)' = Row(r)
  BY <1>8 DEF Current, Fresh, Row
<1>11. CASE g.hits >= GlobalLimit /\ Refuse(c, w) /\ global' = g /\ counters' = [d \in kept |-> counters[d]]
  <2>1. Consume(c, now)
    BY <1>1, <1>2, <1>9, <1>11 DEF Consume
  <2>2. UNCHANGED <<granted, spent>> /\ DOMAIN counters' = kept /\ \A d \in kept : counters'[d] = counters[d]
    BY <1>11 DEF Refuse
  <2>3. TypeOK'
    BY <1>1, <1>6, <1>8, <1>9, <1>10, <1>11, <2>2 DEF TypeOK
  <2>4. CountersCount'
    BY <1>2, <1>3, <1>6, <1>8, <1>9, <1>10, <1>11, <2>2, <2>3 DEF CountersCount
  <2> QED
    BY <1>8, <2>1, <2>2, <2>4 DEF IInv, Future
<1>12. CASE /\ g.hits < GlobalLimit /\ row.hits >= ClientLimit /\ Refuse(c, w)
            /\ global' = g /\ counters' = put(row)
  <2>1. Consume(c, now)
    BY <1>1, <1>4, <1>9, <1>12 DEF Consume
  <2>2. /\ UNCHANGED <<granted, spent>> /\ DOMAIN counters' = kept \cup {c}
        /\ counters'[c] = row /\ \A d \in kept \ {c} : counters'[d] = counters[d]
    BY <1>12 DEF Refuse
  <2>3. TypeOK'
    BY <1>1, <1>6, <1>7, <1>8, <1>9, <1>10, <1>12, <2>2 DEF TypeOK
  <2>4. CountersCount'
    BY <1>2, <1>3, <1>4, <1>6, <1>7, <1>8, <1>9, <1>10, <1>12, <2>2, <2>3 DEF CountersCount
  <2> QED
    BY <1>8, <2>1, <2>2, <2>4 DEF IInv, Future
<1>13. CASE /\ g.hits < GlobalLimit /\ row.hits < ClientLimit /\ Allow(c, w)
            /\ global' = Hit(g) /\ counters' = put(Hit(row))
  <2>1. Consume(c, now)
    BY <1>2, <1>4, <1>9, <1>13 DEF Consume
  <2>2. /\ DOMAIN counters' = kept \cup {c}
        /\ counters'[c] = Hit(row) /\ \A d \in kept \ {c} : counters'[d] = counters[d]
    BY <1>13
  <2>3. /\ granted' = [granted EXCEPT ![w][c] = @ + 1]
        /\ spent' = [spent EXCEPT ![w] = @ + 1]
    BY <1>13 DEF Allow
  <2>4. /\ spent' \in [Windows -> 0..GlobalLimit] /\ granted' \in [Windows -> [Clients -> 0..ClientLimit]]
        /\ spent'[w] = spent[w] + 1 /\ granted'[w][c] = granted[w][c] + 1
        /\ \A d \in Clients \ {c} : granted'[w][d] = granted[w][d]
        /\ \A v \in Windows \ {w} : spent'[v] = spent[v] /\ granted'[v] = granted[v]
    BY <1>1, <1>2, <1>4, <1>13, <2>3
  <2>5. TypeOK'
    BY <1>1, <1>6, <1>7, <1>8, <1>9, <1>10, <1>13, <2>2, <2>4 DEF TypeOK
  <2>6. CountersCount'
    BY <1>2, <1>3, <1>4, <1>6, <1>7, <1>8, <1>9, <1>10, <1>13, <2>2, <2>4, <2>5 DEF CountersCount
  <2>7. Future'
    BY <1>1, <1>8, <1>9, <2>4 DEF IInv, Future
  <2> QED
    BY <1>8, <2>1, <2>6, <2>7 DEF IInv
<1> QED
  BY <1>8, <1>11, <1>12, <1>13

\* A purge removes only counters whose window is long over.
LEMMA PurgeInv == ASSUME IInv, NEW S, Purge(S) PROVE IInv'
<1>1. /\ UNCHANGED <<now, budget, global>> /\ UNCHANGED <<granted, spent>>
      /\ counters' = [c \in DOMAIN counters' |-> counters'[c]]
      /\ DOMAIN counters' = DOMAIN counters \ S /\ S \subseteq Stale
      /\ \A c \in DOMAIN counters' : counters'[c] = counters[c]
  BY DEF Purge, budget
<1>2. \A r : Current(r)' = Current(r) /\ Row(r)' = Row(r)
  BY <1>1 DEF Current, Fresh, Row
<1>3. TypeOK'
  BY <1>1, <1>2 DEF IInv, CountersCount, TypeOK
<1>4. ASSUME NEW c \in Clients
      PROVE  Current(RowOf(c))'.hits = granted'[WindowOf(now)][c]
  <2>1. Current(RowOf(c)).hits = granted[WindowOf(now)][c]
    BY DEF IInv, CountersCount, RowOf
  <2>2. CASE c \in S
    BY <1>1, <1>2, <2>1, <2>2, Removed DEF RowOf, Stale
  <2>3. CASE c \notin S
    BY <1>1, <1>2, <2>1, <2>3 DEF RowOf
  <2> QED
    BY <2>2, <2>3
<1> QED
  BY <1>1, <1>2, <1>3, <1>4 DEF IInv, CountersCount, Future, RowOf

-----------------------------------------------------------------------------
\* Every step keeps the invariant,
LEMMA NextInv == IInv /\ [Next]_vars => IInv'
<1> SUFFICES ASSUME IInv, [Next]_vars PROVE IInv'
  OBVIOUS
<1>1. CASE Tick /\ UNCHANGED <<budget, global, counters>>
  BY <1>1, TickInv
<1>2. ASSUME NEW c \in Clients, Request(c) PROVE IInv'
  BY <1>2, RequestInv
<1>3. ASSUME NEW S \in SUBSET Clients, Purge(S) PROVE IInv'
  BY <1>3, PurgeInv
<1>4. CASE UNCHANGED vars
  BY <1>4 DEF vars, budget, IInv, CountersCount, TypeOK, Row, Current, Fresh, Future
<1> QED
  BY <1>1, <1>2, <1>3, <1>4 DEF Next

\* and every behaviour has it.
LEMMA SpecInv == Spec => []IInv
<1> QED
  BY InitInv, NextInv, PTL DEF Spec

(* For any limits, windows and retention: no reset, retention or purge        *)
(* forgets a request that still matters.                                      *)
THEOREM LimiterCounts == Spec => []CountersCount
<1>1. IInv => CountersCount
  BY DEF IInv
<1> QED
  BY <1>1, SpecInv, PTL

(* The in-process limiter keeps both budgets, and refuses nothing that they   *)
(* still allow.                                                               *)
THEOREM LimiterImplementsBudget == Spec => ImplementsBudget
<1>1. Init => Budget!BudgetInit
  BY DEF Init, BudgetInit, Budget!BudgetInit, Budget!Windows, Budget!WindowOf, Windows, WindowOf
<1>2. ASSUME IInv, [Next]_vars PROVE [Budget!BudgetNext]_<<now, budget>>
  <2>1. CASE Tick /\ UNCHANGED <<budget, global, counters>>
    BY <2>1 DEF Tick, Budget!BudgetNext, Budget!Tick, Budget!budget, budget
  <2>2. ASSUME NEW c \in Clients, Request(c) PROVE Budget!BudgetNext
    <3>1. Consume(c, now) /\ UNCHANGED now /\ now \in 0..now
      BY <1>2, <2>2, RequestInv, BudgetAssumption DEF IInv, CountersCount, TypeOK
    <3>2. Budget!Consume(c, now)
      BY <3>1 DEF Consume, Budget!Consume, Allow, Budget!Allow, Refuse, Budget!Refuse, WindowOf, Budget!WindowOf
    <3> QED
      BY <3>1, <3>2 DEF Budget!BudgetNext
  <2>3. ASSUME NEW S \in SUBSET Clients, Purge(S) PROVE UNCHANGED <<now, budget>>
    BY <2>3 DEF Purge
  <2>4. CASE UNCHANGED vars
    BY <2>4 DEF vars
  <2> QED
    BY <1>2, <2>1, <2>2, <2>3, <2>4 DEF Next
<1> QED
  BY <1>1, <1>2, SpecInv, PTL DEF Spec, ImplementsBudget, Budget!BudgetSpec, Budget!budget, budget

-----------------------------------------------------------------------------
(* The posts, the record and the page.                                       *)

PostType ==
    [client : Clients, body : Bodies \cup {NoBody},
     server : {"sent", "body", "reading", "storing", "done"}, got : Nat, cut : {"no", "cut"},
     op : {"none", "pending", "done", "missing", "dropped"}, status : {0, 200, 400, 404, 408, 413, 429, 503},
     gone : BOOLEAN, told : {"waiting", "unknown", "ok", "refused"}]

\* What is known of the body of a post that is under way.
BodySound(p) ==
    /\ p.server # "done" => p.body \in Bodies /\ p.status = 0
    /\ p.server \in {"sent", "body"} => p.got = 0
    /\ p.server = "reading" =>
          /\ p.got <= Limit
          /\ p.got = 0 => p.body.chunks # 0
          /\ p.got # 0 => p.body.readable
    /\ p.op # "none" =>
          /\ p.body.readable /\ p.body.valid
          /\ p.got = p.body.chunks /\ p.got <= Limit
          /\ p.cut = "no"

\* How the operation, the status and what the client was told hang together.
AnswerSound(p) ==
    /\ p.server \in {"sent", "body", "reading"} => p.op = "none"
    /\ p.server = "storing" => p.op # "none"
    /\ p.status = 200 => p.op = "done"
    /\ p.status = 404 => p.op = "missing"
    /\ p.status \in {400, 408, 413, 429} => p.op = "none"
    /\ p.server = "done" => p.status # 0
    /\ p.told \in {"ok", "refused"} => p.server = "done" /\ p.told = Told(p.status)

PostSound(p) == p \in PostType /\ BodySound(p) /\ AnswerSound(p)

PostsSound == posts \in Seq(PostType) /\ \A i \in Sent : PostSound(posts[i])

\* The attempts of the page, in their order: all but the last have an end, the
\* last one confirmed is shown, and none that was confirmed was overtaken.
PageSound ==
    /\ record \in Sent \cup {0} /\ page \in [attempt : Sent \cup {0}, shown : Sent \cup {0}]
    /\ record # 0 => posts[record].op = "done"
    /\ \A i \in Sent : posts[i].op = "done" => record # 0
    /\ \A i \in Sent : posts[i].client = Page =>
          /\ i <= page.attempt
          /\ i # page.attempt => posts[i].told # "waiting"
          /\ posts[i].told = "ok" => i <= page.shown
    /\ page.shown # 0 => posts[page.shown].client = Page /\ posts[page.shown].told = "ok"
    /\ \A i, j \in Sent :
          /\ posts[i].client = Page /\ posts[i].told = "ok" /\ i < j
          /\ posts[j].client = Page /\ posts[j].op = "done"
          => record # i

ExchangeInv == PostsSound /\ PageSound

\* Nothing is sent at first.
LEMMA ExchangeInitInv == ExchangeInit => ExchangeInv
BY DEF ExchangeInit, ExchangeInv, PostsSound, PageSound, Sent

-----------------------------------------------------------------------------
\* One post moves, and its place, sender and end stay.
Becomes(i, q) == /\ posts' = [posts EXCEPT ![i] = q]
                 /\ q.client = posts[i].client
                 /\ posts[i].told # "waiting" => q.told = posts[i].told

\* When one post moves, the others stay as they are.
LEMMA MovedPosts ==
    ASSUME PostsSound, NEW i \in Sent, NEW q, PostSound(q), Becomes(i, q)
    PROVE  /\ PostsSound'
           /\ Sent' = Sent /\ posts'[i] = q
           /\ \A j \in Sent : j # i => posts'[j] = posts[j]
<1>1. q \in PostType /\ posts \in Seq(PostType) /\ i \in DOMAIN posts
  BY DEF PostsSound, PostSound, Sent
<1>2. posts' = [posts EXCEPT ![i] = q]
  BY DEF Becomes
<1>3. posts' \in Seq(PostType) /\ DOMAIN posts' = DOMAIN posts
  BY <1>1, <1>2
<1>4. posts'[i] = q /\ \A j \in DOMAIN posts : j # i => posts'[j] = posts[j]
  BY <1>1, <1>2
<1> QED
  BY <1>3, <1>4 DEF PostsSound, Sent, PostSound, BodySound, AnswerSound

\* A step that neither confirms nor executes anything leaves the page's order.
LEMMA QuietStep ==
    ASSUME ExchangeInv, NEW i \in Sent, NEW q, PostSound(q), Becomes(i, q),
           q.told = "ok" => posts[i].told = "ok", q.op = "done" <=> posts[i].op = "done",
           UNCHANGED <<record, page>>
    PROVE  ExchangeInv'
<1>1. /\ PostsSound' /\ Sent' = Sent /\ posts'[i] = q
      /\ \A j \in Sent : j # i => posts'[j] = posts[j]
  BY MovedPosts DEF ExchangeInv
<1>2. \A j \in Sent : /\ posts'[j].client = posts[j].client
                      /\ posts'[j].op = "done" <=> posts[j].op = "done"
                      /\ posts'[j].told = "ok" <=> posts[j].told = "ok"
                      /\ posts[j].told # "waiting" => posts'[j].told # "waiting"
  BY <1>1 DEF Becomes
<1>3. PageSound'
  BY <1>1, <1>2 DEF ExchangeInv, PageSound
<1> QED
  BY <1>1, <1>3 DEF ExchangeInv
-----------------------------------------------------------------------------
\* An answer sets the place and the status, and no other field.
LEMMA AnsweredFields ==
    ASSUME NEW p \in PostType, NEW code \in {200, 400, 404, 408, 413, 429, 503}
    PROVE  LET q == Answered(p, code)
           IN  /\ q \in PostType /\ q.server = "done" /\ q.status = code
               /\ q.client = p.client /\ q.body = p.body /\ q.got = p.got /\ q.cut = p.cut
               /\ q.op = p.op /\ q.told = p.told
<1> DEFINE r == [p EXCEPT !.server = "done"]
           q == [r EXCEPT !.status = code]
<1>1. /\ r \in PostType /\ r.server = "done" /\ r.client = p.client /\ r.body = p.body /\ r.got = p.got
      /\ r.cut = p.cut /\ r.op = p.op /\ r.told = p.told
  BY DEF PostType
<1>2. Answered(p, code) = q
  BY DEF Answered
<1> HIDE DEF r
<1>3. /\ q \in PostType /\ q.server = r.server /\ q.status = code
      /\ q.client = r.client /\ q.body = r.body /\ q.got = r.got /\ q.cut = r.cut
      /\ q.op = r.op /\ q.told = r.told
  BY <1>1 DEF PostType
<1> HIDE DEF q
<1> QED
  BY <1>1, <1>2, <1>3

\* What a rejection makes of a post whose operation has not begun.
LEMMA RejectedSound ==
    ASSUME NEW p, PostSound(p), p.server \in {"sent", "body", "reading"}, NEW code \in {400, 408, 413, 429}
    PROVE  /\ PostSound(Rejected(p, code)) /\ Rejected(p, code).client = p.client
           /\ Rejected(p, code).told = p.told /\ Rejected(p, code).op = p.op
<1>1. p \in PostType /\ p.op = "none" /\ p.told \in {"waiting", "unknown"}
  BY DEF PostSound, PostType, AnswerSound
<1> DEFINE q == Rejected(p, code)
<1>2. /\ q \in PostType /\ q.server = "done" /\ q.status = code /\ q.got = 0
      /\ q.op = "none" /\ q.told = p.told /\ q.client = p.client
  <2> DEFINE r == Answered(p, code)
             s == [r EXCEPT !.body = NoBody]
             t == [s EXCEPT !.got = 0]
             u == [t EXCEPT !.cut = "no"]
  <2>1. r \in PostType /\ r.server = "done" /\ r.status = code /\ r.op = p.op /\ r.told = p.told /\ r.client = p.client
    BY <1>1, AnsweredFields
  <2>2. q = u
    BY DEF Rejected
  <2> HIDE DEF r, q
  <2>3. s \in PostType /\ s.server = r.server /\ s.status = r.status /\ s.op = r.op /\ s.told = r.told /\ s.client = r.client
    BY <2>1 DEF PostType
  <2> HIDE DEF s
  <2>4. /\ t \in PostType /\ t.server = s.server /\ t.status = s.status /\ t.op = s.op /\ t.told = s.told /\ t.client = s.client
        /\ t.got = 0
    BY <2>3 DEF PostType
  <2> HIDE DEF t
  <2>5. /\ u \in PostType /\ u.server = t.server /\ u.status = t.status /\ u.op = t.op /\ u.told = t.told /\ u.client = t.client
        /\ u.got = t.got
    BY <2>4 DEF PostType
  <2> HIDE DEF u
  <2> QED
    BY <1>1, <2>1, <2>2, <2>3, <2>4, <2>5
<1> HIDE DEF q
<1> QED
  BY <1>1, <1>2 DEF q, PostSound, BodySound, AnswerSound

\* What the body leads to, before it is read and with every chunk.
LEMMA OpenedSound ==
    ASSUME NEW p, PostSound(p), p.server = "body"
    PROVE  /\ PostSound(Opened(p)) /\ Opened(p).client = p.client
           /\ Opened(p).told = p.told /\ (Opened(p).op = "done" <=> p.op = "done")
<1>1. p \in PostType /\ p.op = "none" /\ p.body \in Bodies /\ p.got = 0 /\ p.status = 0
  BY DEF PostSound, AnswerSound, BodySound
<1>2. p.told \in {"waiting", "unknown"}
  BY <1>1 DEF PostSound, PostType, AnswerSound
<1>3. CASE Opened(p) \in {Rejected(p, 400), Rejected(p, 413)}
  BY <1>1, <1>3, RejectedSound
<1>4. CASE p.body.chunks # 0 /\ Opened(p) = [p EXCEPT !.server = "reading"]
  <2> DEFINE q == Opened(p)
  <2>1. /\ q \in PostType /\ q.server = "reading" /\ q.body = p.body /\ q.got = 0 /\ q.status = 0
        /\ q.op = "none" /\ q.told = p.told /\ q.client = p.client
    BY <1>1, <1>4 DEF PostType
  <2> HIDE DEF q
  <2> QED
    BY <1>1, <1>2, <1>4, <2>1, ExchangeAssumption DEF q, PostSound, BodySound, AnswerSound
<1> QED
  BY <1>3, <1>4 DEF Opened

\* The same of the next chunk.
LEMMA ReadSound ==
    ASSUME NEW p, PostSound(p), p.server = "reading"
    PROVE  /\ PostSound(Read(p)) /\ Read(p).client = p.client
           /\ Read(p).told = p.told /\ (Read(p).op = "done" <=> p.op = "done")
<1>1. /\ p \in PostType /\ p.op = "none" /\ p.body \in Bodies /\ p.got \in Nat /\ p.got <= Limit /\ p.status = 0
      /\ p.got = 0 => p.body.chunks # 0
      /\ p.got # 0 => p.body.readable
  BY DEF PostSound, AnswerSound, BodySound, PostType
<1>2. p.told \in {"waiting", "unknown"} /\ p.cut \in {"no", "cut"}
  BY <1>1 DEF PostSound, PostType, AnswerSound
<1>3. CASE Read(p) \in {Rejected(p, 400), Rejected(p, 413)}
  BY <1>1, <1>3, RejectedSound
<1>4. CASE /\ p.cut = "no" /\ p.got = p.body.chunks /\ p.body.valid
           /\ Read(p) = [p EXCEPT !.server = "storing", !.op = "pending"]
  <2> DEFINE q == Read(p)
             r == [p EXCEPT !.server = "storing"]
  <2>0. /\ r \in PostType /\ r.server = "storing" /\ r.body = p.body /\ r.got = p.got /\ r.status = p.status
        /\ r.cut = p.cut /\ r.told = p.told /\ r.client = p.client
    BY <1>1 DEF PostType
  <2>1. /\ q \in PostType /\ q.server = "storing" /\ q.body = p.body /\ q.got = p.got /\ q.status = 0
        /\ q.cut = p.cut /\ q.op = "pending" /\ q.told = p.told /\ q.client = p.client
    <3>1. q = [r EXCEPT !.op = "pending"]
      BY <1>4
    <3> HIDE DEF r, q
    <3> QED
      BY <1>1, <2>0, <3>1 DEF PostType
  <2> HIDE DEF q
  <2> QED
    BY <1>1, <1>2, <1>4, <2>1 DEF q, PostSound, BodySound, AnswerSound
<1>5. CASE p.got # Limit /\ p.body.readable = TRUE /\ Read(p) = [p EXCEPT !.got = @ + 1]
  <2> DEFINE q == Read(p)
  <2>1. /\ q \in PostType /\ q.server = "reading" /\ q.body = p.body /\ q.got = p.got + 1 /\ q.status = 0
        /\ q.op = "none" /\ q.told = p.told /\ q.client = p.client
    BY <1>1, <1>5 DEF PostType
  <2> HIDE DEF q
  <2> QED
    BY <1>1, <1>2, <1>5, <2>1, ExchangeAssumption DEF q, PostSound, BodySound, AnswerSound
<1>6. p.body.readable \in BOOLEAN
  BY <1>1, ExchangeAssumption
<1> QED
  <2>1. CASE p.cut # "no"
    BY <1>3, <2>1 DEF Read, Parsed
  <2>2. CASE p.cut = "no" /\ p.got = p.body.chunks
    BY <1>3, <1>4, <2>2 DEF Read, Parsed
  <2>3. CASE p.cut = "no" /\ p.got # p.body.chunks /\ (p.got = Limit \/ ~p.body.readable)
    BY <1>3, <2>3 DEF Read, Parsed
  <2>4. CASE p.cut = "no" /\ p.got # p.body.chunks /\ p.got # Limit /\ p.body.readable
    BY <1>5, <1>6, <2>4 DEF Read, Parsed
  <2> QED
    BY <2>1, <2>2, <2>3, <2>4

\* That its client has gone does not hurt a post whose operation has not begun.
LEMMA NoticedSound ==
    ASSUME NEW p, PostSound(p), p.server \in {"sent", "body", "reading"}
    PROVE  /\ PostSound(Noticed(p)) /\ Noticed(p).client = p.client /\ Noticed(p).server = p.server
           /\ Noticed(p).told = p.told /\ Noticed(p).op = p.op
<1>1. p \in PostType /\ p.op = "none"
  BY DEF PostSound, AnswerSound
<1> DEFINE q == Noticed(p)
<1>2. /\ q \in PostType /\ q.server = p.server /\ q.body = p.body /\ q.got = p.got /\ q.status = p.status
      /\ q.op = p.op /\ q.told = p.told /\ q.client = p.client
  BY <1>1 DEF Noticed, PostType
<1> HIDE DEF q
<1> QED
  BY <1>1, <1>2 DEF q, PostSound, BodySound, AnswerSound

\* What the end of an operation is answered with, or its absence.
LEMMA AnsweredSound ==
    ASSUME NEW p, PostSound(p), p.server = "storing", NEW op \in {p.op, "pending"}
    PROVE  LET q == Answered(p, StatusOf(op))
           IN  PostSound(q) /\ q.client = p.client /\ q.told = p.told /\ q.op = p.op
<1> DEFINE q == Answered(p, StatusOf(op))
<1>1. /\ p \in PostType /\ p.op # "none" /\ p.told \in {"waiting", "unknown"}
  BY DEF PostSound, AnswerSound, PostType
<1>2. StatusOf(op) \in {200, 404, 503}
  BY DEF StatusOf
<1>3. (StatusOf(op) = 200 => op = "done") /\ (StatusOf(op) = 404 => op = "missing")
  BY DEF StatusOf
<1>4. /\ q \in PostType /\ q.server = "done" /\ q.body = p.body /\ q.got = p.got /\ q.status = StatusOf(op)
      /\ q.cut = p.cut /\ q.op = p.op /\ q.told = p.told /\ q.client = p.client
  BY <1>1, <1>2, AnsweredFields
<1> HIDE DEF q
<1> QED
  BY <1>1, <1>2, <1>3, <1>4 DEF q, PostSound, BodySound, AnswerSound

-----------------------------------------------------------------------------
\* A new post goes behind the others, and none of these moves.
LEMMA SentPosts ==
    ASSUME PostsSound, NEW c \in Clients, NEW body \in Bodies, posts' = Append(posts, Post(c, body))
    PROVE  /\ PostsSound'
           /\ Len(posts) \in Nat /\ Sent = 1..Len(posts) /\ Sent' = Sent \cup {Len(posts) + 1}
           /\ posts'[Len(posts) + 1].client = c /\ posts'[Len(posts) + 1].op = "none"
           /\ posts'[Len(posts) + 1].told = "waiting"
           /\ \A j \in Sent : posts'[j] = posts[j]
<1> DEFINE q == Post(c, body)
<1>1. /\ q \in PostType /\ q.client = c /\ q.body = body /\ q.server = "sent" /\ q.got = 0
      /\ q.op = "none" /\ q.status = 0 /\ q.told = "waiting"
  BY DEF Post, PostType
<1> HIDE DEF q
<1>2. PostSound(q)
  BY <1>1 DEF PostSound, BodySound, AnswerSound
<1>3. posts' = Append(posts, q) /\ posts \in Seq(PostType)
  BY DEF q, PostsSound
<1>4. /\ posts' \in Seq(PostType) /\ Len(posts) \in Nat
      /\ DOMAIN posts = 1..Len(posts) /\ DOMAIN posts' = DOMAIN posts \cup {Len(posts) + 1}
      /\ posts'[Len(posts) + 1] = q /\ \A j \in DOMAIN posts : posts'[j] = posts[j]
  BY <1>1, <1>3
<1> QED
  BY <1>1, <1>2, <1>4 DEF PostsSound, Sent, PostSound, BodySound, AnswerSound

\* The page claims only when it knows the end of its last attempt.
LEMMA ClaimInv == ASSUME ExchangeInv, Claim PROVE ExchangeInv'
<1>1. /\ MayClaim /\ posts' = Append(posts, Post(Page, Whole)) /\ record' = record
      /\ page' = [page EXCEPT !.attempt = Len(posts) + 1]
  BY DEF Claim, Send
<1> DEFINE n == Len(posts) + 1
<1>2. /\ PostsSound'
      /\ Len(posts) \in Nat /\ Sent = 1..Len(posts) /\ Sent' = Sent \cup {n}
      /\ posts'[n].client = Page /\ posts'[n].op = "none" /\ posts'[n].told = "waiting"
      /\ \A j \in Sent : posts'[j] = posts[j]
  BY <1>1, ExchangeAssumption, SentPosts DEF ExchangeInv
<1>3. page' \in [attempt : {n}, shown : Sent \cup {0}] /\ page'.attempt = n /\ page'.shown = page.shown
  BY <1>1 DEF ExchangeInv, PageSound
<1>4. \A i \in Sent : posts[i].client = Page => posts[i].told # "waiting"
  BY <1>1 DEF MayClaim, ExchangeInv, PageSound
<1> HIDE DEF n
<1>5. n \notin Sent /\ n \in Nat /\ \A i \in Sent : i \in Nat /\ i < n
  BY <1>2 DEF n
<1>6. PageSound'
  <2>1. record' \in Sent' \cup {0} /\ page' \in [attempt : Sent' \cup {0}, shown : Sent' \cup {0}]
    BY <1>1, <1>2, <1>3 DEF ExchangeInv, PageSound
  <2>2. /\ record' # 0 => posts'[record'].op = "done"
        /\ \A i \in Sent' : posts'[i].op = "done" => record' # 0
    BY <1>1, <1>2 DEF ExchangeInv, PageSound
  <2>3. \A i \in Sent' : posts'[i].client = Page =>
            /\ i <= page'.attempt
            /\ i # page'.attempt => posts'[i].told # "waiting"
            /\ posts'[i].told = "ok" => i <= page'.shown
    BY <1>2, <1>3, <1>4, <1>5 DEF ExchangeInv, PageSound
  <2>4. page'.shown # 0 => posts'[page'.shown].client = Page /\ posts'[page'.shown].told = "ok"
    BY <1>2, <1>3 DEF ExchangeInv, PageSound
  <2>5. ASSUME NEW i \in Sent', NEW j \in Sent', posts'[i].client = Page, posts'[i].told = "ok", i < j,
               posts'[j].client = Page, posts'[j].op = "done"
        PROVE  record' # i
    <3>1. i \in Sent /\ j \in Sent
      BY <1>2, <2>5
    <3>2. posts[i].client = Page /\ posts[i].told = "ok" /\ posts[j].client = Page /\ posts[j].op = "done"
      BY <1>2, <2>5, <3>1
    <3> QED
      BY <1>1, <2>5, <3>1, <3>2 DEF ExchangeInv, PageSound
  <2> QED
    BY <2>1, <2>2, <2>3, <2>4, <2>5 DEF PageSound
<1> QED
  BY <1>2, <1>6 DEF ExchangeInv

\* Another client's post is none of the page's attempts.
LEMMA OtherPostInv == ASSUME ExchangeInv, OtherPost PROVE ExchangeInv'
<1>1. PICK c \in Clients \ {Page}, body \in Bodies : Send(c, body)
  BY DEF OtherPost
<1>2. posts' = Append(posts, Post(c, body)) /\ record' = record /\ page' = page
  BY <1>1 DEF OtherPost, Send
<1> DEFINE n == Len(posts) + 1
<1>3. /\ PostsSound'
      /\ Len(posts) \in Nat /\ Sent = 1..Len(posts) /\ Sent' = Sent \cup {n}
      /\ posts'[n].client = c /\ posts'[n].op = "none"
      /\ \A j \in Sent : posts'[j] = posts[j]
  BY <1>2, SentPosts DEF ExchangeInv
<1> HIDE DEF n
<1>4. PageSound'
  <2>1. record' \in Sent' \cup {0} /\ page' \in [attempt : Sent' \cup {0}, shown : Sent' \cup {0}]
    BY <1>2, <1>3 DEF ExchangeInv, PageSound
  <2>2. /\ record' # 0 => posts'[record'].op = "done"
        /\ \A i \in Sent' : posts'[i].op = "done" => record' # 0
    BY <1>2, <1>3 DEF ExchangeInv, PageSound
  <2>3. \A i \in Sent' : posts'[i].client = Page => i \in Sent /\ posts'[i] = posts[i]
    BY <1>1, <1>3
  <2>4. \A i \in Sent' : posts'[i].client = Page =>
            /\ i <= page'.attempt
            /\ i # page'.attempt => posts'[i].told # "waiting"
            /\ posts'[i].told = "ok" => i <= page'.shown
    BY <1>2, <2>3 DEF ExchangeInv, PageSound
  <2>5. page'.shown # 0 => posts'[page'.shown].client = Page /\ posts'[page'.shown].told = "ok"
    BY <1>2, <1>3 DEF ExchangeInv, PageSound
  <2>6. ASSUME NEW i \in Sent', NEW j \in Sent', posts'[i].client = Page, posts'[i].told = "ok", i < j,
               posts'[j].client = Page, posts'[j].op = "done"
        PROVE  record' # i
    BY <1>2, <2>3, <2>6 DEF ExchangeInv, PageSound
  <2> QED
    BY <2>1, <2>2, <2>4, <2>5, <2>6 DEF PageSound
<1> QED
  BY <1>3, <1>4 DEF ExchangeInv

-----------------------------------------------------------------------------
\* What a client may be told.
LEMMA ToldCases ==
    ASSUME NEW status \in {0, 200, 400, 404, 408, 413, 429, 503}
    PROVE  /\ Told(status) \in {"ok", "unknown", "refused"}
           /\ Told(status) = "ok" <=> status = 200
           /\ Told(status) = "refused" <=> status \notin {200, 503}
BY DEF Told

\* An answer that confirms a claim of the page is that of its last attempt.
LEMMA ReceiveInv == ASSUME ExchangeInv, NEW i \in Sent, Receive(i) PROVE ExchangeInv'
<1> DEFINE p == posts[i]
           q == [p EXCEPT !.told = Told(p.status)]
<1>1. PostSound(p) /\ p \in PostType /\ p.server = "done" /\ p.told = "waiting" /\ record' = record
  BY DEF Receive, ExchangeInv, PostsSound, PostSound
<1>2. posts' = [posts EXCEPT ![i] = q] /\ page' = [page EXCEPT !.shown = IF p.client = Page /\ p.status = 200 THEN i ELSE @]
  BY DEF Receive, Set
<1>3. p.status \in {0, 200, 400, 404, 408, 413, 429, 503}
  BY <1>1 DEF PostType
<1> HIDE DEF p
<1>4. /\ q \in PostType /\ q.server = p.server /\ q.body = p.body /\ q.got = p.got /\ q.status = p.status
      /\ q.cut = p.cut /\ q.op = p.op /\ q.told = Told(p.status) /\ q.client = p.client
  BY <1>1, <1>3, ToldCases DEF PostType
<1> HIDE DEF q
<1>5. PostSound(q) /\ Becomes(i, q)
  BY <1>1, <1>2, <1>4 DEF p, PostSound, BodySound, AnswerSound, Becomes
<1>6. /\ PostsSound' /\ Sent' = Sent /\ posts'[i] = q
      /\ \A j \in Sent : j # i => posts'[j] = posts[j]
  BY <1>5, MovedPosts DEF ExchangeInv
<1>7. \A j \in Sent : /\ posts'[j].client = posts[j].client /\ posts'[j].op = posts[j].op
                      /\ j # i => posts'[j].told = posts[j].told
  BY <1>4, <1>6 DEF p
<1>8. posts'[i].told = "ok" <=> p.status = 200
  BY <1>3, <1>4, <1>6, ToldCases
<1>9. posts'[i].told # "waiting"
  BY <1>3, <1>4, <1>6, ToldCases
<1>10. /\ page' \in [attempt : Sent \cup {0}, shown : Sent \cup {0}] /\ page'.attempt = page.attempt
       /\ page'.shown = IF p.client = Page /\ p.status = 200 THEN i ELSE page.shown
  BY <1>2 DEF ExchangeInv, PageSound
<1>11. Sent \subseteq Nat
  BY DEF Sent, ExchangeInv, PostsSound
<1>12. posts[i].client = p.client /\ posts[i].told = "waiting"
  BY <1>1 DEF p
<1>13. p.client = Page => i = page.attempt
  BY <1>12 DEF ExchangeInv, PageSound
<1>14. PageSound'
  <2>1. record' \in Sent' \cup {0} /\ page' \in [attempt : Sent' \cup {0}, shown : Sent' \cup {0}]
    BY <1>1, <1>6, <1>10 DEF ExchangeInv, PageSound
  <2>2. /\ record' # 0 => posts'[record'].op = "done"
        /\ \A j \in Sent' : posts'[j].op = "done" => record' # 0
    BY <1>1, <1>6, <1>7 DEF ExchangeInv, PageSound
  <2>3. ASSUME NEW j \in Sent', posts'[j].client = Page
        PROVE  /\ j <= page'.attempt
               /\ j # page'.attempt => posts'[j].told # "waiting"
               /\ posts'[j].told = "ok" => j <= page'.shown
    <3>1. j \in Sent /\ posts[j].client = Page /\ j <= page.attempt
      BY <1>6, <1>7, <2>3 DEF ExchangeInv, PageSound
    <3>2. j # page'.attempt => posts'[j].told # "waiting"
      BY <1>7, <1>9, <1>10, <3>1 DEF ExchangeInv, PageSound
    <3>3. CASE p.client = Page /\ p.status = 200
      BY <1>10, <1>13, <3>1, <3>2, <3>3
    <3>4. CASE ~(p.client = Page /\ p.status = 200)
      <4>1. posts'[j].told = "ok" => j # i
        BY <1>8, <1>12, <3>1, <3>4
      <4>2. posts'[j].told = "ok" => j <= page.shown
        BY <1>7, <3>1, <4>1 DEF ExchangeInv, PageSound
      <4> QED
        BY <1>10, <3>1, <3>2, <3>4, <4>2
    <3> QED
      BY <3>3, <3>4
  <2>4. page'.shown # 0 => posts'[page'.shown].client = Page /\ posts'[page'.shown].told = "ok"
    <3>1. CASE p.client = Page /\ p.status = 200
      BY <1>4, <1>6, <1>8, <1>10, <3>1
    <3>2. CASE ~(p.client = Page /\ p.status = 200)
      <4>1. page'.shown = page.shown
        BY <1>10, <3>2
      <4>2. page.shown # 0 => page.shown \in Sent /\ page.shown # i /\ posts[page.shown].client = Page /\ posts[page.shown].told = "ok"
        BY <1>12 DEF ExchangeInv, PageSound
      <4> QED
        BY <1>7, <4>1, <4>2
    <3> QED
      BY <3>1, <3>2
  <2>5. ASSUME NEW j \in Sent', NEW k \in Sent', posts'[j].client = Page, posts'[j].told = "ok", j < k,
               posts'[k].client = Page, posts'[k].op = "done"
        PROVE  record' # j
    <3>1. j \in Sent /\ k \in Sent /\ posts[j].client = Page /\ posts[k].client = Page /\ posts[k].op = "done"
      BY <1>6, <1>7, <2>5
    <3>2. j # i
      <4>1. k <= page.attempt
        BY <3>1 DEF ExchangeInv, PageSound
      <4> QED
        BY <1>11, <1>12, <1>13, <2>5, <3>1, <4>1
    <3>3. posts[j].told = "ok"
      BY <1>7, <2>5, <3>1, <3>2
    <3> QED
      BY <1>1, <2>5, <3>1, <3>3 DEF ExchangeInv, PageSound
  <2> QED
    BY <2>1, <2>2, <2>3, <2>4, <2>5 DEF PageSound
<1> QED
  BY <1>6, <1>14 DEF ExchangeInv

\* What the store executes was not confirmed before.
LEMMA StoreInv == ASSUME ExchangeInv, NEW i \in Sent, Store(i) PROVE ExchangeInv'
<1> DEFINE p == posts[i]
           q(op) == [p EXCEPT !.op = op]
<1>1. PostSound(p) /\ p \in PostType /\ p.op = "pending" /\ page' = page
  BY DEF Store, ExchangeInv, PostsSound, PostSound
<1>2. p.told # "ok"
  BY <1>1, ToldCases DEF PostSound, AnswerSound, PostType
<1>3. ASSUME NEW op \in {"done", "missing", "dropped"}, Set(i, q(op))
      PROVE  PostSound(q(op)) /\ Becomes(i, q(op)) /\ q(op).told = p.told /\ q(op).op = op
  <2> HIDE DEF p
  <2>1. /\ q(op) \in PostType /\ q(op).server = p.server /\ q(op).body = p.body /\ q(op).got = p.got
        /\ q(op).status = p.status /\ q(op).cut = p.cut /\ q(op).op = op /\ q(op).told = p.told /\ q(op).client = p.client
    BY <1>1 DEF PostType
  <2>2. posts' = [posts EXCEPT ![i] = q(op)]
    BY <1>3 DEF Set
  <2> HIDE DEF q
  <2> QED
    BY <1>1, <2>1, <2>2 DEF p, PostSound, BodySound, AnswerSound, Becomes
<1>4. CASE Set(i, q("done")) /\ record' = i
  <2> DEFINE r == q("done")
  <2>1. PostSound(r) /\ Becomes(i, r) /\ r.told = p.told /\ r.op = "done"
    BY <1>3, <1>4
  <2> HIDE DEF q
  <2>2. /\ PostsSound' /\ Sent' = Sent /\ posts'[i] = r
        /\ \A j \in Sent : j # i => posts'[j] = posts[j]
    BY <2>1, MovedPosts DEF ExchangeInv
  <2>3. \A j \in Sent : /\ posts'[j].client = posts[j].client /\ posts'[j].told = posts[j].told
                        /\ j # i => posts'[j].op = posts[j].op
    BY <2>1, <2>2 DEF Becomes
  <2>4. posts'[i].op = "done" /\ posts'[i].told # "ok" /\ record' = i /\ i # 0
    BY <1>2, <1>4, <2>1, <2>2 DEF Sent, ExchangeInv, PostsSound
  <2>5. PageSound'
    BY <1>1, <2>2, <2>3, <2>4 DEF ExchangeInv, PageSound
  <2> QED
    BY <2>2, <2>5 DEF ExchangeInv
<1>5. ASSUME NEW op \in {"missing", "dropped"}, Set(i, q(op)), UNCHANGED record PROVE ExchangeInv'
  <2>1. PostSound(q(op)) /\ Becomes(i, q(op)) /\ q(op).told = p.told /\ q(op).op = op
    BY <1>3, <1>5
  <2> HIDE DEF q
  <2> QED
    BY <1>1, <1>5, <2>1, QuietStep
<1> QED
  BY <1>4, <1>5 DEF Store

\* The other steps of a post.
LEMMA GiveUpInv == ASSUME ExchangeInv, NEW i \in Sent, GiveUp(i) PROVE ExchangeInv'
<1> DEFINE p == posts[i]
           q == [p EXCEPT !.told = "unknown", !.gone = TRUE]
<1>1. PostSound(p) /\ p \in PostType /\ p.told = "waiting" /\ posts' = [posts EXCEPT ![i] = q] /\ UNCHANGED <<record, page>>
  BY DEF GiveUp, Set, ExchangeInv, PostsSound, PostSound
<1> HIDE DEF p
<1>2. /\ q \in PostType /\ q.server = p.server /\ q.body = p.body /\ q.got = p.got /\ q.status = p.status
      /\ q.cut = p.cut /\ q.op = p.op /\ q.told = "unknown" /\ q.client = p.client
  <2> DEFINE r == [p EXCEPT !.told = "unknown"]
             s(b) == [r EXCEPT !.gone = b]
  <2>1. q = s(TRUE)
    OBVIOUS
  <2>2. /\ r \in PostType /\ r.server = p.server /\ r.body = p.body /\ r.got = p.got /\ r.status = p.status
        /\ r.cut = p.cut /\ r.op = p.op /\ r.told = "unknown" /\ r.client = p.client
    BY <1>1 DEF PostType
  <2> HIDE DEF r, q
  <2>3. ASSUME NEW b \in BOOLEAN
        PROVE  /\ s(b) \in PostType /\ s(b).server = r.server /\ s(b).body = r.body /\ s(b).got = r.got
               /\ s(b).status = r.status /\ s(b).cut = r.cut /\ s(b).op = r.op /\ s(b).told = r.told
               /\ s(b).client = r.client
    BY <2>2 DEF PostType
  <2> HIDE DEF s
  <2>4. /\ s(TRUE) \in PostType /\ s(TRUE).server = r.server /\ s(TRUE).body = r.body /\ s(TRUE).got = r.got
        /\ s(TRUE).status = r.status /\ s(TRUE).cut = r.cut /\ s(TRUE).op = r.op /\ s(TRUE).told = r.told
        /\ s(TRUE).client = r.client
    BY <2>3
  <2> QED
    BY <2>1, <2>2, <2>4
<1> HIDE DEF q
<1>3. PostSound(q) /\ Becomes(i, q)
  BY <1>1, <1>2 DEF p, PostSound, BodySound, AnswerSound, Becomes
<1> QED
  BY <1>1, <1>2, <1>3, QuietStep DEF p

\* What the limiter refuses is answered; the rest goes on to the body.
LEMMA ArriveInv == ASSUME ExchangeInv, NEW i \in Sent, Arrive(i) PROVE ExchangeInv'
<1> DEFINE p == posts[i]
           q == [p EXCEPT !.server = "body"]
<1>1. PostSound(p) /\ p \in PostType /\ p.server = "sent" /\ UNCHANGED <<record, page>>
  BY DEF Arrive, ExchangeInv, PostsSound, PostSound
<1>2. CASE posts' = [posts EXCEPT ![i] = q]
  <2> HIDE DEF p
  <2>1. /\ q \in PostType /\ q.server = "body" /\ q.body = p.body /\ q.got = p.got /\ q.status = p.status
        /\ q.cut = p.cut /\ q.op = p.op /\ q.told = p.told /\ q.client = p.client
    BY <1>1 DEF PostType
  <2> HIDE DEF q
  <2>2. PostSound(q) /\ Becomes(i, q)
    BY <1>1, <1>2, <2>1 DEF p, PostSound, BodySound, AnswerSound, Becomes
  <2> QED
    BY <1>1, <2>1, <2>2, QuietStep DEF p
<1>3. CASE posts' = [posts EXCEPT ![i] = Rejected(p, 429)]
  <2> HIDE DEF p
  <2>1. /\ PostSound(Rejected(p, 429)) /\ Rejected(p, 429).client = p.client
        /\ Rejected(p, 429).told = p.told /\ Rejected(p, 429).op = p.op
    BY <1>1, RejectedSound
  <2>2. Becomes(i, Rejected(p, 429))
    BY <1>3, <2>1 DEF p, Becomes
  <2> QED
    BY <1>1, <2>1, <2>2, QuietStep DEF p
<1> QED
  BY <1>2, <1>3 DEF Arrive, Set

\* Opening the body, and each chunk of it, confirms nothing.
LEMMA OpenInv == ASSUME ExchangeInv, NEW i \in Sent, Open(i) PROVE ExchangeInv'
<1>1. PostSound(posts[i]) /\ posts[i].server = "body" /\ posts' = [posts EXCEPT ![i] = Opened(posts[i])] /\ UNCHANGED <<record, page>>
  BY DEF Open, Set, ExchangeInv, PostsSound
<1> QED
  BY <1>1, OpenedSound, QuietStep DEF Becomes

\* Whether or not the abort came in the same turn, too.
LEMMA ChunkInv == ASSUME ExchangeInv, NEW i \in Sent, Chunk(i) PROVE ExchangeInv'
<1>1. PostSound(posts[i]) /\ posts[i].server = "reading" /\ UNCHANGED <<record, page>>
  BY DEF Chunk, ExchangeInv, PostsSound
<1>2. PICK p \in {posts[i], Noticed(posts[i])} : posts' = [posts EXCEPT ![i] = Read(p)]
  BY DEF Chunk, Set
<1>3. PostSound(p) /\ p.server = "reading" /\ p.client = posts[i].client /\ p.told = posts[i].told /\ p.op = posts[i].op
  BY <1>1, NoticedSound
<1>4. PostSound(Read(p)) /\ Becomes(i, Read(p)) /\ Read(p).told = posts[i].told /\ (Read(p).op = "done" <=> posts[i].op = "done")
  BY <1>2, <1>3, ReadSound DEF Becomes
<1> QED
  BY <1>1, <1>4, QuietStep

\* The deadline of the body executes nothing.
LEMMA BodyTimeoutInv == ASSUME ExchangeInv, NEW i \in Sent, BodyTimeout(i) PROVE ExchangeInv'
<1>1. /\ PostSound(posts[i]) /\ posts[i].server = "reading" /\ posts' = [posts EXCEPT ![i] = Rejected(posts[i], 408)]
      /\ UNCHANGED <<record, page>>
  BY DEF BodyTimeout, Set, ExchangeInv, PostsSound
<1> DEFINE q == Rejected(posts[i], 408)
<1>2. PostSound(q) /\ q.client = posts[i].client /\ q.told = posts[i].told /\ q.op = posts[i].op
  BY <1>1, RejectedSound
<1> HIDE DEF q
<1>3. Becomes(i, q)
  BY <1>1, <1>2 DEF q, Becomes
<1> QED
  BY <1>1, <1>2, <1>3, QuietStep

\* Nor does the abort, noticed or answered.
LEMMA AbortInv == ASSUME ExchangeInv, NEW i \in Sent, Abort(i) PROVE ExchangeInv'
<1> DEFINE p == posts[i]
           n == Noticed(p)
<1>1. PostSound(p) /\ p.server \in {"sent", "body", "reading"} /\ UNCHANGED <<record, page>>
  BY DEF Abort, ExchangeInv, PostsSound
<1>2. PostSound(n) /\ n.client = p.client /\ n.server = p.server /\ n.told = p.told /\ n.op = p.op
  BY <1>1, NoticedSound
<1>3. CASE posts' = [posts EXCEPT ![i] = n]
  BY <1>1, <1>2, <1>3, QuietStep DEF Becomes
<1>4. CASE posts' = [posts EXCEPT ![i] = Rejected(n, 400)]
  <2> HIDE DEF n
  <2>1. PostSound(Rejected(n, 400)) /\ Becomes(i, Rejected(n, 400)) /\ Rejected(n, 400).told = p.told /\ Rejected(n, 400).op = p.op
    BY <1>1, <1>2, <1>4, RejectedSound DEF Becomes
  <2> QED
    BY <1>1, <2>1, QuietStep
<1> QED
  BY <1>3, <1>4 DEF Abort, Set

\* Neither the end of an operation nor the deadline that comes before it is told a client yet.
LEMMA ReturnInv == ASSUME ExchangeInv, NEW i \in Sent, Return(i) \/ StoreDeadline(i) PROVE ExchangeInv'
<1> DEFINE p == posts[i]
<1>1. PostSound(p) /\ p.server = "storing" /\ UNCHANGED <<record, page>>
  BY DEF Return, StoreDeadline, ExchangeInv, PostsSound
<1>2. PICK op \in {p.op, "pending"} : posts' = [posts EXCEPT ![i] = Answered(p, StatusOf(op))]
  BY DEF Return, StoreDeadline, Set
<1> DEFINE q == Answered(p, StatusOf(op))
<1>3. PostSound(q) /\ q.client = p.client /\ q.told = p.told /\ q.op = p.op
  BY <1>1, AnsweredSound
<1> HIDE DEF q
<1>4. Becomes(i, q)
  BY <1>2, <1>3 DEF q, Becomes
<1> QED
  BY <1>1, <1>3, <1>4, QuietStep

\* So every step keeps the invariant,
LEMMA ExchangeNextInv == ASSUME ExchangeInv, [ExchangeNext]_all PROVE ExchangeInv'
<1>1. CASE UNCHANGED exchange
  BY <1>1 DEF exchange, ExchangeInv, PostsSound, PageSound, Sent
<1>2. CASE Claim
  BY <1>2, ClaimInv
<1>3. CASE OtherPost
  BY <1>3, OtherPostInv
<1>4. ASSUME NEW i \in Sent, Exchange(i) PROVE ExchangeInv'
  BY <1>4, ReceiveInv, GiveUpInv, ArriveInv, OpenInv, ChunkInv, BodyTimeoutInv, AbortInv, StoreInv, ReturnInv DEF Exchange
<1> QED
  BY <1>1, <1>2, <1>3, <1>4 DEF ExchangeNext, all

\* and every behaviour has it.
LEMMA ExchangeSpecInv == ExchangeSpec => []ExchangeInv
<1> QED
  BY ExchangeInitInv, ExchangeNextInv, PTL DEF ExchangeSpec

-----------------------------------------------------------------------------
(* Whatever the order of chunks, aborts and deadlines, nobody is told that a  *)
(* claim was recorded which was not, or refused which was recorded or still   *)
(* will be; and nothing goes to the store but a whole, well-formed body       *)
(* within the limit.                                                          *)
THEOREM TruthfulAnswers == ExchangeSpec => []AnswersTruthful
<1>1. ExchangeInv => AnswersTruthful
  <2> SUFFICES ASSUME ExchangeInv, NEW i \in Sent
               PROVE  LET p == posts[i]
                      IN  /\ p.told = "ok" => p.op = "done"
                          /\ p.told = "refused" => p.op \in {"none", "missing"}
                          /\ p.status \in {400, 408, 413, 429} => p.op = "none"
                          /\ p.op # "none" =>
                                /\ p.body.readable /\ p.body.valid
                                /\ p.got = p.body.chunks /\ p.got <= Limit
                                /\ p.cut = "no"
    BY DEF AnswersTruthful
  <2> DEFINE p == posts[i]
  <2>1. PostSound(p) /\ p.status \in {0, 200, 400, 404, 408, 413, 429, 503}
    BY DEF ExchangeInv, PostsSound, PostSound, PostType
  <2> HIDE DEF p
  <2>2. p.told \in {"ok", "refused"} => p.told = Told(p.status) /\ p.status # 0
    BY <2>1 DEF PostSound, AnswerSound
  <2>3. (p.told = "ok" => p.status = 200) /\ (p.told = "refused" => p.status \in {400, 404, 408, 413, 429})
    BY <2>1, <2>2, ToldCases
  <2>4. /\ p.told = "ok" => p.op = "done"
        /\ p.told = "refused" => p.op \in {"none", "missing"}
        /\ p.status \in {400, 408, 413, 429} => p.op = "none"
    BY <2>1, <2>3 DEF PostSound, AnswerSound
  <2>5. p.op # "none" => /\ p.body.readable /\ p.body.valid
                         /\ p.got = p.body.chunks /\ p.got <= Limit
                         /\ p.cut = "no"
    BY <2>1 DEF PostSound, BodySound
  <2> QED
    BY <2>4, <2>5 DEF p
<1> QED
  BY <1>1, ExchangeSpecInv, PTL

(* The claim a page shows as confirmed stands until somebody else's replaces  *)
(* it, or one of its own attempts whose end it was told it does not know.     *)
THEOREM ConfirmedClaimStands == ExchangeSpec => []ClaimStands
<1>1. ExchangeInv => ClaimStands
  <2> SUFFICES ASSUME ExchangeInv, page.shown # 0, record # page.shown, posts[record].client = Page,
                      posts[record].told \notin {"waiting", "unknown"}
               PROVE  FALSE
    BY DEF ClaimStands
  <2> DEFINE s == page.shown
  <2>1. s \in Sent /\ posts[s].client = Page /\ posts[s].told = "ok"
    BY DEF ExchangeInv, PageSound
  <2>2. \A i \in Sent : PostSound(posts[i]) /\ posts[i].status \in {0, 200, 400, 404, 408, 413, 429, 503}
    BY DEF ExchangeInv, PostsSound, PostSound, PostType
  <2>3. \A i \in Sent : posts[i].told = "ok" => posts[i].op = "done"
    BY <2>2, ToldCases DEF PostSound, AnswerSound
  <2>4. record \in Sent /\ posts[record].op = "done"
    BY <2>1, <2>3 DEF ExchangeInv, PageSound
  <2>5. posts[record].told # "refused"
    <3>1. posts[record].status \in {0, 200, 503}
      BY <2>2, <2>4 DEF PostSound, AnswerSound
    <3> QED
      BY <2>2, <2>4, <3>1, ToldCases DEF PostSound, AnswerSound
  <2>6. posts[record].told = "ok"
    BY <2>2, <2>4, <2>5 DEF PostSound, PostType
  <2>7. record <= s /\ record \in Nat /\ s \in Nat
    BY <2>1, <2>4, <2>6 DEF ExchangeInv, PageSound, Sent, PostsSound
  <2>8. record < s
    BY <2>7
  <2> QED
    BY <2>1, <2>3, <2>4, <2>6, <2>8 DEF ExchangeInv, PageSound
<1> QED
  BY <1>1, ExchangeSpecInv, PTL

\* To the limiter every exchange is a sequence of requests.
LEMMA ExchangeUsesLimiter == ExchangeSpec => Spec
<1>1. ExchangeInit => Init
  BY DEF ExchangeInit
<1>2. ASSUME ExchangeInv, [ExchangeNext]_all PROVE [Next]_vars
  <2>1. CASE UNCHANGED all
    BY <2>1 DEF all
  <2>2. CASE Claim \/ OtherPost
    BY <2>2 DEF Claim, OtherPost
  <2>3. ASSUME NEW i \in Sent, Exchange(i) PROVE [Next]_vars
    <3>1. CASE Arrive(i)
      <4>1. posts[i].client \in Clients
        BY <1>2 DEF ExchangeInv, PostsSound, PostSound, PostType
      <4> QED
        BY <3>1, <4>1 DEF Arrive, Next
    <3>2. CASE UNCHANGED vars
      BY <3>2
    <3> QED
      BY <2>3, <3>1, <3>2 DEF Exchange, Receive, GiveUp, Open, Chunk, BodyTimeout, Abort, Store, Return, StoreDeadline
  <2> QED
    BY <1>2, <2>1, <2>2, <2>3 DEF ExchangeNext
<1> QED
  BY <1>1, <1>2, ExchangeSpecInv, PTL DEF ExchangeSpec, Spec

(* The limiter in front of the route counts and keeps its budgets, whatever   *)
(* becomes of the requests that it allows.                                    *)
THEOREM ExchangeKeepsBudgets == ExchangeSpec => []CountersCount /\ ImplementsBudget
BY ExchangeUsesLimiter, LimiterCounts, LimiterImplementsBudget, PTL

-----------------------------------------------------------------------------
(* The shared limiter keeps both budgets, for any number of servers and        *)
(* maintenance runs whose statements interleave.  Only the server that holds   *)
(* the global row decides, by a clock it reads once it holds it: so no counter *)
(* is newer than that clock, and a counter of the same window says exactly,    *)
(* for the global row and the client's, what was allowed.                      *)

\* The transactions of servers and of maintenance.
Consuming == [pc : {"global", "cleanup", "delete", "budget", "insert", "client", "decide", "missing"},
              client : Clients, at : 0..now, doomed : SUBSET Clients]
Removing  == [pc : {"purge", "purged"}, at : 0..now, doomed : SUBSET Clients]

ByClient == [Windows -> [Clients -> Nat]]

SharedTypes ==
    /\ now \in 0..MaxNow
    /\ granted \in ByClient /\ unseen \in ByClient /\ spent \in [Windows -> Nat]
    /\ answer # NoRow => answer.client \in Clients /\ answer.window \in Windows
    /\ globalRow \in Row(GlobalLimit) \cup {NoRow}
    /\ DOMAIN clients \subseteq Clients /\ \A c \in DOMAIN clients : clients[c] \in Row(ClientLimit)
    /\ tx \in [Conns -> {Idle} \cup Consuming \cup Removing]
    /\ \A p \in Servers : tx[p] \in {Idle} \cup Consuming
    /\ \A q \in Purgers : tx[q] \in {Idle} \cup Removing

LocksHeld ==
    /\ globalLock \in {p \in Servers : ~At(p, "idle")} \cup {Free}
    /\ clientLock \in [Clients -> {p \in Conns : ~At(p, "idle")} \cup {Free}]

\* Past its first statement a server holds the global row.
Deciding(p) == ~At(p, "idle") /\ ~At(p, "global")

\* No counter is newer than its clock, and what it deletes has expired by it.
Holds(p) ==
    /\ globalLock = p
    /\ globalRow # NoRow => globalRow.expires <= EndOf(tx[p].at)
    /\ \A c \in DOMAIN clients : clients[c].expires <= EndOf(tx[p].at)
    /\ \A c \in tx[p].doomed \cap DOMAIN clients : clients[c].expires <= tx[p].at
    /\ tx[p].pc \in {"insert", "client", "decide", "missing"} => Restarted(p, globalRow).hits < GlobalLimit
    /\ At(p, "decide") => clientLock[tx[p].client] = p

HolderInv == \A p \in Servers : /\ Deciding(p) => Holds(p)
                                /\ At(p, "global") => tx[p].doomed = {}

\* What maintenance is about to delete it has locked, and it has expired.
RemovalInv == \A q \in Purgers : At(q, "purged") =>
    \A c \in tx[q].doomed : clientLock[c] = q /\ (c \in DOMAIN clients => clients[c].expires <= tx[q].at)

\* The global row counts what was allowed in its window, the last with any.
GlobalInv ==
    /\ \A w \in Windows : spent[w] <= GlobalLimit
    /\ globalRow = NoRow => \A w \in Windows : spent[w] = 0
    /\ globalRow # NoRow => \E t \in 0..now :
          /\ globalRow.expires = EndOf(t) /\ globalRow.hits = spent[WindowOf(t)]
          /\ \A w \in Windows : w > WindowOf(t) => spent[w] = 0

\* A client's row of the running window counts what was allowed, but for what
\* was not seen; one of an earlier window counts no more than that.
Seen(c)    == granted[WindowOf(now)][c] - unseen[WindowOf(now)][c]
Counted(c) == IF c \in DOMAIN clients /\ clients[c].expires = EndOf(now) THEN clients[c].hits ELSE 0

ClientsInv == \A c \in Clients :
    /\ \A w \in Windows : w > WindowOf(now) => granted[w][c] = 0 /\ unseen[w][c] = 0
    /\ Seen(c) = Counted(c)
    /\ c \in DOMAIN clients =>
          \E t \in 0..now : clients[c].expires = EndOf(t) /\ clients[c].hits <= granted[WindowOf(t)][c]

Rest      == SharedTypes /\ LocksHeld /\ HolderInv /\ RemovalInv
SharedInv == Rest /\ GlobalInv /\ ClientsInv /\ RefusedWhenSpent

\* A counter that has not expired at t, and is no newer, is of the same window.
LEMMA SameWindow ==
    ASSUME NEW s \in Nat, NEW t \in Nat, EndOf(s) <= EndOf(t), ~(EndOf(s) <= t)
    PROVE  EndOf(s) = EndOf(t) /\ WindowOf(s) = WindowOf(t)
<1> DEFINE v == WindowOf(s)
           w == WindowOf(t)
<1>1. v \in Nat /\ w \in Nat
  BY WindowBounds
<1>2. ~(v < w)
  BY ExpiresWithWindow
<1>3. EndOf(s) = (v + 1) * Span /\ EndOf(t) = (w + 1) * Span
  BY DEF EndOf
<1> HIDE DEF v, w
<1>4. v <= w
  <2>1. (v + 1) * Span <= (w + 1) * Span
    BY <1>3
  <2> QED
    BY <1>1, <2>1, BudgetAssumption
<1>5. v = w
  BY <1>1, <1>2, <1>4
<1> QED
  BY <1>3, <1>5 DEF v, w

\* A later clock starts counters that end later, and after it.
LEMMA EndsGrow ==
    ASSUME NEW s \in Nat, NEW t \in Nat, s <= t
    PROVE  EndOf(s) \in Nat /\ EndOf(t) \in Nat /\ EndOf(s) <= EndOf(t) /\ ~(EndOf(t) <= s)
<1> DEFINE v == WindowOf(s)
           w == WindowOf(t)
<1>1. v \in Nat /\ w \in Nat /\ v <= w
  BY WindowBounds, WindowsGrow
<1>2. EndOf(s) = (v + 1) * Span /\ EndOf(t) = (w + 1) * Span
  BY DEF EndOf
<1> HIDE DEF v, w
<1>3. EndOf(s) \in Nat /\ EndOf(t) \in Nat /\ EndOf(s) <= EndOf(t)
  BY <1>1, <1>2, BudgetAssumption
<1>4. ~(EndOf(s) <= s)
  BY ExpiresWithWindow, WindowBounds
<1> QED
  BY <1>3, <1>4

\* The counters of a window are those that end with it.
LEMMA SameEnds ==
    ASSUME NEW s \in Nat, NEW t \in Nat
    PROVE  EndOf(s) = EndOf(t) <=> WindowOf(s) = WindowOf(t)
<1> DEFINE v == WindowOf(s)
           w == WindowOf(t)
<1>1. v \in Nat /\ w \in Nat
  BY WindowBounds
<1>2. EndOf(s) = (v + 1) * Span /\ EndOf(t) = (w + 1) * Span
  BY DEF EndOf
<1> HIDE DEF v, w
<1>3. (v + 1) * Span = (w + 1) * Span <=> v = w
  BY <1>1, BudgetAssumption
<1> QED
  BY <1>2, <1>3 DEF v, w

\* What a server's transaction has.
LEMMA ServerFacts ==
    ASSUME SharedTypes, NEW p \in Servers, ~At(p, "idle")
    PROVE  /\ tx[p] \in Consuming /\ tx[p].client \in Clients /\ tx[p].doomed \subseteq Clients
           /\ now \in Nat /\ tx[p].at \in Nat /\ tx[p].at <= now
           /\ WindowOf(now) \in Windows /\ WindowOf(tx[p].at) \in Windows
           /\ WindowOf(now) \in Nat /\ WindowOf(tx[p].at) \in Nat /\ WindowOf(tx[p].at) <= WindowOf(now)
<1>1. tx[p] # Idle
  BY DEF At, Idle
<1>2. tx[p] \in Consuming
  BY <1>1 DEF SharedTypes
<1>3. PICK t : t = tx[p].at
  OBVIOUS
<1>4. /\ tx[p].client \in Clients /\ tx[p].doomed \subseteq Clients /\ t \in 0..now
      /\ now \in Nat /\ now <= MaxNow /\ t \in Nat /\ t <= now /\ MaxNow \in Nat
  BY <1>2, <1>3, BudgetAssumption DEF Consuming, SharedTypes
<1>5. /\ WindowOf(now) \in Nat /\ WindowOf(t) \in Nat /\ WindowOf(MaxNow) \in Nat
      /\ WindowOf(t) <= WindowOf(now) /\ WindowOf(now) <= WindowOf(MaxNow)
  BY <1>4, WindowBounds, WindowsGrow
<1>6. WindowOf(now) \in Windows /\ WindowOf(t) \in Windows
  BY <1>5 DEF Windows
<1> QED
  BY <1>2, <1>3, <1>4, <1>5, <1>6

\* The counter that a server decides by is one of its clock's window.
LEMMA RestartedFacts ==
    ASSUME SharedTypes, NEW p \in Servers, ~At(p, "idle"), NEW limit \in Nat,
           NEW row \in Row(limit) \cup {NoRow}, row # NoRow => row.expires <= EndOf(tx[p].at)
    PROVE  /\ Restarted(p, row) \in Row(limit) /\ Restarted(p, row).expires = EndOf(tx[p].at)
           /\ row = NoRow \/ row.expires <= tx[p].at => Restarted(p, row).hits = 0
           /\ ~(row = NoRow \/ row.expires <= tx[p].at) => Restarted(p, row) = row
<1>1. PICK t \in 0..now : t = tx[p].at /\ t \in Nat /\ now \in Nat
  BY ServerFacts DEF Consuming
<1>2. EndOf(t) \in {EndOf(u) : u \in 0..now}
  BY <1>1
<1>3. CASE row = NoRow \/ row.expires <= t
  <2>1. Restarted(p, row) = [hits |-> 0, expires |-> EndOf(t)]
    BY <1>1, <1>3 DEF Restarted
  <2> QED
    BY <1>1, <1>2, <1>3, <2>1 DEF Row
<1>4. CASE ~(row = NoRow \/ row.expires <= t)
  <2>1. Restarted(p, row) = row /\ row \in Row(limit)
    BY <1>1, <1>4 DEF Restarted
  <2>2. PICK s \in 0..now : row.expires = EndOf(s) /\ s \in Nat
    BY <1>1, <2>1 DEF Row
  <2>3. EndOf(s) = EndOf(t)
    BY <1>1, <1>4, <2>2, SameWindow
  <2> QED
    BY <1>1, <1>4, <2>1, <2>2, <2>3
<1> QED
  BY <1>1, <1>3, <1>4

\* One more request in a counter.
LEMMA ChargedFacts ==
    ASSUME NEW limit \in Nat, NEW row \in Row(limit)
    PROVE  /\ Charged(row).hits = row.hits + 1 /\ Charged(row).expires = row.expires
           /\ row.hits < limit => Charged(row) \in Row(limit)
  BY DEF Charged, Row

\* What is counted of an allowed request.
LEMMA AllowFacts ==
    ASSUME granted \in ByClient, spent \in [Windows -> Nat],
           NEW c \in Clients, NEW w \in Windows, Allow(c, w)
    PROVE  /\ granted' \in ByClient /\ spent' \in [Windows -> Nat]
           /\ \A v \in Windows, d \in Clients :
                 granted'[v][d] = IF v = w /\ d = c THEN granted[v][d] + 1 ELSE granted[v][d]
           /\ \A v \in Windows : spent'[v] = IF v = w THEN spent[v] + 1 ELSE spent[v]
           /\ answer' = [client |-> c, window |-> w, allowed |-> TRUE]
  BY DEF Allow, ByClient

\* What the server that decides knows: the budget's rows are those of its
\* window, and a client without a row was seen nothing of.
LEMMA HolderKnows ==
    ASSUME SharedInv, NEW p \in Servers, Deciding(p)
    PROVE  LET g == Restarted(p, globalRow)
               t == tx[p].at
           IN  /\ g \in Row(GlobalLimit) /\ g.expires = EndOf(t) /\ g.hits = spent[WindowOf(t)]
               /\ \A w \in Windows : w > WindowOf(t) => spent[w] = 0
<1>1. PICK t \in Nat : t = tx[p].at /\ t <= now /\ now \in Nat /\ WindowOf(t) \in Windows /\ WindowOf(t) \in Nat
  BY ServerFacts DEF SharedInv, Rest, Deciding
<1>2. SharedTypes /\ ~At(p, "idle") /\ Holds(p) /\ GlobalInv /\ GlobalLimit \in Nat
  BY BudgetAssumption DEF SharedInv, Rest, HolderInv, Deciding
<1>3. PICK row : row = globalRow
  OBVIOUS
<1>4. /\ Restarted(p, row) \in Row(GlobalLimit) /\ Restarted(p, row).expires = EndOf(t)
      /\ row = NoRow \/ row.expires <= t => Restarted(p, row).hits = 0
      /\ ~(row = NoRow \/ row.expires <= t) => Restarted(p, row) = row
  <2>1. row \in Row(GlobalLimit) \cup {NoRow}
    BY <1>2, <1>3 DEF SharedTypes
  <2>2. row # NoRow => row.expires <= EndOf(tx[p].at)
    BY <1>2, <1>3 DEF Holds
  <2> QED
    BY <1>1, <1>2, <2>1, <2>2, RestartedFacts
<1>5. CASE row = NoRow
  BY <1>1, <1>2, <1>3, <1>4, <1>5 DEF GlobalInv
<1>6. CASE row # NoRow
  <2>1. PICK s \in 0..now :
           /\ row.expires = EndOf(s) /\ row.hits = spent[WindowOf(s)]
           /\ \A w \in Windows : w > WindowOf(s) => spent[w] = 0
    BY <1>2, <1>3, <1>6 DEF GlobalInv
  <2>2. s \in Nat /\ WindowOf(s) \in Nat /\ EndOf(s) <= EndOf(t)
    BY <1>1, <1>2, <1>3, <1>6, <2>1, WindowBounds DEF Holds
  <2>3. CASE EndOf(s) <= t
    <3>1. WindowOf(s) < WindowOf(t)
      BY <1>1, <2>2, <2>3, ExpiresWithWindow
    <3>2. \A w \in Windows : w >= WindowOf(t) => spent[w] = 0
      BY <1>1, <2>1, <2>2, <3>1, WindowBounds, BudgetAssumption DEF Windows
    <3> QED
      BY <1>1, <1>3, <1>4, <2>1, <2>3, <3>2, WindowBounds, BudgetAssumption DEF Windows
  <2>4. CASE ~(EndOf(s) <= t)
    <3>1. WindowOf(s) = WindowOf(t)
      BY <1>1, <2>2, <2>4, SameWindow
    <3> QED
      BY <1>1, <1>3, <1>4, <1>6, <2>1, <2>4, <3>1
  <2> QED
    BY <2>3, <2>4
<1> QED
  BY <1>5, <1>6

\* Of a client whose row it deletes, or that has none, nothing was seen.
LEMMA HolderDrops ==
    ASSUME SharedInv, NEW p \in Servers, Deciding(p), NEW c \in Clients, c \notin Kept(p)
    PROVE  Seen(c) = 0
<1>1. PICK t \in Nat : t = tx[p].at /\ t <= now /\ now \in Nat
  BY ServerFacts DEF SharedInv, Rest, Deciding
<1>2. Holds(p) /\ Seen(c) = Counted(c)
  BY DEF SharedInv, Rest, HolderInv, ClientsInv
<1>3. CASE c \in DOMAIN clients
  <2>1. clients[c].expires <= t
    BY <1>1, <1>2, <1>3 DEF Holds, Kept
  <2>2. ~(EndOf(now) <= now) /\ EndOf(now) \in Nat
    BY <1>1, EndsGrow
  <2>3. clients[c].expires # EndOf(now)
    BY <1>1, <2>1, <2>2
  <2> QED
    BY <1>2, <2>3 DEF Counted
<1>4. CASE c \notin DOMAIN clients
  BY <1>2, <1>4 DEF Counted
<1> QED
  BY <1>3, <1>4

\* The counter it decides by counts what was seen of the client, if its window is
\* still running.
LEMMA HolderKnowsClient ==
    ASSUME SharedInv, NEW p \in Servers, Deciding(p), NEW c \in Clients
    PROVE  LET r == Restarted(p, IF c \in Kept(p) THEN clients[c] ELSE NoRow)
               w == WindowOf(tx[p].at)
           IN  /\ r \in Row(ClientLimit) /\ r.expires = EndOf(tx[p].at) /\ r.hits <= granted[w][c]
               /\ Seen(c) = IF w = WindowOf(now) THEN r.hits ELSE 0
<1>1. PICK t \in Nat : t = tx[p].at /\ t <= now /\ now \in Nat /\ WindowOf(t) \in Windows /\ WindowOf(t) \in Nat
                       /\ WindowOf(t) <= WindowOf(now) /\ WindowOf(now) \in Nat
  BY ServerFacts DEF SharedInv, Rest, Deciding
<1>2. /\ SharedTypes /\ ~At(p, "idle") /\ Holds(p) /\ ClientLimit \in Nat
      /\ Seen(c) = Counted(c) /\ granted[WindowOf(t)][c] \in Nat
  BY <1>1, BudgetAssumption DEF SharedInv, Rest, HolderInv, Deciding, ClientsInv, SharedTypes, ByClient
<1>3. PICK row : row = IF c \in Kept(p) THEN clients[c] ELSE NoRow
  OBVIOUS
<1>4. /\ Restarted(p, row) \in Row(ClientLimit) /\ Restarted(p, row).expires = EndOf(t)
      /\ row = NoRow \/ row.expires <= t => Restarted(p, row).hits = 0
      /\ ~(row = NoRow \/ row.expires <= t) => Restarted(p, row) = row
  <2>1. row \in Row(ClientLimit) \cup {NoRow}
    BY <1>2, <1>3 DEF SharedTypes, Kept
  <2>2. row # NoRow => row.expires <= EndOf(tx[p].at)
    BY <1>2, <1>3 DEF Holds, Kept
  <2> QED
    BY <1>1, <1>2, <2>1, <2>2, RestartedFacts
<1>5. NoRow \notin Row(ClientLimit)
  <2>1. \A u \in 0..now : EndOf(u) \in Nat
    BY <1>1, EndsGrow
  <2>2. Row(ClientLimit) \subseteq [hits : Nat, expires : Nat]
    BY <1>2, <2>1 DEF Row
  <2> QED
    BY <2>2, BudgetAssumption
<1>6. CASE c \notin Kept(p)
  BY <1>1, <1>2, <1>3, <1>4, <1>6, HolderDrops
<1>7. CASE c \in Kept(p)
  <2>1. row = clients[c] /\ c \in DOMAIN clients /\ row # NoRow /\ row.expires <= EndOf(t)
    BY <1>1, <1>2, <1>3, <1>5, <1>7 DEF Kept, SharedTypes, Holds
  <2>2. PICK s \in 0..now : row.expires = EndOf(s) /\ row.hits <= granted[WindowOf(s)][c]
    BY <2>1 DEF SharedInv, ClientsInv
  <2>3. s \in Nat /\ EndOf(s) \in Nat /\ EndOf(now) \in Nat /\ ~(EndOf(now) <= now)
    BY <1>1, <2>2, EndsGrow
  <2>4. CASE row.expires <= t
    <3>1. row.expires # EndOf(now)
      BY <1>1, <2>2, <2>3, <2>4
    <3>2. Seen(c) = 0
      BY <1>2, <2>1, <3>1 DEF Counted
    <3> QED
      BY <1>1, <1>2, <1>3, <1>4, <2>4, <3>2
  <2>5. CASE ~(row.expires <= t)
    <3>1. EndOf(s) = EndOf(t) /\ WindowOf(s) = WindowOf(t)
      BY <1>1, <2>1, <2>2, <2>3, <2>5, SameWindow
    <3>2. WindowOf(t) = WindowOf(now) <=> row.expires = EndOf(now)
      BY <1>1, <2>2, <3>1, SameEnds
    <3>3. Restarted(p, row) = row
      BY <1>4, <2>1, <2>5
    <3>4. Seen(c) = IF WindowOf(t) = WindowOf(now) THEN row.hits ELSE 0
      BY <1>2, <2>1, <3>2 DEF Counted
    <3> QED
      BY <1>1, <1>3, <1>4, <2>2, <3>1, <3>3, <3>4
  <2> QED
    BY <2>4, <2>5
<1> QED
  BY <1>6, <1>7

-----------------------------------------------------------------------------
\* The end of a request: rows as it decided, its locks released.  The rest of
\* what is known of transactions only needs the rows to be well formed.
LEMMA CommitRest ==
    ASSUME Rest, NEW p \in Servers, Deciding(p), NEW g \in Row(GlobalLimit), NEW own,
           Commit(p, g, own), DOMAIN own \subseteq Clients,
           \A c \in DOMAIN own : own[c] \in Row(ClientLimit) /\ clientLock[c] = p,
           granted' \in ByClient, unseen' \in ByClient, spent' \in [Windows -> Nat],
           answer' # NoRow => answer'.client \in Clients /\ answer'.window \in Windows
    PROVE  Rest'
<1>1. globalLock = p /\ p \in Conns /\ p # Free /\ p \notin Purgers
  BY QuotaAssumption DEF Rest, HolderInv, Holds, Conns
<1>2. /\ now' = now /\ globalRow' = g /\ globalLock' = Free
      /\ clientLock' = [c \in Clients |-> IF clientLock[c] = p THEN Free ELSE clientLock[c]]
      /\ tx' = [tx EXCEPT ![p] = Idle]
      /\ clients' = [c \in Kept(p) \cup DOMAIN own |-> IF c \in DOMAIN own THEN own[c] ELSE clients[c]]
  BY <1>1 DEF Commit, Release
<1>3. /\ DOMAIN clients' \subseteq Clients /\ \A c \in DOMAIN clients' : clients'[c] \in Row(ClientLimit)
      /\ \A c \in DOMAIN clients' : c \in DOMAIN own \/ (c \in DOMAIN clients /\ clients'[c] = clients[c])
  BY <1>2 DEF Rest, SharedTypes, Kept
<1>4. Row(GlobalLimit)' = Row(GlobalLimit) /\ Row(ClientLimit)' = Row(ClientLimit) /\ Consuming' = Consuming /\ Removing' = Removing
  BY <1>2 DEF Row, Consuming, Removing
<1>5. tx'[p] = Idle /\ \A q \in Conns : q # p => tx'[q] = tx[q]
  BY <1>1, <1>2 DEF Rest, SharedTypes
<1>6. tx' \in [Conns -> {Idle} \cup Consuming \cup Removing]
  BY <1>2 DEF Rest, SharedTypes
<1>7. SharedTypes'
  <2>1. \A s \in Servers : tx'[s] \in {Idle} \cup Consuming
    BY <1>5 DEF Rest, SharedTypes, Conns
  <2>2. \A q \in Purgers : tx'[q] \in {Idle} \cup Removing
    BY <1>1, <1>5 DEF Rest, SharedTypes, Conns
  <2> QED
    BY <1>2, <1>3, <1>4, <1>6, <2>1, <2>2 DEF Rest, SharedTypes
<1>8. LocksHeld'
  BY <1>2, <1>5 DEF Rest, LocksHeld, At, Conns
<1>9. HolderInv'
  <2>1. ASSUME NEW s \in Servers PROVE (Deciding(s) => Holds(s))' /\ (At(s, "global") => tx[s].doomed = {})'
    <3>1. CASE s = p
      BY <1>5, <3>1 DEF Deciding, At, Idle
    <3>2. CASE s # p
      <4>1. tx'[s] = tx[s] /\ ~Deciding(s)
        BY <1>1, <1>5, <3>2 DEF Conns, Rest, HolderInv, Holds
      <4> QED
        BY <4>1 DEF Deciding, At, Rest, HolderInv
    <3> QED
      BY <3>1, <3>2
  <2> QED
    BY <2>1 DEF HolderInv
<1>10. RemovalInv'
  <2>1. ASSUME NEW q \in Purgers, At(q, "purged")', NEW c \in tx'[q].doomed
        PROVE  clientLock'[c] = q /\ (c \in DOMAIN clients' => clients'[c].expires <= tx'[q].at)
    <3>1. tx'[q] = tx[q] /\ q # p /\ q \in Conns
      BY <1>1, <1>5 DEF Conns
    <3>2. c \in Clients
      BY <1>7, <2>1 DEF SharedTypes, Idle, Removing, At
    <3>3. clientLock[c] = q /\ (c \in DOMAIN clients => clients[c].expires <= tx[q].at)
      BY <2>1, <3>1 DEF Rest, RemovalInv, At
    <3>4. c \in DOMAIN clients' => c \in DOMAIN clients /\ clients'[c] = clients[c]
      BY <1>3, <3>1, <3>3
    <3> QED
      BY <1>2, <3>1, <3>2, <3>3, <3>4
  <2> QED
    BY <2>1 DEF RemovalInv
<1> QED
  BY <1>7, <1>8, <1>9, <1>10 DEF Rest

\* What the end of a request does to the counts, when a requests are allowed.
LEMMA CommitGlobal ==
    ASSUME SharedInv, NEW p \in Servers, Deciding(p), now' = now, NEW a \in {0, 1},
           globalRow' \in Row(GlobalLimit), globalRow'.expires = EndOf(tx[p].at),
           globalRow'.hits = Restarted(p, globalRow).hits + a,
           \A v \in Windows : spent'[v] = IF v = WindowOf(tx[p].at) THEN spent[v] + a ELSE spent[v]
    PROVE  GlobalInv'
<1>1. PICK t \in Nat : t = tx[p].at /\ t \in 0..now /\ WindowOf(t) \in Windows /\ WindowOf(t) \in Nat
  BY ServerFacts DEF SharedInv, Rest, Deciding
<1>2. PICK hits : hits = Restarted(p, globalRow).hits
  OBVIOUS
<1>3. hits = spent[WindowOf(t)] /\ \A w \in Windows : w > WindowOf(t) => spent[w] = 0
  BY <1>1, <1>2, HolderKnows
<1>4. hits + a \in 0..GlobalLimit /\ GlobalLimit \in Nat
  BY <1>2, BudgetAssumption DEF Row
<1>5. \A w \in Windows : spent'[w] <= GlobalLimit
  <2>1. \A w \in Windows : spent[w] <= GlobalLimit
    BY DEF SharedInv, GlobalInv
  <2> QED
    BY <1>1, <1>3, <1>4, <2>1
<1>6. globalRow' # NoRow
  <2>1. PICK row : row = globalRow'
    OBVIOUS
  <2>2. \A u \in 0..now : EndOf(u) \in Nat
    BY <1>1, EndsGrow DEF SharedInv, Rest, SharedTypes
  <2>3. row \in [hits : Nat, expires : Nat]
    BY <1>4, <2>1, <2>2 DEF Row
  <2> QED
    BY <2>1, <2>3, BudgetAssumption
<1>7. /\ globalRow'.hits = spent'[WindowOf(t)]
      /\ \A w \in Windows : w > WindowOf(t) => spent'[w] = 0
  BY <1>1, <1>2, <1>3
<1> QED
  BY <1>1, <1>5, <1>6, <1>7 DEF GlobalInv

LEMMA CommitClients ==
    ASSUME SharedInv, NEW p \in Servers, Deciding(p), NEW g, NEW own, Commit(p, g, own),
           NEW a \in {0, 1}, NEW b \in {0, 1}, NEW c \in Clients, granted' \in ByClient, unseen' \in ByClient,
           \A v \in Windows, d \in Clients :
              /\ granted'[v][d] = IF v = WindowOf(tx[p].at) /\ d = c THEN granted[v][d] + a ELSE granted[v][d]
              /\ unseen'[v][d] = IF v = WindowOf(tx[p].at) /\ d = c THEN unseen[v][d] + b ELSE unseen[v][d],
           DOMAIN own \subseteq {c},
           c \notin DOMAIN own => a = b,
           c \in DOMAIN own =>
              /\ b = 0 /\ own[c].expires = EndOf(tx[p].at)
              /\ own[c].hits = Restarted(p, IF c \in Kept(p) THEN clients[c] ELSE NoRow).hits + a
    PROVE  ClientsInv'
<1>1. PICK t \in Nat : t = tx[p].at /\ t \in 0..now /\ WindowOf(t) \in Windows /\ WindowOf(t) \in Nat
                       /\ WindowOf(t) <= WindowOf(now) /\ WindowOf(now) \in Windows /\ now \in Nat /\ WindowOf(now) \in Nat
  BY ServerFacts DEF SharedInv, Rest, Deciding
<1>2. /\ now' = now /\ WindowOf(now)' = WindowOf(now)
      /\ clients' = [d \in Kept(p) \cup DOMAIN own |-> IF d \in DOMAIN own THEN own[d] ELSE clients[d]]
  BY DEF Commit
<1>3. granted \in ByClient /\ unseen \in ByClient
  BY DEF SharedInv, Rest, SharedTypes
<1>4. SUFFICES ASSUME NEW d \in Clients
      PROVE  /\ \A w \in Windows : w > WindowOf(now) => granted'[w][d] = 0 /\ unseen'[w][d] = 0
             /\ Seen(d)' = Counted(d)'
             /\ d \in DOMAIN clients' =>
                   \E u \in 0..now : clients'[d].expires = EndOf(u) /\ clients'[d].hits <= granted'[WindowOf(u)][d]
  BY <1>2 DEF ClientsInv
<1>5. /\ \A v \in Windows : granted[v][d] \in Nat /\ unseen[v][d] \in Nat /\ granted'[v][d] \in Nat /\ unseen'[v][d] \in Nat
      /\ \A v \in Windows : granted[v][d] <= granted'[v][d]
  <2>1. ASSUME NEW v \in Windows
        PROVE  /\ granted[v][d] \in Nat /\ unseen[v][d] \in Nat /\ granted'[v][d] \in Nat /\ unseen'[v][d] \in Nat
               /\ granted[v][d] <= granted'[v][d]
    <3>1. granted[v][d] \in Nat /\ unseen[v][d] \in Nat /\ granted'[v][d] \in Nat /\ unseen'[v][d] \in Nat
      BY <1>3 DEF ByClient
    <3>2. granted'[v][d] = granted[v][d] + a \/ granted'[v][d] = granted[v][d]
      OBVIOUS
    <3> QED
      BY <3>1, <3>2
  <2> QED
    BY <2>1
<1>6. \A w \in Windows : w > WindowOf(now) => granted'[w][d] = 0 /\ unseen'[w][d] = 0
  <2>1. \A w \in Windows : w > WindowOf(now) => granted[w][d] = 0 /\ unseen[w][d] = 0 /\ w # WindowOf(t)
    <3>1. \A w \in Windows : w \in Int
      BY <1>1, WindowBounds, BudgetAssumption DEF Windows
    <3> QED
      BY <1>1, <3>1 DEF SharedInv, ClientsInv
  <2> QED
    BY <1>1, <2>1
<1>7. CASE d \in DOMAIN own
  <2>1. d = c /\ clients'[d] = own[d] /\ d \in DOMAIN clients'
    BY <1>2, <1>7
  <2>2. PICK hits : hits = Restarted(p, IF c \in Kept(p) THEN clients[c] ELSE NoRow).hits
    OBVIOUS
  <2>3. hits <= granted[WindowOf(t)][c] /\ hits \in Nat /\ Seen(c) = IF WindowOf(t) = WindowOf(now) THEN hits ELSE 0
    BY <1>1, <2>2, HolderKnowsClient, BudgetAssumption DEF Row
  <2>4. clients'[d].hits = hits + a /\ clients'[d].expires = EndOf(t) /\ b = 0
    BY <1>1, <1>7, <2>1, <2>2
  <2>5. Seen(d)' = IF WindowOf(t) = WindowOf(now) THEN hits + a ELSE 0
    BY <1>1, <1>2, <1>5, <2>1, <2>3, <2>4 DEF Seen
  <2>6. Counted(d)' = IF WindowOf(t) = WindowOf(now) THEN hits + a ELSE 0
    BY <1>1, <1>2, <2>1, <2>4, SameEnds DEF Counted
  <2>7. clients'[d].hits <= granted'[WindowOf(t)][d]
    BY <1>1, <1>5, <2>1, <2>3, <2>4
  <2> QED
    BY <1>1, <1>6, <2>4, <2>5, <2>6, <2>7
<1>8. CASE d \notin DOMAIN own
  <2>1. Seen(d)' = Seen(d)
    BY <1>1, <1>2, <1>5, <1>8 DEF Seen
  <2>2. Seen(d) = Counted(d)
    BY DEF SharedInv, ClientsInv
  <2>3. CASE d \in Kept(p)
    <3>1. d \in DOMAIN clients' /\ d \in DOMAIN clients /\ clients'[d] = clients[d]
      BY <1>2, <1>8, <2>3 DEF Kept
    <3>2. Counted(d)' = Counted(d)
      BY <1>2, <3>1 DEF Counted
    <3>3. PICK u \in 0..now : clients[d].expires = EndOf(u) /\ clients[d].hits <= granted[WindowOf(u)][d]
      BY <3>1 DEF SharedInv, ClientsInv
    <3>4. WindowOf(u) \in Windows
      <4>1. u \in Nat /\ u <= MaxNow /\ MaxNow \in Nat
        BY BudgetAssumption DEF SharedInv, Rest, SharedTypes
      <4> QED
        BY <4>1, WindowBounds, WindowsGrow DEF Windows
    <3>5. clients[d].hits \in Nat
      BY <3>1, BudgetAssumption DEF SharedInv, Rest, SharedTypes, Row
    <3> QED
      BY <1>5, <1>6, <2>1, <2>2, <3>1, <3>2, <3>3, <3>4, <3>5
  <2>4. CASE d \notin Kept(p)
    <3>1. d \notin DOMAIN clients'
      BY <1>2, <1>8, <2>4
    <3>2. Seen(d) = 0 /\ Counted(d)' = 0
      BY <2>4, <3>1, HolderDrops DEF Counted
    <3> QED
      BY <1>6, <2>1, <3>1, <3>2
  <2> QED
    BY <2>3, <2>4
<1> QED
  BY <1>7, <1>8

\* A refusal or an answer to come: what was refused still was when one of the
\* budgets was spent, since nothing that was allowed is forgotten.
LEMMA RefusalStands ==
    ASSUME SharedTypes, RefusedWhenSpent, answer' = answer,
           \A v \in Windows, d \in Clients : granted'[v][d] >= granted[v][d],
           \A v \in Windows : spent'[v] >= spent[v],
           granted' \in ByClient, spent' \in [Windows -> Nat]
    PROVE  RefusedWhenSpent'
<1>1. SUFFICES ASSUME answer # NoRow, ~answer.allowed
      PROVE  granted'[answer.window][answer.client] >= ClientLimit \/ spent'[answer.window] >= GlobalLimit
  BY DEF RefusedWhenSpent
<1>2. PICK w \in Windows, c \in Clients : w = answer.window /\ c = answer.client
  BY <1>1 DEF SharedTypes
<1>3. granted[w][c] >= ClientLimit \/ spent[w] >= GlobalLimit
  BY <1>1, <1>2 DEF RefusedWhenSpent
<1>4. /\ granted[w][c] \in Nat /\ granted'[w][c] \in Nat /\ spent[w] \in Nat /\ spent'[w] \in Nat
      /\ ClientLimit \in Nat /\ GlobalLimit \in Nat
  BY BudgetAssumption DEF SharedTypes, ByClient
<1>5. granted'[w][c] >= granted[w][c] /\ spent'[w] >= spent[w]
  OBVIOUS
<1> QED
  BY <1>2, <1>3, <1>4, <1>5

\* A request that is allowed: both counters are charged, or the global one alone
\* when the client's was found missing.
LEMMA AllowedKeeps ==
    ASSUME SharedInv, NEW p \in Servers, Deciding(p),
           Restarted(p, globalRow).hits < GlobalLimit,
           NEW own, NEW b \in {0, 1}, unseen' \in ByClient,
           \A v \in Windows, d \in Clients :
              unseen'[v][d] = IF v = WindowOf(tx[p].at) /\ d = tx[p].client THEN unseen[v][d] + b ELSE unseen[v][d],
           Commit(p, Charged(Restarted(p, globalRow)), own), Allow(tx[p].client, WindowOf(tx[p].at)),
           DOMAIN own \subseteq {tx[p].client},
           tx[p].client \notin DOMAIN own => b = 1,
           tx[p].client \in DOMAIN own =>
              /\ b = 0 /\ clientLock[tx[p].client] = p
              /\ own[tx[p].client] \in Row(ClientLimit) /\ own[tx[p].client].expires = EndOf(tx[p].at)
              /\ own[tx[p].client].hits
                   = Restarted(p, IF tx[p].client \in Kept(p) THEN clients[tx[p].client] ELSE NoRow).hits + 1
    PROVE  SharedInv'
<1>1. PICK c \in Clients : c = tx[p].client
  BY ServerFacts DEF SharedInv, Rest, Deciding
<1>2. PICK t \in Nat : t = tx[p].at /\ WindowOf(t) \in Windows /\ t <= now /\ now \in Nat
  BY ServerFacts DEF SharedInv, Rest, Deciding
<1>3. /\ granted' \in ByClient /\ spent' \in [Windows -> Nat]
      /\ \A v \in Windows, d \in Clients :
            granted'[v][d] = IF v = WindowOf(t) /\ d = c THEN granted[v][d] + 1 ELSE granted[v][d]
      /\ \A v \in Windows : spent'[v] = IF v = WindowOf(t) THEN spent[v] + 1 ELSE spent[v]
      /\ answer' = [client |-> c, window |-> WindowOf(t), allowed |-> TRUE]
  <2>1. granted \in ByClient /\ spent \in [Windows -> Nat] /\ Allow(c, WindowOf(t))
    BY <1>1, <1>2 DEF SharedInv, Rest, SharedTypes
  <2> QED
    BY <1>2, <2>1, AllowFacts
<1>4. PICK g : g = Restarted(p, globalRow)
  OBVIOUS
<1>5. g \in Row(GlobalLimit) /\ g.expires = EndOf(t) /\ g.hits < GlobalLimit /\ GlobalLimit \in Nat
  BY <1>2, <1>4, HolderKnows, BudgetAssumption
<1>6. Charged(g) \in Row(GlobalLimit) /\ Charged(g).hits = g.hits + 1 /\ Charged(g).expires = EndOf(t)
  BY <1>5, ChargedFacts
<1>7. Commit(p, Charged(g), own) /\ globalRow' = Charged(g) /\ now' = now
  BY <1>4 DEF Commit
<1>8. Rest'
  <2>1. \A d \in DOMAIN own : own[d] \in Row(ClientLimit) /\ clientLock[d] = p
    BY <1>1
  <2>2. DOMAIN own \subseteq Clients
    BY <1>1
  <2>3. answer' # NoRow => answer'.client \in Clients /\ answer'.window \in Windows
    BY <1>2, <1>3
  <2> QED
    BY <1>3, <1>6, <1>7, <2>1, <2>2, <2>3, CommitRest DEF SharedInv
<1>9. GlobalInv'
  <2>1. PICK a \in {0, 1} : a = 1
    OBVIOUS
  <2>2. \A v \in Windows : spent'[v] = IF v = WindowOf(tx[p].at) THEN spent[v] + a ELSE spent[v]
    BY <1>2, <1>3, <2>1
  <2>3. globalRow' \in Row(GlobalLimit) /\ globalRow'.expires = EndOf(tx[p].at)
        /\ globalRow'.hits = Restarted(p, globalRow).hits + a
    BY <1>2, <1>4, <1>6, <1>7, <2>1
  <2> QED
    BY <1>7, <2>2, <2>3, CommitGlobal
<1>10. ClientsInv'
  <2>1. PICK a \in {0, 1} : a = 1
    OBVIOUS
  <2>2. \A v \in Windows, d \in Clients :
          /\ granted'[v][d] = IF v = WindowOf(tx[p].at) /\ d = c THEN granted[v][d] + a ELSE granted[v][d]
          /\ unseen'[v][d] = IF v = WindowOf(tx[p].at) /\ d = c THEN unseen[v][d] + b ELSE unseen[v][d]
    BY <1>1, <1>2, <1>3, <2>1
  <2>3. DOMAIN own \subseteq {c}
    BY <1>1
  <2>4. c \notin DOMAIN own => a = b
    BY <1>1, <2>1
  <2>5. c \in DOMAIN own =>
          /\ b = 0 /\ own[c].expires = EndOf(tx[p].at)
          /\ own[c].hits = Restarted(p, IF c \in Kept(p) THEN clients[c] ELSE NoRow).hits + a
    BY <1>1, <2>1
  <2> QED
    BY <1>3, <1>7, <2>2, <2>3, <2>4, <2>5, CommitClients
<1>11. RefusedWhenSpent'
  BY <1>3 DEF RefusedWhenSpent
<1> QED
  BY <1>8, <1>9, <1>10, <1>11 DEF SharedInv

\* A request that is refused: nothing is charged.
LEMMA RefusedKeeps ==
    ASSUME SharedInv, NEW p \in Servers, Deciding(p), NEW own, UNCHANGED unseen,
           Commit(p, Restarted(p, globalRow), own), Refuse(tx[p].client, WindowOf(tx[p].at)),
           DOMAIN own \subseteq {tx[p].client},
           tx[p].client \in DOMAIN own =>
              /\ clientLock[tx[p].client] = p
              /\ own[tx[p].client] = Restarted(p, IF tx[p].client \in Kept(p) THEN clients[tx[p].client] ELSE NoRow),
           \/ Restarted(p, globalRow).hits >= GlobalLimit
           \/ Restarted(p, IF tx[p].client \in Kept(p) THEN clients[tx[p].client] ELSE NoRow).hits >= ClientLimit
    PROVE  SharedInv'
<1>1. PICK c \in Clients : c = tx[p].client
  BY ServerFacts DEF SharedInv, Rest, Deciding
<1>2. PICK t \in Nat : t = tx[p].at /\ WindowOf(t) \in Windows /\ t <= now /\ now \in Nat
  BY ServerFacts DEF SharedInv, Rest, Deciding
<1>3. /\ granted' = granted /\ spent' = spent /\ granted \in ByClient /\ spent \in [Windows -> Nat]
      /\ unseen' = unseen /\ unseen \in ByClient
      /\ answer' = [client |-> c, window |-> WindowOf(t), allowed |-> FALSE]
  BY <1>1, <1>2 DEF Refuse, SharedInv, Rest, SharedTypes
<1>4. PICK g, row : g = Restarted(p, globalRow) /\ row = Restarted(p, IF c \in Kept(p) THEN clients[c] ELSE NoRow)
  OBVIOUS
<1>5. /\ g \in Row(GlobalLimit) /\ g.expires = EndOf(t) /\ g.hits = spent[WindowOf(t)]
      /\ row \in Row(ClientLimit) /\ row.expires = EndOf(t) /\ row.hits <= granted[WindowOf(t)][c]
  BY <1>2, <1>4, HolderKnows, HolderKnowsClient
<1>6. Commit(p, g, own) /\ globalRow' = g /\ now' = now
  BY <1>4 DEF Commit
<1>7. Rest'
  <2>1. \A d \in DOMAIN own : own[d] \in Row(ClientLimit) /\ clientLock[d] = p
    BY <1>1, <1>4, <1>5
  <2>2. DOMAIN own \subseteq Clients
    BY <1>1
  <2>3. answer' # NoRow => answer'.client \in Clients /\ answer'.window \in Windows
    BY <1>2, <1>3
  <2> QED
    BY <1>3, <1>5, <1>6, <2>1, <2>2, <2>3, CommitRest DEF SharedInv
<1>8. PICK a \in {0, 1} : a = 0
  OBVIOUS
<1>9. GlobalInv'
  <2>1. \A v \in Windows : spent'[v] = IF v = WindowOf(tx[p].at) THEN spent[v] + a ELSE spent[v]
    BY <1>3, <1>8
  <2>2. g.hits \in Nat
    BY <1>5, BudgetAssumption DEF Row
  <2>3. globalRow' \in Row(GlobalLimit) /\ globalRow'.expires = EndOf(tx[p].at)
        /\ globalRow'.hits = Restarted(p, globalRow).hits + a
    BY <1>2, <1>4, <1>5, <1>6, <1>8, <2>2
  <2> QED
    BY <1>6, <2>1, <2>3, CommitGlobal
<1>10. ClientsInv'
  <2>1. \A v \in Windows, d \in Clients :
          /\ granted'[v][d] = IF v = WindowOf(tx[p].at) /\ d = c THEN granted[v][d] + a ELSE granted[v][d]
          /\ unseen'[v][d] = IF v = WindowOf(tx[p].at) /\ d = c THEN unseen[v][d] + a ELSE unseen[v][d]
    <3>1. \A v \in Windows, d \in Clients : granted[v][d] \in Nat /\ unseen[v][d] \in Nat
      BY <1>3 DEF ByClient
    <3> QED
      BY <1>3, <1>8, <3>1
  <2>2. DOMAIN own \subseteq {c}
    BY <1>1
  <2>3. row.hits \in Nat
    BY <1>5, BudgetAssumption DEF Row
  <2>4. c \in DOMAIN own =>
          /\ a = 0 /\ own[c].expires = EndOf(tx[p].at)
          /\ own[c].hits = Restarted(p, IF c \in Kept(p) THEN clients[c] ELSE NoRow).hits + a
    BY <1>1, <1>2, <1>4, <1>5, <1>8, <2>3
  <2>5. granted' \in ByClient /\ unseen' \in ByClient
    BY <1>3
  <2> QED
    BY <1>6, <2>1, <2>2, <2>4, <2>5, CommitClients
<1>11. RefusedWhenSpent'
  <2>1. g.hits >= GlobalLimit \/ row.hits >= ClientLimit
    BY <1>1, <1>4
  <2>2. /\ granted[WindowOf(t)][c] \in Nat /\ spent[WindowOf(t)] \in Nat /\ row.hits \in Nat
        /\ ClientLimit \in Nat /\ GlobalLimit \in Nat
    BY <1>2, <1>3, <1>5, BudgetAssumption DEF ByClient, Row
  <2>3. spent[WindowOf(t)] >= GlobalLimit \/ granted[WindowOf(t)][c] >= ClientLimit
    BY <1>5, <2>1, <2>2
  <2> QED
    BY <1>3, <2>3 DEF RefusedWhenSpent
<1> QED
  BY <1>7, <1>9, <1>10, <1>11 DEF SharedInv

-----------------------------------------------------------------------------
\* A statement in the middle of a transaction takes locks that are free and
\* writes nothing that others see.
LEMMA StatementRest ==
    ASSUME Rest, NEW p \in Conns, NEW x, tx' = [tx EXCEPT ![p] = x],
           UNCHANGED <<now, budget, rows, unseen>>,
           p \in Servers => x \in Consuming, p \in Purgers => x \in Removing,
           globalLock' = globalLock \/ (globalLock = Free /\ globalLock' = p /\ p \in Servers),
           clientLock' \in [Clients -> Conns \cup {Free}],
           \A c \in Clients : clientLock'[c] = clientLock[c] \/ (clientLock[c] \in {Free, p} /\ clientLock'[c] = p),
           p \in Servers => (Deciding(p) => Holds(p))' /\ (x.pc = "global" => x.doomed = {}),
           p \in Purgers /\ x.pc = "purged" =>
              \A c \in x.doomed : clientLock'[c] = p /\ (c \in DOMAIN clients => clients[c].expires <= x.at)
    PROVE  Rest'
<1>1. /\ now' = now /\ globalRow' = globalRow /\ clients' = clients /\ granted' = granted /\ spent' = spent
      /\ answer' = answer /\ unseen' = unseen
  BY DEF budget, rows
<1>2. Row(GlobalLimit)' = Row(GlobalLimit) /\ Row(ClientLimit)' = Row(ClientLimit) /\ Consuming' = Consuming /\ Removing' = Removing
  BY <1>1 DEF Row, Consuming, Removing
<1>3. /\ x \in Consuming \cup Removing /\ x.pc # "idle" /\ tx'[p] = x /\ \A s \in Conns : s # p => tx'[s] = tx[s]
      /\ tx' \in [Conns -> {Idle} \cup Consuming \cup Removing]
  BY DEF Conns, Rest, SharedTypes, Consuming, Removing
<1>4. p \in Servers \/ p \in Purgers
  BY DEF Conns
<1>5. p # Free /\ Servers \cap Purgers = {} /\ Servers \subseteq Conns /\ Purgers \subseteq Conns
  BY QuotaAssumption DEF Conns
<1>6. SharedTypes'
  <2>1. \A s \in Servers : tx'[s] \in {Idle} \cup Consuming
    BY <1>3, <1>5 DEF Rest, SharedTypes
  <2>2. \A q \in Purgers : tx'[q] \in {Idle} \cup Removing
    BY <1>3, <1>5 DEF Rest, SharedTypes
  <2> QED
    BY <1>1, <1>2, <1>3, <2>1, <2>2 DEF Rest, SharedTypes
<1>7. LocksHeld'
  <2>1. \A s \in Conns : ~At(s, "idle") => ~At(s, "idle")'
    BY <1>3 DEF At
  <2>2. ~At(p, "idle")'
    BY <1>3 DEF At
  <2>3. globalLock' \in {s \in Servers : ~At(s, "idle")'} \cup {Free}
    BY <1>5, <2>1, <2>2 DEF Rest, LocksHeld
  <2>4. \A c \in Clients : clientLock'[c] \in {s \in Conns : ~At(s, "idle")'} \cup {Free}
    BY <2>1, <2>2 DEF Rest, LocksHeld
  <2> QED
    BY <2>3, <2>4 DEF LocksHeld
<1>8. HolderInv'
  <2>1. ASSUME NEW s \in Servers PROVE (Deciding(s) => Holds(s))' /\ (At(s, "global") => tx[s].doomed = {})'
    <3>1. CASE s = p
      BY <1>3, <3>1 DEF At
    <3>2. CASE s # p
      <4>1. tx'[s] = tx[s] /\ s # Free
        BY <1>3, <1>5, <3>2, QuotaAssumption
      <4>2. ASSUME Deciding(s)' PROVE Holds(s)'
        <5>1. Holds(s) /\ tx[s].client \in Clients
          BY <4>1, <4>2, ServerFacts DEF Deciding, At, Rest, HolderInv
        <5>2. globalLock' = s
          BY <4>1, <5>1 DEF Holds
        <5>3. clientLock[tx[s].client] = s => clientLock'[tx[s].client] = s
          BY <3>2, <4>1, <5>1
        <5> QED
          BY <1>1, <4>1, <5>1, <5>2, <5>3 DEF Holds, At, Restarted
      <4> QED
        BY <4>1, <4>2 DEF At, Rest, HolderInv
    <3> QED
      BY <3>1, <3>2
  <2> QED
    BY <2>1 DEF HolderInv
<1>9. RemovalInv'
  <2>1. ASSUME NEW q \in Purgers, At(q, "purged")', NEW c \in tx'[q].doomed
        PROVE  clientLock'[c] = q /\ (c \in DOMAIN clients' => clients'[c].expires <= tx'[q].at)
    <3>1. CASE q = p
      BY <1>1, <1>3, <2>1, <3>1 DEF At
    <3>2. CASE q # p
      <4>1. tx'[q] = tx[q] /\ q # Free
        BY <1>3, <1>5, <3>2, QuotaAssumption
      <4>2. c \in Clients
        BY <1>6, <2>1 DEF SharedTypes, Idle, Removing, At
      <4>3. clientLock[c] = q /\ (c \in DOMAIN clients => clients[c].expires <= tx[q].at)
        BY <2>1, <4>1 DEF Rest, RemovalInv, At
      <4> QED
        BY <1>1, <3>2, <4>1, <4>2, <4>3
    <3> QED
      BY <3>1, <3>2
  <2> QED
    BY <2>1 DEF RemovalInv
<1> QED
  BY <1>6, <1>7, <1>8, <1>9 DEF Rest

\* A transaction that ends without deciding: rolled back, or of maintenance.
LEMMA EndRest ==
    ASSUME Rest, NEW p \in Conns, Release(p), tx' = [tx EXCEPT ![p] = Idle],
           UNCHANGED <<now, budget, globalRow, unseen>>,
           DOMAIN clients' \subseteq DOMAIN clients, \A c \in DOMAIN clients' : clients'[c] = clients[c]
    PROVE  Rest'
<1>1. /\ now' = now /\ globalRow' = globalRow /\ granted' = granted /\ spent' = spent
      /\ answer' = answer /\ unseen' = unseen
      /\ globalLock' = IF globalLock = p THEN Free ELSE globalLock
      /\ clientLock' = [c \in Clients |-> IF clientLock[c] = p THEN Free ELSE clientLock[c]]
  BY DEF budget, Release
<1>2. Row(GlobalLimit)' = Row(GlobalLimit) /\ Row(ClientLimit)' = Row(ClientLimit) /\ Consuming' = Consuming /\ Removing' = Removing
  BY <1>1 DEF Row, Consuming, Removing
<1>3. /\ tx'[p] = Idle /\ \A s \in Conns : s # p => tx'[s] = tx[s]
      /\ tx' \in [Conns -> {Idle} \cup Consuming \cup Removing]
  BY DEF Rest, SharedTypes
<1>4. Servers \subseteq Conns /\ Purgers \subseteq Conns
  BY DEF Conns
<1>5. SharedTypes'
  <2>1. \A s \in Servers : tx'[s] \in {Idle} \cup Consuming
    BY <1>3, <1>4 DEF Rest, SharedTypes
  <2>2. \A q \in Purgers : tx'[q] \in {Idle} \cup Removing
    BY <1>3, <1>4 DEF Rest, SharedTypes
  <2>3. DOMAIN clients' \subseteq Clients /\ \A c \in DOMAIN clients' : clients'[c] \in Row(ClientLimit)
    BY DEF Rest, SharedTypes
  <2> QED
    BY <1>1, <1>2, <1>3, <2>1, <2>2, <2>3 DEF Rest, SharedTypes
<1>6. LocksHeld'
  BY <1>1, <1>3, <1>4 DEF Rest, LocksHeld, At
<1>7. HolderInv'
  <2>1. ASSUME NEW s \in Servers PROVE (Deciding(s) => Holds(s))' /\ (At(s, "global") => tx[s].doomed = {})'
    <3>1. CASE s = p
      BY <1>3, <3>1 DEF Deciding, At, Idle
    <3>2. CASE s # p
      <4>1. tx'[s] = tx[s]
        BY <1>3, <1>4, <3>2
      <4>2. ASSUME Deciding(s)' PROVE Holds(s)'
        <5>1. Holds(s) /\ tx[s].client \in Clients
          BY <4>1, <4>2, ServerFacts DEF Deciding, At, Rest, HolderInv
        <5>2. globalLock' = s
          BY <1>1, <3>2, <5>1 DEF Holds
        <5>3. clientLock[tx[s].client] = s => clientLock'[tx[s].client] = s
          BY <1>1, <3>2, <5>1
        <5> QED
          BY <1>1, <4>1, <5>1, <5>2, <5>3 DEF Holds, At, Restarted
      <4> QED
        BY <4>1, <4>2 DEF At, Rest, HolderInv
    <3> QED
      BY <3>1, <3>2
  <2> QED
    BY <2>1 DEF HolderInv
<1>8. RemovalInv'
  <2>1. ASSUME NEW q \in Purgers, At(q, "purged")', NEW c \in tx'[q].doomed
        PROVE  clientLock'[c] = q /\ (c \in DOMAIN clients' => clients'[c].expires <= tx'[q].at)
    <3>1. tx'[q] = tx[q] /\ q # p
      BY <1>3, <1>4, <2>1 DEF At, Idle
    <3>2. c \in Clients
      BY <1>5, <2>1 DEF SharedTypes, Idle, Removing, At
    <3>3. clientLock[c] = q /\ (c \in DOMAIN clients => clients[c].expires <= tx[q].at)
      BY <2>1, <3>1 DEF Rest, RemovalInv, At
    <3> QED
      BY <1>1, <3>1, <3>2, <3>3
  <2> QED
    BY <2>1 DEF RemovalInv
<1> QED
  BY <1>5, <1>6, <1>7, <1>8 DEF Rest

\* While no row is written and the clock stands, the counts are as they were.
LEMMA QuietCounts ==
    ASSUME SharedInv, UNCHANGED <<now, budget, rows, unseen>>, Rest'
    PROVE  SharedInv'
<1>1. /\ now' = now /\ globalRow' = globalRow /\ clients' = clients /\ granted' = granted /\ spent' = spent
      /\ answer' = answer /\ unseen' = unseen
  BY DEF budget, rows
<1>2. GlobalInv'
  BY <1>1 DEF SharedInv, GlobalInv
<1>3. ClientsInv'
  BY <1>1 DEF SharedInv, ClientsInv, Seen, Counted
<1>4. RefusedWhenSpent'
  BY <1>1 DEF SharedInv, RefusedWhenSpent
<1> QED
  BY <1>2, <1>3, <1>4 DEF SharedInv

\* The holder moves on: it holds what it held, and what its place asks for.
LEMMA HolderMoves ==
    ASSUME SharedInv, NEW p \in Servers, Deciding(p), UNCHANGED <<now, budget, rows, unseen, globalLock>>,
           NEW pc \in {"cleanup", "delete", "budget", "insert", "client", "decide", "missing"},
           NEW doomed \in SUBSET Clients, tx' = [tx EXCEPT ![p] = [tx[p] EXCEPT !.pc = pc, !.doomed = doomed]],
           \A c \in doomed \cap DOMAIN clients : clients[c].expires <= tx[p].at,
           pc \in {"insert", "client", "decide", "missing"} => Restarted(p, globalRow).hits < GlobalLimit,
           pc = "decide" => clientLock'[tx[p].client] = p,
           clientLock' \in [Clients -> Conns \cup {Free}],
           \A c \in Clients : clientLock'[c] = clientLock[c] \/ (clientLock[c] \in {Free, p} /\ clientLock'[c] = p)
    PROVE  SharedInv'
<1> DEFINE x == [tx[p] EXCEPT !.pc = pc, !.doomed = doomed]
<1>1. Rest /\ SharedTypes /\ ~At(p, "idle") /\ Holds(p)
  BY DEF SharedInv, Rest, HolderInv, Deciding
<1>2. /\ x \in Consuming /\ x.pc = pc /\ x.at = tx[p].at /\ x.doomed = doomed /\ x.client = tx[p].client
      /\ p \in Conns /\ DOMAIN tx = Conns /\ p \notin Purgers
  <2>1. tx[p] \in Consuming
    BY <1>1, ServerFacts
  <2> QED
    BY <1>1, <2>1, QuotaAssumption DEF Consuming, Conns, SharedTypes
<1> HIDE DEF x
<1>3. tx' = [tx EXCEPT ![p] = x] /\ tx'[p] = x
  BY <1>2 DEF x
<1>4. globalRow' = globalRow /\ clients' = clients
  BY DEF rows
<1>5. Holds(p)'
  BY <1>1, <1>2, <1>3, <1>4 DEF Holds, At, Restarted
<1>6. Rest'
  <2>1. p \in Servers => (Deciding(p) => Holds(p))' /\ (x.pc = "global" => x.doomed = {})
    BY <1>2, <1>5
  <2> QED
    BY <1>1, <1>2, <1>3, <2>1, StatementRest
<1> QED
  BY <1>6, QuietCounts

LEMMA LockGlobalKeeps ==
    ASSUME SharedInv, NEW p \in Servers, LockGlobal(p), UNCHANGED unseen
    PROVE  SharedInv'
<1> DEFINE x == [tx[p] EXCEPT !.pc = "cleanup", !.at = now]
<1>1. Rest /\ SharedTypes /\ ~At(p, "idle") /\ tx[p].doomed = {} /\ now \in Nat
  BY DEF SharedInv, Rest, HolderInv, LockGlobal, At, SharedTypes
<1>2. /\ x \in Consuming /\ x.pc = "cleanup" /\ x.at = now /\ x.doomed = {} /\ x.client = tx[p].client
      /\ p \in Conns /\ DOMAIN tx = Conns /\ p \notin Purgers
  <2>1. tx[p] \in Consuming /\ now \in 0..now /\ "cleanup" # "idle"
    BY <1>1, ServerFacts
  <2>2. x \in Consuming /\ x.pc = "cleanup" /\ x.at = now /\ x.doomed = tx[p].doomed /\ x.client = tx[p].client
    BY <2>1 DEF Consuming
  <2>3. p \in Conns /\ DOMAIN tx = Conns /\ p \notin Purgers
    BY <1>1, QuotaAssumption DEF Conns, SharedTypes
  <2> QED
    BY <1>1, <2>2, <2>3
<1>3. tx' = [tx EXCEPT ![p] = x] /\ tx'[p] = x
  BY <1>2 DEF LockGlobal
<1> HIDE DEF x
<1>4. globalRow' = globalRow /\ clients' = clients /\ globalLock = Free /\ globalLock' = p /\ clientLock' = clientLock
      /\ UNCHANGED <<now, budget, rows, unseen>>
  BY DEF LockGlobal, rows
<1>5. /\ globalRow # NoRow => globalRow.expires <= EndOf(now)
      /\ \A c \in DOMAIN clients : clients[c].expires <= EndOf(now)
  <2>1. \A t \in 0..now : EndOf(t) <= EndOf(now)
    BY <1>1, EndsGrow
  <2>2. NoRow = NoRow /\ \A limit, row : row \in Row(limit) => row.expires <= EndOf(now)
    BY <2>1 DEF Row
  <2> QED
    BY <1>1, <2>2 DEF SharedTypes
<1>6. Holds(p)'
  BY <1>2, <1>3, <1>4, <1>5 DEF Holds, At
<1>7. Rest'
  <2>1. p \in Servers => (Deciding(p) => Holds(p))' /\ (x.pc = "global" => x.doomed = {})
    BY <1>2, <1>6
  <2>2. clientLock' \in [Clients -> Conns \cup {Free}]
    BY <1>4 DEF SharedInv, Rest, LocksHeld
  <2> QED
    BY <1>1, <1>2, <1>3, <1>4, <2>1, <2>2, StatementRest
<1> QED
  BY <1>4, <1>7, QuietCounts

\* The statements of the server that holds the global row.
LEMMA HolderKeeps ==
    ASSUME SharedInv, NEW p \in Servers, UNCHANGED unseen,
           Cleanup(p) \/ DeleteStale(p) \/ InsertClient(p) \/ LockClient(p)
    PROVE  SharedInv'
<1>1. /\ Deciding(p) /\ SharedTypes /\ LocksHeld /\ Holds(p) /\ p \in Conns
      /\ UNCHANGED <<now, budget, rows, unseen, globalLock>>
  BY DEF Deciding, SharedInv, Rest, HolderInv, Cleanup, DeleteStale, InsertClient, LockClient, At, Conns, locks
<1>2. PICK c \in Clients, t \in Nat : c = tx[p].client /\ t = tx[p].at
  BY <1>1, ServerFacts DEF Deciding
<1>3. tx[p] \in Consuming /\ tx[p].doomed \in SUBSET Clients /\ DOMAIN tx = Conns
      /\ [tx[p] EXCEPT !.doomed = tx[p].doomed] = tx[p]
  BY <1>1, ServerFacts DEF Deciding, SharedTypes, Consuming
<1>4. /\ clientLock \in [Clients -> Conns \cup {Free}]
      /\ \A d \in tx[p].doomed \cap DOMAIN clients : clients[d].expires <= t
  BY <1>1, <1>2 DEF LocksHeld, Holds
<1>5. ASSUME NEW pc \in {"cleanup", "delete", "budget", "insert", "client", "decide", "missing"}, Goto(p, pc)
      PROVE  tx' = [tx EXCEPT ![p] = [tx[p] EXCEPT !.pc = pc, !.doomed = tx[p].doomed]]
  <2>1. tx' = [tx EXCEPT ![p] = [tx[p] EXCEPT !.pc = pc]]
    BY <1>3, <1>5 DEF Goto
  <2>2. [tx[p] EXCEPT !.pc = pc, !.doomed = tx[p].doomed] = [tx[p] EXCEPT !.pc = pc]
    BY <1>3 DEF Consuming
  <2> QED
    BY <2>1, <2>2
<1>6. CASE Cleanup(p)
  <2>1. PICK S \in SUBSET Clients : Batch(S, Expired(p), CleanupLimit)
                                    /\ tx' = [tx EXCEPT ![p].pc = "delete", ![p].doomed = S]
    BY <1>6 DEF Cleanup
  <2>2. tx' = [tx EXCEPT ![p] = [tx[p] EXCEPT !.pc = "delete", !.doomed = S]]
    BY <1>3, <2>1
  <2>3. \A d \in S \cap DOMAIN clients : clients[d].expires <= t
    <3>1. \A d \in S : d \in DOMAIN clients /\ clients[d].expires <= t - Retention
      BY <1>2, <2>1 DEF Batch, Expired
    <3>2. \A d \in S : clients[d].expires \in Nat
      <4>1. \A u \in 0..now : EndOf(u) \in Nat
        BY <1>1, EndsGrow DEF SharedTypes
      <4> QED
        BY <1>1, <3>1, <4>1 DEF SharedTypes, Row
    <3> QED
      BY <1>2, <3>1, <3>2, BudgetAssumption
  <2>4. clientLock' = clientLock
    BY <1>6 DEF Cleanup, locks
  <2> QED
    BY <1>1, <1>2, <1>4, <2>2, <2>3, <2>4, HolderMoves
<1>7. CASE DeleteStale(p) /\ clientLock' = clientLock /\ Goto(p, "budget")
  BY <1>1, <1>2, <1>3, <1>4, <1>5, <1>7, HolderMoves
<1>8. CASE DeleteStale(p) /\ tx' = tx /\ \E d \in Clients : clientLock[d] = Free /\ clientLock' = [clientLock EXCEPT ![d] = p]
  <2>1. tx[p].pc = "delete" /\ [tx EXCEPT ![p] = [tx[p] EXCEPT !.pc = "delete", !.doomed = tx[p].doomed]] = tx
    <3>1. tx[p].pc = "delete"
      BY <1>8 DEF DeleteStale, At
    <3>2. [tx[p] EXCEPT !.pc = "delete", !.doomed = tx[p].doomed] = tx[p]
      BY <1>3, <3>1 DEF Consuming
    <3> QED
      BY <1>1, <3>1, <3>2 DEF SharedTypes
  <2>2. /\ clientLock' \in [Clients -> Conns \cup {Free}]
        /\ \A d \in Clients : clientLock'[d] = clientLock[d] \/ (clientLock[d] \in {Free, p} /\ clientLock'[d] = p)
    BY <1>1, <1>4, <1>8
  <2>3. PICK pc \in {"cleanup", "delete", "budget", "insert", "client", "decide", "missing"} : pc = "delete"
    OBVIOUS
  <2>4. tx' = [tx EXCEPT ![p] = [tx[p] EXCEPT !.pc = pc, !.doomed = tx[p].doomed]]
    BY <1>8, <2>1, <2>3
  <2>5. ~(pc \in {"insert", "client", "decide", "missing"}) /\ pc # "decide"
    BY <2>3
  <2> QED
    BY <1>1, <1>2, <1>3, <1>4, <2>2, <2>4, <2>5, HolderMoves
<1>9. CASE InsertClient(p)
  <2>1. /\ clientLock' \in [Clients -> Conns \cup {Free}]
        /\ \A d \in Clients : clientLock'[d] = clientLock[d] \/ (clientLock[d] \in {Free, p} /\ clientLock'[d] = p)
    BY <1>1, <1>2, <1>4, <1>9 DEF InsertClient
  <2>2. Restarted(p, globalRow).hits < GlobalLimit /\ Goto(p, "client")
    BY <1>1, <1>9 DEF InsertClient, Holds, At
  <2> QED
    BY <1>1, <1>2, <1>3, <1>4, <1>5, <2>1, <2>2, HolderMoves
<1>10. CASE LockClient(p)
  <2>1. /\ clientLock' \in [Clients -> Conns \cup {Free}] /\ clientLock'[c] = p
        /\ \A d \in Clients : clientLock'[d] = clientLock[d] \/ (clientLock[d] \in {Free, p} /\ clientLock'[d] = p)
    BY <1>1, <1>2, <1>4, <1>10 DEF LockClient
  <2>2. Restarted(p, globalRow).hits < GlobalLimit
    BY <1>1, <1>10 DEF LockClient, Holds, At
  <2>3. PICK pc \in {"missing", "decide"} : Goto(p, pc)
    BY <1>10 DEF LockClient
  <2> QED
    BY <1>1, <1>2, <1>3, <1>4, <1>5, <2>1, <2>2, <2>3, HolderMoves
<1>11. DeleteStale(p) => \/ clientLock' = clientLock /\ Goto(p, "budget")
                         \/ tx' = tx /\ \E d \in Clients : clientLock[d] = Free /\ clientLock' = [clientLock EXCEPT ![d] = p]
  BY <1>3 DEF DeleteStale
<1> QED
  BY <1>6, <1>7, <1>8, <1>9, <1>10, <1>11

\* A request that the global budget refuses, or that goes on.
LEMMA GlobalSpentKeeps ==
    ASSUME SharedInv, NEW p \in Servers, GlobalSpent(p), UNCHANGED unseen
    PROVE  SharedInv'
<1>1. Deciding(p) /\ tx[p].pc = "budget" /\ SharedTypes /\ LocksHeld /\ Holds(p)
  BY DEF Deciding, SharedInv, Rest, HolderInv, GlobalSpent, At
<1>2. PICK g : g = Restarted(p, globalRow)
  OBVIOUS
<1>3. g.hits \in Nat /\ GlobalLimit \in Nat
  <2>1. g \in Row(GlobalLimit)
    BY <1>1, <1>2, HolderKnows
  <2> QED
    BY <2>1, BudgetAssumption DEF Row
<1>4. CASE g.hits >= GlobalLimit
  <2>1. Commit(p, Restarted(p, globalRow), None) /\ Refuse(tx[p].client, WindowOf(tx[p].at))
    BY <1>2, <1>4 DEF GlobalSpent
  <2>2. DOMAIN None = {}
    BY DEF None
  <2>3. Restarted(p, globalRow).hits >= GlobalLimit
    BY <1>2, <1>4
  <2> QED
    BY <1>1, <2>1, <2>2, <2>3, RefusedKeeps
<1>5. CASE ~(g.hits >= GlobalLimit)
  <2>1. Goto(p, "insert") /\ UNCHANGED <<now, budget, rows, unseen, globalLock>> /\ clientLock' = clientLock
    BY <1>2, <1>5 DEF GlobalSpent, locks
  <2>2. PICK doomed \in SUBSET Clients : doomed = tx[p].doomed
    BY <1>1, ServerFacts DEF Deciding
  <2>3. PICK pc \in {"cleanup", "delete", "budget", "insert", "client", "decide", "missing"} : pc = "insert"
    OBVIOUS
  <2>4. tx' = [tx EXCEPT ![p] = [tx[p] EXCEPT !.pc = pc, !.doomed = doomed]]
    <3>1. tx[p] \in Consuming /\ DOMAIN tx = Conns
      BY <1>1, ServerFacts DEF Deciding, SharedTypes
    <3>2. tx' = [tx EXCEPT ![p] = [tx[p] EXCEPT !.pc = pc]]
      BY <2>1, <2>3, <3>1 DEF Goto
    <3>3. [tx[p] EXCEPT !.pc = pc, !.doomed = doomed] = [tx[p] EXCEPT !.pc = pc]
      BY <2>2, <3>1 DEF Consuming
    <3> QED
      BY <3>2, <3>3
  <2>5. \A c \in doomed \cap DOMAIN clients : clients[c].expires <= tx[p].at
    BY <1>1, <2>2 DEF Holds
  <2>6. pc \in {"insert", "client", "decide", "missing"} => Restarted(p, globalRow).hits < GlobalLimit
    BY <1>2, <1>3, <1>5
  <2>7. pc = "decide" => clientLock'[tx[p].client] = p
    BY <2>3
  <2>8. /\ clientLock' \in [Clients -> Conns \cup {Free}]
        /\ \A c \in Clients : clientLock'[c] = clientLock[c] \/ (clientLock[c] \in {Free, p} /\ clientLock'[c] = p)
    BY <1>1, <2>1 DEF LocksHeld
  <2>9. UNCHANGED <<now, budget, rows, unseen, globalLock>>
    BY <2>1
  <2> QED
    BY <1>1, <2>4, <2>5, <2>6, <2>7, <2>8, <2>9, HolderMoves
<1> QED
  BY <1>4, <1>5

\* A request whose client row was found.
LEMMA DecideKeeps ==
    ASSUME SharedInv, NEW p \in Servers, Decide(p), UNCHANGED unseen
    PROVE  SharedInv'
<1>1. /\ Deciding(p) /\ tx[p].pc = "decide" /\ SharedTypes
      /\ Restarted(p, globalRow).hits < GlobalLimit /\ clientLock[tx[p].client] = p
  BY DEF Deciding, SharedInv, Rest, HolderInv, Holds, Decide, At
<1>2. PICK c \in Clients : c = tx[p].client
  BY <1>1, ServerFacts DEF Deciding
<1>3. PICK row : row = Restarted(p, IF c \in Kept(p) THEN clients[c] ELSE NoRow)
  OBVIOUS
<1>4. row \in Row(ClientLimit) /\ row.expires = EndOf(tx[p].at) /\ row.hits \in Nat /\ ClientLimit \in Nat
  <2>1. row \in Row(ClientLimit) /\ row.expires = EndOf(tx[p].at)
    BY <1>1, <1>3, HolderKnowsClient
  <2> QED
    BY <2>1, BudgetAssumption DEF Row
<1>5. CASE row.hits >= ClientLimit
  <2>1. PICK own : own = [d \in {c} |-> row]
    OBVIOUS
  <2>2. Commit(p, Restarted(p, globalRow), own) /\ Refuse(tx[p].client, WindowOf(tx[p].at))
    BY <1>2, <1>3, <1>5, <2>1 DEF Decide
  <2>3. DOMAIN own \subseteq {tx[p].client}
    BY <1>2, <2>1
  <2>4. tx[p].client \in DOMAIN own =>
           /\ clientLock[tx[p].client] = p
           /\ own[tx[p].client] = Restarted(p, IF tx[p].client \in Kept(p) THEN clients[tx[p].client] ELSE NoRow)
    BY <1>1, <1>2, <1>3, <2>1
  <2>5. Restarted(p, IF tx[p].client \in Kept(p) THEN clients[tx[p].client] ELSE NoRow).hits >= ClientLimit
    BY <1>2, <1>3, <1>5
  <2> QED
    BY <1>1, <2>2, <2>3, <2>4, <2>5, RefusedKeeps
<1>6. CASE ~(row.hits >= ClientLimit)
  <2>1. PICK own : own = [d \in {c} |-> Charged(row)]
    OBVIOUS
  <2>2. Commit(p, Charged(Restarted(p, globalRow)), own) /\ Allow(tx[p].client, WindowOf(tx[p].at))
    BY <1>2, <1>3, <1>6, <2>1 DEF Decide
  <2>3. Charged(row) \in Row(ClientLimit) /\ Charged(row).expires = EndOf(tx[p].at) /\ Charged(row).hits = row.hits + 1
    BY <1>4, <1>6, ChargedFacts
  <2>4. PICK b \in {0, 1} : b = 0
    OBVIOUS
  <2>5. /\ unseen' \in ByClient
        /\ \A v \in Windows, d \in Clients :
              unseen'[v][d] = IF v = WindowOf(tx[p].at) /\ d = tx[p].client THEN unseen[v][d] + b ELSE unseen[v][d]
    <3>1. unseen \in ByClient /\ \A v \in Windows, d \in Clients : unseen[v][d] \in Nat
      BY <1>1 DEF SharedTypes, ByClient
    <3> QED
      BY <2>4, <3>1
  <2>6. DOMAIN own \subseteq {tx[p].client} /\ tx[p].client \in DOMAIN own
    BY <1>2, <2>1
  <2>7. /\ own[tx[p].client] \in Row(ClientLimit) /\ own[tx[p].client].expires = EndOf(tx[p].at)
        /\ own[tx[p].client].hits
             = Restarted(p, IF tx[p].client \in Kept(p) THEN clients[tx[p].client] ELSE NoRow).hits + 1
    BY <1>2, <1>3, <2>1, <2>3
  <2> QED
    BY <1>1, <2>2, <2>4, <2>5, <2>6, <2>7, AllowedKeeps
<1> QED
  BY <1>5, <1>6

\* A request whose client row was deleted before it could be read.
LEMMA DecideMissingKeeps ==
    ASSUME SharedInv, NEW p \in Servers, DecideMissing(p)
    PROVE  SharedInv'
<1>1. /\ Deciding(p) /\ tx[p].pc = "missing" /\ SharedTypes /\ Restarted(p, globalRow).hits < GlobalLimit
      /\ tx[p].client \in Clients /\ WindowOf(tx[p].at) \in Windows
  BY ServerFacts DEF Deciding, SharedInv, Rest, HolderInv, Holds, DecideMissing, At
<1>2. /\ Commit(p, Charged(Restarted(p, globalRow)), None) /\ Allow(tx[p].client, WindowOf(tx[p].at))
      /\ DOMAIN None = {}
  BY DEF DecideMissing, None
<1>3. PICK b \in {0, 1} : b = 1
  OBVIOUS
<1>4. /\ unseen' \in ByClient
      /\ \A v \in Windows, d \in Clients :
            unseen'[v][d] = IF v = WindowOf(tx[p].at) /\ d = tx[p].client THEN unseen[v][d] + b ELSE unseen[v][d]
  <2>1. PICK c \in Clients, w \in Windows : c = tx[p].client /\ w = WindowOf(tx[p].at)
    BY <1>1
  <2>2. unseen' = [unseen EXCEPT ![w][c] = @ + 1] /\ unseen \in ByClient
    BY <1>1, <2>1 DEF DecideMissing, SharedTypes
  <2> QED
    BY <1>3, <2>1, <2>2 DEF ByClient
<1> QED
  BY <1>1, <1>2, <1>3, <1>4, AllowedKeeps

\* A transaction that starts, fails, or chooses what to remove.
LEMMA BeginKeeps ==
    ASSUME SharedInv, NEW p \in Servers, Begin(p), UNCHANGED unseen
    PROVE  SharedInv'
<1>1. PICK x : tx' = [tx EXCEPT ![p] = x] /\ \E c \in Clients : x = [pc |-> "global", client |-> c, at |-> now, doomed |-> {}]
  BY DEF Begin
<1>2. /\ Rest /\ p \in Conns /\ p \notin Purgers /\ UNCHANGED <<now, budget, rows, unseen>>
      /\ globalLock' = globalLock /\ clientLock' = clientLock /\ now \in 0..now /\ DOMAIN tx = Conns
      /\ clientLock \in [Clients -> Conns \cup {Free}]
  BY QuotaAssumption, BudgetAssumption DEF SharedInv, Rest, SharedTypes, LocksHeld, Conns, Begin, locks
<1>3. x \in Consuming /\ x.pc = "global" /\ x.doomed = {}
  BY <1>1, <1>2 DEF Consuming
<1>4. tx'[p] = x
  BY <1>1, <1>2
<1>5. p \in Servers => (Deciding(p) => Holds(p))' /\ (x.pc = "global" => x.doomed = {})
  BY <1>3, <1>4 DEF Deciding, At
<1>6. Rest'
  BY <1>1, <1>2, <1>3, <1>5, StatementRest
<1> QED
  BY <1>2, <1>6, QuietCounts

LEMMA PurgeKeeps ==
    ASSUME SharedInv, NEW q \in Purgers, PurgeBegin(q) \/ PurgeDelete(q), UNCHANGED unseen
    PROVE  SharedInv'
<1>1. /\ Rest /\ q \in Conns /\ q \notin Servers /\ UNCHANGED <<now, budget, rows, unseen>>
      /\ globalLock' = globalLock /\ now \in 0..now /\ now \in Nat /\ DOMAIN tx = Conns
      /\ clientLock \in [Clients -> Conns \cup {Free}] /\ SharedTypes
  BY QuotaAssumption, BudgetAssumption
     DEF SharedInv, Rest, SharedTypes, LocksHeld, Conns, PurgeBegin, PurgeDelete, locks
<1>2. CASE PurgeBegin(q)
  <2>1. PICK x : tx' = [tx EXCEPT ![q] = x] /\ x = [pc |-> "purge", at |-> now, doomed |-> {}]
    BY <1>2 DEF PurgeBegin
  <2>2. x \in Removing /\ x.pc # "purged" /\ clientLock' = clientLock
    BY <1>1, <1>2, <2>1 DEF Removing, PurgeBegin, locks
  <2>3. Rest'
    BY <1>1, <2>1, <2>2, StatementRest
  <2> QED
    BY <1>1, <2>3, QuietCounts
<1>3. CASE PurgeDelete(q)
  <2>1. PICK S \in SUBSET Clients :
           /\ Batch(S, {c \in Expired(q) : clientLock[c] = Free}, QuotaLimit)
           /\ clientLock' = [c \in Clients |-> IF c \in S THEN q ELSE clientLock[c]]
           /\ tx' = [tx EXCEPT ![q].pc = "purged", ![q].doomed = S]
    BY <1>3 DEF PurgeDelete
  <2>2. PICK x : x = [tx[q] EXCEPT !.pc = "purged", !.doomed = S]
    OBVIOUS
  <2>3. tx[q] \in Removing
    <3>1. tx[q] \in {Idle} \cup Removing
      BY <1>1 DEF SharedTypes
    <3>2. tx[q] # Idle
      BY <1>3 DEF PurgeDelete, At, Idle
    <3> QED
      BY <3>1, <3>2
  <2>4. x \in Removing /\ x.pc = "purged" /\ x.doomed = S /\ x.at = tx[q].at /\ x.at \in Nat
    <3>1. x \in Removing /\ x.pc = "purged" /\ x.doomed = S /\ x.at = tx[q].at
      BY <2>2, <2>3 DEF Removing
    <3>2. x.at \in 0..now
      BY <3>1 DEF Removing
    <3> QED
      BY <1>1, <3>1, <3>2
  <2>5. tx' = [tx EXCEPT ![q] = x]
    BY <1>1, <2>1, <2>2
  <2>6. \A c \in S : c \in DOMAIN clients /\ clients[c].expires <= x.at - Retention /\ clientLock[c] = Free
    BY <2>1, <2>4 DEF Batch, Expired
  <2>7. \A c \in S : clients[c].expires \in Nat
    <3>1. \A u \in 0..now : EndOf(u) \in Nat
      BY <1>1, EndsGrow
    <3> QED
      BY <1>1, <2>6, <3>1 DEF SharedTypes, Row
  <2>8. \A c \in S : clientLock'[c] = q /\ (c \in DOMAIN clients => clients[c].expires <= x.at)
    BY <2>1, <2>4, <2>6, <2>7, BudgetAssumption
  <2>9. /\ clientLock' \in [Clients -> Conns \cup {Free}]
        /\ \A c \in Clients : clientLock'[c] = clientLock[c] \/ (clientLock[c] \in {Free, q} /\ clientLock'[c] = q)
    BY <1>1, <2>1, <2>6
  <2>10. q \in Purgers /\ x.pc = "purged" =>
           \A c \in x.doomed : clientLock'[c] = q /\ (c \in DOMAIN clients => clients[c].expires <= x.at)
    BY <2>4, <2>8
  <2>11. Rest'
    BY <1>1, <2>4, <2>5, <2>9, <2>10, StatementRest
  <2> QED
    BY <1>1, <2>11, QuietCounts
<1> QED
  BY <1>2, <1>3

\* Maintenance removes nothing of the window that is running.
LEMMA PurgeCommitKeeps ==
    ASSUME SharedInv, NEW q \in Purgers, PurgeCommit(q), UNCHANGED unseen
    PROVE  SharedInv'
<1>1. /\ Rest /\ SharedTypes /\ q \in Conns /\ tx[q].pc = "purged" /\ GlobalInv /\ ClientsInv
      /\ Release(q) /\ tx' = [tx EXCEPT ![q] = Idle] /\ UNCHANGED <<now, budget, globalRow, unseen>>
      /\ clients' = [c \in Kept(q) |-> clients[c]]
  BY DEF SharedInv, Rest, PurgeCommit, At, Conns
<1>2. /\ now' = now /\ globalRow' = globalRow /\ granted' = granted /\ spent' = spent
      /\ answer' = answer /\ unseen' = unseen /\ now \in Nat
  BY <1>1, BudgetAssumption DEF budget, SharedTypes
<1>3. DOMAIN clients' = Kept(q) /\ Kept(q) \subseteq DOMAIN clients /\ \A c \in Kept(q) : clients'[c] = clients[c]
  BY <1>1 DEF Kept
<1>4. Rest'
  BY <1>1, <1>3, EndRest
<1>5. GlobalInv'
  BY <1>1, <1>2 DEF GlobalInv
<1>6. RefusedWhenSpent'
  BY <1>2 DEF SharedInv, RefusedWhenSpent
<1>7. ASSUME NEW c \in DOMAIN clients, c \notin Kept(q) PROVE clients[c].expires # EndOf(now)
  <2>1. c \in tx[q].doomed /\ tx[q] \in Removing
    BY <1>1, <1>7 DEF SharedTypes, Kept, Idle
  <2>2. clients[c].expires <= tx[q].at
    BY <1>1, <1>7, <2>1 DEF Rest, RemovalInv, At
  <2>3. PICK t : t = tx[q].at
    OBVIOUS
  <2>4. t \in Nat /\ t <= now
    BY <1>2, <2>1, <2>3 DEF Removing
  <2>5. EndOf(now) \in Nat /\ ~(EndOf(now) <= now)
    BY <1>2, EndsGrow
  <2> QED
    BY <1>2, <2>2, <2>3, <2>4, <2>5
<1>8. \A c \in Clients : Counted(c)' = Counted(c) /\ Seen(c)' = Seen(c)
  <2>1. EndOf(now)' = EndOf(now)
    BY <1>2
  <2> QED
    BY <1>2, <1>3, <1>7, <2>1 DEF Counted, Seen
<1>9. ClientsInv'
  BY <1>1, <1>2, <1>3, <1>8 DEF ClientsInv
<1> QED
  BY <1>4, <1>5, <1>6, <1>9 DEF SharedInv

\* A transaction that fails leaves no trace.
LEMMA FailKeeps ==
    ASSUME SharedInv, NEW p \in Conns, Fail(p), UNCHANGED unseen
    PROVE  SharedInv'
<1>1. /\ Rest /\ Release(p) /\ tx' = [tx EXCEPT ![p] = Idle] /\ UNCHANGED <<now, budget, rows, unseen>>
      /\ UNCHANGED <<now, budget, globalRow, unseen>>
      /\ DOMAIN clients' \subseteq DOMAIN clients /\ \A c \in DOMAIN clients' : clients'[c] = clients[c]
  BY DEF SharedInv, Fail, rows
<1>2. Rest'
  BY <1>1, EndRest
<1> QED
  BY <1>1, <1>2, QuietCounts

\* The clock moves on; a new window starts with nothing allowed in it.
LEMMA TickKeeps ==
    ASSUME SharedInv, Tick, UNCHANGED <<budget, rows, locks, tx, unseen>>
    PROVE  SharedInv'
<1>1. /\ now \in Nat /\ now' = now + 1 /\ now' \in 0..MaxNow /\ now' \in Nat /\ 0..now \subseteq (0..now)'
      /\ globalRow' = globalRow /\ clients' = clients /\ granted' = granted /\ spent' = spent
      /\ answer' = answer /\ unseen' = unseen /\ tx' = tx /\ globalLock' = globalLock /\ clientLock' = clientLock
  BY BudgetAssumption DEF SharedInv, Rest, SharedTypes, Tick, budget, rows, locks
<1>2. \A limit \in Nat : Row(limit) \subseteq Row(limit)'
  BY <1>1 DEF Row
<1>3. Consuming \subseteq Consuming' /\ Removing \subseteq Removing'
  BY <1>1 DEF Consuming, Removing
<1>4. SharedTypes'
  <2>1. GlobalLimit \in Nat /\ ClientLimit \in Nat
    BY BudgetAssumption
  <2>2. globalRow' \in Row(GlobalLimit)' \cup {NoRow} /\ \A c \in DOMAIN clients' : clients'[c] \in Row(ClientLimit)'
    BY <1>1, <1>2, <2>1 DEF SharedInv, Rest, SharedTypes
  <2>3. /\ tx' \in [Conns -> {Idle} \cup Consuming' \cup Removing']
        /\ \A p \in Servers : tx'[p] \in {Idle} \cup Consuming'
        /\ \A q \in Purgers : tx'[q] \in {Idle} \cup Removing'
    BY <1>1, <1>3 DEF SharedInv, Rest, SharedTypes
  <2> QED
    BY <1>1, <2>2, <2>3 DEF SharedInv, Rest, SharedTypes
<1>5. LocksHeld' /\ HolderInv' /\ RemovalInv'
  BY <1>1 DEF SharedInv, Rest, LocksHeld, HolderInv, RemovalInv, Holds, Deciding, At, Restarted
<1>6. GlobalInv'
  BY <1>1 DEF SharedInv, GlobalInv
<1>7. RefusedWhenSpent'
  BY <1>1 DEF SharedInv, RefusedWhenSpent
<1>8. PICK t : t = now'
  OBVIOUS
<1>9. /\ t \in Nat /\ now <= t /\ WindowOf(t) \in Windows /\ WindowOf(now) \in Nat /\ WindowOf(t) \in Nat
      /\ WindowOf(now) <= WindowOf(t) /\ WindowOf(now) \in Windows /\ \A w \in Windows : w \in Nat
  <2>1. t \in Nat /\ now <= t /\ t <= MaxNow /\ MaxNow \in Nat
    BY <1>1, <1>8, BudgetAssumption
  <2>2. /\ WindowOf(t) \in Nat /\ WindowOf(now) \in Nat /\ WindowOf(MaxNow) \in Nat
        /\ WindowOf(now) <= WindowOf(t) /\ WindowOf(t) <= WindowOf(MaxNow)
    BY <1>1, <2>1, WindowBounds, WindowsGrow
  <2> QED
    BY <2>1, <2>2 DEF Windows
<1>10. SUFFICES ASSUME NEW c \in Clients
       PROVE  /\ \A w \in Windows : w > WindowOf(t) => granted[w][c] = 0 /\ unseen[w][c] = 0
              /\ Seen(c)' = Counted(c)'
              /\ c \in DOMAIN clients =>
                    \E s \in 0..t : clients[c].expires = EndOf(s) /\ clients[c].hits <= granted[WindowOf(s)][c]
  BY <1>1, <1>4, <1>5, <1>6, <1>7, <1>8 DEF SharedInv, Rest, ClientsInv
<1>11. /\ \A w \in Windows : w > WindowOf(now) => granted[w][c] = 0 /\ unseen[w][c] = 0
       /\ Seen(c) = Counted(c)
       /\ c \in DOMAIN clients =>
             \E s \in 0..now : clients[c].expires = EndOf(s) /\ clients[c].hits <= granted[WindowOf(s)][c]
  BY DEF SharedInv, ClientsInv
<1>12. \A w \in Windows : w > WindowOf(t) => granted[w][c] = 0 /\ unseen[w][c] = 0
  BY <1>9, <1>11
<1>13. c \in DOMAIN clients => \E s \in 0..t : clients[c].expires = EndOf(s) /\ clients[c].hits <= granted[WindowOf(s)][c]
  BY <1>1, <1>9, <1>11
<1>14. /\ Seen(c)' = granted[WindowOf(t)][c] - unseen[WindowOf(t)][c]
       /\ Counted(c)' = IF c \in DOMAIN clients /\ clients[c].expires = EndOf(t) THEN clients[c].hits ELSE 0
  BY <1>1, <1>8 DEF Seen, Counted
<1>15. CASE WindowOf(t) = WindowOf(now)
  <2>1. EndOf(t) = EndOf(now)
    BY <1>1, <1>9, <1>15, SameEnds
  <2> QED
    BY <1>11, <1>12, <1>13, <1>14, <1>15, <2>1 DEF Seen, Counted
<1>16. CASE WindowOf(t) # WindowOf(now)
  <2>1. WindowOf(t) > WindowOf(now)
    BY <1>9, <1>16
  <2>2. granted[WindowOf(t)][c] = 0 /\ unseen[WindowOf(t)][c] = 0
    BY <1>9, <1>11, <2>1
  <2>3. ASSUME c \in DOMAIN clients PROVE clients[c].expires # EndOf(t)
    <3>1. PICK s \in 0..now : clients[c].expires = EndOf(s)
      BY <1>11, <2>3
    <3>2. s \in Nat /\ s <= now
      BY <1>1, <3>1
    <3>3. WindowOf(s) <= WindowOf(now) /\ WindowOf(s) \in Nat
      BY <1>1, <3>2, WindowsGrow, WindowBounds
    <3>4. WindowOf(s) # WindowOf(t)
      BY <1>9, <2>1, <3>3
    <3> QED
      BY <1>9, <3>1, <3>2, <3>4, SameEnds
  <2> QED
    BY <1>12, <1>13, <1>14, <2>2, <2>3
<1> QED
  BY <1>15, <1>16

\* What is said of the transactions and the counters holds throughout.
THEOREM SharedInvariance == SharedSpec => []SharedInv
<1>1. SharedInit => SharedInv
  <2> SUFFICES ASSUME SharedInit PROVE SharedInv
    OBVIOUS
  <2>1. /\ now = 0 /\ granted = [w \in Windows |-> [c \in Clients |-> 0]] /\ spent = [w \in Windows |-> 0]
        /\ answer = NoRow /\ globalRow = NoRow /\ DOMAIN clients = {} /\ globalLock = Free
        /\ clientLock = [c \in Clients |-> Free] /\ tx = [p \in Conns |-> Idle]
        /\ unseen = [w \in Windows |-> [c \in Clients |-> 0]] /\ MaxNow \in Nat /\ GlobalLimit \in Nat
    BY BudgetAssumption DEF SharedInit, BudgetInit
  <2>2. WindowOf(now) \in Windows /\ Servers \subseteq Conns /\ Purgers \subseteq Conns
    <3>1. WindowOf(0) \in Nat /\ WindowOf(MaxNow) \in Nat /\ WindowOf(0) <= WindowOf(MaxNow)
      BY <2>1, WindowBounds, WindowsGrow
    <3> QED
      BY <2>1, <3>1 DEF Windows, Conns
  <2>3. Rest
    BY <2>1, <2>2 DEF Rest, SharedTypes, ByClient, LocksHeld, HolderInv, RemovalInv, Deciding, At, Idle
  <2>4. GlobalInv
    BY <2>1 DEF GlobalInv
  <2>5. ClientsInv
    <3>1. PICK v \in Windows : v = WindowOf(now)
      BY <2>2
    <3>2. \A w \in Windows, c \in Clients : granted[w][c] = 0 /\ unseen[w][c] = 0
      BY <2>1
    <3>3. \A c \in Clients : granted[v][c] - unseen[v][c] = 0
      BY <3>2
    <3>4. \A c \in Clients : Seen(c) = 0 /\ Counted(c) = 0
      BY <2>1, <3>1, <3>3 DEF Seen, Counted
    <3> QED
      BY <2>1, <3>2, <3>4 DEF ClientsInv
  <2> QED
    BY <2>1, <2>3, <2>4, <2>5 DEF SharedInv, RefusedWhenSpent
<1>2. SharedInv /\ [SharedNext]_sharedVars => SharedInv'
  <2> SUFFICES ASSUME SharedInv, [SharedNext]_sharedVars PROVE SharedInv'
    OBVIOUS
  <2>1. ASSUME NEW p \in Conns, Statement(p) PROVE SharedInv'
    <3>1. CASE p \in Servers
      <4>1. Consumption(p)
        BY <2>1, <3>1 DEF Statement
      <4> QED
        BY <3>1, <4>1, LockGlobalKeeps, HolderKeeps, GlobalSpentKeeps, DecideKeeps, DecideMissingKeeps DEF Consumption
    <3>2. CASE p \notin Servers
      BY <2>1, <3>2, PurgeKeeps, PurgeCommitKeeps DEF Statement, Purging, Conns
    <3> QED
      BY <3>1, <3>2
  <2>2. CASE Tick /\ UNCHANGED <<budget, rows, locks, tx>> /\ UNCHANGED unseen
    BY <2>2, TickKeeps
  <2>3. CASE UNCHANGED sharedVars
    <3>1. /\ now' = now /\ granted' = granted /\ spent' = spent /\ answer' = answer /\ globalRow' = globalRow
          /\ clients' = clients /\ globalLock' = globalLock /\ clientLock' = clientLock /\ tx' = tx /\ unseen' = unseen
      BY <2>3 DEF sharedVars, budget, rows, locks
    <3>2. Rest'
      BY <3>1 DEF SharedInv, Rest, SharedTypes, ByClient, Row, Consuming, Removing, LocksHeld, HolderInv, RemovalInv,
                  Holds, Deciding, At, Restarted
    <3>3. UNCHANGED <<now, budget, rows, unseen>>
      BY <3>1 DEF budget, rows
    <3> QED
      BY <3>2, <3>3, QuietCounts
  <2> QED
    BY <2>1, <2>2, <2>3, BeginKeeps, PurgeKeeps, FailKeeps DEF SharedNext
<1> QED
  BY <1>1, <1>2, PTL DEF SharedSpec

\* Both budgets of the window that is running are kept and counted, across
\* servers, failures and maintenance, for all clients together and for each.
THEOREM SharedBudgets == SharedSpec => []BudgetsKept
<1>1. SharedInv => BudgetsKept
  <2> SUFFICES ASSUME SharedInv PROVE BudgetsKept
    OBVIOUS
  <2>1. /\ SharedTypes /\ LocksHeld /\ HolderInv /\ GlobalInv /\ ClientsInv /\ now \in Nat
        /\ GlobalLimit \in Nat /\ ClientLimit \in Nat /\ EndOf(now) \in Nat
    BY BudgetAssumption, EndsGrow DEF SharedInv, Rest, SharedTypes
  <2>2. \A s \in 0..now : EndOf(s) > now => EndOf(s) = EndOf(now) /\ WindowOf(s) = WindowOf(now)
    <3> SUFFICES ASSUME NEW s \in 0..now, EndOf(s) > now
                 PROVE  EndOf(s) = EndOf(now) /\ WindowOf(s) = WindowOf(now)
      OBVIOUS
    <3>1. s \in Nat /\ s <= now
      BY <2>1
    <3>2. EndOf(s) \in Nat /\ EndOf(s) <= EndOf(now) /\ ~(EndOf(s) <= now)
      BY <2>1, <3>1, EndsGrow
    <3> QED
      BY <2>1, <3>1, <3>2, SameWindow
  <2>3. SharedTypeOK
    <3>1. \A p \in Servers : ~At(p, "idle") /\ ~At(p, "global") => globalLock = p
      BY <2>1 DEF HolderInv, Deciding, Holds
    <3>2. globalRow = NoRow \/ globalRow.hits \in 0..GlobalLimit
      BY <2>1 DEF SharedTypes, Row
    <3>3. DOMAIN clients \subseteq Clients /\ \A c \in DOMAIN clients : clients[c].hits \in 0..ClientLimit
      BY <2>1 DEF SharedTypes, Row
    <3> QED
      BY <2>1, <3>1, <3>2, <3>3 DEF SharedTypeOK, SharedTypes, LocksHeld
  <2>4. GlobalBudget
    BY <2>1, <2>2, <2>3 DEF GlobalBudget, GlobalInv
  <2>5. ClientCounts
    <3> SUFFICES ASSUME NEW c \in Clients
                 PROVE  /\ Seen(c) <= ClientLimit
                        /\ c \in DOMAIN clients /\ clients[c].expires > now => clients[c].hits = Seen(c)
      BY DEF ClientCounts, Seen
    <3>1. Seen(c) = Counted(c)
      BY <2>1 DEF ClientsInv
    <3>2. Counted(c) \in 0..ClientLimit
      BY <2>1 DEF Counted, SharedTypes, Row
    <3>3. c \in DOMAIN clients /\ clients[c].expires > now => clients[c].expires = EndOf(now)
      BY <2>1, <2>2 DEF ClientsInv
    <3> QED
      BY <2>1, <3>1, <3>2, <3>3 DEF Counted
  <2> QED
    BY <2>4, <2>5 DEF BudgetsKept
<1> QED
  BY <1>1, SharedInvariance, PTL

\* A request is refused only when one of its two budgets was spent, however late
\* its transaction read the clock and whatever others failed.
THEOREM SharedRefusals == SharedSpec => []RefusedWhenSpent
<1>1. SharedInv => RefusedWhenSpent
  BY DEF SharedInv
<1> QED
  BY <1>1, SharedInvariance, PTL

-----------------------------------------------------------------------------
(* Nobody waits in a circle.                                                   *)

\* A request that queues on the global row holds nothing.
QueueInv == \A p \in Servers : At(p, "global") => globalLock # p /\ \A c \in Clients : clientLock[c] # p

\* A step of p gives no row to anybody else.
LEMMA QueueStep ==
    ASSUME SharedInv, QueueInv, NEW p \in Conns,
           \A q \in Conns \ {p} : tx'[q] = tx[q],
           globalLock' \in {globalLock, Free, p},
           \A c \in Clients : clientLock'[c] \in {clientLock[c], Free, p},
           p \in Servers /\ At(p, "global")' => globalLock' # p /\ \A c \in Clients : clientLock'[c] # p
    PROVE  QueueInv'
<1> SUFFICES ASSUME NEW q \in Servers, At(q, "global")'
             PROVE  globalLock' # q /\ \A c \in Clients : clientLock'[c] # q
  BY DEF QueueInv
<1>1. q # Free /\ q \in Conns
  BY QuotaAssumption DEF Conns
<1>2. CASE q # p
  BY <1>1, <1>2 DEF QueueInv, At
<1> QED
  BY <1>2

LEMMA QueueFacts ==
    ASSUME SharedInv
    PROVE  /\ DOMAIN tx = Conns /\ clientLock \in [Clients -> Conns \cup {Free}]
           /\ \A p \in Servers : tx[p] \in {Idle} \cup Consuming
           /\ \A p \in Conns : tx[p] \in {Idle} \cup Consuming \cup Removing
           /\ \A p \in Servers : ~At(p, "idle") => tx[p].client \in Clients
           /\ \A p \in Conns : At(p, "idle") => globalLock # p /\ \A c \in Clients : clientLock[c] # p
<1>1. SharedTypes /\ LocksHeld
  BY DEF SharedInv, Rest
<1>2. Free \notin Conns
  BY QuotaAssumption DEF Conns
<1> QED
  BY <1>1, <1>2, ServerFacts DEF SharedTypes, LocksHeld

\* What a transaction does when it ends.
LEMMA QueueEnd ==
    ASSUME SharedInv, QueueInv, NEW p \in Conns, Release(p), tx' = [tx EXCEPT ![p] = Idle]
    PROVE  QueueInv'
<1>1. ~At(p, "global")' /\ \A q \in Conns \ {p} : tx'[q] = tx[q]
  BY QueueFacts DEF At, Idle
<1>2. globalLock' \in {globalLock, Free, p} /\ \A c \in Clients : clientLock'[c] \in {clientLock[c], Free, p}
  BY DEF Release
<1> QED
  BY <1>1, <1>2, QueueStep

\* A statement that is not the last.
LEMMA QueueOn ==
    ASSUME SharedInv, QueueInv, NEW p \in Conns, NEW t, t.pc # "global",
           tx' = [tx EXCEPT ![p] = t], globalLock' \in {globalLock, p},
           \A c \in Clients : clientLock'[c] \in {clientLock[c], p}
    PROVE  QueueInv'
<1>1. ~At(p, "global")' /\ \A q \in Conns \ {p} : tx'[q] = tx[q]
  BY QueueFacts DEF At
<1> QED
  BY <1>1, QueueStep

LEMMA QueueGoto ==
    ASSUME SharedInv, QueueInv, NEW p \in Conns, ~At(p, "idle"), NEW pc, pc # "global",
           Goto(p, pc), globalLock' \in {globalLock, p},
           \A c \in Clients : clientLock'[c] \in {clientLock[c], p}
    PROVE  QueueInv'
<1> DEFINE t == [tx[p] EXCEPT !.pc = pc]
<1>1. tx' = [tx EXCEPT ![p] = t] /\ t.pc = pc
  BY QueueFacts DEF Goto, Consuming, Removing, At, Idle
<1> HIDE DEF t
<1> QED
  BY <1>1, QueueOn

LEMMA QueueConsumes ==
    ASSUME SharedInv, QueueInv, NEW p \in Servers, Consumption(p)
    PROVE  QueueInv'
<1>0. p \in Conns /\ \A c \in Clients : clientLock[c] \in Conns \cup {Free}
  BY QueueFacts DEF Conns
<1>1. CASE LockGlobal(p)
  <2> DEFINE t == [tx[p] EXCEPT !.pc = "cleanup", !.at = now]
  <2>1. /\ tx' = [tx EXCEPT ![p] = t] /\ t.pc = "cleanup"
        /\ globalLock' = p /\ clientLock' = clientLock
    <3>1. tx[p] \in Consuming /\ DOMAIN tx = Conns
      BY <1>1, QueueFacts DEF LockGlobal, At, Idle
    <3>2. t.pc = "cleanup"
      BY <3>1 DEF Consuming
    <3> QED
      BY <1>0, <1>1, <3>1, <3>2 DEF LockGlobal
  <2> HIDE DEF t
  <2> QED
    BY <1>0, <2>1, QueueOn
<1>2. CASE Cleanup(p)
  <2>1. PICK S \in SUBSET Clients : tx' = [tx EXCEPT ![p].pc = "delete", ![p].doomed = S]
    BY <1>2 DEF Cleanup
  <2> DEFINE t == [tx[p] EXCEPT !.pc = "delete", !.doomed = S]
  <2>2. /\ tx' = [tx EXCEPT ![p] = t] /\ t.pc = "delete"
        /\ globalLock' = globalLock /\ clientLock' = clientLock
    <3>1. tx[p] \in Consuming /\ DOMAIN tx = Conns
      BY <1>2, QueueFacts DEF Cleanup, At, Idle
    <3>2. t.pc = "delete"
      BY <3>1 DEF Consuming
    <3> QED
      BY <1>0, <1>2, <2>1, <3>1, <3>2 DEF Cleanup, locks
  <2> HIDE DEF t
  <2> QED
    BY <1>0, <2>2, QueueOn
<1>3. CASE DeleteStale(p)
  <2>1. ~At(p, "idle") /\ ~At(p, "global") /\ globalLock' = globalLock
    BY <1>3 DEF DeleteStale, At
  <2>2. CASE Goto(p, "budget") /\ UNCHANGED clientLock
    <3>1. clientLock' = clientLock /\ \A c \in Clients : clientLock'[c] \in {clientLock[c], p}
      BY <2>2
    <3> QED
      BY <1>0, <2>1, <2>2, <3>1, QueueGoto
  <2>3. ASSUME NEW c \in Clients, clientLock' = [clientLock EXCEPT ![c] = p], UNCHANGED tx
        PROVE  QueueInv'
    <3>1. \A d \in Clients : clientLock'[d] \in {clientLock[d], p}
      BY <2>3, QueueFacts
    <3>2. ~At(p, "global")' /\ tx' = tx
      BY <2>1, <2>3 DEF At
    <3> QED
      BY <1>0, <2>1, <3>1, <3>2, QueueStep
  <2>4. DOMAIN clients \subseteq Clients
    BY DEF SharedInv, Rest, SharedTypes
  <2> QED
    BY <1>3, <2>2, <2>3, <2>4 DEF DeleteStale
<1>4. CASE GlobalSpent(p)
  <2>1. ~At(p, "idle")
    BY <1>4 DEF GlobalSpent, At
  <2>2. CASE Goto(p, "insert") /\ UNCHANGED <<now, budget, rows, locks>>
    <3>1. globalLock' = globalLock /\ \A c \in Clients : clientLock'[c] \in {clientLock[c], p}
      BY <2>2 DEF locks
    <3> QED
      BY <1>0, <2>1, <2>2, <3>1, QueueGoto
  <2> QED
    BY <1>0, <1>4, <2>2, QueueEnd DEF GlobalSpent, Commit
<1>5. CASE InsertClient(p)
  <2>1. ~At(p, "idle") /\ globalLock' = globalLock /\ Goto(p, "client")
    BY <1>5 DEF InsertClient, At
  <2>2. \A c \in Clients : clientLock'[c] \in {clientLock[c], p}
    BY <1>5, QueueFacts DEF InsertClient
  <2> QED
    BY <1>0, <2>1, <2>2, QueueGoto
<1>6. CASE LockClient(p)
  <2>1. PICK pc \in {"missing", "decide"} : Goto(p, pc)
    BY <1>6 DEF LockClient
  <2>2. ~At(p, "idle") /\ globalLock' = globalLock
    BY <1>6 DEF LockClient, At
  <2>3. \A c \in Clients : clientLock'[c] \in {clientLock[c], p}
    BY <1>6, QueueFacts DEF LockClient
  <2> QED
    BY <1>0, <2>1, <2>2, <2>3, QueueGoto
<1>7. CASE Decide(p) \/ DecideMissing(p)
  BY <1>0, <1>7, QueueEnd DEF Decide, DecideMissing, Commit
<1> QED
  BY <1>1, <1>2, <1>3, <1>4, <1>5, <1>6, <1>7 DEF Consumption

LEMMA QueuePurges ==
    ASSUME SharedInv, QueueInv, NEW q \in Purgers, Purging(q) \/ PurgeBegin(q)
    PROVE  QueueInv'
<1>0. q \in Conns /\ q \notin Servers
  BY QuotaAssumption DEF Conns
<1>1. CASE PurgeDelete(q)
  <2>1. PICK S \in SUBSET Clients :
           /\ clientLock' = [c \in Clients |-> IF c \in S THEN q ELSE clientLock[c]]
           /\ tx' = [tx EXCEPT ![q].pc = "purged", ![q].doomed = S]
    BY <1>1 DEF PurgeDelete
  <2>2. \A r \in Conns \ {q} : tx'[r] = tx[r]
    BY <2>1, QueueFacts
  <2>3. globalLock' = globalLock
    BY <1>1 DEF PurgeDelete
  <2> QED
    BY <1>0, <2>1, <2>2, <2>3, QueueStep
<1>2. CASE PurgeCommit(q)
  BY <1>0, <1>2, QueueEnd DEF PurgeCommit
<1>3. CASE PurgeBegin(q)
  <2>1. globalLock' = globalLock /\ clientLock' = clientLock /\ \A r \in Conns \ {q} : tx'[r] = tx[r]
    BY <1>3, QueueFacts DEF PurgeBegin, locks
  <2> QED
    BY <1>0, <2>1, QueueStep
<1> QED
  BY <1>1, <1>2, <1>3 DEF Purging

LEMMA QueueNext == SharedInv /\ QueueInv /\ [SharedNext]_sharedVars => QueueInv'
<1> SUFFICES ASSUME SharedInv, QueueInv, [SharedNext]_sharedVars PROVE QueueInv'
  OBVIOUS
<1>1. CASE UNCHANGED <<locks, tx>>
  BY <1>1 DEF QueueInv, At, locks
<1>2. ASSUME NEW p \in Servers, Begin(p) PROVE QueueInv'
  <2>1. /\ globalLock' = globalLock /\ clientLock' = clientLock /\ \A r \in Conns \ {p} : tx'[r] = tx[r]
        /\ globalLock # p /\ \A c \in Clients : clientLock[c] # p
    BY <1>2, QueueFacts DEF Begin, locks, Conns
  <2> QED
    BY <2>1, QueueStep DEF Conns
<1>3. ASSUME NEW p \in Conns, Fail(p) PROVE QueueInv'
  BY <1>3, QueueEnd DEF Fail
<1>4. ASSUME NEW p \in Conns, Statement(p) PROVE QueueInv'
  BY <1>4, QueueConsumes, QueuePurges DEF Statement, Conns
<1> QED
  BY <1>1, <1>2, <1>3, <1>4, QueuePurges DEF SharedNext, sharedVars

\* Whoever waits for a client's row waits for maintenance, which waits for
\* nobody: past the global row there is only one request.
LEMMA SomeoneGoesOn == SharedInv /\ QueueInv => NoCircle
<1> SUFFICES ASSUME SharedInv, QueueInv, NEW b \in Conns, ~At(b, "idle"),
                    \A p \in Conns : ~At(p, "idle") => Waits(p)
             PROVE  FALSE
  BY DEF NoCircle
<1>1. SharedTypes /\ LocksHeld /\ HolderInv /\ Free \notin Conns
  BY QuotaAssumption DEF SharedInv, Rest, Conns
<1>2. \A p \in Conns : ~At(p, "idle") => p \in Servers
  <2> SUFFICES ASSUME NEW q \in Purgers, ~At(q, "idle") PROVE FALSE
    BY DEF Conns
  <2>1. tx[q] \in Removing
    BY <1>1 DEF SharedTypes, At, Idle
  <2>2. tx[q].pc \in {"purge", "purged"}
    BY <2>1 DEF Removing
  <2> QED
    BY <2>2 DEF Waits, At, Conns
<1>3. ASSUME NEW p \in Servers, ~At(p, "idle"), ~At(p, "global") PROVE FALSE
  <2>1. globalLock = p
    BY <1>1, <1>3 DEF HolderInv, Deciding, Holds
  <2>2. PICK c \in Clients : clientLock[c] # Free /\ clientLock[c] # p
    <3>1. tx[p].client \in Clients /\ DOMAIN clients \subseteq Clients /\ p \in Conns
      BY <1>1, <1>3, QueueFacts DEF SharedTypes, Conns
    <3> QED
      BY <1>3, <3>1 DEF Waits, At
  <2>3. PICK r \in Conns : r = clientLock[c] /\ ~At(r, "idle")
    BY <1>1, <2>2 DEF LocksHeld
  <2>4. r \in Servers /\ ~At(r, "global")
    BY <1>2, <2>3 DEF QueueInv
  <2>5. globalLock = r
    BY <1>1, <2>3, <2>4 DEF HolderInv, Deciding, Holds
  <2> QED
    BY <2>1, <2>2, <2>3, <2>5
<1>4. b \in Servers /\ At(b, "global") /\ globalLock # Free
  BY <1>2, <1>3 DEF Waits, At
<1>5. PICK r \in Servers : r = globalLock /\ ~At(r, "idle")
  BY <1>1, <1>4 DEF LocksHeld
<1> QED
  BY <1>3, <1>5 DEF QueueInv

\* However many requests and maintenance runs meet, one of them waits for nobody.
THEOREM SharedNeverCircles == SharedSpec => []NoCircle
<1>1. SharedInit => QueueInv
  BY DEF SharedInit, QueueInv, At, Idle, Conns
<1> QED
  BY SharedInvariance, <1>1, QueueNext, SomeoneGoesOn, PTL DEF SharedSpec

=============================================================================
