--------------------------- MODULE RequestExchange ---------------------------
(***************************************************************************)
(* A claim of a role on its way from a client to the store and back: the    *)
(* limiter, the body read under a size limit and a deadline               *)
(* (readRequestText), the store under another (storageRequest), the answer, *)
(* and a client that may stop waiting at any time (browserJson, fetchJson). *)
(* One client is a role page, which sends one claim at a time and shows the *)
(* last one confirmed; the others post anything.                            *)
(*                                                                          *)
(* A deadline may pass whenever its timer runs.  What arrives, is noticed   *)
(* and is decided in one turn of the event loop is one step.                *)
(***************************************************************************)
EXTENDS MemoryQuota, Sequences

CONSTANTS
    Posts,      \* the posts in the order they are sent: 1..n
    Page,       \* the client that is a role page
    Bodies,     \* what a client may send
    Whole,      \* the body of a well-formed claim
    NoBody,     \* a body that was cancelled, or need not be kept
    Limit       \* MAX_CLAIM_JSON_BYTES, in chunks

ASSUME ExchangeAssumption ==
    /\ Page \in Clients /\ Whole \in Bodies /\ Limit \in Nat
    /\ Bodies \subseteq [declared : Nat, chunks : Nat, readable : BOOLEAN, valid : BOOLEAN]

VARIABLES
    posts,      \* the posts sent, each with both its ends
    record,     \* the post whose claim the store holds; 0 at first
    page        \* the post of the page's last attempt, and the claim it shows

exchange == <<posts, record, page>>
all      == <<vars, exchange>>
Sent     == DOMAIN posts

ExchangeInit == /\ Init
                /\ posts = <<>>
                /\ record = 0
                /\ page = [attempt |-> 0, shown |-> 0]

\* Where the request is at the server, what of its body arrived, when the
\* server noticed that its client had gone, what became of the operation, the
\* answer, and what the client was told.
Post(c, body) == [client |-> c, body |-> body, server |-> "sent", got |-> 0, cut |-> "no",
                  op |-> "none", status |-> 0, gone |-> FALSE, told |-> "waiting"]

Set(i, p)         == posts' = [posts EXCEPT ![i] = p]
Answered(p, code) == [p EXCEPT !.server = "done", !.status = code]
Rejected(p, code) == [Answered(p, code) EXCEPT !.body = NoBody, !.got = 0, !.cut = "no"]
Noticed(p)        == [p EXCEPT !.cut = "cut"]

-----------------------------------------------------------------------------
\* The clients.
Send(c, body) == /\ Len(posts) < Cardinality(Posts)
                 /\ posts' = Append(posts, Post(c, body))

\* Faulty: nothing keeps a second claim back while the first is under way.
Unhurried == TRUE

\* claim: nothing is sent while an attempt is under way.
MayClaim == page.attempt \in Sent => posts[page.attempt].told # "waiting"

Claim == /\ MayClaim
         /\ Send(Page, Whole)
         /\ page' = [page EXCEPT !.attempt = Len(posts) + 1]
         /\ UNCHANGED <<vars, record>>

\* Bound: one post of the others.
OtherPost == /\ \A i \in Sent : posts[i].client = Page
             /\ \E c \in Clients \ {Page}, body \in Bodies : Send(c, body)
             /\ UNCHANGED <<vars, record, page>>

\* What an answer says: done, not done, or that nobody knows.
Told(status) == CASE status = 200 -> "ok" [] status = 503 -> "unknown" [] OTHER -> "refused"

Receive(i) ==
    LET p == posts[i]
    IN  /\ p.server = "done" /\ p.told = "waiting"
        /\ Set(i, [p EXCEPT !.told = Told(p.status)])
        /\ page' = [page EXCEPT !.shown = IF p.client = Page /\ p.status = 200 THEN i ELSE @]
        /\ UNCHANGED <<vars, record>>

\* The deadline passes, the connection breaks or the answer is no answer: the
\* client knows that it does not know, and what it sent may still arrive.
GiveUp(i) == /\ posts[i].told = "waiting"
             /\ Set(i, [posts[i] EXCEPT !.told = "unknown", !.gone = TRUE])
             /\ UNCHANGED <<vars, record, page>>

-----------------------------------------------------------------------------
\* The route.  First the limiter ...
Arrive(i) ==
    LET p == posts[i]
    IN  /\ p.server = "sent"
        /\ Request(p.client)
        /\ Set(i, IF answer'.allowed THEN [p EXCEPT !.server = "body"] ELSE Rejected(p, 429))
        /\ UNCHANGED <<record, page>>

\* ... then readRequestText: what is known before anything is read ...
Opened(p) ==
    IF p.cut # "no"                  THEN Rejected(p, 400)
    ELSE IF p.body.declared > Limit  THEN Rejected(p, 413)
    ELSE IF p.body.chunks = 0        THEN Rejected(p, 400)
    ELSE [p EXCEPT !.server = "reading"]

Open(i) == posts[i].server = "body" /\ Set(i, Opened(posts[i])) /\ UNCHANGED <<vars, record, page>>

\* The whole body is parsed and goes to the store.
Parsed(p) == IF p.body.valid THEN [p EXCEPT !.server = "storing", !.op = "pending"] ELSE Rejected(p, 400)

\* Faulty: the signal is not looked at again once a chunk has come.
ReadOn(p) ==
    IF p.got = p.body.chunks                  THEN Parsed(p)
    ELSE IF p.got = Limit                     THEN Rejected(p, 413)
    ELSE IF ~p.body.readable                  THEN Rejected(p, 400)
    ELSE [p EXCEPT !.got = @ + 1]

\* ... and what the next chunk, or the end of the body, leads to.
Read(p) ==
    IF p.cut # "no"                           THEN Rejected(p, 400)
    ELSE IF p.got = p.body.chunks             THEN Parsed(p)
    ELSE IF p.got = Limit                     THEN Rejected(p, 413)
    ELSE IF ~p.body.readable                  THEN Rejected(p, 400)
    ELSE [p EXCEPT !.got = @ + 1]

\* The client's abort may come in the same turn, behind the chunk.
Chunk(i) ==
    /\ posts[i].server = "reading"
    /\ \/ Set(i, Read(posts[i]))
       \/ posts[i].gone /\ Set(i, Read(Noticed(posts[i])))
    /\ UNCHANGED <<vars, record, page>>

BodyTimeout(i) == /\ posts[i].server = "reading"
                  /\ Set(i, Rejected(posts[i], 408))
                  /\ UNCHANGED <<vars, record, page>>

\* The abort alone ends the reading; before, it is noticed when the body is
\* opened; after it, by nobody.
Abort(i) ==
    LET p == posts[i]
    IN  /\ p.gone /\ p.cut = "no"
        /\ p.server \in {"sent", "body", "reading"}
        /\ Set(i, IF p.server = "reading" THEN Rejected(Noticed(p), 400) ELSE Noticed(p))
        /\ UNCHANGED <<vars, record, page>>

\* The store executes the operation, finds no such role, or breaks: at any time,
\* also when nobody waits for it any more.
Store(i) ==
    /\ posts[i].op = "pending"
    /\ \/ Set(i, [posts[i] EXCEPT !.op = "done"]) /\ record' = i
       \/ \E op \in {"missing", "dropped"} : Set(i, [posts[i] EXCEPT !.op = op]) /\ UNCHANGED record
    /\ UNCHANGED <<vars, page>>

\* Faulty: a deadline of the store is answered as a refusal.
StatusAtOnce(op) == CASE op = "done" -> 200 [] OTHER -> 404

\* What the operation's end is answered with.
StatusOf(op) == CASE op = "done" -> 200 [] op = "missing" -> 404 [] OTHER -> 503

Return(i) ==
    LET p == posts[i]
    IN  /\ p.server = "storing" /\ p.op # "pending"
        /\ Set(i, Answered(p, StatusOf(p.op)))
        /\ UNCHANGED <<vars, record, page>>

\* storageRequest: the deadline passes, or the store's answer is lost.
StoreDeadline(i) ==
    LET p == posts[i]
    IN  /\ p.server = "storing"
        /\ Set(i, Answered(p, StatusOf("pending")))
        /\ UNCHANGED <<vars, record, page>>

Exchange(i) == \/ Receive(i) \/ GiveUp(i)
               \/ Arrive(i) \/ Open(i) \/ Chunk(i) \/ BodyTimeout(i) \/ Abort(i)
               \/ Store(i) \/ Return(i) \/ StoreDeadline(i)

ExchangeNext == \/ Next /\ UNCHANGED exchange
                \/ Claim \/ OtherPost
                \/ \E i \in Sent : Exchange(i)

ExchangeSpec == ExchangeInit /\ [][ExchangeNext]_all

-----------------------------------------------------------------------------
(* Nobody is told that a claim was recorded which was not, or that one was   *)
(* refused which was recorded or still will be; and nothing goes to the      *)
(* store but a whole, well-formed body within the limit whose client was     *)
(* there until its end, whatever the order of chunks, aborts and deadlines.  *)
AnswersTruthful ==
    \A i \in Sent :
        LET p == posts[i]
        IN  /\ p.told = "ok" => p.op = "done"
            /\ p.told = "refused" => p.op \in {"none", "missing"}
            /\ p.status \in {400, 408, 413, 429} => p.op = "none"
            /\ p.op # "none" =>
                  /\ p.body.readable /\ p.body.valid
                  /\ p.got = p.body.chunks /\ p.got <= Limit
                  /\ p.cut = "no"

(* The claim that a page shows as confirmed stands until somebody else's, or *)
(* one of its own attempts whose end it was told it does not know, replaces  *)
(* it: two confirmed claims of one page do not overtake each other.          *)
ClaimStands ==
    page.shown # 0 /\ record # page.shown =>
        \/ posts[record].client # Page
        \/ posts[record].told \in {"waiting", "unknown"}
=============================================================================
