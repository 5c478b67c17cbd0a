# Grill With Me: verification project

TLA+ models of the parts of Grill With Me that keep state and can go wrong by
interleaving, failure or retry, and of the functions that decide what is
accepted; TLC configurations that check them on small instances; and TLAPS
proofs, for every value of the constants, of nearly all the safety properties
that the configurations check. Paths are relative to the
repository; every definition is translated from the code, and `PROJECT.json`
maps each one to its lines.

## The system

A host publishes a *room* (a validated `grill-room.json`) and gets a link (the
room key) and a *host token*. Members claim roles and install a *pack* of
prompts into their checkouts; the host republishes, and at the end a *contract*
is finalized in a checkout. A Next.js service keeps rooms in PostgreSQL
(Supabase), or in memory in development; a CLI and a web page are its clients.

| Component | State | Operations | What is hard | What makes it correct |
|---|---|---|---|---|
| Room store (`lib/store.ts`) | rooms by key, publications by capability hash | create (with or without a capability), get, claim, republish, delete, purge | expiry hides a room and keeps its key; replay after deletion or purge | one room per capability, stable credentials, no room returns, claims name declared roles |
| Room SQL functions (`supabase/migrations` 0001, 0002, 0004, 0005) | `rooms`, `publication_requests`, row locks | the same, each a transaction | waits for rows, the clock read after the wait, `ON DELETE SET NULL`, `SKIP LOCKED`, lock order | each commit is an operation of the store; no deadlock |
| Request quotas (`lib/rate-limit.ts`, 0003) | one global and many client counters per scope | consume, cleanup, purge | window ends, cleanup against maintenance, calls cut off after commit | both budgets kept, no request refused that they allow |
| Maintenance (`lib/maintenance.ts`, purge route) | the run's totals, one batch at a time | run, batch | concurrent runs, locked rows, limits, deadlines, late answers | the backlog hint is honest, the backlog drains |
| CLI publication (`cli/publication-recovery.mjs`, `cli/host-credentials.mjs`) | recovery record, credentials file, two temporaries | publish, `--recover`, `--new-publication`, republish, delete | several terminals, kills, late and lost answers | no publication silently replaced, recovery ends, credentials not exchanged |
| HTTP exchange (`cli/http.mjs`, `lib/browser-api.ts`, `lib/request-body.ts`, `lib/storage-failure.ts`) | none that outlives an exchange | one bounded exchange; one body read under a limit; one bounded call of the store | deadline, abort and last chunk together; outcome unknown | an answer reaches only who still waits for it, and none says what did not happen |
| Role page (`app/r/[key]/role-list.tsx`) | the claim under way and the one shown | claim | an earlier claim arrives after a later one | a claim shown as confirmed is not replaced by another of its page whose end is known |
| Browser publication (`app/publish-panel.tsx`, `lib/browser-publication.ts`) | session storage per tab, component state | load, publish, recover, discard | reload, duplicated tab, unreadable storage, late answers | no attempt forgotten unasked; the token shown is the attempt's |
| Contract finalization (`cli/contract-files.mjs`, `cli/contract-workflow.mjs`, `cli/contract-record.mjs`) | five artifacts, journal, lock, temporaries | finalize, retry, status; what is accepted as the next revision | kills between renames, competing finalizers, unlocked readers; amendments of many revisions ago | finalized revisions stay, interruptions are recoverable, status is a snapshot, no merge loses an amendment unasked |
| Pack installation (`cli/grill.mjs`, `cli/pack-install.mjs`, `cli/pack-files.mjs`) | pack files, receipt, `.gitignore`, temporaries | join, refresh, `--force`; validate a pack; splice `AGENTS.md` | interruption with an old receipt, edits, other rooms, another answer than asked for, a block in a file of the team's | edits kept, retry allowed, the receipt is the commit point, packs are whole |
| Merge gate, spec validation (`cli/merge-input.mjs`, `cli/merge-preflight.mjs`, `cli/spec-format.mjs`, `lib/schema.ts`) | none | two readers of `grill-room.json`, readers of specs and contracts | written twice, shipped separately; fences, comments and headings hide each other | the gate agrees with the service; neither an example nor a comment deceives a reader |
| API routes (`app/api`, `proxy.ts`) | none | limiter, body, validation, one store call | order of limiter and store; failures after commit | the store's and the limiter's properties |
| Rendering, pages, scripts, evaluations | none | text | - | - |

Interactions: routes call the limiter and then the store, each through one
database function; maintenance calls `purge_expired_data`, which touches the
tables of both; CLI and browser exchange HTTP requests with `POST /api/rooms`
and keep what they need for recovery in files or session storage. `join` asks the
service for a summary and a pack and tells it of a claim; the contract commands
share nothing with it. `contract-finalize` runs the gate on the checkout first.

## Modules

| Module | Models | Checked or proved by |
|---|---|---|
| `RoomData` | rows, capabilities, expiry and windows | used by the next six |
| `RoomService` | abstract store: what `RoomStore` promises, with neither ledger nor locks | `browser_publication`; `RoomServiceProofs` |
| `MemoryStore` | `class MemoryStore`, one action per method | `memory_store`; `MemoryStoreProofs` |
| `RoomTransactions` | the SQL functions statement by statement and the calls of `SupabaseStore` | `room_transactions`; `RoomTransactionsProofs` |
| `PublicationRecovery` | the CLI's publish composed with `RoomService` and a network | `publication_recovery`, `recovery_ends`; `PublicationRecoveryProofs` |
| `BrowserPublication` | the publish panel in several tabs, composed with `RoomService` | `browser_publication`; `BrowserPublicationProofs` |
| `RequestBudget` | abstract limiter: fixed windows, two budgets | `request_exchange`; used by the next three |
| `MemoryQuota` | `class MemoryRequestLimiter` | `request_exchange`; `RequestExchangeProofs` |
| `RequestExchange` | a claim from its sender through `MemoryQuota`, the body reader and the store, and back; the role page | `request_exchange`; `RequestExchangeProofs` |
| `QuotaTransactions` | `consume_request_quota` statement by statement, against maintenance | `quota_maintenance`, `quota_client`; `RequestExchangeProofs` |
| `Maintenance` | `purgeExpiredData`, its batches and its hint | `maintenance`; `RoomTransactionsProofs` |
| `ContractFinalize` | `contract-finalize` and `contract-status` | `contract_finalize`, `contract_killed`; `ContractFinalizeProofs` |
| `ContractRules` | what `planContract` accepts, over whole histories | `checkout`; `CheckoutProofs` |
| `PackInstall` | `join` from the summary to the claim, and refresh | `checkout`; `CheckoutProofs` |
| `PackFiles` | `validatePack` | `checkout`; `CheckoutProofs` |
| `AgentsFile` | how a pack's block gets into `AGENTS.md` | `checkout`; `CheckoutProofs` |
| `SpecDocument` | `validateSpec` and `agreementHashes`, line by line | `checkout`; `CheckoutProofs` |
| `MergeGate` | `grillRoomSchema`, `parseMergeInput`, `check-spec`, `preflightMerge` | `checkout`; `CheckoutProofs` |

The `MC*` modules give the constants their values. Definitions marked "Faulty"
are the plausible bugs that each property was tested against: with one of them
in place of the mapped definition, TLC finds the property violated.

### Correspondence with the code

*Rooms.* A host token is random and never reused, so an element of `Ids` names
both the token and the room minted with it. Keys are random too, but the code
plans for collisions, so `Keys` may be smaller than `Ids`. A payload stands for
a validated room file with its origin, what the two hashes of a publication
bind it to. `minted`, `publication` and `answered` are history: no guard of an
implementation reads them except to keep tokens fresh. A failure that changes
nothing (404, 403, 409, 410) is not a step of `MemoryStore`, and a rollback in
`RoomTransactions`.

An operation of `RoomService` takes effect at once, on the clock as it is, or rests
on a decision taken before: `Hold` (a room was live when a claim or republish of it
was decided), `Admit` (a capability was in its window) and `Locate` (the room of
a replay was live). A decision is a test of the clock as it is, serves one effect,
may be withdrawn, and until then nobody removes the room it is about. `MemoryStore`
decides and acts in one step and leaves no decision on record. In `RoomTransactions`
the decisions on record are those of the transactions that stand between the check
under the lock and the commit (`Held`, `Admitted`, `Located`), so a commit whose
check was left out, made before the wait, or made without the lock is no operation of
the service.

*Transactions.* A step of `RoomTransactions` or `QuotaTransactions` is a
statement or a wait for a row; `at` is the function's `clock_timestamp()`, read
where the function reads it. Writes appear at `Commit`. From PostgreSQL the
models take: one owner per row lock; a statement sees what was committed when
it began, and the newest version of a row it waited for; an insert waits for an
uncommitted write of its unique key; `ON DELETE SET NULL` locks the referencing
rows. A replay reads its room without a lock, as the function does. `Fail` is a
timeout, a cut connection or a restart at any statement.

*Publication.* One run of the CLI is the sequence `Start`, `Prepare`,
`CheckStorage`, `CreateTemporary`, `Compare`, `RenameRecord`, `CheckStorage`,
`Send`, `Serve`/`Reply`, `CheckStorage`, `CreateConfig`, `RenameConfig`. A
request outlives its sender (`Orphaned`) with `from = Nowhere`, which is how a
late commit and a lost answer arise. In the page, the steps between the parse
of the file and the request happen in one turn of the event loop and are one
action; reading a file is not. The routes that others call meanwhile are
`PostRoom`, `PostClaim`, `PostRepublish` and `DeleteRoom`: limiter and validation
refuse without a change, so what is left of a route is its one call of the store.
In a terminal, republish and delete send the saved token only for the room it is
bound to (`SavedToken`).

*Contract.* A revision is named by a hash chain over its parent, so its name is
the sequence of drafts that led to it. Files are read one at a time; a rename is
one step. The journal has three states: absent, `Torn` (created, not yet
written) and complete. A checkout may begin with prose, types and changes that no
revision recorded (`LegacySets`); the first revision may replace the types or preserve
them, and then they are those of every revision that preserves them.

What `planContract` accepts is `ContractRules`: a record says what every
agreement's text and the types hash to, and `Revise` appends an accepted
proposal to the history. The journal and the lock are in
`ContractFinalize`, where a plan is accepted or refused by its parent and its types only.

*Requests.* A post of `RequestExchange` has both its ends: what its client was
told, and where it is at the server (`sent`, `body`, `reading`, `storing`,
`done`). `Arrive` is the limiter and one `Request` of `MemoryQuota`; `Open` and
`Chunk` are what `readRequestText` does before and after an await, with
`BodyTimeout` and `Abort` its two listeners; the abort may come behind the chunk in
one turn, and then the reader that goes on sees it. `Store` may execute after
`StoreDeadline` has answered. `Told` is how a client reads a status: 503 leaves
the outcome open, the 4xx do not. The page (`Claim`, `Receive`) sends nothing
while an attempt is under way, and what it was told it does not know may
still reach the store.

*Pack.* `Ask` is the summary and the prompts; the files may be edited meanwhile.
`Join` is the answer of the second request, which may be any pack, the check that
it is the one asked for, and the plan. `Done` tells the team, if that works. A pack assigns contents to paths; `AGENTS.md` is a block inside a file
whose other text is `outside`. `Order` is the order of the plan: `.gitignore`
first, the receipt last. `VerifyLocal` is the check between them that Git ignores
`.grill-with-me/` and tracks none of it; what Git tracks may change at any time.

*Readers.* `SpecDocument`, `MergeGate`, `PackFiles` and `AgentsFile` are the
functions, each run by a small machine: a document is read line by line (`ReadLine`),
the files of a pack arrive one by one (`Fetch`), the block of one pack is spliced
into an `AGENTS.md` (`Splice`), and the three commands judge a checkout in any order
(`Publish`, `Check`, `Merge`). In every state the function is held against a second
definition of what it should do. A line of Markdown is a fence
delimiter (with its character, its length and whether text follows) or a text (with
where a comment begins or ends on it); `SpecDocument` follows the code's
state machine, and `Blocks` says the same of whole blocks: the beginnings that are
not inside a block begun by another of them. A JSON value is
its kind and, of a string, its length and form. `AGENTS.md` is a sequence of markers,
texts and breaks. In `MCCheckout` these parts, the installation and the history of
`ContractRules` stand side by side: they share no state, so in each behaviour one
of them moves (`part`).

*Maintenance.* A batch selects and locks the rows of each table in turn and
deletes at commit. `expired` is what had expired at its one clock reading; `older`
is the order of the expired rows by `expires_at`. Rows
that others hold, and may delete, stand for every other transaction: claims,
deletions, the cleanup of quotas and the batches of a second run.

## Runs

| Run | What it shows | Bounds |
|---|---|---|
| `memory_store` | the two maps implement `RoomService`, its tests of the clock included; references are live; nothing is forgotten inside its window; an expired row does not change | 2 capabilities, purge limit 1, clock to 4 |
| `room_transactions` | three connections create, replay, claim, republish, delete and purge: each commit is an operation of `RoomService`, decided under the lock before the room expired or the window closed; rows only evolve, from what is stored when they are written; the foreign key holds, no deadlock | one key (every create can collide), 2 rooms, 1 capability with 2 payloads, 2 attempts, clock to 2 |
| `publication_recovery` | two terminals in every mode, killed anywhere | 3 capabilities, 2 bodies, 2 rooms, clock to 1 |
| `recovery_ends` | a host who keeps recovering gets credentials, or the publication is over, also when rooms are republished and deleted in between | 1 terminal, 2 versions, clock to 2 |
| `browser_publication` | two tabs, reload, close, duplication, late answers, while others create, claim, republish and delete; with it, the invariants of the service itself: one room per key, one room per capability | 2 capabilities minted one after the other, 2 payloads (one drops a role), clock to 2 |
| `request_exchange` | the in-process limiter, under a role page and another client, implements `RequestBudget`; no answer says what did not happen; only whole bodies whose client was there reach the store; a confirmed claim is overtaken only by an attempt whose end was left open | limits 2 and 3, two windows of two ticks, two posts (at most one of another client), bodies of up to 2 chunks with a limit of 1 |
| `quota_maintenance` | two servers and maintenance, failing anywhere: the global budget and its count hold; so do the clients', but for requests whose row was deleted under them; nothing that is left is refused; no deadlock | limits 2 and 3, cleanup limit 1, three windows |
| `quota_client` | **violated**: maintenance lets one client exceed its budget | see findings |
| `maintenance` | `needsAnotherRun` hides nothing, no row of another transaction is taken, every expired row left alone is deleted | 1 worker, 4 rows that keep expiring, one row per batch and table, 2 batches, one row held or deleted by others |
| `contract_finalize` | two terminals finalize, ask for the status, fail and are killed: finalized revisions stay, a status names a revision that was in place while it read, a written journal is completed by retries | 2 revisions, 2 drafts (one preserves the types, and may be the first), from nothing or from a contract that nobody recorded, proposals of either draft first and then of the other, 1 fault |
| `contract_killed` | **violated**: a kill before the journal is written | see findings |
| `checkout` | a member's checkout: joins of two versions, two roles and two rooms, with edits, other answers, failures and kills; and the six functions that decide over its files | 4 packs, 1 edit; packs of up to 4 files for a product of 3; `AGENTS.md` of up to 4 pieces and downloads of up to 3; documents of up to 5 of 10 and 11 lines, two headings or agreements; rooms with any one value unusual, at each limit and one beyond; histories of up to 4 revisions of one agreement, 2 texts |

The type invariant of a module is a run's own property in `memory_store` and a
named conjunct of the first invariant in the others (`TypeOK` of
`ReferencesLive`, `OwnTemporary`, `CountersCount`, `BudgetsKept`, `Recoverable`,
`RetryAllowed`, `AttemptKept` and `HintSound`).

The bounds are chosen so that the interesting orders occur. Room lifetime,
publication window and clock skew are 30 days, 24 hours and 5 minutes in the
code; in the configurations they are 1 or 2 ticks, with the lifetime not longer
than the window, so that a room may expire before its publication and after it
(the proofs assume nothing about which is longer). Two or three actors are
enough for the races of pairs that the code guards against, and one more to
come between them. Limits of batches and attempts are 1 or 2, so that every
limit is reached. Five lines are enough for a heading, a fence or comment
that is closed or not, and a heading in or behind it; four revisions for an
amendment, two merges and what comes between. `MaxNow`, `MaxVersion`, `MaxRevisions`, `MaxFaults`,
`Made`, `MaxBusy`, `MaxFiles`, `MaxLines`, `MaxPieces` and `Posts` are bounds of the models. Symmetry is used only in runs without liveness and
over sets no definition orders. Deadlock is checked in every run: where a system
may stop, a stuttering action or an idle actor that can start again keeps it
from being one.

### Fairness

Safety is checked without fairness. `recovery_ends` assumes a host who keeps
running `publish --recover` and clears leftovers, and that no step fails every
single time. `contract_finalize` assumes that commands run to their end, that the host
clears leftovers and keeps retrying, and that not every attempt finds the lock
taken; faults are bounded. `maintenance` assumes the daily cron of `vercel.json`, and that neither
every run is stopped before its first batch nor every batch rolled back at one
statement. A row that other transactions hold again and again is exempt:
`skip locked` promises nothing about it.

## Findings

1. `quota_client`: `consume_request_quota` leaves an existing stale client row
   alone at its insert (0003:59-60) and locks it at 61-62. If maintenance
   deletes the row in between (possible only when more than 128 stale rows kept
   the cleanup at 48-53 from it), the record is null, every comparison with it
   fails, and the request is allowed and charged to the global row only.
   `doc/2026-10-02-shared-abuse-quotas.md` promises a fixed budget per client
   and that both counters are incremented. `quota_maintenance` shows that this is
   the only way past a client's limit in the running window (`ClientCounts`, a part of `BudgetsKept`; a
   transaction that stalls for the hour of retention could exceed a past one), and that the global
   budget is not affected.
2. `contract_killed`: a finalizer killed between creating the journal
   (`cli/contract-files.mjs:122`) and writing it (129) leaves an empty journal.
   Every retry refuses it, although no artifact has changed.
   `doc/contract-revisions.md:122-125` tells the host to remove the lock and
   temporaries only, and never the journal. `Recoverable` shows that nothing is
   lost; `RetryEnds` that a complete journal is always completed.

## Proofs

Proved with TLAPS for all values of the constants that satisfy the module's named
assumption. Those on windows, limits, bounds and cardinalities say that they are
numbers, and which must be positive (`DataAssumption`, `BudgetAssumption`,
`ExchangeAssumption`, `MaintenanceAssumption`, `PackAssumption`); the others that a value
standing for nothing is none of the things it is compared with, and that two kinds of
actor differ (`TransactionAssumption`, `QuotaAssumption`, `RecoveryAssumption`,
`PageAssumption`, `FinalizeAssumption`), that ignore rules and receipt are not among
the files of a pack (`InstallAssumption`), that markers and breaks of `AGENTS.md` differ and
packs bring files (`AgentsAssumption`), that values are of their kind and specs
lie in a folder that can be listed (`GateAssumption`), and that the required headings
differ and a text that stands for none is no heading (`DocumentAssumption`). `ContractRules` needs none.

Each theorem `Spec => []Inv` follows from an inductive invariant that the module
defines first. What makes it inductive is the argument:

**The service** (`RoomServiceProofs`): `ServiceTyped`, `ServiceRoomsSound`,
`ServiceOneRoom`, `ServiceEvolves`. `OneRoomPerCapability` is not inductive: a replay
answers with what the row says now. `IInv` adds `AnswersMatch`, that a stored room's
row has the key that was answered, with the types (which keep tokens fresh) and
`RoomsSound`. The module also states once what the operators on rows preserve.

**The development store** (`MemoryStoreProofs`): `StoreTyped`, `StorePointersLive`,
`StoreRemembers`, `StoreFreezes`; and `StoreImplementsService`: every step of the two
maps is a step of `RoomService` under the mapping that turns the map by keys into a
table by tokens. The mapping is a function only because an entry is filed under its
own key, tokens are unique and the ledger agrees with the history, which the
invariant adds. `StoreKeepsPromises` carries over what is proved of the service.

**The SQL functions** (`RoomTransactionsProofs`): `TransactionsKeepReferences` and
`TransactionsImplementService`. A transaction works on what it read earlier, so its
commit is an operation of the service only if that is still so, and if what the clock
has to do with was decided while the lock was held. The invariant says,
for each statement it may be at, what it holds and what it has found out (`Progress`):
it holds the room it will write (`HoldsRoom`), the rooms and references it will remove
(`HoldsDoomed`), the ledger row of its capability (`HoldsCapability`), the unique
key and the token of the room it will store (`HoldsKey`, `Apart`). `LedgerTrue` and
`RoomsDated` relate the tables to the history and the clock. `Frame` is the lemma that
makes it work for any number of transactions: a step that leaves what a transaction
holds leaves what that transaction knows. Then only commits change the tables. A check under a lock maps to the decision it
takes (`CheckRefines`, `RecheckRefines`, `ReadRoomRefines`), a commit to the operation of
its function, which uses the decision up (`CommitEnds`), a rollback to its withdrawal
(`WithdrawRefines`), and every other step to a stutter. Each decision is of one
transaction (`DecidedAlone`), so what ends one leaves the others on record.
`TransactionsKeepPromises` and `TransactionsEvolve` carry over what is
proved of the service, as for the development store: the two stores promise the same.
`TransactionsNeverCircle`: suppose all that run wait (`Waits`). A removal that waits for
a reference waits for a replay, because a reference is to one room, which only one
removal holds; and a replay with a reference takes no row more, so it cannot be waiting
for one (the row of a first publication refers to no room yet). Then nobody waits for a unique key, for whoever has it would wait for a reference;
so nobody holds a reference, nor a room, that the others could wait for. `AllPlaced`
says before which statements which rows are held.

**The limiters** (`RequestExchangeProofs`). `LimiterCounts` and
`LimiterImplementsBudget` are of the one in process: nothing is charged yet to a
window that has not begun (`Future`), and a counter that has not expired ends with the
open window, so a purge changes nothing that is still read. `SharedBudgets` and
`SharedRefusals` are of the one in PostgreSQL, for any number of servers and of
maintenance runs: only the holder of the global row decides, it read the clock after
it got the row (`HolderInv`), so no counter is of a later window than its decision;
what maintenance deletes had expired when it was locked (`RemovalInv`); and a counter
holds what its window granted, except the requests that found their client's row
deleted (`GlobalInv`, `ClientsInv`), which is finding 1. `SharedNeverCircles`: who
queues on the global row holds nothing (`QueueInv`), and maintenance, which skips
locked rows, waits for nobody.

**The exchange** (`RequestExchangeProofs`): `TruthfulAnswers`, `ConfirmedClaimStands`,
`ExchangeKeepsBudgets`, for any number of posts. `PostSound` says, for each place a
post may be at, what is known of its body and its operation, and that a client was
told what the status says. `PageSound` is the order of the page's attempts: only the
last has no end, the last one confirmed is shown, and no confirmed attempt is the
record when a later one of the page was executed. Most steps move one post and neither
confirm nor execute anything (`QuietStep`). To the limiter an exchange is a sequence
of requests, so what is proved of `MemoryQuota` carries over.

**Publication from a terminal** (`PublicationRecoveryProofs`): `RecoveryOwnTemporary`,
`RecoveryKeepsRecord`, `RecoveryKeepsCredentials`, for any number of runs in one
checkout. Each temporary has at most one run that will rename it, and holds what that
run wrote (`TemporariesOwned`); a run between its comparison and its rename has either
the record it compared with or a temporary nobody else could create; what was sent or
has created a room is on record. Credentials are always an answer of the service
(`CredentialsGiven`), so that they are not exchanged needs `ServiceOneRoom`: the
proof extends that of the service. `RecoveryUsesService` says that it applies.

**Publication from a page** (`BrowserPublicationProofs`): `PageKeepsAttempts`,
`PageShowsOwn`, for any number of tabs. A page's attempt is its tab's storage; a page
that believes nothing is saved has nothing stored, also after a reload or a
duplication; no result is shown while a file is read or a request is out; every request
under way and every room created belongs to an attempt that is saved or was
discarded. `PageUsesService` and `PageServicePromises` as above.

**Maintenance** (`RoomTransactionsProofs`): `HintTrue`, for any number of workers, rows
and limits. A batch holds what it will delete, so no two batches delete one row
(`Disjoint`); of each table it is past, it holds as many rows as the limit, or every
expired one it did not pass over. At commit a table that is not full was therefore
emptied. The order of expiry is not needed for it, but it is for `BacklogShortens`, the
part of `Drains` that is safety: what a batch takes of a table had expired before
whatever it could have taken and leaves (`OldestFirst`, `QueueInv`). A row that stays
expired therefore never gets another one ahead of it, and each batch that finds it free
and leaves it deletes a full share of those that are: it outlasts no more of these
batches than there were shares ahead of it.

**The contract** (`ContractFinalizeProofs`): `FinalizedForGood`, `AlwaysRecoverable`,
`StatusTrue`. Only the holder of the lock changes anything, and nobody takes it from
a holder that still runs. Until the journal is complete the artifacts are those of the plan's beginning;
from then until it is removed each is old or new (`JournalInv`); a plan whose outputs
are all in place has produced the new revision's artifacts, those it preserved
included, because it preserves only what its acceptance compared (`Completed`). A
status is true because `STATE` is replaced last (`FirstIs`), read last, and
each watcher's readings are of one revision or betray themselves (`Watchful`).

**The checkout** (`CheckoutProofs`). Installation: `InstallationsRepeat`,
`InstallationsKeepEdits`, `ReceiptsCommit`, `LocalFilesIgnored`: what is yet to be
written is all that may differ from the pack, what decided the installation stays true
while it writes (`UnderwayInv`), a temporary is its run's, and an interruption
leaves each file old or new (`Repeatable`); receipt last and ignore rules first are lemmas
about the order of the plan. Packs: `AcceptedPacksWhole`, the number, the differing
names and their membership leave no pack but a whole one. History: `AmendmentsStand`,
for histories of any length. Gate: `GatesAgree`; the run varies one value of a room at
a time, the theorem covers every file. Its argument follows the nesting of the file
(`TextsAgree`, hours, lists, projects, roles, then `SpecsAgree`). Installed block:
`TeamTextStays`; a file with one block is what is above it, the block and what is under
it (`Parted`), and what the installation puts together is such a file again
(`PartsMake`). Readers: `SpecsReadRight`, `AgreementsReadRight`, for documents of any
length, whatever their lines, headings and ids. The invariant (`ReadInv`) has the places
a reader was at before each line (`Along`): the lists that the functions build have the
texts of the lines that are headings to someone at those places (`Reads`), and what is
hashed under an agreement is every line from its heading to the next edge. The rest is
that places and blocks agree: a reader is inside a block exactly between its ends
(`Inside`, `Covered`), so the beginnings met outside are the only set that `Blocks` can
choose (`BlocksAre`); and that a set of places has one order (`OneOrder`), so a list of
all the headings that never goes back is the required one (`FoundIs`). What would be an
induction over positions is an argument about the least counterexample (`LeastNumber`).

Only model-checked:

- `RecoveryEnds`, `RetryEnds`, `Drains`: liveness under fairness. Of `Drains`, that the
  batches shorten what is ahead of a row is proved (`BacklogShortens`); that batches go
  on committing, and that a row is let go of in the end, is not.
- `NoDeadlock` of `RoomTransactions` and of `QuotaTransactions`: that no transactions
  wait in a circle (`NoCircle`) is proved; that one which waits for nobody can take
  its next statement is `ENABLED`.
- The two violated properties, which are false.

## Not modelled

- Grants (0006), configuration, origins and headers (`proxy.ts`), authentication
  of maintenance, rendering and pages: no state, or none that interacts. Scripts,
  evaluations, skills and examples are not part of the running system.
- How a client reads the bytes of an answer: it is one step.
- `host`, which installs two files with the functions of `join` and no role;
  the ZIP download of the role page; `--dry-run`, explicit tokens and origins, the
  Git checks before a publish, the report of `contract-status` on a legacy contract.
- Of `planContract`: the approvals still pending, the hash by which an adoption
  acknowledges the legacy history (a proposal may be refused for any reason), and the
  snapshot of the sources; `contract-typecheck`, which runs the compiler.
- The file system: symlink checks, power loss after a rename, and edits by hand
  while a pack or a contract is being written (the commands compare before they
  write; what is edited between the comparison and the rename is lost, as in
  the code). Two joins at once in one checkout are left out.
- Clock readings of server and database are one clock, except the host's, which
  may be ahead (`Drift`).
- Answers that no client tells apart: the limiter's own failure (503, like the
  store's) and a malformed key (404) in `RequestExchange`. A `sessionStorage` that
  takes a write, or a removal, and then reads back something else is not in
  `BrowserPublication`; one that fails is.
- Warnings, and the wording of every error.

Two orders that the code does not enforce are listed as hazards and not as properties.
A run of publish answered before the host abandoned its publication with
`--new-publication` may save its credentials over the newer ones
(`cli/host-credentials.mjs:178` compares nothing; `publish --recover` brings them
back): `CredentialsStable` is about hosts who abandoned nothing. And a claim
that the page gave up on may reach the store after the next one
(`role-list.tsx:39`): `ClaimStands` exempts it, since the page says of it only that it failed.

## Plan

Done so far, in this order: `RoomService` and its proofs, `MemoryStore` and its
refinement proof, `RoomTransactions`, `PublicationRecovery`, the quotas,
`ContractFinalize`, `PackInstall`, `BrowserPublication`, `Maintenance`,
`RequestExchange`, the role that `join` asks for, and the functions over the
checkout's files.

Next, to model: two joins at once, and `host`; the memory limiter's
purge across scopes; pending approvals in `ContractFinalize`.

Next, to prove: what of `RecoveryEnds` and of `RetryEnds` is safety, as a measure that
each step of a run that is started again lowers (`BacklogShortens` is that of `Drains`).
