# TLA+ specifications of F33D3R

These modules describe the parts of F33D3R in which several processes write one
piece of state. In the feed engine (Go): the outbox drain, the live lane with its capacity
governor, the audience of a broadcast, held messages, moderation and the registry of event
streams. In the Rust
brains: Manhattan's edge and name planes and its resolution cache, and the wallet of
Ain Soph. TLC checks them on small instances; TLAPS proves the most important
invariants for every value of the constants. `PROJECT.json` lists the components,
the runs, the hazards, the findings, the theorems, and for every definition the
source lines it stands for. Paths below are relative to the repository root.

## 1. The system

F33D3R is a set of services ("brains"): the largest, Nantar (`feed-engine/`), is one Go
server with a Postgres database, the others are mostly Rust over a database of
their own. Manhattan holds what they share: nodes, names, edges and associations. A
brain does not call Manhattan inside its own transactions. It commits a row to its own
`manhattan_outbox` table together with the change it is about, and a drain
delivers rows in batches. Reads go the other way, by HTTP, through a typed client;
resolutions of names are cached in each Manhattan replica and invalidated by
Postgres `LISTEN`/`NOTIFY`. Inside Nantar, state is split between rows, which most handlers
change one statement at a time, and registries in memory behind a mutex; handlers,
goroutines, periodic loops and the hooks of a media server all change both.

| Component | State | Operations | Interacts with | What is hard | What makes it correct |
|---|---|---|---|---|---|
| Nantar, live capacity and tickets (`feed-engine/internal/live`) | `live_streams` rows, governor leases, publish tickets, the reconcile loop's misses | authorize, ready, playable, not-ready, pressure; reconcile; scan, block, kick | media server, FA Live | hooks are late, lost and concurrent; a restart forgets every lease; ladders restart | capacity is promised once; ended streams stay ended; orphans and flagged streams end |
| Nantar, FA Live sessions (`internal/handler/live.go`) | presence, tally, shape and chat in memory; status and viewer count in the row | page, beat, chat, publish, sweep, end | browsers, live lane | goroutines publish what was read before; beats land after the end | nobody is counted after the end; surfaces come to show the row |
| Nantar, Gnosis messages (`internal/gnosis`, `internal/handler/messages.go`, `numbers.go`, `api_v1_*.go`) | held rows, conversations, messages; knocks at the authority | send to a person, send, seal, open or release by Number, accept, decline, block, sweep | Elohim Veni's contact gate | each handler is a dozen statements around a remote call; the two people race | no plaintext in a sealed conversation; nobody is reached who has not agreed; a held sentence is not lost |
| Nantar, moderation and media wall (`internal/handler/moderation.go`, `media_gate.go`) | `scan_state`, `is_blocked`, `is_nsfw`, scan results, the wall's memo | scan verdict, moderator's decision, report, resolve, rescue sweep, delete, serve | content scan, admin pages | state, flag and log are separate statements of many writers; the memo is stale | a decision somebody was told of stands; deleted and blocked media closes |
| Outbox drain (`feed-engine/internal/manhattan/drain.go`, the Rust crates `libs/manhattan-outbox*`) | `manhattan_outbox` rows: delivered, blocked, attempts, next attempt | enqueue, drain, settle, quarantine, put back | plane, session advisory lock, other replicas | crash between the plane's commit and ours, lost answers, lost lock session | delivered means landed; quarantine is earned; every row settles |
| Nantar, server-sent events and frequencies pages (`internal/handler`) | two registries of buckets of sessions, a numbered log per person | open, evict, close; publish to a person, an account, everybody; resume | browsers and apps, every handler that publishes | buckets die while being joined; a stream is registered before it is replayed to; publishers outlive sessions | no session is lost in a dead bucket, none is sent to once closed, a resumed stream neither misses nor repeats |
| Nantar, event bus (`internal/sitra`) | producer goroutines, consumer's duplicate filter | publish, consume | Kafka | order is lost, an event is marked seen before it is handled | an event is handled, in order, once |
| Manhattan, edge plane (`manhattan/src/db.rs`) | table `edges`, each row with the materialised root and depth of its chain | insert with re-rooting, delete, reads | advisory locks; called by `apply` and by handlers | edges arrive child before parent; writes of several statements; lock cycles | root and depth describe the chain, every write is atomic and ends |
| Manhattan, name plane (`main.rs`, `db.rs`, migration 0005) | tables `names` (with all history), `nodes`, `namespace_authorities` | create, bind, mint, reclaim, revoke | advisory name lock, partial unique indexes, row locks | a verdict about a retired name races the mint or revoke of it; quarantine against transaction start times | a name comes back only as its namespace allows; history is never rewritten |
| Manhattan, Numbers and addresses (`number.rs`, `addr.rs`) | rows of the name plane | draw, mint, pacing, cap | name plane | cap and pacing are counted outside the transaction | cap and rate hold, quarantine holds |
| Manhattan, resolution cache (`cache.rs`, migration 0009) | entries and eviction stamps per shard, a hearing flag, the listener | resolve, fill, evict, clear, listen | readers, triggers, the listener connection | fills race announcements; announcements are lost | a hearing cache serves nothing it could know to be stale |
| Manhattan, association plane and `apply` | tables `assocs`, counts; a walk over a batch of ops | upsert, delete, apply | outbox drains | a batch is walked after its caller gave up, and replayed | each op is idempotent, replays converge |
| Ain Soph, wallet (`ain-soph/src`) | `accounts`, `transactions`, `ledger_entries` | deposit, transfer, tip, withdraw | Manhattan for identity | retries, two debits of one balance, lock cycles through the fee account | balance equals ledger, a key is executed once, no overdraft |
| Ain Soph, governance and checkpoints | proposals, votes, block roots | propose, vote, checkpoint | wallet balances | weight read outside the vote's transaction | one vote per proposal, weight of one balance |
| Aethyr Ledger (`aethyr-ledger/src`) | events, blocks, funding rows, balances | fund, transfer, reward, burn, seal | rails, Ain Soph | five-statement sealer against concurrent mints; fund then mint | a block describes its events; funded means minted |
| Registrar (`registry-brain/src`) | handles, auctions, bids | claim, bid, settle | Manhattan | check then write without a transaction | the highest bid wins, once |
| Elohim Veni (`elohim-veni/src`) | lease policies, admissions, contact requests | admit, extend, sweep, decide | Manhattan's revoke, Gnosis | sweep reads, then revokes one by one | a live lease is not revoked |
| Auralis (`frequencies/src`) | frequency rows with a version, leases and presence in Redis, an outbox | create, start, join, leave, end, grace | event bus, Redis | lifecycle races host loss and grace timers | states only move forward; one live host |

The remaining components (the feed engine's pages and data access, other brains' clients, Zodacare,
content scan, Verity and eKYC, Themis, Herald, Caeor and transcoding, the read-mostly
catalogues, Abraxas Shield, Zior and AethyrRank, the schema registry, the crawler,
the cryptographic libraries, clients and documents, deployment) are listed in
`PROJECT.json` with the reason each is left out: single-statement writes, pure I/O,
numerics, or cryptography. Vovin (`aethyr-msg`) and Thessalon are named in the
repository's README and their code is not in it.

## 2. Modules

```
feed engine   LiveLane          LiveAudience    HeldMessages        Moderation        SseRegistry        OutboxDrain
  instance    MCLiveLane        MCLiveAudience  MCHeldMessages      MCModeration      MCSseRegistry      MCOutboxDrain
  proofs      AccountingProofs  HandlerProofs   HandlerProofs       ModerationProofs  SseRegistryProofs  ReplicationProofs

Rust brains   EdgeLocks        NameBinding        Wallet            ResolveCache
  implements  EdgePlacement    Registry           Bank
  instance    MCEdgeLocks,     MCNameBinding      MCWallet          MCResolveCache
              MCEdgePlacement
  proofs      EdgeLocksProofs, NameBindingProofs  AccountingProofs  ReplicationProofs
              EdgePlacementProofs
```

Three proof modules are about two components each: `AccountingProofs` about sums
(the wallet's books, the live lane's budgets), `ReplicationProofs` about what reaches a copy (the cache, the outbox),
`HandlerProofs` about handlers of many statements (messages, the audience). In each pair
one module calls its specification by a name of its own (`LaneSpec`, `CacheSpec`, `AudienceSpec`). `EdgeLocksProofs` instantiates
`EdgePlacementProofs`, so that what is proved of the abstract plane is a theorem of the transactions too.

Models of the Rust brains' transactions follow one convention: a connection runs
one transaction at a time; `pc` is the statement it is at; a statement is a step;
a read sees what has been committed (READ COMMITTED); statements that only their
own transaction can see are folded into its commit; a statement that waits for a
lock is an action whose guard is that nobody stands in its way; and `Lost`
ends any transaction at any statement.

The feed engine's handlers mostly have no transaction. In their models a request, a job, a task or
a visit is a record of where its handler is and of what it has read; every statement, every
remote call and every operation of a registry under its mutex is a step; what
a handler read earlier is used as it was read; and a statement may fail or the process
die between any two of them, within a bound.

### LiveLane (`feed-engine/internal/live`, `internal/db/live.go`)

`row` is `live_streams`, `lease` the governor's leases, `source` and `ladder` what the media
server carries. `CreateStream`, `MintPublishTicket` and `Authorize` are the way in; admission is `Reserve`;
`Ready` is the ready hook up to its plan, and `Plan` the plan, which is `PlanFor`: passthrough,
reuse of the rungs a ladder already had, and the shed loop over two currencies, cores and encoder sessions.
`Playable` and `Pressure` are the ladder's hooks, `PublisherLeaves` and `LadderExits` what the media server does, whose not-ready hook may be lost; the end of a
stream is `EndByAuthor`, or `EndStream` and `Release` in two steps. The reconcile loop is `ListLive`,
`CountMisses`, `EndOrphan`, `ReleaseOrphan`, `ListStale`, `Reconciled`; the moderation block is `FrameFlagged`, `Sweep`,
`SetStreamScanState`, `MarkBlocked`, `KickPublisher`. `Restart` loses every lease, ticket, miss and request. Cost
tables are constants, and a source is what the plan tells apart: height, frame rate, and whether it may be copied.

### LiveAudience (`feed-engine/internal/handler/live.go`)

One stream. `present` is the presence map with a viewer fresh, silent for longer than the TTL, or away. A
`visit` is the request of one surface, a `task` a goroutine: both carry the row as they read it. `OpenPage` and
`LoadPage` are the page, `Heartbeat` the beat with its three answers (`Wait`, `TellTheEnd`, `CountBeat`), `PushTally` and
`UpdateViewerCount` the two halves of `publishViewerCount`, `ReadState` and `PushState` the rendered
state, `Forget` the end's cleanup, `Sweep` the sweeper. A logged-out surface has no event stream
and learns everything from the answers to its beats; `screen` is what each surface shows.

### HeldMessages (`feed-engine/internal/gnosis`, `internal/handler`)

Two accounts. `held` is one row per sender, `convos` their conversations, `knock` the authority's contact
requests. A request is one of eight kinds of handler; each goes through the steps its code has: find a
conversation, hold the sentence, ask, record the decision, ensure and create a conversation,
deliver, drop the row, and on the way in again the block check, the insert and the clearing of the pair's
row. `Ask` takes any answer the authority may give, an error included. A
sentence is who wrote it and its number. `allowed` and `promised` are history variables: whom the authority
has let through, and which row was held when a knock was accepted.

### Moderation (`feed-engine/internal/handler/moderation.go`, `admin.go`, `media_gate.go`, `internal/db`)

One work. A task is a handler: a scan's verdict (`StoreScanResult` before the state), a moderator's
decision, a report, its resolution (`ReadReview`, `ReadAdvice`), or a request for media. `ReadState`, `SetScanState`,
`SetFlag`, `AppendLog` are `SetPostScanState`; `MarkNsfw` is the write outside it whose error nobody looks
at. `memo` is the wall's `ownerCache` entry, filled by `ReadOwner` and `PutOwner` in two steps and lost to `Expire`.
`told` is a history variable: the states somebody was told had been applied.

### SseRegistry (`feed-engine/internal/handler/sse_registry.go`, `api_v1_social.go`)

`registry` is the two maps, from accounts and from persons to buckets; `buckets` are the buckets by address, those torn
down included, since whoever has loaded one still holds it. `conn` is a connection with its session: `Load` and `Join` are the
two halves of a turn of `addToRegistry`, run for the account and then for the person; `Prune`, `Evict`, `Resume` and
`Read` follow, then `Leave` and the cleanup: `Find` and `Unjoin`, twice, and `Close`. `log` is a person's ring of
frames, whose last frame has the last number. A `job` is a goroutine that publishes: it takes a number, and then
visits buckets, loading each (`Visit`) before it takes the lock and pushes (`Push`). `client` is what a client would
send as its Last-Event-ID. A lapse, counted in `log`, is the loss of a log, by `Prune` or by `Restart`. `issued` is a
history variable: what was published to a person, as it was recorded.

### OutboxDrain (`feed-engine/internal/manhattan/drain.go`, `apply_ops` in `manhattan/src/main.rs`)

`queued`, `delivered`, `blocked`, `attempts` and `waiting` are the columns of the
table; `lock` is the session advisory lock; `drain[p]` is replica `p`'s `DrainOnce`.
`Start`, `ReadBatch`, `PlaneStep`, `Answer`, then `MarkDelivered`, `Refuse`, `Retry`,
`Quarantine`, `Hold` or `Skip` for each row in turn, `Release`. Each write of the
table is a step of its own and each can fail (`WriteFails`). The plane walks a
request one op at a time; a drain that times out or dies (`CallFails`, `Crash`) leaves
the request behind it and the plane goes on walking it (`orphans`, `OrphanStep`).
What an op does to the plane is abstracted to the verdict it is answered with.
`landed`, `answered`, `refused` and `lost` are history variables: what the plane has
said of each row, and whether a drain has lost its lock's session (`LoseSession`).
The module was first written from the Rust crate; the Go drain is the reference now.

### EdgePlacement and EdgeLocks (`manhattan/src/db.rs`)

`EdgePlacement` is the abstract specification: `insert_edge` and `delete_edge` are
single steps `Insert` and `Delete` on the set of rows. `Offers` is the place the
object's chain gives a child, `Reroot` the UPDATE that moves the subject's tree
below it. Which of the object's several outgoing edges is the parent is open: the
code takes the shallowest, but an edge that becomes the shallowest while an
insert is in flight does not displace what the insert has read. For the same
reason `Delete` refuses for a child placed in the tree of the edge that goes, and
not for every edge that points at its subject.

`EdgeLocks` has the code's statements: `LockSubject` (`lock_node`), the loop of
`lock_chain_root` (`ReadBefore`, `LockChain`, `ReadAfter`), the cycle and depth refusals
(`Measure`), the INSERT and UPDATE (`WriteEdge`), the loop of `delete_edge` (`ReadEdge`,
`LockRoot`), its count (`Count`) and its DELETE (`Remove`). Locks are exclusive on the
subject, shared on an insert's root, exclusive on a delete's root; their key is the node
alone, so edges of every predicate share it. `Deadlock` is Postgres's detector.
`Placement == INSTANCE EdgePlacement WITH edges <- Rooted` is the refinement, `Rooted`
the rows without their creation time, and `Atomic` the statement that every step of
`EdgeLocks` is a step of `EdgePlacement` or leaves its rows alone.

### NameBinding (`manhattan/src/main.rs`, `db.rs`, migration 0005)

`rows` is the `names` table with its retired rows, `nodes` the nodes with the identity
each resolves to. `Request` is what a handler reads on the pool before it begins its
transaction, `Begin` the beginning of those that read something there (NOW() is fixed
here), `LockName` the advisory lock on the name, `Verdict` `may_bind_name`, `FindPrimary` and
`Demote` the UPDATE that demotes the node's primary name, `Insert` the INSERT with its
two partial unique indexes, `Retire` the retiring UPDATE. `RowLocks` and `Untouched` are
Postgres's row locks. A namespace is one of three rules: a contact address is never
reissued, a handle is at once, a Number is held. Whether the caller has authority
over the namespace, how many Numbers it holds and how fast it mints are settled before
the transaction and are not in this module.

`Registry` is what the name plane promises: bindings and the nodes they name, and nothing of transactions. There a free name is
given to a node that exists (`Name`) or that is made with it (`Issue`), if the rule of its namespace allows it at that
moment (`Allowed`), displacing the node's primary name if it is to be that; or one live binding becomes past (`Retire`).
`Promised == INSTANCE Registry`, over the same two tables, and `ByTheRule` says that each step of `NameBinding` is a step of `Registry` or leaves them alone.

### ResolveCache (`manhattan/src/cache.rs`, migration 0009)

One shard and one replica. A binding is its version. A lookup notes the clock
(`Miss`), reads the database (`Read`), asks whether anybody is hearing (`AskHearing`) and,
in a later step, stores under the shard's mutex (`Fill`). `Evict` is what an announcement does,
stamp included. The listener's life is `Listen`, `ClearListening`, `StartHearing`, `Hear`,
`Lose`, then `Reconnect` and `ClearReconnected` (Ok(None)) or `GoDeaf` and `ClearDeaf`
(Err). An expired entry is a miss, and a lookup may miss at any time, so the TTL
needs no clock of its own. `cleared` is a history variable: the moment the stamps
were last emptied, by a flush, an overflowing shard or an overflow of stamps.

### Wallet (`ain-soph/src/handlers.rs`, `db.rs`, `models.rs`)

The four handlers share their shape: `Insert` claims the idempotency key and waits for
whoever else is writing it, `Ensure` creates each party's account, `LockBalance` is
`SELECT ... FOR UPDATE` and the refusal, `Debit` and `Credit` update balances in the
handlers' order (the payer, whoever is paid, the fee account), `Commit` makes them
visible with the transaction and its ledger entries. `delta` is what a transaction has
changed and not committed. A tip without a key is keyed by its own id.

`Bank` is what the wallet promises: accounts, and what has been carried out under which key. A request (`Deposit`, `Withdraw`,
`Pay`) is one step there, under a new key (`Settle`) and from money that is there. `Promised == INSTANCE Bank` maps the committed
transactions to what has been carried out, and `OneAtATime` says that each step of `Wallet` is a step of `Bank` or changes nothing of it.

## 3. Runs

All runs together take about fifteen minutes with two workers.

| Run | Instance | Question and answer |
|---|---|---|
| `live_lane` | two streams of two authors, two rungs, a source that may be copied and one too small to serve, fourteen cores, a card of two sessions, two hooks at once, three events | What was promised and what could still be shed is within the cores, and no encoder session is handed out twice (`WithinBudget`); a ladder that restarts keeps its rungs while nothing is over budget (`ReplanKeepsLadder`); ended streams stay ended (`EndedForGood`); capacity is given back only after the row is closed, when no ladder can be planned, or with the process (`LeaseKept`); a live row without a publisher is ended although the hook was lost (`OrphansEnd`); a flagged stream is ended although the kick is refused or the process restarts (`FlaggedEnds`). |
| `live_audience` | a signed-in and a logged-out surface, two goroutines and the sweeper, three events | A stream that is over counts nobody (`EndedCountsNobody`); a logged-out surface comes to show what the row says, each time it has changed (`LoggedOutLearn`); the audience of a stream that is over drains (`AudienceDrains`). |
| `held_messages` | two people, two requests in flight, three calls, one failing statement or dying handler | No plaintext in a sealed conversation (`NoPlainInSealed`); no conversation before the authority has let one through (`NotBeforeTheyAgree`); an accepted knock delivers what was held for it (`AcceptDelivers`); a held row goes only with the sweep or once its sender has been heard (`HoldOutlastsRefusal`). |
| `held_is_kept` | one request at a time, two calls, nothing failing | Violated: see finding 1. |
| `moderation` | one work, two handlers at once, four requests, one failing statement | Who was told that a work is blocked or gated was told the truth, and it stays so (`DecisionsHold`); the media of a deleted, blocked or gated work closes (`MediaCloses`). |
| `sse_registry` | one person with two personas, two clients of the first, either a room or an account stream, one account stream at most, a ring of one, a channel of two, one publisher, two connections, three events, one lapse | A registered session is in the bucket that its person's key leads to (`PersonReaches`); no publisher can find a closed one there (`SentToOpen`); a client that was resumed has or will have everything published after its number, unless its channel was full (`NothingMissed`), and nothing twice (`NothingTwice`). |
| `outbox_drain` | two replicas, two rows, batches of two, two attempts, one disturbance | A row marked delivered has landed (`Durable`), a row is quarantined only for answers the plane gave about it (`QuarantineEarned`), one replica drains at a time (`OneDrain`) while lock sessions live, and every queued row is delivered or quarantined (`EveryRowSettles`). Deadlock is checked: a drain can always go on. |
| `edge_placement` | four nodes, one predicate, depth 3, symmetric | Whatever order inserts and deletes come in, rows keep their type and the ceiling (`TypeOK`), every deeper edge has its parent (`ChainIntact`), a root is a bottom (`RootIsBottom`), and a tree is moved whole (`TreesMoveWhole`). In a forest, root and depth are what a walk over the edges finds (`InOrderPlacement`), so they do not depend on arrival order. |
| `edge_locks` | one edge written, three connections, three transactions, four nodes, depth 2, two turns of each loop | Every commit is one step of `EdgePlacement` (`Atomic`); an edge about to be deleted hangs from a root its delete has locked (`DeleteHoldsRoot`); in the end no transaction is open, whatever the writes waited for and however many were in a deadlock (`EveryWriteEnds`). |
| `names` | two connections, four requests, an address and a Number, two identities, a clock that ticks once | A contact address is bound once (`NeverReissued`), a Number reaches nobody else during its hold (`QuarantineHeld`), a verdict stands until its commit (`VerdictStands`), and every commit binds one free name as its rule allows by then, or retires one live binding, and changes nothing else (`ByTheRule`: `NameBinding` implements `Registry`). |
| `resolve_cache` | two readers, two names, one entry per shard, one change per name, three reads, one lost connection | What a hearing cache holds and its stamps can vouch for is the committed binding, or the announcement that drops it is on its way (`VouchedIsFresh`). |
| `wallet` | two users, two keys, two connections, four requests of every kind | A balance is what its ledger says (`BooksAgree`), a balance found enough still is when it is debited (`FundsStand`), the interleaved statements leave what the requests would leave one at a time, each whole and once under its key (`OneAtATime`: `Wallet` implements `Bank`), every request ends (`EveryRequestEnds`). |

Runs other than `outbox_drain` say `CHECK_DEADLOCK FALSE`: they
stop when the bound on requests or events is reached and nothing is left to do. An
`EdgePlacement` may also have no legal write left.

### Bounds, and why they are enough

- `LiveLane`: two streams suffice for one to be admitted, planned or shed on what the other has left, and a
  budget of fourteen carries one full ladder and the smallest one beside it, so that both the refusal at the
  door and the shed loop happen. The event bound counts publishers' arrivals and departures, tickets,
  ladder exits, pressure, flagged frames, refusals and restarts: three of them are an arrival, a loss and one more
  arrival of anything. Hooks in progress are bounded by two, reconcile and scan run beside them.
- `LiveAudience`: events are pages, chat lines and changes of the row; three let a page be opened before the start, the stream
  start and end. Beats are not bounded. Goroutines are two and the sweeper; a request waits for
  one, which the strong fairness of its answer makes up for.
- `HeldMessages`: three calls are a knock, an answer to it and a third request of any kind that overlaps with both;
  two in flight race on every statement. `MaxFaults` is one failed statement, one unanswered
  question or one dying handler at any point.
- `Moderation`: four requests are a decision, what contradicts it, a request for the media and a delete.
- `OutboxDrain`: two rows and batches of two give a full batch, and one row behind a batch of one that was read earlier;
  two attempts distinguish the first from the last of twelve. One disturbance is any one of a
  crash, a failed write, a failed call, a plane fault, a lost session or an operator's
  act, at any point. `orphans` is a set: two requests left behind with the same rows are
  one, which only loses a second walk of the same rows. The proofs have no such bounds.
- `EdgePlacement`: four nodes give chains of three edges, two chains that join, a node with
  two parents, and a tree moved below another at the depth ceiling. A ceiling of
  three is met from below by an insert and from above by a move.
- `EdgeLocks`: `Turns` is 16 in the code (`CHAIN_LOCK_TURNS`) and two here. A turn is one repetition of the same two
  statements. With two, an insert whose chain is re-rooted twice under it is contended; the edge a delete is
  about takes one of the two levels the ceiling allows, so its tree is re-rooted once at most while the delete waits,
  and its loop ends at the right root.
  The seeded start `AfterOneEdge` is a state the specification reaches from its `Init`, one
  completed insert later; it saves TLC the prefix. The order in
  which Postgres grants a lock is ignored: any waiter may go first.
- `SseRegistry`: two connections are a session that leaves while another joins, is evicted by it, or is the same client
  come back; with a ring of one, three events are one seen, one missed and one that pushes the missed one out. A bound of one account
  stream makes the second evict the first, the channel of two can fill up. Six addresses are never all in use.
- `NameBinding`: four requests allow bind, revoke, rebind and one more on another connection;
  one tick is as long as a hold. The address and the Number are checked together.
- `ResolveCache`: one entry per shard makes every second fill an overflow; three reads and one change per
  name let a read begin before, and its fill land after, everything the listener does.
- `Wallet`: a deposit of 100 covers one debit of 60 and not two; transfers in both directions
  meet in a deadlock; a tip of 60 at one percent carries no fee, the other kinds do.
  Four requests with two keys (and keyless tips) repeat a key on the two connections at
  once and one after the other.

Symmetry is used for interchangeable nodes, connections, clients, readers, names and people in
runs without liveness properties only. No module orders them or picks one by `CHOOSE`:
`FirstOutgoing` is among one node's oldest edges of least depth, and no two
transactions share a time, so it is determined; `Peer` is the other one of two.
`edge_locks` has a liveness property, for which a symmetry set is unsound. Its instance takes, of the behaviours that differ only
in names, the one that begins transactions on the first idle connection and names nodes in their order (`InOrder`): idle connections
are all in the same state, and so are nodes that occur nowhere. What is left out is not an enabled fair step, because `Begin` is not fair.

### Fairness

- `LiveLane`: a request that has begun to end a stream is served to its end (a handler that runs is
  not suspended for ever; if the process dies, it is `Restart` that disables it), and the reconcile loop
  and the scan loop run: `Start` launches both for the life of the process. Nothing is assumed of
  publishers, ladders, hooks or authors.
- `LiveAudience`: goroutines run, an open surface beats, the sweeper's ticker ticks and time passes for those who have
  gone. A request is answered although others keep the model's goroutines busy (strong fairness): Go starts as
  many goroutines as it is asked for.
- `Moderation`: a handler that runs goes on, and a memo runs out (its TTL is a constant).
- `OutboxDrain`: some replica's tick fires for ever (`StartDrain` is a loop over an interval), a
  drain that has started is run by its runtime, and the database clock passes every
  `next_attempt_at`. Enqueueing, faults, crashes and operators are not fair, and faults are
  bounded: "every row settles" is a promise for when disturbances have stopped.
  `OrphanStep` needs no fairness: no row settles by it.
- `Wallet`: weak fairness of each connection's `Step`. The database runs a
  statement that was sent and that nothing blocks, and breaks a deadlock. It is
  one conjunct per connection, not one per statement. Lock waits need no strong fairness
  here because requests are bounded: a holder ends and nobody new can come for ever.
  Nothing is assumed of `Request` or of `Lost`.
- `EdgeLocks`: weak fairness of each connection's `Step`, as in `Wallet` and for the same reason. Nothing is assumed of
  `Begin` or of `Lost`. The locks are those of `pg_advisory_xact_lock`, and go with their transaction.
- `SseRegistry` promises nothing that must happen.

## 4. Findings

1. `held_is_kept` (`feed-engine/internal/handler/api_v1_numbers.go:907`). A Number may be knocked on with nothing
   written (`handleCreateConvoByNumber`, `startContactByNumber`). A sentence then sent to that Number finds the knock pending; the
   authority names nobody, and `holdForContactRequest` answers "held" without storing the sentence, taking it that
   the first attempt stored one. The comment above it calls just that "the one lie this lane could tell that
   costs somebody a sentence they thought was waiting".

Other disagreements were met while modelling and have no run of their own:

- `manhattan/src/db.rs:331`: when the sixteen turns of `delete_edge`'s loop run out, `locked_root` is set but not
  verified, and the check behind the loop asks only whether it is none: the delete goes on, and the `Contended` that its error type
  describes (line 280) is never returned. `CalmIsSteady` says how much has to happen for that to matter.
- `manhattan/src/main.rs:956`: `op_revoke_name` checks the binding before it takes the name lock; a second
  revoke and a rebinding fit in between, and the UPDATE retires the new holder's row.
- `manhattan/src/cache.rs:193`: emptying the cache drops the eviction stamps, so a read that began before may fill
  with what an announcement, heard before, has made stale.
- `feed-engine/internal/manhattan/drain.go:210`: a held row leaves the next tick's SELECT, and what is behind it is delivered first.
- `feed-engine/internal/live/capacity.go:341`: `liveEndHandler` gives no capacity back; if the publisher's not-ready hook is
  then lost, or an admission lands after it, the lease stays until a restart.
- `feed-engine/internal/live/capacity.go:725`: a card that stops opening sessions goes out of the budget while ladders planned on it run on.
- `feed-engine/internal/handler/live.go:499`: two goroutines may persist an older tally over a newer one.
- `feed-engine/internal/handler/moderation.go:284`: "Approved — post is now visible" is answered for a work whose `is_blocked` nothing clears.
- `feed-engine/internal/handler/media_gate.go:303`: a work deleted for good leaves objects nobody owns, which the wall serves, although a delete is said to close the media.
- `feed-engine/internal/handler/sse_registry.go:177`: a session that was evicted is out of its account's bucket before its
  cleanup runs. If that bucket is torn down by the others and the account connects again, the cleanup finds the old
  bucket empty and deletes the key, whatever bucket is under it now: the new connection, which should stay registered
  (line 185), gets no more of its account's messages. When it leaves it is not found, and a publisher that had loaded its
  bucket before sends to a closed channel.
- `feed-engine/internal/handler/api_v1_social.go:260`: a resumed stream skips what is numbered up to `replayedTo`. If its
  person has no event for five minutes, the next connection of anybody drops the log, numbers start again at one, and
  the open stream skips as many new events, though only a full channel is said to lose one (`sse_registry.go:494`).
- `feed-engine/internal/handler/sse_registry.go:444`: a number from an earlier process is refused only if it is larger
  than the last of the log in force; a smaller one is replayed from as if it were of this log.
- `feed-engine/internal/handler/sse_registry.go:300`: a message published to one account is recorded in its person's ring, and a
  persona that resumes is handed the message of another, though it "reaches the persona it was addressed to and none of
  that person's others" (`api_v1_social.go:154`).
- `feed-engine/internal/handler/api_v1_frequency.go:384`: a frequency's stream is registered as an account stream and evicts those,
  though it is named among the rooms that must not (`sse_registry.go:193`).

## 5. Proofs

All theorems hold for every value of the constants under the named assumptions of their
modules, which say that bounds are naturals, that sentinel values are not
members, that budgets, costs and sources have their types, that a pair has two members, and that operations have positive amounts. TLC evaluates them in every run.
Each inductive invariant was first checked by TLC on the instance of its run.

| Theorem | Statement | Argument |
|---|---|---|
| `PipeReaches`, `PushesToOpen` (`SseRegistryProofs`) | `PersonReaches`, `SentToOpen` | `PipeInv`: whoever holds an address (the registry, a joining or leaving connection, a publisher) holds it for one key; an address held for a person is the registered bucket or is dead and empty; the members of the registered one are exactly the connections between their join and their last unjoin. So the retry on a dead bucket is what makes a join land where publishers look, and a bucket that a publisher loaded before it was torn down has nobody left to send to. The invariant says less of accounts, for which an evicted session's cleanup may tear down a bucket it is not in (section 4). |
| `ToldOnce` (`SseRegistryProofs`) | `NothingTwice` | `FrameInv`: one publish has one frame per person, on which ring, queues and publisher agree; the ring's numbers have no gap; what is queued was queued by a visit its publisher does not repeat; what was written can be queued again only with a number up to the replay's high-water mark, which the stream skips. |
| `NothingIsMissed` (`SseRegistryProofs`) | `NothingMissed` | `ReplayInv`: what was published in the present life of a person's log is in the ring or older than the ring; whatever is due to a resumed stream is handed over, queued, dropped at a full buffer, or its publisher has still to come to the bucket the stream is in. This is where the order of the code matters: a stream is in its bucket before its log is read, so a frame is in the ring when it is read or is pushed afterwards. |
| `DecisionsStand` (`ModerationProofs`) | `DecisionsHold` | Flags are only raised while the work is there. Whoever has come as far as the log has raised the flag of the state it is about to tell its caller of (`FlagsFirst`), whatever other handlers wrote to the state in between. |
| `TypeCorrect`, `SealedStaysSealed`, `AgreedFirst`, `HoldOutlasts` (`HandlerProofs`) | `TypeOK`, `NoPlainInSealed`, `NotBeforeTheyAgree`, `HoldOutlastsRefusal` | `IInv` adds four facts about requests in flight: `Granted` (a request that may open a conversation comes after somebody was let through), `Addressed` (the conversation a request is to write into exists, in the mode it was read in), `Heard` (a request that is about to drop or clear a row belongs to somebody who has spoken) and `Owned` (an id names one row for ever, and a request carries only its sender's). Conversations only grow (`StepGrows`), so what a request once read of one stays true. `HoldOutlasts` is then an action property: the only steps that remove a row are the sweep's and those of `Heard`. |
| `KnockDelivers` (`HandlerProofs`) | `AcceptDelivers` | The promised row keeps its id and its sentence whatever the two do (`KeepsPromise`); while nothing fails a request carries it until it is dropped, or there is a sealed conversation for it to wait for. |
| `EndCountsNobody` (`HandlerProofs`) | `EndedCountsNobody` | Whatever a goroutine carries, the UPDATE finds the status itself. |
| `LanesAgree`, `EndsForGood`, `KeepsLease` (`AccountingProofs`) | its `LaneInv`, `EndedForGood`, `LeaseKept` | Who is about to give capacity back has closed the row before, and no step reopens a closed row: the two facts need each other. |
| `BudgetHolds`, `KeepsLadder` (`AccountingProofs`) | `WithinBudget`, `ReplanKeepsLadder` | `CapacityInv`: a lease covers its rungs, and is just what its ladder costs until the ladder falls behind; what is owed to admissions and to ladders that could shed sums to no more than the cores. A plan counts all other leases and sheds until it fits or has nothing left to shed, and then its stream is not among those that could; pressure and a smaller card take charge away, never add it. A ladder that is planned again pays what it paid, so it fits where it was. |
| `WalletHolds`, `FundsLast`, `NeverOverdrawn` (`AccountingProofs`) | `TypeOK`, `OncePerKey`, `FundsStand` | `WalletInv`: two transactions hold no row and no claimed key in common; what a transaction has changed it holds; no change takes a balance below zero; a claimed key is in no committed transaction. `TypeOK` includes that no balance is negative. |
| `WalletIsABank` (`AccountingProofs`) | `OneAtATime` and `Promised!Spec`: `Wallet` implements `Bank` | What a transaction carries is what was asked for (`AllAsked`). With `WalletInv` and `LedgerInv`, a commit therefore is one request of `Bank`: the key is new (nobody else has claimed it), the payer can pay (`FundsStand`), and `delta` is the whole of the operation; every other statement leaves the committed books alone. |
| `BooksBalance` (`AccountingProofs`) | `BooksAgree` | `LedgerInv` follows the money: at each statement `delta` is what the kind of operation has moved by then (`AllMoved`), so the entries a commit appends are the difference it makes; entries have numbers of their own, so none of them is one already there. |
| `SomeoneGoesOn` (`AccountingProofs`) | while a request is open, some connection `MayGoOn` | Who waits, waits for the writer of a key, an account or a row, and that one is open (`WhoWaits`). If all waited, the smallest set of them that is closed under being waited for would be one in which each waits for itself through the others: a deadlock, of which the database ends one (`WaitersMeet`). |
| `WaitsForOne` (`AccountingProofs`) | no transaction waits for two others | Keys, new accounts and held rows have one writer each (`WalletInv`, `ClaimsApart`). |
| `DeliveredMeansLanded` (`ReplicationProofs`) | `Durable` | A drain's verdict "landed" about a row is true (`VerdictsHonest`), and `landed` only grows. |
| `DrainsExclude`, `QuarantineIsEarned` (`ReplicationProofs`) | `OneDrain`, `QuarantineEarned` | While no session is lost, a replica that is not idle holds the lock; so one replica drains, the attempts it read are the attempts of the table and no more than the answers the plane gave (`RowsEarned`, `DrainEarned`); idle replicas claim nothing. |
| `OneWayOut` (`ReplicationProofs`) | while no session is lost, no row is both delivered and quarantined | With the one drain of `OneDrain`, what is left of its batch was neither when it was claimed (`FateInv`, `DrainEarned`), and a step that settles a row takes it from what is left; the UPDATEs themselves do not look at each other's column. |
| `HearingServesFresh` (`ReplicationProofs`) | `VouchedIsFresh` | `CacheInv` carries the promise back to reads under way: while announcements are heard, what a reader found is committed, or its announcement is coming, or a stamp or an emptying of the stamps keeps it from being vouched for. |
| `PlacementIsInvariant`, `EdgesWellFormed`, `ChainsStayIntact`, `RootsStayBottom` (`EdgePlacementProofs`) | `PlacementInv`, `TypeOK`, `ChainIntact`, `RootIsBottom` | With `UniqueTriples` the three are inductive only together. A move keeps a parent link because parent and child are in one tree and move alike; it can take an object's edge into the moved tree only if the insert closed a cycle, which `RootIsBottom` and the cycle refusal exclude. |
| `MovesAreWhole` (`EdgePlacementProofs`) | `TreesMoveWhole` | The UPDATE takes every edge under the subject's root by one distance; the edge it adds is new, because its triple is. |
| `OrderDoesNotMatter` (`EdgePlacementProofs`) | `InOrderPlacement`, of finitely many nodes | From an edge's object the walk goes down the tree the edge is in, one level a hop (`WalkDescends`), ends at its root and stays there (`WalkEnds`), and meets no node twice on the way (`WalkMoves`); so the chain has at most as many edges as there are nodes, by the pigeonhole principle, and the hops that move are one less than the depth. |
| `LocksHold`, `RootsStayHeld` (`EdgeLocksProofs`) | its `LocksInv`, `DeleteHoldsRoot` | Each read is guarded by the lock that keeps it true: the place an insert read is still offered while it shares the chain's root (`Placed`), the depth below its subject cannot grow while it has the subject (`Measured`), the row a delete removes hangs from a root it holds (`RootHeld`), and nothing was placed beneath it since it counted (`Counted`). |
| `WritesAreAtomic`, `LocksImplementPlacement`, `CommittedChainsIntact`, `CommittedInOrder` (`EdgeLocksProofs`) | `Atomic`, `Placement!Spec`, and `ChainIntact`, `RootIsBottom` and `InOrderPlacement` of the committed rows | Under `LocksInv` the write of an insert is `Placement!Insert` of the rows as they are when it commits, a delete likewise, and every other step stutters. `WritesAreAtomic` is the step, `LocksImplementPlacement` the refinement, and with it the theorems of `EdgePlacementProofs` carry over. |
| `CalmIsSteady`, `CalmIsAtomic` (`EdgeLocksProofs`) | `[]Calm => []Steady`; with it `Atomic`, `DeleteHoldsRoot` and `Placement!Spec` under `[]Calm` | `PacedInv` counts the roots a delete has had to learn (`Learnt`). Each one after the first is another transaction's commit, which takes the edge at least one level deeper and ends that transaction. So they are no more than the edge is deep (`Deep`), and no more than the transactions that overlap the delete, less those that are still open (`Paid`). |
| `SomeoneMayStep` (`EdgeLocksProofs`) | while a transaction is open, some `MayStep` | Who waits, waits for a lock's holder, and only open transactions hold locks (`TidyInv`). Of the open transactions take the smallest set that is closed under waiting: each of its members is free, or waits through the others for itself, since else the set without it would do (`SomeoneFree`). |
| `NamesStand`, `VerdictsLast`, `NamesTyped` (`NameBindingProofs`) | `TypeOK`, `NeverReissued`, `VerdictStands` | `NameInv`: transactions past the name lock have different names; rows locked by different transactions are different and live; a row inserted and not committed has no live rival (`Vacant`); a verdict, once told, is true (`Told`). No commit of another transaction can therefore retire or bind this name. |
| `HistoryIsKept`, `QuarantineIsHeld` (`NameBindingProofs`) | `HistoryKept`, `QuarantineHeld` | Action properties of the same invariant: what a commit touches is live; what it binds was allowed by the verdict that still stands. (`HistoryKept` is in no run: what TLC checks is `ByTheRule`, whose steps never change a retired row.) |
| `OneOfEach` (`NameBindingProofs`) | one live row of a name, one primary row of a node | `RegistryInv`: what a demotion has locked are primaries of its node, and by the commit all of them (`Displaced`); two inserts that wait for their commit are not both primary for one node (`Apart`), because each looked at the other's when it inserted. |
| `NamesAreARegistry` (`NameBindingProofs`) | `ByTheRule` and `Promised!Spec`: `NameBinding` implements `Registry` | With `NameInv` and `RegistryInv`: a commit that binds finds the name free (`Vacant`), the rule as it was told (`Told`), an id nobody has, and has demoted what the registry would (`Displaced`); one that retires has touched exactly one row, because what it has touched is live and of one name (`Found`, `OneEach`). Everything before the commit is a stutter. |

The first seven theorems of `EdgeLocksProofs` have a hypothesis, `[]Steady`: the root that a delete locks in its last turn is still the
one its edge hangs from. The code does not look (`delete_edge`'s loop may run out and go on with a root it has not verified, section 4), so without
the hypothesis they are not theorems: with one turn and a ceiling of three, TLC finds a delete that counts beneath a root it does not hold.
`CalmIsSteady` says when the hypothesis holds, in terms of the load: it can fail only for a delete that waits while its edge is
deeper than it has turns and more transactions overlap it than that (itself counted). In the code both can be: `MAX_DEPTH` is 64,
`CHAIN_LOCK_TURNS` is 16, and a server has more connections than that and begins transactions while others wait.
`CalmIsAtomic` is what the other theorems say under that condition. It claims nothing of an overloaded delete, which is the defect of `db.rs:331`,
and neither does the run, in which no edge is deeper than a delete has turns.

Sums are folds over finite sets. What a fold computes needs induction over data, and the library's induction theorems
take an operator as a parameter, which the installed provers cannot instantiate. `AccountingProofs` goes another way: the
subsets of a finite set are well-founded, so if a claim failed of some subset it would fail of a smallest one (`SmallestSubset`, by
`WFMin`), and the claim is a set. In this way the fold of the community modules is the cardinality of the set of its units
(`Units`), and elements are added and removed by the library's theorems about cardinalities. The walk of `InOrderPlacement`, a
recursive function, exists and has its properties by the same argument over the naturals (`NatSetsHaveMin`).

### Checked and not proved

- Liveness (`OrphansEnd`, `FlaggedEnds`, `LoggedOutLearn`, `AudienceDrains`, `MediaCloses`,
  `EveryRowSettles`, `EveryRequestEnds`, `EveryWriteEnds`): fairness and ENABLED are outside the prover's reach.
- What `EveryWriteEnds` says of safety, that no transaction is stuck for good, is `SomeoneMayStep`, in which the guards of `Step`
  are written out (`MayStep`); that these are its guards is for the reader.
- What `EveryRequestEnds` says of safety, that no request is stuck for good, is `SomeoneGoesOn`, in which the guards are written out in the same way (`MayGoOn`).
- The violation is a counterexample; there is nothing to prove.

## 6. What is not modelled in the modelled parts

- Live lane: segment paths, playlists, thread ceilings, what a hook answers besides its status; the durations behind the
  reconcile loop's age of an idle stream.
- Audience: native clients' connections, which beat as long as they are open; how a Fragment
  is rendered; the content of the chat.
- Messages: groups (nothing creates one), receipts, reactions, media, the key directory, rate limits,
  and what a page shows of a held sentence.
- Moderation: the rows of `content_reports`, duplicates and the objects they share with their
  original, lineage, subscriptions, private authors and ephemeral works at the wall.
- Event streams: the watch contexts and the publishers that go by them, anonymous connections, the snapshots a stream
  opens with, events a native client does not draw, a replay that is cut off half-way, and a log that is pruned between its
  creation and its first frame (finding a log and recording in it are one step).
- Outbox: what an op does to the plane, hence what readers see while a batch that asserts and
  retracts is replayed; how long a backoff lasts; the Rust drains, which are the same drain over other drivers.
- Edge plane: the reads, which change nothing; the metadata of an edge.
- Name plane: authority over namespaces, changes of a namespace's rule, the draw of a
  Number and its check digit, what an answer says (a caller may be told `name_exists`
  for a name nobody holds, when two binds race to be a node's primary).
- Cache: hashing into shards, metrics, wall-clock TTLs, more than one replica (replicas
  share nothing but the database). A stale answer between the loss of the listener's connection and
  its report is outside `VouchedIsFresh`, because nothing in the replica can know of it.
- Wallet: account keys from before the identity constraint, balance pushes to the feed, the
  width of amounts (`compute_fee` multiplies in `i64`).

Most of the feed engine's code is not modelled: queries that assemble pages and feeds, scoring, templates, and
handlers of one statement. There is nothing in them for a model to interleave, and a transcription of
them would check nothing.

## 7. Plan

The order is by what a failure would cost. Done: 1 to 10.

1. `EdgePlacement`, then `EdgeLocks` implementing it.
2. `OutboxDrain`, with the plane's walk of a batch.
3. `NameBinding`.
4. `ResolveCache`.
5. `Wallet`.
6. `LiveLane`, the governor with the rows it serves.
7. `LiveAudience`.
8. `HeldMessages`.
9. `Moderation`.
10. `SseRegistry`: the buckets, the numbered log and its replay.
11. `NumberMint` and `NumberLease`: the cap and the pacing of `create_number`, counted before the transaction
    and without a lock; Elohim Veni's sweep over `NameBinding`'s revoke, against extensions.
12. `AethyrLedger`: fund and mint as two transactions with a crash between them; the
    sealer's count, assignment and insert against concurrent mints.
13. `EventBus`, which supplies the publishers, out of order and sometimes lost; `Auction`, `FrequencyLifecycle`, `Associations`, `Governance`.

Proofs to come: the safety of the modules still to come. Every safety property that a passing run checks now is a theorem.
