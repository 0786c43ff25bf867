# harness-mem: specifications of the memory daemon

harness-mem keeps a shared memory for coding agents. Clients (hooks, MCP
servers, SDKs) send events over HTTP to one daemon, `memory-server`, which
stores them in SQLite, turns them into observations with vectors, and in hybrid
and managed mode replicates them to PostgreSQL. The daemon also offers leases
and signals through which agents coordinate, follows the logs of other tools,
and works on what it has stored in the background. This directory holds TLA+
specifications of the parts that carry state and protocol, TLC runs on small
instances, and proofs checked by TLAPS.

Paths below are relative to `memory-server/src/` unless they start elsewhere.

## Inventory

| Component | State | Operations | Interacts with | What makes it correct |
|---|---|---|---|---|
| Event recorder (`core/event-recorder.ts`) | `mem_events`, `mem_observations`, `mem_vectors`, write queue, feed buffer | recordEvent, recordEventQueued | gate, audit chain, retry queue, managed backend | no duplicate event or live content, no acknowledged write lost, all or nothing |
| Substrate gate (`core/ddouns-gate.ts`) | tag cache | evaluateGate | git, `mem_observations` | in block mode neither live duplicates nor unknown closure tags get in |
| Retry queue (`core/harness-mem-core.ts`) | `mem_retry_queue` | enqueue, retry loop, forced loop at shutdown | event recorder | a row goes only when its event is stored, and every write is stored in the end |
| Audit chain (`core/audit-chain.ts`) | `mem_audit_log.prev_hash` | append, verify | event recorder (chained rows), other writers (plain rows) | edits of chained rows are found, nothing else is reported |
| Managed backend (`projector/`) | replication queue, flush under way, PostgreSQL tables, metrics, phase | initialize, replicateEvent, flush, shadowRead, attemptPromotion, shutdown | event recorder, PostgreSQL | nothing is forgotten while the process lives; order, bound, counters |
| Lease store (`lease/lease-store.ts`) | `mem_leases` | acquire, release, renew, get, listActive; lazy expiry | HTTP handlers, tenant from auth | one active lease per target, project and tenant scope; a lost lease stays lost |
| Signal store (`lease/signal-store.ts`) | `mem_signals` | send, read, ack | same | acknowledged once; replies stay in thread and project; nothing starves behind the page limit |
| Sessions, partial finalize (`core/session-manager.ts`, `core/partial-finalize-scheduler.ts`) | `mem_sessions`, summaries, the tick under way | finalize, partial finalize, checkpoints, tick | event recorder | a summary hands over the latest exchange of the rows it reviews; none after the end; an open session with something new to say gets one unless busier ones crowd it out |
| Ingest coordinator and ingesters (`core/ingest-coordinator.ts`, `ingest/`) | `mem_ingest_offsets`, contexts | nine pollers | files of other programs, event recorder | no line is passed over, the pollers catch up with what fits a poll |
| Imports (`ingest/claude-mem-import.ts`, `connectors/`) | `mem_import_jobs` | import, verify, knowledge sources | event recorder | every row once, counts add up, what was forgotten stays forgotten |
| Consolidation (`consolidation/`) | `mem_consolidation_queue`, `mem_facts` | enqueue, run, compressMemory, fact history | language model, observation store | a completed job covered its session; merges end; history is complete |
| Observation store (`core/observation-store.ts`) | `mem_observations`, `mem_links`, shares | search, feed, facets, details, timeline, thread, resume pack, graph, verification; forget policy, clean-up, contradictions | all writers | nothing removed or foreign is shown, what is listed opens, nothing vanishes without cause |
| Embedding providers, breaker, reindexing (`embedding/`, `core/reindex-vectors-scheduler.ts`) | routes, caches, breaker, primed texts, `mem_vectors` | prime, embed, probe, trip, reindex tick | remote APIs, local models, recorder | the free label tells the maker, the general one lies only about texts whose request failed; a failing endpoint is left alone; every vector is made |
| Feed and stream (`server.ts`, `harness-mem-ui/src/hooks`) | feed buffer, cursors, the UI's list and cache | page, poll, resume | event recorder, browser | the list is the feed, without gaps or strangers; a resumed stream lacks only what the ring dropped and what a restarted daemon numbers anew |
| Links (`core/event-recorder.ts`, `core/auto-linker.ts`) | `mem_links` | runAutoLinker, supersede, derive, createLink, getLinks | event recorder, consolidation, clients | links run in circles, and a walk over them finds every link at its depth, once |
| Sync and connectors (`sync/`) | changeset store, registry | push, pull, connector sync | devices, GitHub, Notion, Drive | the newest record wins; ok means pushed |
| Project names (`core/harness-mem-core.ts`) | project columns, roots | normalise, migrate at start | file system, git | what is listed can be found; migrating twice changes nothing |
| Schema (`db/schema.ts`) | the SQLite file | initSchema, migrateSchema | every start | a start that serves serves the whole schema, a search index that matches, and the vectors but those of a rebuild that was cut off |
| MCP tools (`mcp-server/src/tools/`) | health cache, session files | tools, broadcast, register | daemon, other MCP servers | answers tell what happened; shared files lose only what overlapped, and the further lines of trimmed messages |
| Rate limiter (`middleware/rate-limiter.ts`) | buckets | tryConsume | every route | no window admits more than it may; Retry-After is honest |
| Teams (`db/repositories/SqliteTeamRepository.ts`) | `mem_teams`, `mem_team_members` | admin routes | HTTP | members are who answers said |

What is hard here. The daemon is one JavaScript process: code between two
`await`s is atomic with respect to other requests, but not with respect to
crashes, and one `recordEvent` makes several SQLite commits (audit rows, the
main transaction, the retry row). Around it are real interleavings: a flush that
awaits PostgreSQL while writes arrive and timers fire, consolidation runs that
await a model and take each other's jobs, a scheduler's tick that a session's
end crosses, page requests that return after the list has changed, several MCP
servers that rewrite one file, agents that act on stale answers, a wall clock
that may step back, restarts with another configuration or after a crash between
two statements of a migration. `PROJECT.json` lists the weightiest of these under
"hazards", at their lines; those that no property covers are at the end of this
file.

## Modules

One module per component, one action per operation or per stretch between two
commits or `await`s. Modules named `MC...` hold the constants of a run.

| Module | Models | Proofs |
|---|---|---|
| `EventRecorder` (extends `AuditRows`) | recordEvent and its queue, gate, retry loop, shutdown | `RecorderProofs` |
| `AuditRows`, `AuditChain` | the log as operators; its writers, verification and edits | `StorageProofs` |
| `ManagedBackend` (extends `ShadowSync`) | the projector with PostgreSQL; the promotion counters | `ManagedBackendProofs` |
| `LeaseStore` (extends `Tenancy`), `LeaseLock` | the lease table; the lock it implements | `CoordinationProofs` |
| `SignalStore` (extends `Tenancy`) | the signal table and its readers | `CoordinationProofs` |
| `Sessions` | session manager and scheduler | `BackgroundProofs` |
| `CircuitBreaker` | breaker, fallback, health check | `BackgroundProofs` |
| `Consolidation` | jobs, runs, facts, compressMemory | `BackgroundProofs` |
| `AdaptiveEmbedding`, `LocalEmbedding`, `EmbeddingRoutes` | the general route with its labels; the local models, their retries and the reindexing; both side by side | `BackgroundProofs` |
| `Ingest` | the nine pollers | `BackgroundProofs` |
| `ObservationStore` | every reader, and what removes rows | `ObservationProofs` |
| `SchemaMigration` | the statements of a start | `StorageProofs` |
| `AutoLinks`, `CloudSync`, `McpSessions`, `McpTools`, `RateLimiter`, `Teams` | see the inventory | `EdgesProofs` |
| `Imports` | see the inventory | `StorageProofs` |
| `FeedStream` | see the inventory | `ObservationProofs` |
| `Projects` | see the inventory | `EdgesProofs` (one of two parts) |
| `SortedLists` | ORDER BY, `sort()` and `filter()`: a list in an order, and the part of a list that a set has | `OrderLemmas` |
| `OrderLemmas` | least and greatest elements; what sorted and filtered lists hold, and in which order | itself |

`MCEdges` and `MCBackground` put components that share no state side by side: a
variable `part` says which one a behaviour is about, so that a run checks the
sum of their state spaces and not the product.

### EventRecorder

An envelope is reduced to what the code distinguishes: `dedupe_hash`, chosen
event id, hash of the normalised content, closure tag, and what its fields
switch on (valid, blocked, private block to strip, private tag, checkpoint). A
call runs through `call.at`: `Begin` (early returns, strip audit row, gate,
gate warning row, event id), one of the `Transact*` outcomes (event known,
content known, new observation, exception), `Announce` (feed), and for a call of
the retry loop `RetrySettle` or `RetryAbort`. Between these steps only a crash
can happen, because the code is synchronous; every step ends at a commit.
`DrainWriteQueue` runs the write queue's next callback, `RecordEvent` is the
direct call used inside the daemon. `RetryTick` and `Shutdown` read the batch
of due rows that the loop then visits in order. `Boot` chooses the environment
of the new process: gate mode and capture switch. `acked` is a history variable.
Left out: the JSON of a retry row that does not parse (the daemon wrote it), the
`catch` around the dedupe probe (its table exists once the schema is set up),
and the enrichment inside the transaction (entities, nuggets), part of the same
commit; the links have a module of their own.

### AuditRows and AuditChain

A row is what its hash covers (`detail`), whether `prev_hash` is set
(`chained`), and the hash, taken as the pair it is computed from (SHA-256
without collisions). `PrevHash` is the hash of the nearest older chained row:
`lastPrevHash` asks it of the whole log, `verifyAuditChain` of the rows from its
start row on. `AuditChain` adds the writers that leave `prev_hash` NULL and
`Edit`, somebody who rewrites a row and leaves its hash alone; `written` is a
history variable.

### ManagedBackend and ShadowSync

`local` counts what the recorder committed, and an event is its number in that
order; `pending` says that the last one is between its commit and
`replicateEvent`, so that a crash can fall there. `flush` is the flush in
progress with its batch: `append` while it awaits PostgreSQL's append, `project`
while it awaits the projection. A failed append may leave any part of its batch
in PostgreSQL, which covers a lost answer to COMMIT and statements that a pool
ran outside the transaction. An append whose statements all succeed is one
commit: a shadow read that takes the connection of the open transaction is not
modelled. An orderly `Shutdown` starts a flush it does not await, and
`process.exit` follows in the same callback. `dropped` and `lost` are history
variables.

### LeaseStore and LeaseLock

`leases` is the table by lease id, `now` the clock hook. `Acquire` sweeps, runs
the contention query and either leaves the swept table or inserts a row;
refused validations change nothing and have no action. `Release` neither sweeps
nor checks the status. `Renew` checks status and deadline but does not sweep.
`Read` is the sweep of `get()` and `listActive()`. `Trim` is JavaScript's `trim`
on agent names: `acquire` stores the trimmed name while `release` and `renew`
compare the name as it was sent. `LeaseLock` knows only fresh, held and over
leases and the scope each was granted on; `LeaseStore` implements it under
`PhaseOf` and `ScopeOf` (`INSTANCE LeaseLock WITH ...`, property `ImplementsLock`).

### SignalStore

`signals` is the table, `inbox` what each agent read last: acknowledgements come
from it and may be stale. `Send` takes a thread named by the request or opens
one; `NULL` as project means that the request names none. `MCCoordination` has
the lease table and two scenes of the signals side by side: an inbox with
expiring and addressed signals, and a chain of three with and without a project.

### Sessions

`entries` are the observations of all sessions in order of arrival, with their
kind (prompt, response, work, done, partial, final, checkpoint) and time, which
may be earlier than that of rows before it; `tick` is the list of sessions that
the scheduler's tick still visits. `FinalizeSession` ends the row first and
records the summary afterwards, whatever `recordEvent` answers. A summary
reviews the oldest rows of its session up to `SummaryRows`, and its text tells
which; `recordEvent` drops one whose text is in the store (`Repeated`). What
the hand-over shows is therefore stated twice: `HandoffSound`, about the rows
reviewed, holds; `HandoffLatest`, about the session, does not (run
`handoff_latest`). `SummarisedEventually` names the two ways in which a session
stays a candidate for ever: `Crowded` and `SaysNothingNew`.

### Consolidation

`run` holds one run per caller (the timer, an admin): its jobs, the job it works
on and the facts it read before it awaited the model. A fact is the pair of its
observation and key; `merged` and `by` are `merged_into_fact_id` and
`superseded_by`. What a model answers is any diff over the facts it was shown.
`extracted` is a history variable. `StartRun` takes pending jobs or, only if
there are none, the sessions last used, each up to the caller's limit;
`StartRunFor` is an administrator's run over a session by name. A job that a
crash leaves as running is never taken again; `Abandoned` says when the sessions
last used do not make up for it.

### Embedding

`CircuitBreaker` is `circuit-breaker.ts` around a wrapped provider, with or
without a fallback to divert to, and an endpoint that comes and goes.
`AdaptiveEmbedding` follows texts through priming, both caches and the fallback to
the row in `mem_vectors` and compares the label stored with the provider that made
the vector; `missed` remembers the texts for which a request of the Pro API
failed, whose free vector its cache keeps. `LocalEmbedding` follows writes that
are refused until their text is primed, and the reindexing that stops at the first
text which is not.

### Ingest

`lines` and `tail` are a file, `off` and `ctx` what the poller stored about it,
`poll` the visit under way. The nine pollers are one skeleton with what they
differ in as operators on `kind`: rotation, backfill window, budgets, context,
whether the answer of `recordEvent` is looked at. `from` and `refused` are
history variables. A line takes two units of a file's size, its first half one;
a line of `Oversize` is one that the bytes of a Claude poll do not hold, so that
`Fits` fails for it and the poll consumes nothing, while the admin's replay, which
has no budget, reads it. `Recap` gives the text that a rollout's compacted line
repeats: `RecordRecap` stores it before the line's own, unless it was heard last.
The compacted histories of the model have two answers; user prompts among them
are left out. `AddParts` completes the row of an OpenCode message, which the
poller reads once. `Begun` is the time of a file's last writing, which decides
the backfill window also of a file with half a line.

### ObservationStore

`row` holds what never changes about an observation, the other variables what
does. A reader is an operator from a request to the rows it returns; every
candidate source of a search (text, vectors, graph, links, latest interaction)
is there, scores are an arbitrary order, and a reranker may give the candidates
any places.

### The smaller modules

`FeedStream` follows either the UI (`list`, `cache`, page requests in flight, of
which the last one counts and the others come late or abort, a live stream) or a
client that resumes by event id, with the id it `brought` from a daemon before.
The daemon and the UI match projects each in its own way (`Expansion`, `Related`:
the UI takes paths below and above the selected one). `Imports` runs claude-mem
imports against sources that are edited and rows that are forgotten in between.
`Projects` computes a project name from directories, symbolic links and git roots
that change. `SchemaMigration` runs the statements of a start one by one over the
files that six older releases left; `stranded` are the vectors of a rebuild that a
start died in before its copy, which stay in the renamed table. `McpTools` has
every memory tool with its schema, its checks and the route it calls.
`McpSessions` has the two files that MCP servers share and the points between a
read and the write that follows it, and between emptying a file and writing it;
`cut` are the messages of which the file has only the first line, since the
expression that reads them stops there and a trim writes back what was read.
`crossed` and `exposed` remember which messages and sessions overlapping servers
may lose. `CloudSync` has the changeset store and one connector sync request by
request. `AutoLinks` has everything that writes links, in any direction, and the
walk of `getLinks` over them. `RateLimiter` and `Teams` are single tables.

## Runs

| Run | Module, configuration | Bounds | Shows |
|---|---|---|---|
| `recorder` | `MCRecorder` | two deployments, chosen in the first state. Open: no gate; a prompt, a checkpoint with its content under a chosen id, another event under that id; 2 generated ids, write queue 1, 2 retry rows, batch 1, feed of 2. Gated: every gate mode and capture switch at every boot; a stripped private event and one with a closure tag that share a content, two that the early returns refuse; 3 audit rows, 1 retry row | `RecorderConsistent`, `QueuedUntilStored`, `GateHolds` |
| `recorder_retry` | `MCEventRecorder`, `MCRecorderRetry.cfg` | two events through two retry rows; a write queue of one | `RetriesComplete` |
| `coordination` | `MCCoordination` | leases: 2 of 1 target, 1 project and the global scope, tenants with and without user and team, plain and padded names, times 0..2; inbox: 2 signals, page of 1, expiry, plain and padded names, a clock that may step back; threads: 3 signals, 1 project or none | `Exclusive`, `PromisesExclusive`, `ImplementsLock`, `RepliesLinked`, `AckedOnce`, `Delivered` |
| `replication` | `MCManagedBackend` | 4 events, queue 1, batch 2, 3 failures, 1 shadow read, 1 exit | `NothingForgotten`, `QueueSound`, `WritesAccounted`, `QueueDrains` |
| `background` | `MCBackground` | 2 sessions, in one scene with 3 rows of clients in any order and archived, in the other one of 5 rows of which a summary reviews 3 and one of 1 row, ticks of 1 session; a breaker with and without fallback, threshold 3 and cool-down 2; 2 texts through caches of 2; 3 texts through a cache of 2 in batches of 2 | `HandoffSound`, `NoPartialAfterEnd`, `SummarisedEventually`, `NoHammering`, `EmbeddingSound`, `LocalCoverageReached` |
| `consolidation` | `MCConsolidation` | 2 observations of one session, or one each of two; 1 key, 2 workers that take 1 and 2 jobs, 2 jobs, 1 crash, 1 call of an administrator | `FactsSound`, `CompletedCovers`, `QueuedExtracted` |
| `ingest` | `MCIngest` | one file of any kind, or two that share a budget; 2 lines of 3 texts, one of them longer than a Claude poll reads and, in a rollout, a compaction, with a half-written tail, 1 mishap (rotation, death or replay) | `OffsetsSound`, `PollersCatchUp` |
| `observations` | `MCObservationStore` | 3 rows of two owners and a team, requests that differ from a plain one in one point, 2 operations | `ReadersSound`, `ListedCanBeOpened`, `NothingVanishes` |
| `edges` | `MCEdges` | eleven small components, each with two or three rows, clients, files or starts; feed: 2 rows of 3 projects and 1 late request for the UI, 3 rows through a ring of 2 and 2 restarts for the stream; links: 3 observations, derives both ways, 1 made by a client; files: 4 broadcasts of which 2 are kept, 3 registrations | `VerifyExact`, `FeedExact`, `LinksFoundOnce`, `SyncSound`, `ImportsSound`, `ProjectsFound`, `SchemaServed`, `AnswersHonest`, `RateKept`, `MembersAsTold`, `FilesKept` |
| `fact_history` | `MCFactHistory.cfg` of `MCConsolidation` | as `consolidation` | `HistoryComplete` is violated |
| `handoff_latest` | `MCHandoffLatest.cfg` of `MCBackground` | as `background` | `HandoffLatest` is violated |
| `deletes` | `McpTools`, `MCDeletes.cfg` | one tool call | `DeletesTakeEffect` is violated |

Several properties are conjunctions of named parts: `RecorderConsistent` of
`TypeOK`, `NoDuplicates`, `EventsHaveObservations`, `VectorsComplete`,
`AckedStored`, `AnnouncedOnce` and `ChainIntact`; `QueueSound` of the order, the
bound and the type; `SyncSound`, `ImportsSound`, `ProjectsFound`, `SchemaServed`,
`AnswersHonest`, `RateKept`, `FilesKept`, `FeedExact`, `ReadersSound`,
`HandoffSound`, `EmbeddingSound`, `FactsSound` and `OffsetsSound` of the parts
above them in their modules.

Why the bounds are enough. The properties are about pairs - two leases of one
scope, two events of one hash, a write and a flush, two servers and one file -
and each instance holds such a pair with one step to spare. Two generated ids
and a chosen one give a live observation beside an archived one of the same
content and an event that is folded into either; two retry rows with a batch of
one give a row that waits behind another. A queue of one and batches of two let
a batch be in flight, the queue fill up behind it, the batch come back so that
the queue holds more than its maximum, and an event be dropped then. Two lines
of three texts give a repeated text, noise, an unfinished line, and a line that no
poll holds before or behind one that fits. Two jobs of one session and two workers
give a job that is taken twice, two sessions and a timer that takes one job a
session that the fallback does not reach. The long scene of the sessions has more
rows than a summary reviews, its only answer last; four broadcasts into a file of
two give trims over stale copies of each other; three signals give a reply to a
reply; three observations linked both ways give walks that come round at every
depth that is asked for; a ring of two and three events give one that is cut, and
a late answer meets a selection that came back. For the properties
with a theorem the bounds do not matter.

Constants that stand for constants of the code made small: `WriteQueueLimit`
(100), `Retention` (600), `RetryBatch`, `MaxQueue` (1000), `BatchSize` (100),
`Limit`, `DefaultTtl`, `MaxTtl`, `PageSize`, `Batch200` (200), `PageLimit`,
`ForgetLimit`, `JobLimit`, `SampleLimit`, `SupersedeLimit`, `FilesPerPoll` (50),
`UnitsPerFile` (2 MB), `TickLimit`, `SummaryRows`, `MinSteps`, `Capacity`,
`CacheSize`, `Kept`, `Rate`, `Burst`, `CacheTime`, `Attempts`; `MinReads` and
`FailurePercent` scale the promotion check down to what four events can reach.
Bounds on what the code leaves open begin with `Max` or `Last` (events, rows,
failures, exits, crashes, restarts, operations, clock). `CHECK_DEADLOCK FALSE`
stands where a behaviour ends when its bounds are used up; in the other runs
deadlock is checked, since those systems can always go on.

Symmetry is declared over generated ids in `recorder` only, never in a run that
checks liveness.

### Findings

- `fact_history`: `dedupeSessionFacts` compares superseded facts too and merges
  the newer of two similar facts into the older: a fact that has just superseded
  another one disappears from the history of its key, which then shows no active
  value.
- `handoff_latest`: a summary reviews the oldest rows of its session, up to 20, 32
  or 48, and hands over the last answer among those: for a longer session an
  exchange of its beginning. Its later summaries review the same rows and are
  dropped as repeated content.
- `deletes`: `harness_mem_delete_observation` asks for a route the daemon does
  not have, and the bulk tool names a column the table does not have and skips
  every id while answering ok: neither marks anything as deleted.

Smaller disagreements between comments and code, without a run: the comment at
`runAutoLinker`'s call says that only semantic similarity is linked, and its
other strategies run as well; a second `release` stamps `released_at` anew
although the header calls release idempotent; a failure rate of exactly 1 %
passes the promotion check although its comment says below 1 %; a signal to a
name with blanks around it is found by no read.

What the code does in a corner and no document speaks of, so that a property has
to name it as an exception:

- A start that dies in the rebuild of `mem_vectors` before the copy leaves the
  vectors in the renamed table; the next start finds the new key and copies
  nothing (`VectorsServed`, `stranded`).
- A stream client that resumes after a restart of the daemon with the id it has
  misses the events that the new process numbers up to that id (`ReaderSees`,
  `brought`).
- A free vector that the Pro API provider cached after a failed request is stored
  under the general label once the provider is healthy (`GeneralLabelEarned`).
- A broadcast of several lines is shown, and written back by a trim, with its first
  line only (`WholeUntilTrimmed`).
- A session whose reviewed rows no longer change stays a candidate of the scheduler,
  and as many such or busy sessions as a tick takes keep a quiet one waiting
  (`SummarisedEventually`).
- A consolidation job that was running when the process died is never taken again;
  its session is extracted only if it is among those last used (`Abandoned`).
- A Claude line longer than 2 MB is read without its end at every poll: its file
  stops there and takes one of the 50 places of every poll (`Withheld`,
  `PushedOut`).
- An OpenCode message is read once with its row: parts that are written later are
  not read.

## Fairness

- `EventRecorder`: a process is started again (`Boot`), a synchronous call comes
  to its end (`Announce`, `TransactThrow` when nothing else, `RetrySettle`,
  `Close`), time passes (`BackoffEnds`), and the interval timer fires again and
  again between other work (strong fairness of `RetryTick`). Crashes and
  failing writes may recur for ever; what is assumed is that they do not hit
  every attempt for one row: strong fairness, per row, of visiting it, of its
  transaction and of deleting it. `RetriesComplete` is checked with the gate off,
  because a gate in block mode refuses a queued event for good once its content
  is known.
- `ManagedBackend`: synchronous code goes on, the timer fires, and PostgreSQL
  does not fail every batch (strong fairness of `AppendDone`) nor every
  projection of one event. A process may still end at any time; the bound on
  exits makes the ends finite.
- `SignalStore`: agents poll their project and acknowledge what they read. This
  is an assumption on the clients; the store promises nothing without it.
- `Sessions`: the interval timer ticks, a tick visits its next session, and what
  fails at a session does not fail at each of its visits (strong fairness, per
  session at the head of a tick). That a session comes to the head is not assumed:
  `queryActiveSessions` decides it.
- `LocalEmbedding`: loading and inference end, the retry loop and the reindexing
  timer keep firing.
- `Consolidation`: the timer's runs start, every call of a model ends within its
  timeout, a run finishes its job. Crashes are bounded, and so are the jobs that
  sessions queue: while something is pending at every run, the fallback over the
  sessions last used never comes, and nothing would be promised of a session whose
  job a crash left behind.
- `Ingest`: each poller has its timer, and a poll comes to every file that its
  budget allows (strong fairness of `Visit` per file, since the budget may go to
  others in between); a visit runs to its end, `recordEvent` does not refuse for
  ever (strong fairness of recording), and a program that began a line finishes it.

The other modules make no liveness claims.

## Proofs

TLAPS checks the following for every value of the constants that satisfies the
named assumptions next to the CONSTANTS of each module (types, non-zero limits,
a NULL outside the other sets), which TLC evaluates in the runs. Nothing else is
assumed. Each invariant was checked by TLC in its inductive form before it was
proved.

`RecorderProofs`. `IInv` has five parts. `CallInv`: a call in progress carries an
admissible event, and the retry row it was made for holds that event; retry rows
have unique ids. `TablesInv`: the table properties themselves, and that every
observation has an event with its id (so the id of a new event is also free
among observations), that the id a call has drawn is still free, and that an ok
answer still to be settled means stored, or capture off. `StreamInv`: ids of the
feed are consecutive up to the counter and each announced observation has an
event, so that the next one is new. `GateInv`: the cache believes only in tags
that are there, and a call that passed a gate in block mode still finds its
content free and its tag present when it transacts, since nothing but a crash
comes between. `ChainInv`: the log verifies. TLC checked `IInv` over both
deployments (2,209,671 and 738,736 states without symmetry). From it follow
`TablesAlwaysConsistent` (`RecorderConsistent`), `RowsKeptUntilStored`
(`QueuedUntilStored`) and `GateNeverLetsIn` (`GateHolds`).

`ManagedBackendProofs`. The invariant describes the line of events from
PostgreSQL's side: the batch in flight is sorted and before the queue, the queue
is within its maximum while a batch is appended (so that the batch may come
back), what was pushed out is in neither, and the counters equal what they
count. Checked by TLC over 100,952 states. `EveryEventAccountedFor`
(`NothingForgotten`), `CountersAccountForWrites` (`WritesAccounted`) and
`QueueStaysSound` (`QueueSound`).

`CoordinationProofs`. Of leases: `TypeCorrect`; `LeasesExclusive` (`Exclusive`):
the contention query sees rows whose deadline has not passed, the sweep just
before it leaves no other active rows, and `MatchesTenant` is symmetric; the clock
is not mentioned. `LeasesStayLost`; `PromisesKept` (`PromisesExclusive`) for a
clock that does not step back; `LockImplemented` (`ImplementsLock`): the initial
state maps to the initial state of `LeaseLock`, and each action to a grant, to an
end, or to a stutter. Of signals: `SignalTypeCorrect`, `RepliesStayLinked`
(`RepliesLinked`) and `AcknowledgedOnce` (`AckedOnce`): `Send` copies thread and
project from a parent that is there, and no step changes either of a row that was
sent.

`StorageProofs`. `ChainBindsAlways`: an append does not change the nearest chained
row of older positions, and an edit changes no hash. `MismatchesAreEdits`:
verification from the first row sees exactly the edited chained rows.
`VerificationExact` (`VerifyExact`): what verification from any row reports, with
the row it names. `SchemaAlwaysServed` (`SchemaServed`), of the statements of a
start: before each statement, `SchemaInv` says what the statements before it have
done (`StatementsLast`: their tables, columns and index are there), that the text
index is exact from the fill on and its triggers are there from then on
(`TextsFollow`), and which of the two vector tables holds a stored vector at each
stage of the rebuild (`VectorsFollow`), wherever earlier starts ended: what
neither is in the served table nor about to be copied into it was stranded by one
of them. The lemmas before it (`Blocks`, `PlanFits`, `PlanKinds`) locate each kind
of statement in the list of 65. Assumed of the constants (`SchemaAssumption`):
earlier releases left only columns that this release knows, and `NoTable` is no
set of rows. `ImportsStaySound` (`ImportsSound`), of the imports: a row is stored
only if no live row has its text, so `ImportedOnce` is inductive; the event of a
row that has an id or a timestamp has the same identity in every run (`StableId`)
and its event is never taken out of the log (`EventsRemain`), so a forgotten text
is met as a known event; the counts of a running job and what is left of its plan
are its total, and a job with an insert, a duplicate or a row under its tag has an
answer that is no failure (`JobsFollow`). Assumed (`ImportAssumption`): the source
is finite, and its rows are neither issues nor chunks.

`OrderLemmas`. The lists of the modules that use `SortedLists` are `Sorted` or `Sublist`
of a set or a list. A finite set in a strict total order has an element at each
place below its size (`PlacesTaken`: different elements have different numbers of
predecessors, and an injection between sets of one size is onto), so that a
sorted list, by score, by date or by the places of a reranker, holds every element
of the set it sorts, each once and in the order (`SortedList`, `SortedAll`,
`SortedInOrder`), and a filtered list what the set has of the list, in the list's
order (`SublistList`).

`ObservationProofs`. The theorems about readers hold in every state of the right
type: a search returns admitted candidates, which the last look-up takes from live
rows only; its candidates are the tenant's own when each source filters, and the
latest interaction is made of rows that were looked at (`LatestOfRows`). From it
`ReadersStaySound` (`ReadersSound`) and `ListedAlwaysOpens` (`ListedCanBeOpened`).
`NothingEverVanishes` (`NothingVanishes`) is inductive: of the live rows with one
text cleanup keeps the newest (`CopyKept`). Assumed (`ObservationAssumption`): a
store is finite, its rows have scores, `None` is no team. `FeedSeesAll`
(`FeedExact`) rests on `FeedInv`: the ring holds consecutive ids up to the counter
(`RingSound`); what the UI's list, a cached list or an answer on its way leaves
out of the rows that it owes lies behind its cursor in the order of the feed
(`ListsSound`); a request in flight belongs to the list on the screen and its answer
was computed from no fewer rows than the list has been shown (`RequestSound`), and
every other one that is under way was aborted, so that its end changes nothing that
is shown (`LateSound`); and a resumed client has read one id after the other from
what it brought along, but for those the ring had dropped when it was served, and
what the ring still holds goes on from there (`StreamsSound`). A page is a
segment of a sorted list, so that what comes before its last row is on it or on a
page before.

`EdgesProofs`. `MembershipFollowsAnswers` (`MembersAsTold`);
`LinksAlwaysFoundOnce` (`LinksFoundOnce`): a walk of n links leads only to what
the first n rounds asked for, since a round leaves out nothing but what an earlier
one had, and the frontiers of the rounds have nothing in common; no property of
the links is needed, in whatever circles they run; `SyncConverges` (`SyncSound`):
the store holds the maximum pushed since the start, and the answer under
construction counts a page for every change that it will report; `SharedFilesKept`
(`FilesKept`): each file, and what a trim is about to write, is a suffix of what
was sent but for what crossed; messages are cut only in files that were full; and
what a registration under way holds, with the sessions exposed, is every session
registered when it was read; `RatePromisesKept` (`RateKept`) with
`NoClientSavesUp`: tokens and requests counted since any moment never exceed the
burst and the refills in between, where the refill keeps the remainder of an
interval. `AnswersStayHonest` (`AnswersHonest`): for every tool, the arguments
that its declaration requires, the checks of its handler and what the route asks
for agree (`ListsAgree`, a comparison of the three lists tool by tool), and a call
in progress has passed the first of them; a bulk_add answers ok only where none of
its events is still under way and all are recorded, also when requests of an
earlier process ended with it. Assumed: `Attempts \in Nat`. `ListedProjectsFound`
(`ListedProjectFound`, one part of `ProjectsFound`) needs no invariant, only that
the last component of a path is no path and that links and repositories lead to
paths (`ProjectAssumption`).

`BackgroundProofs`. `BreakerTypeCorrect`, `EndpointNotHammered` (`NoHammering`):
an open breaker remembers how long ago the last failure was, and only a wrapper
without fallback sends a request through it;
`CompletedMeansExtracted` (`CompletedCovers`): what a run read before its await
is extracted when it finishes, and a job that is pending again is not completed;
`MergesAlwaysEnd` (`FactsSound`): every merge leads to a fact that was there
before and to one not merged when the run read it, so that no set of facts is
merged among itself; `NoSummaryAfterEnd` (`NoPartialAfterEnd`).

`HandoffsStaySound` (`HandoffSound`): the loop of `buildStructuredHandoff` is a
recursive function over the rows of the session in order of creation. That such a
function exists is shown by a least number of rows without one (`LoopExists`);
that after any number of rounds it knows the last prompt, the last answer and the
last prompt before that answer (`LoopSound`) by a least number of rounds after
which it does not (`LoopRound`, `LoopEnds`). Which rows these are, the oldest up to
the limit, is their definition; that they are the session's last ones is false, as
`handoff_latest` shows. The rest is `SessionTypeOK`, inductive with the rows that a
summary reviewed, all stored before the summary.

`OffsetsPassOverNothing` (`OffsetsSound`): `IngestInv` says of each file that what
lies below its stored offset and in reach is accounted for and that a stored
context was heard (`FileSound`), and of the visit under way that the file only
grew since it began, unless it was rotated, and that what was read and is not yet
recorded is still to be handled, in the order of the file (`VisitSound`), where a
line behind one that does not fit was not read and a compacted line owes two
records (`Fitting`, `Recalling`). The parsers are opened up kind by kind, and so
are a rewritten last row and a rotated file (`Replacing`, `Rotating`). Assumed
(`IngestAssumption`): there are finitely many files, and room for two lines.

`EmbeddingsStaySound` (`EmbeddingSound`): a degraded answer of the general route
is thrown away before its label is chosen, so that a row under the free label was
made by the free model; a free vector in the cache is of a text that missed
(`CacheEarned`), and a free answer that is not cached is labelled free; `Remember`
drops a text before it appends it and the oldest entry before the cache is too
long (`Remembering`); in the local cache a text that is asked for again moves up,
which keeps length and difference of its entries (`MovingUp`); a write is accepted
only with its text primed or for a checkpoint.

### Only model-checked, and why

- Every liveness property: the prover handles neither fairness nor ENABLED.
- `MigrationSettles`, the other part of `ProjectsFound`: the three rules of
  `migrateLegacyProjectAliases` feed one another, the weights of spellings change as
  rows are renamed, and nothing in the code bounds the number of starts until no row
  is renamed any more. TLC finds that as many starts as there are rows are enough
  for the names of its instance; no measure that falls with every start is known
  from which it would follow for all names.

All other invariants and action properties of the passing runs are proved.

No module declares a RECURSIVE operator.

## Not modelled

- PostgreSQL adapter: its transactions over a pool are a failure that
  `ManagedBackend` lets happen.
- Ranking, routing and rerank, answer compiler, language models, analytics:
  numbers and texts; their results are choices in the models that use them.
- Authentication: a stateless look-up, whose result is the tenant argument of the
  actions.
- `mcp-server/src/hybrid/local-retry-queue.ts`: no code imports it.
- Team invitations: a table without code.
- SDKs, editor extension, hooks, benchmarks, scripts, health reports, metrics and
  backup.

## Hazards without a property

- With the gate in block mode a queued event whose content is live by the time of
  its retry is refused at every retry and its row stays
  (`core/event-recorder.ts:983`).
- No code path leads the managed backend from degraded back to connected
  (`projector/managed-backend.ts:286`); an event id that PostgreSQL holds under
  another hash fails its batch at every attempt (`projector/event-store.ts:46`);
  a shadow read may take the connection of an open append
  (`projector/event-store.ts:13`).
- Finalizing a session whose first event has not arrived ends no row
  (`core/session-manager.ts:805`).
- A broken download counts as an installed model
  (`embedding/model-manager.ts:131`); the fallback's vectors carry the remote
  provider's model name (`embedding/fallback.ts:149`).
- A puller that keeps a cursor misses records pushed later with an older time
  (`sync/engine.ts:56`); what a connector pulls is counted and dropped
  (`sync/connector-registry.ts:90`).
- The nearest vectors are taken before the filters
  (`core/observation-store.ts:1737`); superseded rows move behind the others after
  sorting by date (`core/observation-store.ts:3833`).
- A broadcast to a server that is away for more than an hour is not shown
  (`mcp-server/src/tools/session.ts:326`).
- Edited issues and decisions keep their id and count as duplicates
  (`connectors/adr-decisions.ts:68`); summaries keep blanks that observations
  replace in a session id (`ingest/claude-mem-import.ts:288`).
- A clock set back stops the refill of the rate limiter
  (`middleware/rate-limiter.ts:39`); adding a member again answers a role that is
  not kept (`db/repositories/SqliteTeamRepository.ts:106`).
