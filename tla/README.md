# memory-mcp: a TLA+ verification project

memory-mcp is an MCP server that keeps memories, entities, relations, tasks and
inboxes of agents in Postgres and projects them to a vector store (Qdrant) and a
graph store (Neo4j).  This directory holds TLA+ modules translated from its
source, TLC configurations that check them on small instances, and TLAPS proofs
for all instances.

    tlc -config MCOutbox_leases.cfg MCOutbox.tla
    tlc -config MCMemoryStore_race.cfg MCMemoryStore.tla
    tlc -config MCProgress.cfg MCProgress.tla
    for m in Outbox MemoryStore Tasks Relations Compose Dream Service Read; do
        tlapm ${m}Proofs.tla
    done

PROJECT.json names the lines behind every definition (`map`), the runs, the
mutated definitions each property is known to reject, the hazards of the code
and the findings.

## The system

| Part | State | Operations | Hard parts |
|---|---|---|---|
| Memories (`memories.py`) | `memories`, tags, lineage, tombstones | write, update, archive, retire, supersede, copy, move, hard delete | optimistic versions, read-then-write transactions, lifecycle, one event per version |
| Outbox (`db/outbox.py`) | `outbox`, `outbox_delivery`, `projection_state` | `enqueue_event` inside a canonical transaction | sequence ids against commit order, rollback |
| Projection workers (`projection_worker/`) | leases and attempts in `outbox_delivery` | lease, dispatch, mark done, mark fail | competing workers, crashes, lost replies, retries, ordering |
| Handlers (`projection_worker/handlers`) | points and nodes in the sinks | upsert, delete | every snapshot must have its effect, repeated or not |
| Reads (`search/`, `graph.py`, `context_pack/`, `pagination.py`) | none; cursors | search, fallback, neighbours, related, packs, listings, fresh waits | an index that lags, several transactions per answer, pages of a moving table |
| Entities, relations (`entities.py`, `relations.py`) | `entities`, `relations`, `graph_nodes` | upsert, merge, link | unique keys met by two calls, merges beside writers |
| Tasks (`tasks/`) | `tasks`, relations between them | create, substep, link, status, next, tree | cycles between concurrent links, stale status changes |
| Inbox (`inbox.py`) | channels (entities) and messages (memories) | open, send, list | concurrent opening, a merge of the channel |
| Compose, decompose (`composers.py`, `decomposers.py`, `autowire.py`) | operations and their keys, lineage, wired relations | compose, decompose | idempotency keys, retries, partial failure |
| Dream (`dream/`, `dream_worker/`) | proposals, runs, locks, counters, salience | passes, review, scheduling | locks across transactions, stale candidates, convergence |
| Salience (`dream/salience.py`, reads of `memories.py`) | `access_count`, `salience` | bump on read, rescore | a score written from an unlocked read |
| Env operations (`env_ops/`) | envs, snapshots | delete, rename, clone, merge, snapshot, restore, import, migrate | long transactions beside live writers, names that collide |
| Reports (`provenance.py`, `digest/`, `browse.py`) | digests | lineage, trees, digests, listings | cuts and caps, entries between two digests |
| Tools, identity, CLI, client, model backends | none | formatting, glue | retries of non-idempotent calls (client) |

Parts meet in Postgres: every canonical transaction that changes a projected row
calls `enqueue_event` before it commits, workers read only outbox rows, never
canonical ones, and readers decide on freshness from `projection_state`.

### What makes each part correct

- Outbox and workers: a sink goes through the versions of every aggregate in
  order; nothing is lost, taken twice at once, or reopened; what is reported
  done is in the sink; every delivery ends.
- Fresh reads: an answer marked fresh shows what was committed before it (the
  code keeps this only up to what another aggregate's event overtook).
- Memories: no lost update, one event per version, only legal transitions, a
  superseded row points at its successor.
- Tasks: the dependency graph stays acyclic, so that some task can always be
  done; a status change is legal where it lands.
- Entities and relations: names stay unique, merges lose no mention, every
  answer and event is part of one history of versions.
- Compositions: one operation per key, whatever is retried; a source ends once.
- Dream: a promotion of one entity over one set of evidence is proposed once,
  merges take no memory twice, what ended stays ended, every run ends; counters,
  authority and salience come to rest at the values they are defined by.
- Env operations: a restored environment is the archive and what callers wrote
  since it was emptied, a copy is its source;
  no name or mention is lost by copying.
- Searches, packs, listings, walks, reports: no replaced hit, no cut without
  saying so, no row twice or skipped, no memory shown that is hidden.

## Modules

| Module | Models | Source |
|---|---|---|
| `OrderedDelivery` | what the outbox promises of one sink and every aggregate | abstract |
| `Outbox` | canonical transactions, workers, handlers, sinks, crashes, clocks | `db/outbox.py`, `projection_worker/`, `db/vector/qdrant.py` |
| `FreshRead` | a reader with consistency=fresh beside `Outbox` | `search/api.py`, `graph.py` |
| `MemoryStore` | the tools on canonical memories under concurrent callers | `memories.py`, the tables' constraints in `migrations/` |
| `Tasks` | tasks, dependencies, the advisory lock, `task_next` | `tasks/` |
| `Relations` | calls that link records, their nodes, versions, events | `relations.py`, `tasks/api.py` |
| `Entities` | upserts, merges, channels and messages | `entities.py`, `inbox.py` |
| `Compose`, `AutoWire` | compositions and their keys; the wiring of pieces | `composers.py`, `decomposers.py`, `autowire.py` |
| `Dream` | passes, run rows, locks, proposals, review | `dream_worker/`, `dream/passes/`, `dream/api.py` |
| `Popularity`, `Authority` | the recount pass: counters and triggers; authority and rescoring | `dream/passes/recount.py`, `migrations/` |
| `Salience` | the formula, and reads that count accesses | `dream/salience.py`, `memories.py` |
| `EnvOps`, `NamedCopies` | rows of environments; entity names in copies | `env_ops/` |
| `Search` | legs, fusion, fallback, successors | `search/` |
| `Traversal`, `Related` | `memory_neighbors` over both stores; `memory_related` | `graph.py`, `db/graph/` |
| `ContextPack` | sections, budget, what is left out | `context_pack/` |
| `Lists` | WHERE and LIMIT over ranked rows, for `Search` and `ContextPack` | their queries |
| `Answers` | `Search`, `Reports` and `Related` side by side | |
| `Listing` | keyset pages of eight listings | `pagination.py`, `browse.py`, and the tools that page |
| `Reports`, `Digest` | lineage and task trees; digests of the journal | `provenance.py`, `tasks/api.py`, `digest/api.py` |
| `OutboxProofs`, `TasksProofs` | the theorems about `Outbox` and `FreshRead`, and about `Tasks` | |
| `MemoryStoreProofs` | the theorems about `MemoryStore` and `EnvOps` | |
| `RelationsProofs`, `ComposeProofs` | the theorems about `Relations` and `Popularity`, and about `Compose` and `AutoWire` | |
| `DreamProofs` | the theorems about `Dream` and `Salience` | |
| `ReadProofs` | the theorems about `Traversal`, `Reports`, `Related`, `ContextPack` and `Search` | |
| `ServiceProofs` | the theorems about `Digest`, `NamedCopies`, `Entities` and `Listing` | |
| `MCOutbox`, `MCFreshRead`, `MCMemoryStore`, `MCDream`, `MCEntities`, `MCProgress`, `MCServices` | instances for TLC | |

`FreshRead` extends `Outbox`.  `MemoryStore` and `Outbox` meet in what one
guarantees and the other starts from: `Outbox` lets a canonical transaction
insert the next version of an aggregate, each once, and `HistoryIsComplete`,
`RelationHistory` and `EntityHistory` are the statements that the events of
memories, relations and entities are of that form.  The other modules model one
service each, with the callers and background steps that change what it reads
as actions of its own.  They share no variables; `MCProgress` and `MCServices`
explore several of them in one run, one at a time (see Runs).

### Outbox

One instance is a whole deployment: `Aggregates` (ids of canonical rows with a
`Kind`), `Workers` (processes), and both sinks.

| Variable | In the code |
|---|---|
| `version` | the `version` column of the canonical row, committed |
| `nextId` | the sequence behind `outbox.event_id`; a rollback does not return an id |
| `outbox`, `status`, `attempts`, `lock` | the row and its `outbox_delivery`: `status`, `attempt_count`, and `locked_until` as "free" (NULL), "held" (ahead of `now()`) or "expired" |
| `projection` | `projection_state` of each sink |
| `point`, `handled` | the sink: the version it shows of each aggregate, and the last version whose effect reached it |
| `turn`, `pc`, `batch`, `cur` | a worker: the sink `_run` drains next, its place in `drain_once`, the leased events left, the event being marked |

`EnqueueEvent`, `CommitWrite` and `RollbackWrite` are a canonical transaction.
The event id is taken from the sequence at the insert and seen at the commit, so
commits need not follow id order.  Two transactions on one aggregate exclude
each other, as the row lock and the version check make them.  `Lease` and
`CommitLease` are `lease_batch` with its locks held in between, which is where
SKIP LOCKED matters.  `DispatchOk`, `DispatchSwallowed`, `DispatchRaises` and
`DispatchLostReply` are one call of a handler: applied, refused by the sink and
reported as success, raised without effect, and raised after the effect.
`MarkDone`, `MarkRetry` and `MarkDead` are `mark_done` and the two ends of
`mark_fail`, each a transaction of its own.  `Crash` and `Restart` may fall
between any two of these, and `LockExpires` is the clock.

Snapshots are a member of `Bodies`: text to embed, an empty text (the memory
handler deletes the point), or a snapshot the handler raises on.
`Effect` says what each handler does with each of them.

### FreshRead

`BeginRead` is `_capture_watermarks`, `PollCaughtUp` and `GiveUp` are the two
ends of `_wait_for_watermarks`; the read is compared with `version` at its
beginning.  Any number of worker steps may fall between polls.  The comment's
claim is `FreshIsTruthful`, which the code breaks (`fresh_skips`); what does hold
is `FreshMissesOnlyOvertaken`: whatever a fresh answer lacks has a delivery that
is not done and that an event of another aggregate overtook in the same sink
(`Overtaken`).  In particular an older event of the same aggregate never stands
in for a newer one, and once everything has been delivered nothing is missing.
`DegradesOnlyWhenBehind` is as weak as the code: the target is the env's newest
event whatever its sink, so a sink that owes nothing may keep a read waiting.

### MemoryStore

`row`, `lineage`, `nodes` and `events` are `memories`, `memory_lineage`,
`graph_nodes` and the memories' part of `outbox`; `tx[c]` is what the call of
caller c has read.  A tool reads rows without locks, decides, and writes at its
end, so every tool is a Begin and a Commit action (a hard delete has its guard
in between, a cascade is two transactions), and other calls commit in between.
A commit meets what the database re-checks:

- `Current`: the tools that update `WHERE version = :expected`;
- `StatusCheck`: `memories_superseded_status_chk`;
- `Holders`: `superseded_by` is ON DELETE RESTRICT;
- `Delete`: `memory_lineage` and `graph_nodes` are ON DELETE CASCADE;
- `Taken`: UNIQUE (aggregate_type, aggregate_id, aggregate_version).

A refusal that a tool declares (`Refuse`) is kept apart from an exception of the
database (`Fail`).  `mem_move` is two tools here, one per value of
`redirect_source`, since the two write differently.

### Tasks, relations, entities

In `Tasks` a call is a transaction `call[c]` that reads, waits for the env's
advisory lock (`depLock`), checks for a cycle and inserts, or reads a status and
updates `WHERE version`.  `Reaches` says what `would_cycle`'s walk finds without
a recursion: b is in every set that holds a and is closed under the edges.
`Relations` has the same shape with the savepoints of `_create_or_get_graph_node`
and `relation_link`: two calls that insert one row wait for each other
(`Blocked`), and Postgres breaks a deadlock.  `Entities` keeps in `mergedInto`
what became of each entity.  `entity_merge` is one transaction of three
statements that matter, and sends, upserts and other merges commit between them:
`BeginMerge` reads the rows, `PlanMerge` both nodes and the relations to move, and
`CommitMerge` moves those, deletes what hangs on the merged node by then, and
commits.  It fails where the optimistic update, the outbox's key or the unique key
of a node's entity says so (`MergeFails`).  `late` is history: the messages whose
send committed between the plan and the commit of a merge of their channel. `Listed` is what `mem_inbox` shows of a channel.
`Heir(i)` follows merges of any length in the way of `Reaches`: it is in every
set that holds i and is closed under `mergedInto`, and was not merged itself.

### Compositions

`Compose` follows `_compose_in_session` and `_decompose_in_session`: the row
locks in id order, the replay by key, the checks, the claim of the key, one
commit.  `AutoWire` is the wiring of one `memory_decompose` in its two stages.

### Dream, counters, scores

In `Dream` a runner of a pass (a replica or a tool call) holds a session lock
over many transactions; `leak` are locks whose connection went back to the pool.
A promotion's key is the entity and the evidence (`DedupeKey`, `Subjects`), so two
entities over the same observations are two proposals.  `promote.py:322` says that
"identical evidence sets only ever produce one proposal in the system's lifetime";
`PromotionProposedOnce` holds of each entity, which is what the key built at
`promote.py:288` gives.
In `Popularity` the four `reference_count` columns are kept by triggers
(`counted`), which `recount.py` corrects; in `Authority` a pass blends what it
read with what there is, and scores rows in transactions of their own; in
`Salience` a read computes a score from its snapshot (`bump`) and writes it
later.  Numbers are small integers in the unit of the column; the logarithm is a
table given as a constant.

### Environments

`EnvOps` has memories, lineage, the outbox's unique key and snapshots of three
environments.  An operation begins, copies or deletes, links and ends in
transactions of its own, with `memory_write`, update, supersede and hard delete
between them.  A restore in place is four steps of one transaction: the live
lineage is read (`BeginRestore`), the DELETE finds the rows committed by then
(`BeginEmptying`), waits for callers that hold one of them (`EndEmptying`), and the
archive's rows are inserted and committed (`RestoreRows`).  It locks the rows it
deletes and nothing else, so what callers write after the DELETE's snapshot stays
beside the archive, and `RestoreIsSnapshot` says so: the archive is back, and the
environment holds nothing else but rows younger than that snapshot (`op.upto`).  `NamedCopies` is what the copying operations do to entity names,
aliases and mentions, and the merges that follow (`copier.todo`, made from the
oldest entity on: `NextPair`).

### Reads

`Search` (`seek`), `ContextPack` (`packer`), `Listing` (`scan`), `Traversal`
(`walk`), `Related` (`asking`), `Reports` and `Digest` (`digester`) keep the
state of a call between its transactions; the rows and points they read move in
between.  Rankings are constants (`LexOrder`, `SemOrder`, `Nearness`): what an
embedding or a text index prefers is given from outside, what the code makes of
it is modelled.  Some variables are history only (`covered`, `overtaken`,
`heir`, `still`, `calm`): they say for which rows a property may speak.

## Runs

Every property of a passing run has a mutated definition in the module, written
as a plausible bug of the mapped code, with which TLC finds it violated.

| Run | Instance | Shows |
|---|---|---|
| `leases` | 2 memories, 2 workers, 3 events, batches of 2, 2 attempts, one crash, lost replies and refused deletes | nobody shares an aggregate, outcomes are final, delivery is in order (`OrderedDelivery`), a dead delivery freezes its aggregate, the watermark never falls back |
| `handlers` | one row of each kind, 1 worker, 2 events, all bodies, calls that fail for ever or lose replies, one read that waits for both sinks or for neo4j alone | what is done is in the sink; every delivery ends; a fresh answer lacks only what was overtaken, and a read gives up only where a sink it waits for has not reached its target |
| `store_race` | 2 callers, every tool, 2 memories, 3 versions | no lost update, complete histories, no dangling heir or edge |
| `store_alone` | 1 caller, every tool but `move`, 3 memories, one imported in any status, 2 versions | the lifecycle matrix on every path, no orphans |
| `dream` | 2 runners, 4 modes, 2 entities, 2 memories and the results of 2 merges, 2 runs, one fault, one client move | promotions proposed once, merges disjoint, ends kept, runs end |
| `progress` | tasks, relations, compositions, counters, authority, salience, walks | invariants of each, every call returns, scores settle, a negative outweighs whatever else a score counts |
| `services` | entities, wiring, environments, copies of names, search, digests, packs, listings, reports, related | nothing lost, replaced, skipped, repeated or silently cut |
| `crash`, `fresh_skips`, `store_cascades`, `dream_promotion`, `merge_loses_send` | as small as the disagreement allows | violations, see Findings |

**The two joint runs.**  The services of `progress` and of `services` share no
variables, so exploring them side by side would multiply state spaces to no
purpose.  A variable `part` is chosen at the start and never changes; only the
service it names moves, by the `Next` of its own module, and the others stay in
one of their initial states.  The run is the sum of the modules' state spaces,
and a property of one service is checked over all of that service's behaviours.
A property whose name is not in a module is a conjunction that the MC module
defines, of those properties of one service that answer one question.

| Part | Instance |
|---|---|
| tasks | 2 callers, 3 tasks, one status change of two that are asked for |
| relations | 2 callers, two memories and a task, 3 edges, opposite directions among them, 3 calls |
| compose | 2 callers, 3 sources, all four operations, a caller's key or a hash, one change by others |
| counters, authority, salience | 2 or 3 rows, citations of every kind, a cycle of citers, 1 to 3 changes between the pass's transactions |
| walks | 5 nodes, 6 possible relations, both stores, 4 requests, up to 5 changes |
| entities | 2 callers, 2 environments, 2 names, 2 messages, 5 calls |
| wiring | 2 pieces, 5 neighbours, one interference |
| envs, copies | 3 environments, 4 rows, 3 calls, 2 operations; 2 entities copied onto 2, names and aliases in every combination, all six modes |
| search, packs, related | 4 to 7 memories, 6 queries over all modes, 1 to 3 changes |
| digests, lists, reports | 2 digest calls and 2 entries; 3 rows, pages of one, 5 changes, each listing; 4 nodes, all depths |

Why the bounds are enough.  Two workers and batches of two are the least with
which a batch can hold, or two workers can compete for, two versions of an
aggregate; the third event is a second version beside another aggregate's.
Two attempts separate a retry from a dead letter.  One crash at any point is a
process lost at any point, and the survivor meets what it left.  The order, the
leases and the outcomes are moreover proved for all values.  In `MemoryStore`
two memories suffice for one row and its heir or copy while two callers race;
cascades of depth two, and an heir that is itself derived from, need three rows
and get them with one caller.  `MaxVersion` bounds how often a call is begun on
a row, never how it ends: a call that was begun always finishes.  A cycle of
dependencies needs two edges and two callers that each saw one of them missing;
a third task makes one longer than that.  `dream` has room for the results of
two merges, so that a second one over a superseded source could happen.  A row
that a page skips or repeats needs a page before it, a page after it and a row
that shares its key: three rows in pages of one.  A call that reads in several
transactions can be overtaken once per gap, and the changes by others are at
least as many as one row needs to be replaced and the replacement to be hidden.

Of the passing runs `handlers` and `leases` check deadlock, the others do not: ids,
versions and calls run out and a client has no duty to call.  In those two
every behaviour can go on, since a worker's loop always can.

### Fairness

`FairSpec` of `Outbox` assumes weak fairness of `WorkerStep(w)` for each worker
and of `LockExpires(e)`.  The first is the loop of `runner.py`: `_run` polls,
drains and marks for as long as the process lives, and awaits nothing without a
timeout; a step that is enabled stays enabled until that worker takes it.  It
is one condition for the whole worker, so it promises no particular outcome of
a call: a sink that never answers is allowed, and `EveryDeliverySettles` holds
because `attempts` is counted up to `MaxAttempts`.  The second is that time
passes.  Nothing is assumed of writers, of sinks, or of a restart after a crash.
`handlers` has no crashes: with one the property is false, which is `crash`.

`DreamFairness`: a runner inside a pass goes on with it.  The scheduler, the
reviewers, the clients and the faults owe nothing.

`ProgressFairness` is the fairness of its modules.  A transaction goes on by
itself (`MovesOn`, `RunsAlone`: weak fairness), and who waits for a lock of
Postgres gets it if it is freed again and again, since waiters are queued
(`GetsItsTurn`: strong fairness, of the advisory lock in `Tasks`, of the row
locks in `Compose` and `Salience`).  Nothing makes a connection drop: `Rollback`
is in no fair action except for a subtask that finds no id within the bound, so
that calls do not return by losing their connection.  A deadlock is broken
(`BreakDeadlock`), which is deadlock_timeout.  As one service moves at a time,
the callers of four modules share one formula, under the assumption
`SameCallers`; the callers are interchangeable in each module, so
`EveryCallReturns` is checked of one of them.

`FairFreshSpec` is `FreshSpec` with the fairness of `Outbox`; nothing is assumed of
the reader.  The runs `leases`, `store_race`, `store_alone` and `services` check
safety only and use no fairness.

## Findings

Each is a run that TLC refutes and a quoted line of the repository that says
otherwise (PROJECT.json, `findings`).

- `crash`: `lease_batch` selects `pending` only, so rows of a dead worker stay
  `in_flight`, and everything behind them waits, though its comment promises
  that they return.
- `fresh_skips`: the watermark is the newest done event, not the end of a
  gapless prefix; a read is called fresh although an older event of another
  memory still waits for its retry.
- `store_cascades`: a cascade deletes an heir before the row that names it, and
  the foreign key rejects it.
- `dream_promotion`: accepting what the promote pass proposed is refused as
  malformed, for the pass writes the ids under other names than the accept
  handler reads, though `dream_review` is said to dispatch to it.
- `merge_loses_send`: a message is sent to a channel after `entity_merge` selected
  the relations to move and before it deletes the merged node; its relation goes
  with the node, and no channel lists a message whose send was answered.

Seen while modelling, without a run of their own.

Outbox and memories: the qdrant adapter swallows every error answer to a delete
and the event is marked done; a hybrid read waits for neo4j to reach an event
that only qdrant gets; a move that deletes its source enqueues the tombstone at
a version that is taken, so it fails for every memory that was written, and for
an imported one may leave the tombstone below a concurrent update's event; the
guard of a hard delete is a read, and a copy that commits after it loses its
lineage; `superseded` to `retired` is legal in the matrix but the row keeps its
heir and the check constraint rejects it; `mem_move` supersedes a row whatever
its status.  `store_race` has no imports and `store_alone` no move for that
reason.

Dream: two entities over the same evidence give two promotion proposals, against
the comment at `promote.py:322`.

Environments: a restore in place leaves what callers write between its DELETE and
its COMMIT, so the environment is then the archive and more
(`env_ops/snapshot.py:261`); it writes rows back at the snapshot's version
while the outbox has later events of them, so the next update may meet the
unique key; lineage to another environment is restored twice; a migration puts
the heirs of a chain back without a version or an event
(`env_ops/snapshot.py:393`, `:265`, `env_ops/migrate.py:274`).  `env_delete`
with cascade says it nulls foreign keys that the check constraint of superseded
rows protects, so it fails where another environment holds such a row.  An
import or merge commits its rows before it merges the entities they collide
with; a conflict in between leaves an entity under a made-up name, with no
retry (`env_ops/merge.py:162`, `env_ops/import_.py:689`).

Scores: the counters of a memory cited by one that is only stale differ between
trigger and pass (`Exact` is what holds in the end); the pass overwrites links
that were committed while it ran, until the next one; a row whose rescoring
conflicts keeps its old salience until something else moves it; nothing in the
code increments the negative feedback.

Reads: a journal entry whose transaction overlaps a digest is read by no later
one; a listing down from the newest update skips rows touched on the way;
`task_list` and `mem_inbox` accept a cursor of other filters; a task at the end
of a path makes `memory_neighbors` fail over Postgres; `task_tree` stops at the
first branch that is too deep; a leg of a search may be filled by superseded
rows; the ladder of `memory_neighbors` is climbed anew by every page, so that a
request of several pages is given hidden memories by a page that shows nothing
else, although others show visible ones (`mcp_app.py:1251` and
`schemas/.../graph.py:208` speak of an empty traversal: `HiddenOnlyAsLastResort`
is therefore about requests whose paths make one page).  The properties of these modules speak of what is left: rows that did not
change, listings that kept their filters, entries that were not overtaken.

## Proofs

All theorems are about the specification of one module for every value of its
constants that meets the assumptions named in that module: sets of aggregates,
workers, callers, entities or memories may be of any size. The assumptions are
of three kinds. Bounds are natural numbers (`BoundsAssumption`, `StoreBounds`,
`TaskBounds`, `LinkBound`, `ComposeBounds`, `DreamBounds`, `SalienceBounds`,
`EntityBounds`, `EnvBounds`, `WalkBounds`, `EditBound`, parts of `DigestAssumption`,
`NamedCopiesAssumption` and `SearchAssumption`). What a caller may ask for is of the code's types
(`KindAssumption`, `BodiesAssumption`, `ErrorsAssumption`, `ToolsAssumption`,
`ModesAssumption`, `TaskTargets`, `TasksAreRecords`, `PairsOfRecords`,
`EmptyProperties`, `SourcesAreIds`, `RequestShapes`, `WiringShapes`,
`CitationShapes`, `MacrosOfMemories`, `RequestsAdmitted`, `StoresKnown`, `LinksJoinNodes`, `DreamModes`, `DreamGiven`,
`ReadListsNameOnce`, `ImportedAssumption`, `ChannelIsAKind`, `TextAssumption`;
a budget is one that `mem_context_pack` accepts, `PackAssumption`). And names are
apart: a runner is not `Nobody`, the nodes of tasks are not memories
(`NodesApart`), a graph node is of one kind and a walk starts at none of a task
(`NodeKinds`, `OriginIsNode`), native entities are not copies, the source's entities have
different names (its unique key), and none of them has the name `Unasked` that a
copy is given when its own is taken, which ends in a fresh uuid. The corpus of
`Search` is finite and its ids are numbers in the order of creation; the rows of
`Listing` are finite and have numbers for ids (`ListingAssumption`), those of
`ContextPack` are numbered in the order of their salience (`NotesAssumption`).

| Theorem | States | Further hypothesis |
|---|---|---|
| `TypeCorrect` | `TypeOK` | |
| `InvariantHolds` | `IInv`, the inductive invariant of `Outbox` | |
| `LeasesAreExclusive` | `OneHolderPerAggregate` | |
| `DeadFreezes` | `DeadFreezesAggregate` | |
| `OutcomesAreFinal` | `OutcomeIsFinal` | |
| `Refinement` | `DeliversInOrder`: `Outbox` implements `OrderedDelivery` | |
| `SinkConverges` | `Converged` | no delete is refused ("rejected" is not in `SinkErrors`), without which the handler reports what did not happen |
| `WatermarksAreNewest` | `WatermarkIsNewestDone` | |
| `FreshReadsMissOnlyOvertaken` | `FreshMissesOnlyOvertaken` | |
| `DegradesForAReason` | `DegradesOnlyWhenBehind` | |
| `StoreIsSound` | `StoreTypeOK` | |
| `NoLostUpdate` | `VersionCountsChanges` | |
| `HistoriesAreComplete` | `HistoryIsComplete` | no imports |
| `StatusesStayLegal` | `TransitionsAreLegal` | no caller uses `mem_move`, which does not ask the matrix; any number of callers, where the run has one |
| `DeletesLeaveNoOrphan` | `NoOrphanedMemory` | one caller (`OneCaller`): another may derive a memory between the guard, or the plan of a cascade, and the DELETE |
| `DependenciesStayAcyclic` | `TasksInv`, of which `Acyclic` is a part | |
| `StatusChangesAreLegal` | `TaskMovesAreLegal` | |
| `WorkIsOffered` | `PendingWorkIsOffered` | |
| `RelationsInvariant` | `RelInv`, the inductive invariant of `Relations` | |
| `RelationsTellTheirHistory` | `RelationsAreTold` | |
| `ComposeInvariant` | `CompInv`, the inductive invariant of `Compose` | |
| `ComposesOnce` | `CompositionsHappenOnce` | |
| `PiecesAreWired` | `PiecesAreWiredWell` | |
| `PopularityInvariant` | `PopInv`, the inductive invariant of `Popularity` | |
| `CountersStaySound` | `CountersAreSound` | |
| `DreamInvariant` | `DreamInv`, the inductive invariant of `Dream` | |
| `DreamIsTyped` | `DreamTypeOK` | |
| `PromotesOnce` | `PromotionProposedOnce` | |
| `MergesStayDisjoint` | `MergesAreDisjoint` | |
| `DecaySparesTheEnded` | `EndedStaysEnded` | |
| `SalienceInvariant` | `SalInv`, the inductive invariant of `Salience` | |
| `AccessesCount` | `AccessesAreCounted` | |
| `QuietReadsScore` | `QuietBumpScoresTheRow` | |
| `DigestsMissNothingElse` | `NoEntryFallsBehind` | |
| `EnvInvariant` | `EnvInv`, the inductive invariant of `EnvOps` | |
| `EnvsAreCopiedFaithfully` | `EnvCopiesAreFaithful` | |
| `CopiesKeepTheirNames` | `NamesSurviveCopying` | |
| `NamesStayUnique` | `NamesAreUnique`, a part of `EntitiesAreSound` | |
| `EntitiesStaySound` | `EntitiesAreSound` | |
| `SearchesFollow` | `SearchFollowsReplacements` | `ChainsAreFollowed`: at most eight memories replace others, or nobody asks for superseded ones; `_FOLLOW_SUPERSEDED_MAX_HOPS` is 8, and a longer chain does end at a replaced memory |
| `PagesListOnce` | `ListedOnce` | |
| `WalksAreComplete` | `WalksFindWhatMayBeShown` | |
| `ReportsAreComplete` | `UntruncatedReportsAreComplete`, a part of `AnswersAreComplete` | |
| `RelatedGivesNearest` | `NeighboursAreNearest`, a part of `AnswersAreComplete` | |
| `PacksAreSound` | `PackIsSound` | |
| `SearchesAreComplete` | `UntruncatedIsComplete`, `EmptyMeansNothing`, parts of `AnswersAreComplete` | |
| `AnswersComplete` | `AnswersAreComplete` | |

**Outbox.**  That nobody shares an aggregate is not inductive: a lease is safe
because the row's predecessors are done, that they are done must outlive the
lease, and a predecessor must not appear later.  `IInv` says it in three parts.
`RowsAreVersions`: the committed rows of an aggregate are its versions 1, 2, ...
each once, and an open one is the next, so no predecessor appears late.
`LeasesAreOrdered`: whatever was ever leased, retried or finished is not
blocked, and batches are disjoint.  `SinkIsAtFrontier`: the sink's version is the
last done one or its successor.  Each has a lemma that every step preserves it
(`RowsNext`, `LeasesNext`, `FrontierNext`), one step per action.  Exclusive
leases, the freeze behind a dead letter and final outcomes follow from `IInv`;
the refinement needs `HandledOneByOne`, that a dispatch takes the sink to the
next version or repeats one.  `Converged` adds `PointIsLastHandled`.
`WatermarkIsNewestDone` is inductive together with the types.

**FreshRead.**  `FreshInv` adds two parts to those of `Outbox`.  `RowsInOrder`:
a later version of an aggregate has a later event id, because two transactions
on it exclude each other.  `ReadInv`: every version there was when the read began
is that of an event at or below the target, and a fresh answer had its sinks
there.  A watermark is the id of a done event at or above the target
(`WatermarkIsNewestDone`).  If it is of the aggregate whose version is missing, the
frontier of `IInv` has every version up to it done, which contradicts; so it is of
another one that shares the sink, and that is what `Overtaken` says.  No number of aggregates is assumed.

**MemoryStore.**  `StoreInv` is `StoreTypeOK` with two parts.  `VersionsHaveEvents`:
every version of a row above the one an import gave it has its event.
`CallsKnow`: what an open call has read was true once, so a row's version is at
least what the call saw.  `NoLostUpdate` rests on it where the code has no
check: `mem_move` updates by id, but if its read is old then the event of the
version it is about to write exists, and the unique key of the outbox stops it
(`MoveReadTheLastVersion`).  `HistoriesAreComplete` adds `HistoryInv`, that each
version up to the last has one event and the last event tells the row's status,
and classifies every commit as one that
creates, changes or deletes rows (`CreatedAdvances`, `ChangedAdvances`,
`DeletedAdvances`).  `StatusesStayLegal` carries `CallsMay` along: while the row
is still the one a call read, the change it is about to make is legal.  A row
that changes does so under a new version and a deleted one is gone for good
(`StepsAreSteady`), so a row under the version read has not changed at all
(`CurrentRowsRested`) and the answer of the matrix is still good when the
UPDATE comes, whoever committed in between.  `DeletesLeaveNoOrphan` needs that a
cascade's plan is closed under derivation (`PlansAreClosed`).  The search runs in
rounds, a recursive function: it exists (`RoundsUnfold`), and as long as a round
still finds something the visited set has more elements than there were rounds,
so after as many rounds as there are memories it is closed (`RoundsClose`); both
by the smallest round that fails.

**Tasks.**  `Acyclic` is kept by an insert because the edge was checked on the
edges there still are at the insert: `ChecksHold` says that the lock has one
holder and that a checked edge would close no cycle now.  `SafeEdge` is the graph
fact: an edge whose end does not reach its start closes no cycle through itself
or through an edge that was there.  It is proved with closed sets instead of
paths, so without an induction: the set that separates the two ends stays closed
under the new edge, and so do its union and intersection with the set that
separates the ends of another edge.  `FreshEnd` is why `task_substep` needs no
check.  `ChangesFit` is the part for `StatusChangesAreLegal`: a pending update
whose version still fits asks for a legal change of the status the task has now,
since each change that commits takes the version further.  `WorkIsOffered` takes
a pending task with the fewest pending tasks in the closed set of what it depends
on: one it depends on directly has fewer, for the graph has no cycle, so it has
none, and everything it waits for is over.  The count replaces an induction along
the edges.

**Relations.**  `RelInv` says of an open call what it is about to write:
`WritesNext`, that a row it has locked has the version it read and that an insert
meets no row; `NodesBehind`, that both ends have a node, committed or its own.
Two calls cannot both be there, as the second is blocked or finds the row.

**Compose.**  `SourcesLocked`: a call past its locks holds every source it read,
and they are as it read them.  `ClaimIsNew`: a key it is about to claim has no
operation.  `ClaimsAreMade` and `RepliesAreOfClaims`: a claim that is committed
has its composition, and each answer, replayed or not, is the one of the claim.
`EndsAreTold`: the lineage of an ended source agrees with its row.  With two
compositions of one source, the later one would have locked an ended row.

**AutoWire.**  `BestAreTheFirst` is the fact about ranking: no two candidates
tie, and of two the better one has fewer above it (`BetterHasFewerAbove`).  So
the n that have less than n above them are n: the worst of them bounds their
number from above, the best of the others from below, which counts them without
an induction.  `NearIsCapped` carries the cut through the call, and
`SavepointsAreTold` that a piece was told the links of its own savepoint and none
if that broke.

**Popularity.**  `TriggersReach`: while every change was one that the triggers
cover, a column is the number of its edges.  A link adds one edge to one column
(`CiteReaches`); a change of status adds or takes off the edges of one source,
which are disjoint from the others' (`StatusReaches`).  `QuietCounts`: what an
undisturbed pass has read so far is so still, so when it applies its counts they
are the canonical ones; a pass that a change overlapped ends the hypothesis when
it applies.  `QuietScores`: what it adjusted is scored or still to be scored.

**Dream.**  `PassesHoldLocks`: behind every advisory lock is one pass or one
leaked connection.  `CandidatesAreAsRead`: if a candidate's version still fits,
its status is the one that was read, so decay's update meets nothing that ended.
`CheckedIsNew`: an entity's evidence that passed the check is in no proposal of that entity yet, since only
the holder of that lock proposes promotions.  `MergedAreSuperseded`: the members
of an accepted merge are superseded and stay so, hence a second merge that
shares one is refused.

**Salience.**  `WritesAreLocked`: a row is written by one read at a time, and until
that read commits, the row is what it was written over, counted once more.  So the
commit adds one, although the counter was also read long before.
`AloneIsCurrent`: what a read that nobody straddled has read is so still; its
score is then the one of the row it writes, because the score is no input of the
formula (`ScoreIsNoInput`).

**Digest.**  `DigestInv`: dates are over (`DatesAreOver`), a call that is about
to write knows every entry that has begun, the exceptions apart (`CallsKnow`),
and all others are ahead of every digest that counts, already before they are
committed (`OthersAreAhead`).

**EnvOps.**  `ArchivesHold`: a memory never changes its environment, so what is
left of archived rows is in theirs, and no memory is in the archives of two; hence
a restore overwrites nobody else's row, and an edge to elsewhere, read in another
transaction than the rows, never has both ends among them.  `RestoreFits`: between
the DELETE's snapshot and the COMMIT, the rows to delete are those of the
environment that are no younger than that snapshot (`op.upto`), and the archive's
rows are no younger either; the lemmas `RestoreReads` and `EmptyingKeeps` carry it
past whatever callers commit.  `CopyFits`: the ids
that a copy has given out are new and differ (`RemapFacts`), though the rows
come later, so what it links are its own copies.

**NamedCopies.**  `CopyInv` follows the copies from the first row to the last
merge.  `MergesToMake`: a pair that is still to merge has a colliding entity with
the old name and a copy with a made-up one.  `NamesOnTheWay`: every source name
leads to an entity or will by such a merge.  `MentionsSurvive`: the memory of the
source mentions the heirs of all copies.  Callers may upsert and merge the same
entities between any two steps.

**Entities.**  `NamesInv` needs no hypothesis: a name has one live entity, a node
stands for at most one and is its own unless that was merged away
(`NodesStandForOne`), and what a call found is there or went by a merge
(`CallFinds`).  `SoundInv` adds what the others leave a merge and a send while
they run beside it (`MergesFind`: nothing hangs on the node to be deleted but what
was planned and what came late; `SendsFind`: the node a send links to stands for
its channel's heir, unless it was deleted and the foreign key stops the send), that the versions of an entity are
numbered by its events (`EventsAreVersions`), and that heirs exist and pass on
along `mergedInto` (`HeirsAreKnown`).  The last is about chains of any length
and is proved with closed sets: the set of what stands for the kept entity,
united with the merged one, is closed after the merge (`OnlyHeir`, `HeirsMerge`).

**Search.**  `CallSees` says what a call knows between its transactions.  A row
that was superseded is never written again (`EditsKeep`), so the row a call holds
of a memory replaced before it is the row as it is; and the follow loop ends only
when every successor it met was read or is out of sight.  A hit that was replaced
before the call is then either one whose successor the search does not see, or
one where the walk stopped after its eight hops with the successor read.  The
latter takes nine successors in a row, each written after the one before
(`NineInARow`), which `ChainsAreFollowed` excludes; if nobody asks for superseded
memories, such a row does not pass the filters.  A fallback pass starts anew with
what it read, and keeps the same list of what was replaced (`ReplySees`).

That searches are complete needs no such hypothesis.  `CallGathers` follows the
memories that keep still since the call began: the lexical leg, if it had room,
has those that match (`LexLegFinds`; what a query keeps of a ranked list is a
recursion on its length, `AmongUnfolds`), they are read as they are
(`ReadFinds`), and with no successor nothing takes their place, so they pass the
filters (`SuitsIsKept`).  `Wide` says what the first k steps of the fallback have
made of a request, taken or skipped: when none is left that would change it, it
asks by all legs, for every kind, and for stale and archived memories too
(`WideAfter`), hence what is not found then does not exist.  The part with ids
goes the same way, from the ids instead of a leg.

**Listing.**  `QuietAreShown`: of the rows that kept quiet since the first page,
those behind the cursor were shown once and those ahead of it not yet.  A page is
a prefix of the rows ahead, up to its last one (`PageIsPrefix`, from the ranks of
the rows: the order of key and id is total), and the next cursor is that row, so
what the page shows is what is no longer ahead (`PageMovesOn`).  `ShownAreBehind`
is the other half: where keys stay or move away from the scan, a row that was
shown is never ahead again, whatever is written.

**Traversal.**  Two recursions meet: `OfLength`, the paths that a store's query
builds, and `Within`, the nodes within so many relations, which says what there
is to find.  Each solves its equation (`OfLengthUnfolds`, `WithinUnfolds`, by the
least length that has no solution).  What a path of visible nodes ends at is
within its length (`AdmittedEndsNear`); conversely a node is reached through one
node of each ring, which was in no ring before, so that the path repeats neither
a node nor a relation and is one for Postgres as for Neo4j (`NearHasPath`).
`HitsAreNearby` joins the two.  The invariant, `WalkInv`, says that while nothing
changed the rows of the pages so far are those before the cursor, that `got` is
what they show, and that a request whose loosest form makes one page has been
given hidden memories only if that page shows nothing visible.  Pages abut as no
path is counted twice (`PagesAbut`), and the last one ends at the number of paths.

**Reports.**  Of a lineage: as long as no row is one link too long, every link
whose near end is reachable ends some row (`WalksReachAll`).  CYCLE stops a walk
that passes a point again, so it is not enough that there is a walk; the point
reached first in n links has a row whose points were all reached before it, and
that one passes it nowhere.  What is reachable is taken from below by rounds
(`ReachGrows`) and from above by closed sets (`ClosedHoldsReach`), both solutions
of a recursion on the number of links (`StepsExist`).  Of a tree: `TreeOK` says
that the root, and whatever a listed task depends on, is listed or in a list that
is still being walked; a list ends empty, so at the end all is listed.  Both are
about the links there were when the report began, which are never fewer later.

**Related.**  The store is asked for one point more than the request wants, for
the seed is its own nearest point.  `SeedTakesOnePlace`: of the n + 1 foremost,
those other than the seed, cut to n, are the n foremost without it, wherever the
seed ranks; by ranks as sets of what is nearer, since similarities may tie.
`AskOK` carries it through a call during which nothing changes or fails.

**ContextPack.**  The caps: each share, rounded down, times the total weight is at
most the budget times the section's own weight, and the weights of the sections
that have something add up to the total (`SharesFit`); and no more sections are
rounded up than tokens are left, because the order of the fractions, broken by
weight and place, is strict and total (`AheadIsAnOrder`, `FewAreRoundedUp`).  A hit
that fits takes no more than what is left of its section (`HitFits`), also when a
text was cut to it.  What a section packs was not seen in an earlier one, and it
packs nothing twice (`SectionFits`, `OneSectionMore`, by rounds over the list and
over the sections).  `PackInv` speaks of the transactions before: what a call has
fetched, and what nobody changed since the call began, is visible still, and a
visible row has no successor.  Hence a memory beside its successor was superseded
after one of the two fetches.

### Only model-checked

`EveryDeliverySettles`, `EveryRunEnds`, `EveryCallReturns` and `ScoresSettle`
(liveness and ENABLED are out of the prover's reach); in `ScoresSettle`,
`NegativesDominate` (a sum over the kinds of citations).  Every other property of
the passing runs is stated by a theorem.  Of the breadth-first search of a
cascade the proofs use that it ends closed, not the depth it finds for each
memory.  What digests' sums compute for every journal would need an induction
over data and stays with TLC.

## Not modelled

- Late application: a sink call is applied within the step that makes it, or
  not at all.  A call that timed out at the worker and reaches the sink after a
  newer one is not in `Outbox`, nor is the point that `mem_copy` writes to
  qdrant beside the worker.
- Texts, embeddings, titles, tags (but one in `NamedCopies`) and audit rows: no
  guard of the modelled actions reads them.
- The relation handler's stubs of endpoints: `Effect` treats each aggregate
  alone.  What a cascade of the database deletes goes out without events, and
  stays in neo4j; that is a hazard without a property.
- Environments in modules other than `EnvOps`, `NamedCopies`, `Entities` and
  `Search`, and access rights: every call is taken to pass them.  Renaming and
  comparing environments, and their collections in the sinks.
- The wait of a fresh read is not composed with the search that follows it, nor
  the store with the outbox.
- A read that names a memory twice (`ReadListsNameOnce`).
- Entity recognition, auto context, decisions, playbooks, statistics and `top`:
  they select and format.
- Postgres itself: READ COMMITTED statements, row locks and constraints are
  taken to do what Postgres documents.
- The parts marked `not_modelled` in PROJECT.json: schemas, tool wrappers, model
  backends, command-line glue and the client only format or forward.

## Plan

Done: outbox, workers and fresh reads; memories; tasks, relations, entities and
inboxes; compositions; dream passes and scores; environments; searches, packs,
listings, walks, reports and digests.  Proved: outbox, fresh reads,
memories, tasks, relations, compositions and wiring, dream, counters, salience,
environments, digests, names in copies, entities, searches, paging, walks, reports, related memories,
context packs.
Next, in this order:

| Step | What | Theorems |
|---|---|---|
| 1 | `DirectCopy`: the point that `mem_copy` writes itself, composed with `Outbox` | convergence without direct writes |
| 2 | purging an environment's collections beside the workers | |
