# TLA+ models of DipDup

DipDup indexes blockchains into an SQL database: one asyncio process reads levels (blocks) from
datasources, passes what matches to user handlers and commits what they wrote together with the
level of the index. Chains reorganise, connections drop, users edit their projects and processes
die; what makes an indexer correct is that its tables nevertheless hold exactly what the canonical
blocks up to the index level say. This directory models the parts of DipDup that keep (or break)
this promise. Paths below are relative to `src/src/dipdup/` unless they begin with `docs/`.

## Inventory

| Component | State | Operations | Hard because | Correct when | Modelled in |
|---|---|---|---|---|---|
| Versioned ORM (`models/__init__.py`), `TransactionManager` (`transactions.py`) | tables, `dipdup_model_update`, open `VersionedTransaction`, pending updates, originals of instances | create, save, delete, bulk and query operations; commit; `cleanup` | long sequences of writes over several levels; crash anywhere; cleanup of a shared log; tasks that share one manager | tables equal what the index level left; any level within the depth can be restored | `ModelVersioning`, `Transactions` |
| `DipDupContext.rollback/reindex` (`context.py`) | `_rolled_back_indexes`, `dipdup_schema.reindex` | revert updates, move level, flag, wipe, ignore | two statements, depth check, direction, requests from inside a transaction | rows and level go back together; a demanded reindexing is not forgotten | `ModelVersioning`, `DatabaseSchema`, `Startup` |
| `Index` (`index.py`) | `_queue`, `_state` | `process`, `_process_queue`, `_process_level_data`, sync enter/exit, `_rollback` | queue filled by another task, state also written by others | each canonical level is indexed once | `IndexLifecycle` |
| `IndexDispatcher` (`dipdup.py`) | `_indexes`, events, hooks fired | `run`, `_on_*` callbacks, `_load_index_state` | interleaves with the Websocket task at every await | every index reaches realtime and stays, none misses a level | `Dispatcher`, `Startup` |
| TzKT datasource (`datasources/tezos_tzkt.py`) | `_channel_levels`, `MessageBuffer` | `subscribe`, `_on_message`, `initialize`, REST | reorg messages, reconnects | reorgs reach the indexes they affect | `IndexLifecycle`, fetchers |
| `WebsocketDatasource`, `SubscriptionManager` (`datasources/__init__.py`, `subscriptions.py`) | sync level per subscription | connect, disconnect, reset, `set_sync_level` | reset races with users of the level | a level is set whenever an index is processed | `IndexLifecycle`, `NodeDatasource` |
| EVM, Substrate, Starknet nodes (`datasources/*_node.py`) | subscription ids, `_level_data`, emitter queue, `known_level` | heads, logs, emitter loop, inferred rollbacks | heads and logs on separate subscriptions | each canonical head emitted once, rollback before replacement | `EvmNode`, `SubstrateNode`, `PolledDatasource` |
| Subsquid-backed indexes (`indexes/_subsquid.py`) | choice of source, `_started` | clamp the target, fetch, poll | two sources at different heights | level never passes what was fetched, new heads are asked for | fetchers, `PolledDatasource` |
| Fetchers (`fetcher.py`, `indexes/*/fetcher.py`) | per-channel heads, buffer, read-ahead queue | merge, read ahead, yield by level | producer and consumer tasks, channels of different progress | levels complete, in order, once | `Fetcher` and its iterators |
| Index kinds (`indexes/*/matcher.py`, `index.py`) | filters | fetch, subscribe, filter, match | what an index needs is derived three times | history and realtime call the same handlers | `OperationFilters`, `ItemMatchers`, `Signatures`, `IndexMatcher` |
| Callbacks (`CallbackManager`), hooks loop, scheduler | pending hooks, jobs | fire handlers and hooks, run jobs | concurrency with handlers | hooks run, atomically when asked to | `Dispatcher`, `Transactions` |
| HTTP gateway (`http.py`) | attempts, backoff | retry, rate limit | retries | bounded retries, errors surface | in `Fetcher` |
| Config (`config/`, `yaml.py`) | config objects | load, resolve, validate, hash | repeated on its own result | the second time changes nothing | `ProjectConfig` |
| Database, schema (`database.py`), Hasura (`hasura.py`) | tables, hashes, metadata | create, check, approve, wipe, configure | interrupted between any two steps | an indexer runs on what its project says | `DatabaseSchema`, `HasuraMetadata`, `Migrations`, `Startup` |
| Code generation, packages, projects (`codegen/`, `package.py`, `project.py`) | files | `new`, `init`, `migrate` | interrupted, repeated, files edited in between | repairs its own remains, keeps the user's | `Package`, `CodeGeneration`, `Project` |
| API, metrics, reports, other REST datasources | – | external calls | – | – | – |

`PROJECT.json` lists the same parts with their status and every hazard with its line and the
properties that watch it.

## Modules

| Module | Models |
|---|---|
| `VersionedStore` | what versioned models promise: tables are a function of the levels indexed |
| `ModelVersioning` | versioned models, level transactions, `rollback`, `reindex`, `cleanup`, crashes; implements `VersionedStore` |
| `Transactions` | the tasks that share one `TransactionManager` and one connection |
| `IndexLifecycle` | chain, TzKT Websocket, dispatcher loop and one `Index` with its queue |
| `NodeDatasource`, `EvmNode`, `SubstrateNode`, `PolledDatasource`, `NodeFeeds` | the datasources of nodes and the indexes they feed: what they share, heads with logs, finalized heads, polling, and an indexer of one of them |
| `Dispatcher` | the loop of `IndexDispatcher` for several indexes, those added at run time included |
| `ChainOrder` | the items of a chain in its order: runs of them, and those of whole levels |
| `LevelStream` | what a historical synchronization promises: a FIFO of whole levels |
| `Fetcher`, `PageFetcher`, `BlockFetcher`, `ChannelFetcher`, `SubstrateFetcher` | `DataFetcher`'s read-ahead with the state of a sync, and four families of iterators |
| `Fetchers` | all eight kinds of iterators composed; implements `LevelStream` |
| `OperationFilters`, `ItemMatchers`, `Payloads`, `Signatures`, `IndexMatcher` | the data of a level from the chain to the handlers' arguments and their classes, for all kinds of index |
| `DatabaseSchema`, `HasuraMetadata`, `Migrations`, `Inventory`, `Startup` | the database, Hasura, aerich's migrations and what handlers have added, between the starts of an indexer |
| `ProjectConfig`, `Package`, `CodeGeneration`, `Project` | a project on its user's disk |
| `MCModelVersioning`, `MCIndexMatcher`, `MCStartup`, `MCProject` | instances for TLC, where constants need definitions; the other configurations give values to those of the module itself |
| `ModelVersioning_proofs`, `Transactions_proofs`, `IndexLifecycle_proofs`, `Dispatcher_proofs`, `Startup_proofs`, `Fetchers_proofs`, `NodeFeeds_proofs`, `NodeFeedsCanonical_proofs` | TLAPS proofs |

How they compose. `ModelVersioning` assumes that a rollback starts at the index level
(`HeadLag = 0`); `IndexLifecycle` states this of its callers (`RollbackFromHead`) and sees the
database through `applied`, one block per level: that rolling back restores rows as that view
assumes is what `ModelVersioning` shows. `IndexLifecycle` takes a synchronization to deliver each
level whole and in order, which is `LevelStream`, which `Fetchers` implements. `NodeDatasource` and
`Dispatcher` reduce an index to its queue and level; what `Index.process` does step by step is in
`IndexLifecycle`. `Dispatcher` lets the chain only grow and connections hold, which is what the
other two are about.

A *circumstance* (constants `Hazards`, `Unsafe` or `Circumstances`) is something the environment may
do only if its name is in the set: it is known to break a property. The passing runs rule out those
that break what they check and no others; naming one in the cfg shows TLC's trace.

### ModelVersioning

State: `rows` (committed tables), `log` (`dipdup_model_update`), `level` (`dipdup_index.level`), the
open transaction `tx` with the tables as it sees them (`trows`), its queued updates (`pending`), and
`originals`, the `_original_versioned_data` of the instances handlers hold. `rolling` marks a
rollback whose rows are committed and whose level is not; `cutoff` the cleanup task between its two
statements. `seen` and `snap` are history: the highest head observed, and the rows each level left
behind, which no action reads.

One action per ORM operation (`Load`, `Create`, `Save`, `Delete`, `QueryUpdate`, `QueryDelete`,
`BulkConflict`), each with the row change and the `ModelUpdate` it queues; `BeginLevel`,
`CommitLevel`, `SkipLevel` for `_process_level_data`; `BeginRollback`, `RevertOne`,
`CommitRollback`, `MoveLevel` for `ctx.rollback` and `Reindex` for a rollback that is too deep;
`CleanupRead`, `CleanupDelete`; `Crash`. DipDup uses one connection (`maxsize=1` in
`config/__init__.py:159`, or SQLite's lock), hence one transaction at a time.

Inputs: any interleaving of handler operations, any rollback the datasource may ask for whose target
is not final (`Final`: no block is replaced once `Depth` blocks were built on it, the reason a depth
is configured at all). What handlers may do beyond the plain operations is named in `Unsafe`:

- `dirty_delete`: `delete()` of an instance with assigned, unsaved fields;
- `double_delete`: `delete()` of a row that is gone already;
- `ignore_conflicts`, `upsert`: `bulk_create` over rows that exist, recorded as inserts;
- `in_place`: a JSON or array field changed in place, so that the original changes with it.

With any of these, with a `CachedModel` that outlives its level (`Cached`), or with a rollback that
starts below the index level (`HeadLag > 0`), TLC violates `TablesMatchLevel` (for `double_delete`,
`RevertNeverConflicts`) within seconds. So do two indexes of two chains under one cleanup cutoff
(`transactions.py:78`), and `advanced.reindex: rollback: ignore` (`TooDeep = "ignore"`), with which a
rollback that is too deep goes on and reverts what updates there are left; with depth 1 and 4 levels
it also violates `RevertNeverConflicts`. The runs have the action `wipe`.

### Transactions

The connection belongs to a task, but `_transaction` and `_pending_updates` of the manager to the
process (`transactions.py:44-66`). State: `conn` (who has the connection), `transaction` (the open
`VersionedTransaction`, of an index and a level), `pending`, `rows` and `log` with the writer of each
row, `level` and the `step` of every task: indexes that process and roll back levels, versioned or
too old to be, jobs with atomic and other hooks, hooks fired by handlers. An await at which a task
gives up control is the end of an action. `save()` looks for the transaction after its statement has
had the connection, `bulk_create` before; hence the circumstance `bulk` (a job's bulk write while a
level is open is recorded as that level's: `RowsAreTheirWriters`), and `nested_atomic` (a handler
waits for an atomic hook: `NeverFails`).

### IndexLifecycle

Two tasks. The Websocket task (`Connect`, `Answer`, `ReceiveData`, `ReceiveReorg`) runs
`TezosTzktDatasource._on_message` and the dispatcher's callbacks; the dispatcher task (`Spawn`,
`Subscribe`, `Schedule`, `Process`, `Refresh`, then `Fetch`/`ProcessFetched`/`ExitSync` or
`ProcessData`/`StartRollback`/`RevertRows`/`MoveLevel`/`SaveState`/`QueueEmpty`) runs
`IndexDispatcher.run` and `Index.process`. `pc` is the await the dispatcher is suspended at; code
between two awaits is one step. The environment extends and reorganises the chain, drops the
connection and kills the process. `buffer` is the datasource's `MessageBuffer`, `bufferSize` its
`buffer_size`, which takes the place of `rollback_depth`: the levels last announced wait in it
(`Added`, `Yielded`) and are dropped from it when they are replaced (`Dropped`), so that the index
lags behind by as many levels and needs no rollback.

| Circumstance | What happens | Consequence |
|---|---|---|
| `backlog` | data of a replaced block is still queued or fetched | reorg is skipped, orphaned data stays |
| `near_sync` | reorg target below the sync level, or while synchronizing | `_exit_sync_state` passes blocks that do not exist yet |
| `offline` | reorg while not subscribed | unnoticed |
| `stale_channel` | channel level below the index level | rollback starts too low |
| `above_rollback` | reorg to a higher level than a rollback still on its way | level moves up over levels without data |
| `lost_rollback` | connection or process lost with a rollback in flight | unnoticed |
| `early_message` | message before the first `process()` of a resynchronization | thrown away with the queue |
| `early_drop` | disconnect between `subscribe()` and `process()` | `get_sync_level` raises |
| `lost_answer` | disconnect while waiting for a subscription's answer | dispatcher waits for ever |
| `at_head` | restart with nothing to synchronize and status not realtime | index never becomes realtime |

`backlog`, `near_sync`, `offline`, `lost_rollback` and `early_message` alone violate
`CanonicalWhenQuiet`, and `above_rollback` does with four reorgs; `stale_channel` together with
`near_sync` violates `RollbackFromHead`; `early_drop` violates `NeverFails`, and with three reorgs so do
`offline` and `lost_rollback`: the channel level outlives the connection, so that the rollback that
follows a missed one is counted from there and is too deep. `lost_answer` and `at_head` violate
`Settles`, and with two lost connections so does `near_sync`: data queued for a block that was replaced
lifts the index above a new, lower sync level while its status is still "syncing".
`lifecycle_adverse` allows the four circumstances that break neither.

### NodeDatasource, EvmNode, SubstrateNode, PolledDatasource, NodeFeeds

`NodeDatasource` has what the classes of `datasources/__init__.py` share: the chain with all its
forks, notifications on their way (`heads`), `syncLevel` of the SubscriptionManager, the requests of
`subscribe()` the dispatcher waits for, `_ws_loop`, the `emitter` queue, and for each kind of index its
`queue`, `level` and `rows`, the block each level's rows were made of. `kinds` says which datasource
an instance is about.

`EvmNode` adds `logs` and `levelData` (`_level_data`), `known` (`known_level`) and `askedAt`, the height
of the chain when `get_head_level()` was sent; the node announces heads and logs on subscriptions of
their own and takes back logs of replaced blocks. Tasks: dispatcher (`Subscribe`, `StoreSubscription`,
`SetLevel`: `evm_node.py:221-231` from await to await), Websocket (`ReceiveHead`, `ReceiveLog`,
`Disconnect`), which goes on in between, emitter (`EmitHead`, `EmitEvents`, `EmitTransactions`,
`Forget`: the loop of `evm_node.py:113-171`), `Watchdog`, and indexes (`Synchronize`, `ProcessData`,
`ProcessRollback`). The subscriptions of an index, heads and logs, are taken as one that has its id and
its level when the last has. The answer to `get_head_level()` is the height at some moment after it was
sent. In `SubstrateNode` the message task stores the id (`StoreId`), asks for the head and sets the
level (`SetSyncLevel`) while notifications wait; heads are final. `PolledDatasource` is `run()` of a
Starknet node, of EVM and Substrate nodes without `ws_url`, and of Subsquid, which waits for `start()`.

| Circumstance | What happens | Breaks |
|---|---|---|
| `both_kinds` | indexes of events and of transactions on one node, whose `newHeads` subscriptions differ | `RollbackCoversIndex`, `NeverFails` |
| `offline` | reorg while not subscribed, or before the subscription has a sync level | `RollbackCoversIndex` |
| `early_notification` | a notification before the id is stored | `NeverFails` |
| `shorter` | a branch that is not as high: the block is asked for by level (`evm_node.py:150`) | `NeverFails` |
| `lost_answer` | disconnect while a subscription's answer is waited for | `NeverFails` |
| `retries` | `retry_count` connections failed since the start (with two faults for two attempts) (`datasources/__init__.py:208`) | `NeverFails` |
| `late_logs`, `lost_logs` | logs after the emitter has passed their block, or lost with the connection | `CanonicalWhenQuiet` |
| `backlog` | a rollback for a level still queued, or while one to a lower level is queued (three reorgs) | `CanonicalWhenQuiet` |
| `early_message` | a message before the synchronization that clears the queue | `CanonicalWhenQuiet` |
| `lost_rollback` | connection or process lost with a rollback in flight, or with the blocks that follow one | `CanonicalWhenQuiet` |
| `stale_known` | indexes above `known_level` | `CanonicalWhenQuiet` |
| `genesis` | rollback to level 0 | `CanonicalWhenQuiet` |
| `gaps` | Substrate: of several blocks finalized at once the last is announced | `CanonicalWhenQuiet` |
| `eventless` | Substrate: a block without any event (`index.py:103`) | `NeverFails` |
| `torn_answer` | connection lost between id and level (`evm_node.py:228-231`, `substrate_node.py:187`): `reset()` comes first and the level after it, so that the lost subscription counts as one that has a level and nobody subscribes again | `Settles` |
| `unnoticed` | a polled node replaces blocks an index has | `CanonicalWhenQuiet` |
| `caught_up` | restart of an index without nodes at the head of Subsquid: polling never starts (`datasources/_subsquid.py:50`) | `Settles` |
| `not_ready` | Subsquid reports level 0 (`datasources/_subsquid.py:90`) | `NeverFails` |

### Dispatcher

State: `settings` (what the config says), `spawned`, `jobs`, `fired`, `joined`, `asking` and `pc` of
the loop, and for every index `where` it is (`_pending_indexes` or `_indexes`), its `last` level,
`status`, `level`, `queue`, `task`, and `covered`, the levels whose data it has handled. `Spawn`,
`Subscribed`, `Gather`, `Drain`, `Finish`, `Synchronized` and `End` are the iteration of
`IndexDispatcher.run` (`dipdup.py:105-180`); `Process`, `Synchronize` and `ProcessQueue` the calls it
gathers; `Revert` and `Reverted` the datasource's `_on_rollback`; `AddIndex` what handlers, hooks and
the API add; `Crash` includes what `_load_index_state` restores.

| Circumstance | What happens | Breaks |
|---|---|---|
| `mixed` | some indexes have a `last_level`, some not: disabled ones stay in `_indexes` | `CatchesUp`, `HookFires` (docs/1.getting-started/10.hooks.md:33) |
| `beyond_head` | `last_level` above the head | `NothingMissed` |
| `shared` | an index is added for a channel subscribed to already | `NothingMissed` |
| `early_message` | messages before the first `process()` | `NothingMissed` |
| `added_at_end` | an index is added during the last hooks | `EndsComplete` |
| `bounded_restart` | restart after an index was added with a `last_level` | `BoundKept`, `CatchesUp`, `HookFires` |
| `growing` | `_indexes` grows while `_on_rollback` iterates over it | `NeverFails` |

### Fetchers

`Fetcher` is what all kinds share: the state of one synchronization after another (`level`, target,
status), `DataFetcher`'s read-ahead task with its bounded queue and the two events by which producer and
consumer hand over, requests that fail and are retried, crashes. Its operators take the batch an
iterator yields; an iterator is a module of its own with the state between two requests: `PageFetcher`
(`_iter_batches` with offsets or ids, for token transfers, big maps and events), `BlockFetcher` (the
choice between Subsquid and nodes, if there are both; ranges of levels from random EVM nodes, which for
events are asked for logs and for the blocks of these logs; the blocks of Subsquid's workers),
`ChannelFetcher` (several channels merged by level, for operations and for the events of a Starknet
node) and `SubstrateFetcher` (three tasks with queues between them, for a Substrate node). `Fetchers`
has `kind` as a variable and implements `LevelStream` for each. Two channels stand for any number;
contents of requests and adaptive batch sizes are choices. Circumstances: `many_events`
(`tezos_tzkt.py:1072`), `torn_level` (a page cuts a level of Starknet events), `two_digits` (their
indexes are compared as text), `lagging_head` (the datasource chosen is behind the index) and
`lagging_node` (the one asked is behind the one chosen) break `ImplementsStream`; for a Substrate node
`lagging_head` breaks `CatchesUp`, as its pipeline never ends if its range is empty, and for EVM
transactions `lagging_node` does, as every block asked for must be there. `unordered_block` (Subsquid
lists a block's Starknet events in another order than its transactions, `starknet_subsquid.py:91`)
breaks `NeverRaises`, `slow_requests` (the tasks of Substrate overtake each other) `NothingStranded`.

### OperationFilters, ItemMatchers, Payloads, Signatures, IndexMatcher

The data of a level goes to an index twice, as history and as the realtime message that would have
carried it. For operations (`OperationFilters`) `Fetched`, `Subscriptions`/`Sent` and `Kept` are the
three places that derive from a config which of them matter. `Fetched` is one operator per channel of
the two fetchers (`TransactionAddressChannel` ... `UnfilteredChannel`), each a condition on its filter
and a call of an operator that says what a REST endpoint answers (`get_transactions`,
`get_originations`, ...). `MatchItem`, `SkipItem`,
`SkipOperation`, `EndHandler` and `MatchUnfiltered` are the iterations of `match_operation_subgroup`.
For the other eight kinds of index (`ItemMatchers`) `ItemFetched` and `ItemSent` are the two places,
one operator per kind of index, over `get_big_maps`, `get_events`, `get_token_transfers` and
`get_token_balances` for those of TzKT, and `MatchLevel` is its matcher. What a handler is given is
decoded by the operators of `Payloads` (`decode_event_data`, `from_node_json`/`from_subsquid_json`,
`StarknetPayload`, `decode_event_args` with `get_spec_version`, `parse` and
`extract_subsquid_payload`, `BigMapDiff`, `BigMapDiffs`/`Applied`/`Processed` for storages); the
properties compare it with what was emitted (`ItemEmitted`, `StorageEmitted`) and, for history and
realtime, with each other. A value is a number, digits, bytes of a length, a list or an object: what
the decoders branch on.

`Signatures` is what the config of an index says about the arguments of its handlers, which `init`
writes into their stubs: name, class, and the generated types that the class is made of
(`Signature`, one operator per item of a pattern and per kind of index), the types `init` has a
schema to generate from (`GeneratedTypes`), and the classes that the matcher passes
(`PassedClasses`). `CallsAreMatches` asks of every call that it goes through (`Accepted`: as many
arguments as parameters, each of its class) and that all types are there. An ordinary handler is one
whose stub the user has edited in the two respects of `as_generated`.

`MCIndexMatcher` has fifteen lists of patterns over nine operations of a user, a rollup and three
contracts, two with the same code, and two to eight lists of handlers per other kind over items of
two contracts, one or two for each form an argument comes in.

| Circumstance | What happens | Breaks |
|---|---|---|
| `guessed`, `beyond` | contracts guessed from handlers get no subscription; handlers name more than `contracts` (`config/tezos_operations.py:321-328`) | `EveryMatchCalls` |
| `any_entrypoint`, `any_contract` | an item leaves out the entrypoint, or both contracts (`indexes/tezos_operations/index.py:52`) | `EveryMatchCalls` |
| `cemented` | a type without a channel in the fetchers | `EveryMatchCalls` |
| `untracked_type` | in realtime, unfiltered operations other than transactions: no subscription (`config/tezos_operations.py:446-450`) | `EveryMatchCalls` |
| `optional_first`, `only_optional` | optional items before required ones, or no others | `CallsAreMatches`; with `surplus` `EveryMatchCalls` |
| `surplus`, `alt`, `mixed_kinds` | realtime brings operations that history leaves out, to a pattern with optional items; the alternative algorithm for it; an unfiltered index beside others | `HistoryMatchesRealtime`, `EveryMatchCalls` |
| `untracked` | EVM events at any address: no subscription (`config/evm_events.py:74`) | `EveryMatchCalls` |
| `uneven` | handlers of Tezos events or tokens fix different fields, each of which is fetched by on its own | `EveryMatchCalls` |
| `balances` | nobody registers for token balances (`dipdup.py:451-455`) | `EveryMatchCalls` |
| `twins` | two handlers of one big map: `skip_history` reads it twice | `CallsAreMatches` |
| `reordered` | logs of two addresses come on two subscriptions | `CallsAreMatches` |
| `failed` | Subsquid leaves out failed transactions (`datasources/evm_subsquid.py:145`), a node does not tell | `EveryMatchCalls` |
| `tenth` | events of a Starknet node are sorted by text (`indexes/starknet_events/fetcher.py:136`) | `CallsAreMatches` |
| `aliased` | storages are deserialized in place (`indexes/tezos_operations/parser.py:178`), also for handlers that take the operation as it is | `CallsAreMatches` |
| `interleaved` | big map diffs are grouped where they follow each other (`parser.py:103`): of two groups of one map the first is lost | `CallsAreMatches` |
| `undecodable` | a topic of a string or tuple is its hash; an address of zeros that a node left out (`indexes/evm_events/matcher.py:49-51`); arrays have no typeclass | `EveryMatchCalls` |
| `overloaded` | events of one name: the first of the ABI is taken (`abi/evm.py:232`); methods of one name raise | `EveryMatchCalls` |
| `indexed_elsewhere` | another event of the same name, types and number of topics | `CallsAreMatches` |
| `tuples` | the selector of a method is computed without the components of its tuples (`abi/evm.py:187`) | `EveryMatchCalls` |
| `receipts` | a node's block has no receipts, Subsquid's access lists are left out (`models/evm.py:140`) | `CallsAreMatches`, `HistoryMatchesRealtime` |
| `keys_last` | keys of a Starknet event after its data (`indexes/starknet_events/matcher.py:76`) | `CallsAreMatches` |
| `no_args` | a Substrate event without arguments from Subsquid (`models/substrate.py:124`) | `EveryMatchCalls` |
| `options`, `structures` | options of a list shift or lose what is after them (`runtimes.py:210-216`); fields of a kind are not decoded further (`runtimes.py:280-292`) | `CallsAreMatches` |
| `long_bytes` | the length before a vector of bytes is written as one byte (`runtimes.py:241`) | `EveryMatchCalls` |
| `versions` | the newest known version is looked for in the order of names, 10 before 9 (`runtimes.py:181-182`) | `CallsAreMatches` |
| `as_generated` | stubs as `init` writes them: those of big maps name a class they do not import (`config/tezos_big_maps.py:55`, `:59`); of a pattern that ends in optional items, their parameters have no default (`config/tezos_operations.py:95`, `:108`), and where the operations end before them no argument is passed (`matcher.py:264-268`) | `CallsAreMatches` |
| `signatures` | a typed handler of EVM transactions by `signature`, which the error at `abi/evm.py:250` asks for: its arguments are prepared by `method` alone (`indexes/evm_transactions/matcher.py:42-44`) | `EveryMatchCalls` |
| `removed` | `skip_history` hands over the keys of a big map as added, those that were updated or removed as well (`indexes/tezos_big_maps/index.py:84`) | `EveryMatchCalls`, `CallsAreMatches` |
| `empty_query`, `empty_payload` | a handler leaves the fetcher without a filter; a typed event without payload | `EveryMatchCalls` |

### DatabaseSchema, HasuraMetadata, Migrations, Inventory, Startup

`db` is what is committed: which models the tables were made of, the row of `dipdup_schema`, the
hash and level of each index, the stored head, Hasura's hash. `version` is what the project says;
`policy` is `advanced.reindex`. One action per step of the start after which it may stop
(`ReadSchema` … `LoadIndexState`, `CheckMetadata` … `SaveMetadataHash`), `Reindex` for
`ctx.reindex` wherever it is called from, `SaveSchemaFails` for the `OperationalError` that asks for
it, the `schema` and `hasura` commands, and the user who edits,
migrates and approves.

`Migrations` is what DipDup does with aerich: a directory and a table of its own, both set up at the
end of the first start (`SetUpMigrations`), the directory removed by every wipe, `schema migrate` and
`schema upgrade`, which approves. `Inventory` is what a handler adds at run time: the contract it
sees originated (`add_contract`) and an index of it from a template (`add_index`), in memory
(`inventory`, `state`) and in the database, from where `FetchContracts` and `AddTemplated` add them
again. A template that is removed from the config has the version `NoHash`.

| Circumstance | What happens | Breaks |
|---|---|---|
| `unsaved_row` | the row of `dipdup_schema` cannot be saved where `schema_modified` is ignored: the start goes on without it (`dipdup.py:788-795`) | `PreparedFirst` |
| `half_created` | models are edited after a start that left tables but no row of `dipdup_schema` | `Resumes` |
| `wipe_sqlite` | reindexing wipes a SQLite database | `Resumes` |
| `spawned_again` | a reorg takes back the level whose handler has added something; that is not taken back with it, and is refused the second time | `Resumes` |
| `in_handler` | reindexing is asked for in the transaction of a handler | `RefusesUntilSettled` |
| `ignored_models` | models are edited while `schema_modified` is ignored and another reason raises | `RefusesUntilSettled` |
| `edit_approved` | models are edited before an approval was used, or not migrated for it; an index is edited again after it; `upgrade` had nothing to apply | `RefusesUntilSettled`, `OneDefinition`, `HasuraConfigured`, `PreparedFirst` |
| `migrated_back` | models are edited back to the stored hash after the tables were migrated | `PreparedFirst` |
| `edit_template` | the definition of a templated index is edited | `OneDefinition` |
| `template_removed` | a template is removed where that is ignored, or approved without it | `ApprovalHolds` |
| `reorg_approved` | an approval after a reorg during an outage | `ApprovalHolds` |
| `edit_hasura` | what Hasura is configured from is edited under an unchanged hash | `HasuraConfigured` |

### ProjectConfig, Package, CodeGeneration, Project

`files` says of each file of the package what is in it: the version of a contract it was made for,
a stub, or what the user wrote. `init` is a sequence of tasks, one per file, that depend on the
files found (`CodeGeneration`), and the metadata of a runtime one version after another; a command may
be killed between any two. Opening a file and writing it is one step but for ABIs and the two files of a
hook, so that other files left empty by a kill are not in the model. `Project` adds the commands,
the config with `initialize()` run once for the command line and again for `run`, the user, and
contracts that change.

| Circumstance | What happens | Breaks |
|---|---|---|
| `torn_abi` | kill between creating the file of an ABI and writing it (`codegen/evm.py:97-101`) | `NeverFails` |
| `torn_hook` | kill between the stub of a hook and its SQL directory (`codegen/__init__.py:207`, `:253`) | `NeverFails` |
| `buffered` | `buffer_size` with the default `rollback_depth` (`config/__init__.py:909`) | `NeverFails` |
| `factory` | a template no index of the config has gets no stubs (`codegen/__init__.py:125-131`) | `NeverFails` |
| `forced_abi` | types are forced, the ABI stays old (`cli.py:347`) | `RenewedAreCurrent` |
| `refetched_abi` | an ABI is removed and the types made of it are not | `TypesDecode` |
| `relayout` | versions of a runtime differ in an event (`codegen/substrate.py:194`) | `TypesDecode` |
| `edited_root` | the root module of a runtime's types is always written (`codegen/substrate.py:262`) | `FilesKept` |
| `migrates` | `migrate` runs `init` with base and force (`cli.py:412-417`) | `FilesKept` |

## Runs

| Run | Shows | Instance |
|---|---|---|
| `versioning_rows` | tables equal what the level left, rollbacks within depth restore them, `VersionedStore` is implemented | 1 index, 1 row, 2 binary fields, depth 2, 3 levels, 3 updates |
| `versioning_indexes` | two indexes share the machinery; idioms the versioning does not cover never leave a rollback stuck | 2 indexes, 2 rows, one cached, 4 idioms, depth 2, 2 levels, 3 updates |
| `lifecycle_orderly` | without the circumstances the index ends with the canonical chain's data but for the levels it buffers, each level once | 4 levels, 4 blocks, 2 reorgs, 2 faults, a buffer of 0, 1 or 2 levels |
| `lifecycle_adverse` | with four of them no exception ends the process and it settles | 3 levels, 4 blocks, 3 reorgs, 2 faults |
| `fetch_levels` | every kind of iterator implements `LevelStream`, nothing stranded, the head is reached | 8 kinds, 3 levels, 4 items, pages of 2, 1 retry, 1 fault |
| `match_indexes` | history and realtime call the same handlers, no match missed, none made up | 3 of 9 operations or items, 15 lists of patterns, 34 of handlers, second index |
| `node_realtime` | nodes keep their indexes canonical, inferred rollbacks cover them, the feed goes on until a watchdog ends it | 5 kinds of indexes, 3 levels, 5 blocks, 2 logs, 1 reorg, 1 fault, 2 attempts |
| `dispatch` | nothing missed or exceeded, the process ends when all is done, `on_synchronized` fires | 2 indexes, 3 levels, 1 crash, 1 reorg |
| `transactions` | a rollback takes back its own index's rows only, no task runs into another's transaction | 2 indexes, 2 jobs, 3 levels, 1 run, 1 rollback |
| `startup` | an indexer runs on what its project says, and says so until that is so | 2 indexes, one added at run time, 5 policies, PostgreSQL with and without migrations and SQLite, 2 edits, 1 command, 1 stop |
| `project` | `init` repairs, keeps and renews what it should | 3 contracts of 3 kinds, 4 commands, 2 edits, 1 stop |
| `versioning_torn` | `RestartResumes` is violated | a crash between revert and level |

Bounds. Three levels with depth 1 or 2 are the fewest where a level can be final, reachable or current
at once, so that cleanup and the unversioned early levels matter. Three updates of a row are what it
takes to insert, change and delete it in any distribution over the levels. Two fields tell partial
updates from whole rows. Two reorgs let one hit what the first left behind; what takes three or four in
`IndexLifecycle` is above, and its theorems hold for any number. In `EvmNode` one with a restart fires
every action (703,743 distinct states); what takes two or three was found by proof (below). Two indexes
are what it takes to disagree. Pages of two items and four items give full, half and empty last pages
and levels cut by a page. In `Startup` two edits let a part change and change back, and one command and
one stop fall between any two steps; a row that cannot be saved counts as a stop. In `Project` four
commands are `new`, an `init` that is killed, the one that repairs it and `run`. `Fields` are symmetric
in `versioning_rows`. `CHECK_DEADLOCK FALSE` stands in the runs whose system stops: at its bounds
(versioning, transactions), when all indexes are done (`dispatch`), after the subgroup
(`match_indexes`), after the last block (`node_realtime`) or edit and command (`startup`, `project`).
`lifecycle_*` and `fetch_levels` check for deadlocks.

Type invariants (`TypeOK`) are stated in every module with a record of its own and hold on the same
instances; those of `ModelVersioning`, `IndexLifecycle` and `Dispatcher` are proved. Likewise stated, and
no part of a run: `RollbackFromHead` of `IndexLifecycle` (proved), `CatchesUp` of `Dispatcher` (holds on
`dispatch`), `ImmuneOnlyIndexed` of `ModelVersioning` (proved), `Terminates` of `IndexMatcher` (holds),
`FiredHooksRun` of `Transactions` (refuted, below).

Fairness. `FairSpec` assumes weak fairness of the tasks of the process and nothing of the environment
nor of the watchdog of an EVM node: `NeverFails` of `NodeFeeds` allows for the exception it ends a
silent connection with (`evm_node.py:106`, `utils.py:265`), and `Settles` for a process that has ended,
but neither waits for it. With `torn_answer` the feed stays silent until it does. Tasks are coroutines
of an event loop that resumes whatever is ready, and the transport reconnects. In `Fetcher` a request is
eventually answered or fails; in `Dispatcher` an index that can be processed is; in `Startup` a process
goes on unless it is stopped, and is started again (docs/1.getting-started/3.config.md:109). Reorgs,
faults and edits are bounded in number, so liveness says what happens once they cease.

## Proofs

For every value of the constants that the named assumptions admit: any number of indexes, rows,
fields, levels, updates, blocks, reorgs, faults, jobs and runs; any depth.

| Module | Theorem | Property | Assumes |
|---|---|---|---|
| `ModelVersioning_proofs` | `TypeCorrect` | `TypeOK` | – |
| | `RowsFollowLevels` | `TablesMatchLevel` | `Plain` |
| | `UpdatesSuffice` | `LogSuffices` | `Plain` |
| | `NoStaleUpdates` | `NoUpdateFromAbove` | `Plain` |
| | `StoreImplemented` | `ImplementsStore` | `Plain` |
| | `ImmuneTablesStay` | `ImmuneOnlyIndexed` | `Plain` |
| | `RowsOfOneIndex` | `RowsMoveWithTheirIndex` | – |
| | `RevertsFindNoRow` | `RevertNeverConflicts` | no `double_delete`; `HeadLag = 0`; `TooDeep # "ignore"` |
| `Transactions_proofs` | `RowsOfWriters` | `RowsAreTheirWriters` | no circumstance |
| | `NoneInterferes` | `NeverFails`, and `OwnTransaction` | no circumstance |
| `IndexLifecycle_proofs` | `TypeCorrect` | `TypeOK` | – |
| | `LevelMovesBack` | `LevelOnlyRollsBack` | – |
| | `NothingRaised` | `NeverFails` | no buffer; no `early_drop`, `offline`, `lost_rollback` |
| | `IndexedOnce` | `NeverIndexedTwice` | no buffer; none but `at_head`, `lost_answer` |
| | `RollbacksCoverIndex` | `RollbackFromHead` | no buffer; none but `at_head`, `lost_answer` |
| | `IndexCanonical` | `CanonicalWhenQuiet` | no buffer; none but `at_head`, `lost_answer` |
| `Dispatcher_proofs` | `TypeCorrect` | `TypeOK` | – |
| | `NoLevelMissed` | `NothingMissed` | no `beyond_head`, `shared`, `early_message` |
| | `LastLevelRespected` | `BoundKept` | no `bounded_restart` |
| | `EndIsComplete` | `EndsComplete` | no `added_at_end` |
| | `GetsThrough` | `NeverFails` | no `growing` |
| `Startup_proofs` | `PreparedBefore` | `PreparedFirst` | no `unsaved_row`, `half_created`, `edit_approved`, `migrated_back` |
| | `RefusesFirst` | `RefusesUntilSettled` | no `unsaved_row`, `in_handler`, `ignored_models`, `edit_approved` |
| | `ApprovalKept` | `ApprovalHolds` | no `unsaved_row`, `template_removed`, `reorg_approved` |
| | `OneDefinitionKept` | `OneDefinition` | no `unsaved_row`, `edit_approved`, `edit_template` |
| | `ConfiguredBeforeRunning` | `HasuraConfigured` | no `unsaved_row`, `edit_hasura`, `edit_approved` |
| `Fetchers_proofs` | `SyncsInOrder` | – | `Ordinary` |
| | `StreamImplemented` | `ImplementsStream` | `Ordinary` |
| | `AssertionsHold` | `NeverRaises` | `Ordinary`; no `unordered_block` |
| | `NothingIsStranded` | `NothingStranded` | `Ordinary`; no `slow_requests` |
| `NodeFeeds_proofs` | `TasksGetThrough` | `NeverFails` | no `both_kinds`, `shorter`, `early_notification`, `lost_answer`, `retries`, `eventless`, `not_ready` |
| | `RollbackCovers` | `RollbackCoversIndex` | no `both_kinds`, `shorter`, `stale_known`, `backlog`, `offline`, `lost_rollback` |
| `NodeFeedsCanonical_proofs` | `EndsCanonical` | `CanonicalWhenQuiet` | those, and no `early_message`, `late_logs`, `lost_logs`, `genesis`, `gaps`, `torn_answer`, `unnoticed` |

`Plain` is the case the documentation promises: no idiom of `Unsafe`, no `CachedModel`, rollbacks from
the index level (`HeadLag = 0`, which is `RollbackFromHead` of `IndexLifecycle`), none that goes on
though it is too deep (`TooDeep # "ignore"`), no crash between the two halves of a rollback, one chain.
Crashes anywhere else, reindexing, immune tables, cleanup racing everything and rollbacks of rollbacks
are all in. Each clause of `Plain` is needed for `TablesMatchLevel`, as the violations above show;
`double_delete` alone only breaks `RevertNeverConflicts`.

The argument for `ModelVersioning`. `TablesMatchLevel` is far from inductive: that a rollback
restores a row depends on what the log holds, that the log is complete depends on the cleanup cutoff
and on which levels were versioned, and these on the head. `Inv` says so in parts:

- `TypeInv`: types; DELETE updates hold whole rows; an idle manager has nothing queued.
- `UpdatesFit`, `IdsOrder`: an update belongs to the owner of its row and to no level above the
  index; ids are unique and grow with the level, so that `order_by('-id')` is newest level first.
- `TxFits`: an open transaction sees other indexes' rows as committed; a level that is not versioned
  lies so deep that no rollback reaches it; a rollback reverts only updates above its target and
  leaves immune tables alone.
- `LevelsFit`: no index is above the head; no cutoff reaches a level that may be rolled back to.
- `CommittedReverts`, `LevelReverts`, `RollbackReverts`: for every level that can be rolled back to,
  the updates above it *take back* the row (committed, written by the open level, or half reverted)
  to what that level left.

"Takes back" (`TakesBack`) has to survive updates whose diff covers fields other than those written
and rows that die and are born again, so it speaks of each field: the oldest update that touches it
holds its old value, and the oldest update of all tells whether the row existed. The algebra of
`TakesBack` is three lemmas (`TakesBackRecorded` for a write, `TakesBackUnrecorded` for one that
needs no update, `TakesBackReverted` for reverting the newest), then one lemma per action shows
`Inv'`. A subtlety the handlers' proof needs is `Remembers`: what an instance was loaded with is the
old value of every field no update mentions yet, which is why an instance that outlives its level
(`Cached`) breaks the promise. For the refinement, levels that commit or are skipped are `Advance`,
the commit of a rollback is `GoBack`, reindexing is `Wipe`, all other steps stutter.

`RevertsFindNoRow` needs less than `Plain` and an invariant of its own, for which values do not matter:
`Accounts` says that behind every DELETE of a level still in reach the next update of its row is an
INSERT, and that while none follows the row is gone. It holds of the committed log and tables and of
what the open transaction has made of them (`RowsAccounted`); a revert takes the newest update of its
row, a cleanup the oldest (`RowOrder`), and what is not recorded lies too deep to matter
(`UnversionedDead`). So neither the other idioms of `Unsafe` nor `CachedModel`, several chains or a
crash between the halves of a rollback can make a rollback fail, though they may make it restore the
wrong values. With `HeadLag = 1` TLC finds the conflict.

The argument for `Transactions`. There are two tables any task may write and one connection that
orders the writers. `ConnectionFits` says who holds it, `TransactionFits` and `PendingFits` that the
manager's transaction and its queued updates are those of the index that is in the middle of a level
and of nobody else. Then `LogFits` and `RowsFit` can say exactly, as sets, what has been written when
any task is at any step, and `RowsAreTheirWriters` is `RowsFit` at the steps where nobody holds the
connection. `NoneInterferes` says of any state that an open transaction and every queued update are
those of the one index that has the connection and of the level it is in (`OwnTransaction`), and that
both are gone when the connection is free: what the next task finds. A failed attempt that is taken up
again is not in the module.

The argument for `IndexLifecycle`. Types need `LevelsFit` and `SyncRuns` (memory and database part
only between the two commits of a rollback) and, because `Emitted` recurs over levels, an induction:
`NatInduct` is derived from the well-foundedness of `<` with the set of the numbers a fact holds of, and
serves wherever a definition recurs over numbers. `FailInv` follows levels through the pipe: the level
the channel has after each message (`ChannelAfter`) is not above the chain unless a reorg follows
(`HeadFits`), so that no reorg and no rollback is deeper than the depth (`ReorgsShallow`,
`RollbacksShallow`), and an index is processed with a sync level (`SyncFits`).

`CanonicalWhenQuiet` says nothing of states in which something is under way, and needs everything
about them. The queue of the index and the feed behind it are taken as one sequence, `Pending`:

- `Ordered`: along it blocks ascend and rollbacks descend, and a rollback does not lead below a block
  before it; `PendingTrue`, `FetchedTrue`: a block in it is one the chain has.
- `Destinations`, where rollbacks still lead: not below what is being synchronized (`SyncBelow`,
  `SyncAlone`, `SyncKnown`), never above the index or a rollback that is going on (`RollbacksDown`,
  `RollbacksFit`, `RollingFits`). The last is what `above_rollback` breaks, and how that circumstance
  was found: the invariant could not be proved, and TLC then found the trace with four reorgs.
- `Covered`: when a rollback's turn comes the index is not above the level it starts from, since what
  precedes it leads there (`Reaches`); `StoredFits`, `Cleared`: an index above the chain has a rollback
  coming, and above the index there are no rows.
- `Indexed`: levels up to the index that no pending rollback undoes have the chain's block.
  `Expected`: a block of the chain is indexed, on its way, or above a sync level that is not reached
  (`Missed`, with `Early` and `AllFetched` for a synchronization). In a quiet state nothing is on its
  way, missed or to be undone, which leaves the chain.

With a buffer `NeverFails` and `CanonicalWhenQuiet` hold up to the levels that are buffered, and the
queue may hold rollbacks to levels that were never sent; `lifecycle_orderly` checks this for sizes 1 and
2.

The argument for `Dispatcher`. Each property needs `TypeInv` and a part of its own: `Progress`
(no task takes an index beyond its bound: `WithinBound`, `TaskFits`), `LastKept` (the bound is what
it was spawned with), `AllDone` (at the last hooks everything in `_indexes` is disabled), `SizeKept`
(`_indexes` has not grown under the iteration) and, for `NothingMissed`, `Feeds`: subscriptions
belong to indexes that were subscribed for (`Subscriptions`), what waits in a queue is the next
levels without a gap (`FeedFits`, `Queued`), and what an index has handled together with its queue
reaches the head (`Fed`).

The argument for `Startup`. `Base` holds in all circumstances but `unsaved_row`: types, what each
command has read at which step (`StepsFit`), that the row of `dipdup_schema` is made last (`SchemaFits`)
and that past the checks its hash is the models' (`HashChecked`). Each property adds what it needs of
the parts: for `PreparedFirst` that tables are of the models or of what the hash is of (`TablesFit`);
for `RefusesUntilSettled` that the reason is kept in the row until a command settles it (`DemandFits`,
`ResetFits`, `NeverEdited`); for `ApprovalHolds` that nothing compared at a start differs
(`ApprovalFits`); for `OneDefinition` what rows were built from against what hashes are of
(`SinceModels`, `SinceIndex`, `StateFits`); for `HasuraConfigured` that a saved hash is of complete
metadata and each request finds those before it done (`HasuraFits`, `Progress`). What `reindex()` may do
with a policy is cut into three outcomes (`GoesOn`, `Raised`, `WipedAll`) that every caller shares.

The argument for `Fetchers`. `Ordinary` leaves the circumstances `slow_requests` and
`unordered_block`, and no more than eight items if Starknet is among the kinds: nine events of one
level are enough for their texts to sort in another order (`two_digits`). Whatever the kind, all that
matters is a *cut* of the chain, the number `g` of items that iterators have given away. `Queued` says
that what is between the iterator and the index, the levels read ahead and the items not yet cut into
levels, is the chain from the index level to `g`, and that each entry of the read-ahead queue ends where
a level does. An iterator is correct if a batch takes the cut from `g` to some `h` that is not beyond
the target, and if at its end `g` is the cut of the target; `NextLevel` then takes one whole level
(`FirstLevelDone`), which is `LevelStream`. What is between two requests is an invariant per family:

- `PagesAt`: the offset counts the items given away since the start, or is the id of the last of them.
- `BlocksAt`: `g` is the cut before the next position; the node asked reaches the target.
- `PipelineAt`: the levels in the four queues and the batches between them are consecutive runs, from the
  last level yielded to the target.
- `ChannelsAt`: the buffer together with `g` is what the channels have fetched up to their heads; what
  is mergeable, up to the least head, is a run from `g`.

That nothing is stranded needs of the pipeline what `StreamImplemented` does not (`Drains`): a stage
passes on full batches until the one before it has ended, so only its last batch can be smaller, and
when the last stage has ended nothing is left in a queue or a batch.

The argument for `NodeFeeds`. The emitter's queue and the heads announced but not received yet are
taken as one sequence of blocks, `Ahead`, and their levels after `known` as another, `Path`: a step lets
them grow by a branch, moves the emitter along them, cuts off what was not received, or leaves them
alone (`StepKinds`). For `NeverFails` it is enough that blocks come in the order they were made
(`Rising`), so each once, that their LevelData is still filed (`Kept`), and that no block ever was
higher than the chain is (`Fits`), which needs that no branch is `shorter`.

`RollbackCoversIndex` needs to know where levels turn. `Turns`: the last level of `Path` is the highest,
and wherever it does not rise the level before is as high as any before it, as the index and as its
sync level. `Backed`: what is in the queue is not above `known`; a rollback in it leads down from the
index or above, and not higher than one before it. So the rollback the emitter makes of such a turn
starts at the index or above. `stale_known` and `offline` break the first, `backlog` the second.
`lost_rollback` and `backlog` have the form they have because of two steps this proof could not take,
which TLC then found as well: a connection lost between a rollback and the blocks that follow it (the
index fetches them again, above `known`), and a rollback queued behind a deeper one, which lifts the
level again.

`CanonicalWhenQuiet` follows each level from the chain to the rows. A level is `Undone` if `Path` comes
to it, or from above passes it, and later comes back to it or below; it is `Cleared` if a rollback in
the queue leads below it.

- `Heralded`, `Returns`: a block ahead is canonical unless a later one is as low; where `Path` turns
  back, the canonical blocks of the levels it comes back to follow.
- `Honest`, `Gathered`, `Fetches`: LevelDatas and notifications together hold all logs of each block
  that is still to be emitted, and none of a block without; transactions are to be fetched.
- `Bounded`, `Heeded`: index and sync level are on the chain; rollbacks wait only for an index that is
  at work or has nothing to synchronize; an index that will clear its queue is about to fetch what is
  in it.
- `Ordered`, `Carried`: levels of data in the queue ascend and are not above the target of a rollback
  behind them; data are all the rows of one block, which is canonical or of an undone level.
- `Indexed`: rows up to the index level are canonical unless the level is cleared or undone, and there
  are none above. `Expected`: a level with rows is indexed and not cleared, or its block is ahead, at
  the emitter or in the queue, or it will be synchronized.

The two last need each other: an index that takes data passes over the levels in between, and these
must be without rows or undone (`PassedOver`). In a quiet state `Path` has one element and the queue
none, so no level is undone, cleared or still to come. The heads of a Substrate node never turn, and
neither rollbacks nor branches are needed: what is on its way is a run of levels (`Straight`, `Lined`),
none is missing (`Awaited`), and the rows are canonical up to the index level at any time (`Filled`), if the
process has not ended by an exception. The last holds of a datasource that is polled too, since blocks
are replaced only above the index and its sync level.

Model-checked only: the matchers and `Project`; `IndexLifecycle` with a buffer. Out of the prover's
reach: liveness under fairness (`CatchesUp`, `Settles`, `HookFires`, `Resumes`), `ENABLED`, and what
operators that recur over data, such as folds and `SortSeq`, compute.

## Findings

`versioning_torn`: `context.py:608` moves the level of an index outside the transaction that reverts
its rows; `PROJECT.json` quotes the documentation it disagrees with.

What follows was met while modelling; a circumstance of the model shows it where one is named.

- *Rollbacks.* `index.py:267`: a rollback is only ever in memory (`lost_rollback` breaks
  `CanonicalWhenQuiet`). `dipdup.py:595-603` compares a reorg with the committed level, though a deeper
  rollback may be queued: reorgs of blocks without data to level 1, then 3, 2 and 1 queue rollbacks to 1
  and 2, the last reorg is skipped once the first is done, and the second moves the level up
  (`above_rollback`). `transactions.py:78`: one cleanup cutoff for indexes of all chains.
  `datasources/tezos_tzkt.py:1103` waits without a timeout (`lost_answer`).
- *Buffer.* The slice of `datasources/tezos_tzkt.py:203` ends at a negative index while there are
  fewer levels than `buffer_size`: a buffer of three levels gives away the first as soon as there are
  two. With `BufferSizes = {3}` TLC violates `CanonicalWhenQuiet` of `lifecycle_orderly` by a reorg of
  two levels ("Number of levels to keep in FIFO buffer", docs/7.references/2.config.md:991).
- *Hooks.* `context.py:613`: `_hooks_loop` does not await the coroutines of `fire_hook(wait=False)`,
  so these hooks never run, though docs/1.getting-started/10.hooks.md:80 describes them; TLC refutes
  `FiredHooksRun` under `FairSpec`.
- *Fetchers.* `datasources/tezos_tzkt.py:1072`: `iter_events` pages by offset and `get_events` by id
  (`many_events`).
- *Operations.* A missing entrypoint is taken for `default` (`indexes/tezos_operations/index.py:52`);
  an unfiltered index subscribes to transactions only (`config/tezos_operations.py:446-449`) and is
  filtered by its neighbours (`dipdup.py:345-349`); the branch for `alt_operation_matcher` is
  inverted (`matcher.py:270`); contracts guessed from handlers get no subscription.
- *Other kinds.* "Each contract can have a fallback handler called for all unknown events"
  (docs/2.indexes/6.tezos_events.md:21), but history asks for the tags of the typed handlers alone as
  soon as there is one (`indexes/tezos_events/index.py:54-60`): `uneven`. Realtime token balances reach
  no index. `indexes/tezos_token_balances/index.py:19` goes on where `_enter_sync_state` returned None.
- *Nodes.* The circumstances of `NodeFeeds`, above all `gaps`, `caught_up`, `torn_answer` and
  `retries` (the attempts of `_ws_loop` are never given back). Logs taken back leave entries of
  `_level_data` without a head.
- *Dispatcher.* `is_oneshot()` is asked while `_indexes` is empty; an index added with a `last_level`
  loses it on restart (`dipdup.py:430`); a mix of bounded and unbounded indexes never becomes realtime
  (docs/1.getting-started/10.hooks.md:33).
- *Startup.* After an approval `_spawn_index` holds the row with the NULL hash, `_load_index_state`
  saves the new hash on another object, and the first `_update_state` writes NULL back. The command
  `schema approve` keeps `Head.hash`, the SQL function `dipdup_approve` does not, though
  docs/9.release-notes/8.v7.1.md:43 calls them equivalent. The SQLite wipe of `reindex()` gets the path
  `public` and waits for `atexit`, which `os.execl` skips. A reindexing demanded inside a handler is
  lost with its transaction. The stored flag is skipped while the hash is empty or differs and is
  ignored (`dipdup.py:797-810`). The hash of templated indexes is never checked (`dipdup.py:422`).
  `add_contract` and `add_index` outlive the rollback of the level they were called in, so that its
  handler is refused when it calls them again (`context.py:264`). `schema upgrade` approves also if
  nothing was applied (`cli.py:613`, a TODO). `exception` without a row of `dipdup_schema` raises
  `DoesNotExist`. "Up to date" metadata of Hasura is what was stored, not what the project generates
  (docs/4.graphql/2.hasura.md:22).
- *Projects.* The circumstances of `Project`: `buffered` (docs/3.datasources/9.tezos_tzkt.md:37),
  `forced_abi` (`cli.py:347`, docs/12.faq.md:37) and the others. First and last levels of template
  values are combined with a bitwise or (`config/__init__.py:960-961`); `re.search(r'<*>')` finds
  any `>` (`:949`); several config files are merged at their top level only (`yaml.py:157`);
  `_render` says "skipping" and goes on (`project.py:393`).

## Not modelled

- *Data*: the typeclasses that parameters, payloads and storages are validated against, conversions
  that depend on nothing (`fields.py`, timestamps, amounts); exceptions and their texts; names, types and
  queries that code generation and Hasura derive. They are functions of one input, without state.
- *Reporting*: metrics, Sentry, performance counters, crash reports, the API server; nothing that is
  indexed depends on them. Contents of requests to Coinbase, Etherscan, IPFS, TzIP metadata.
- *Before there is a project*: `install.py` and the questions of `dipdup new` (`_survey.py`).
- *Environment*: what transports and client libraries do between the calls of the code; PostgreSQL and
  SQLite beyond transactions and one connection at a time.

Hence the share of lines a definition stands for: about a quarter of the package is dataclasses,
conversions and texts, which a model can only repeat.

## Plan

1. Proofs: `IndexLifecycle` with a buffer.
2. Models: several datasources of one indexer; `downgrade` of migrations.
