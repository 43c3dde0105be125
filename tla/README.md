# Sentinel Tower in TLA+

Sentinel Tower follows a blockchain (bittensor) and keeps what it sees in
Postgres: the extrinsics of every block, the history of subnet hyperparameters,
and dumps of each subnet's metagraph. It is a Django project with two
long-running daemons, Celery tasks and a set of backfill commands that operators
run by hand. The parts share one database and mostly do not lock: what keeps them
correct is the order of their statements, unique keys and a handful of tests
("does this block have rows?"). That is what these modules are about.

Paths below are relative to `src/app/src/` unless they start with `src/`.

## 1. Inventory

| Component | State it keeps | Operations | Interacts with | Hard part | What makes it correct |
|---|---|---|---|---|---|
| Extrinsic ingestion (`apps/extrinsics/block_tasks.py`, `sync_extrinsics`, `backfill_extrinsics`) | `Extrinsic` rows (unique hash); `last_processed_block` in memory | store a block; follow the head; scan for gaps; `--block` | chain provider, hyperparameters, notifications | two processes on one block, exceptions and kills between transactions | a block is stored whole or is a gap; gaps are filled; nothing is announced before it is stored, or twice without cause |
| Hyperparameters (`hyperparam_service.py`, `sync_hyperparams`) | `SubnetHyperparam` (latest), `SubnetHyperparamHistory` | get-or-create, save, append; bulk update from chain | called by ingestion | out-of-order writers, a row saved after others have replaced it | value and block of a record belong together; the daemon never leaves an older record; the history has the right old values |
| Daemon loop and backoff (`bittensor_connection.py`, both `sync_*` commands) | attempt, delay, provider, `_shutdown` | connect, read head, handle blocks, wait, stop | chain provider, signals, docker | nested retry loops share one outage | one alert per outage; every block once; prompt stop |
| Epoch schedule (`apps/metagraph/utils.py`) | none | dumpable blocks of an epoch, of a range; epoch starts | metagraph daemon, backfills, health metrics | off-by-one at every boundary | the three enumerations agree |
| Metagraph sync (`metagraph_sync_service.py`, `relation_bulk_syncer.py`, `key_cache.py`, `backfill_metagraph`, `historical_metagraph_backfill`) | `Block`, `Subnet`, `Neuron`, `Hotkey` (latest values), snapshots, weights, bonds, `MetagraphDump` | one transaction per (block, netuid) | schedule, burn, APY, retention | latest rows read without a lock and written out of order; the dump copies tempo and owner from them; uids are reused | what belongs to a block is right whatever other blocks' syncs write; the subnet row is one block's |
| Burn and emissions (`burn_service.py`, `backfill_burn_metrics`) | burn per dump, emission rows per meta epoch | computed after a dump, sampled at root epoch starts | metagraph sync, retention | computed outside the dump's transaction, from rows that change | the burn counts the neurons of the owner at that block |
| Validator APY ingest (`apy_epoch_ingest.py`, `tasks.py`, `backfill_validator_apy_epochs`) | facts per (subnet, neuron, epoch), a watermark | tick: reconcile, upsert, sweep, expire, advance | reads what metagraph sync is still writing | ids commit out of order; lock; time limit | every qualifying snapshot becomes a fact |
| Retention (`project/core/retention.py`, `apps/*/retention.py`) | none (advisory lock of the session) | two cutoffs, batched deletes, table by table | all tables; beat and operators | killed and redelivered runs, lost sessions, time passing during a run | one run at a time; only expired rows leave, and all of them do |
| Notifications (`apps/notifications/`) | handler registries, `SubnetWebhook` | match, unwrap Sudo, group, send, route to owned subnets | called by ingestion; owners, webhooks | first match in registration order, handlers that raise, owners and webhooks that change | each item to exactly one handler; one failure does not swallow another's items |
| Snapshot health (`metagraph/tasks.py`) | `SnapshotHealthMetric` | count per subnet and window, replace all rows | schedule, snapshots | overlapping executions; counts while blocks are synced | the table is of one execution and never counts too few |
| Celery queues (`project/celery.py`) | Redis lists | send, take, acknowledge late, move, flush | workers | read, push and remove are separate commands | no task lost |
| Storage (`project/core/storage/`, `services/storage.py`) | files or objects | store, append, read, delete | Dagster jobs | read, delete and save again; lines and files seen half written | an appended line stays |
| Dagster jobs (`project/dagster/`, legacy: registered nowhere) | `IngestionCheckpoint`, sensor cursors | sensors, schedules, two ingestion jobs | files, the tables | overlapping runs that read without a lock while lines are written, kills before the checkpoint | which lines a checkpoint may pass unread, and that the others are read in the end |
| Materialised APY views (legacy); admin, explorer, operator scripts, deployment | - | - | - | - | - |

The daemons run in containers with `restart: always`; each backfill is a one-shot
process an operator starts, at any time, also while a daemon works on the same
blocks.

## 2. The modules

| Module | Models | Kind |
|---|---|---|
| `ExtrinsicIngest` | `store_block_extrinsics` and the two loops that call it | detailed specification |
| `IngestLedger` | what ingestion promises | abstract specification |
| `BlockWalk` | the order in which a daemon promises to take up blocks | abstract specification |
| `MCExtrinsicIngest` + `Ingest*.cfg` | small chains for TLC | model |
| `SyncDaemon` | the loop, backoff, wait and shutdown of both daemons | specification |
| `ApyIngest` + `Apy*.cfg` | syncs in flight, the APY tick, the backfill command | specification |
| `EpochSchedule` | epoch arithmetic and the scan of a range | algorithm as a state machine |
| `MCDaemon` + `Daemon.cfg` | the loop or the schedule, one at a time | model |
| `MetagraphSync`, `MCMetagraphSync` + `Metagraph*.cfg` | dumps, burns and emissions; daemon and the three backfills | specification, model |
| `Retention` | runs of the retention task and command | specification |
| `NotificationRouting` | from the items of a block to webhooks | specification |
| `HyperparamSync` | the daemon's update against `sync_hyperparams` | specification |
| `TaskQueues` | a Celery queue, its workers, `move_tasks`, `flush_queue` | specification |
| `AtLeastOnce` | what late acknowledgement promises | abstract specification |
| `SnapshotHealth` | the task that counts missing snapshots | specification |
| `MetagraphFiles` | metagraph files and the Dagster job that ingests them | specification |
| `JsonlPipeline`, `MCJsonlPipeline` + `JsonlPipeline.cfg` | JSONL partitions, their writers, and the Dagster job that ingests them | specification, model |
| `Services` | the services from `Retention` to `MetagraphFiles`, each with its own variables | composition |
| `MCServices` + `Services.cfg` | one of them at a time | model |
| `ExtrinsicIngestProofs` | types and control invariant, whole blocks, repeated dispatches | proofs |
| `IngestLedgerProofs` | refinement of the ledger, the daemon alone | proofs |
| `DaemonProofs` | alerts and blocks; the scan and the epoch starts | proofs |
| `ApyIngestProofs` | types, ticks and backfills exclude each other, the watermark hides nothing | proofs |
| `MetagraphSyncProofs` | dumps, weights, the subnet row, burns | proofs |
| `RetentionProofs` | one run, only expired rows, no orphaned metrics | proofs |
| `ServicesProofs` | the other services: types, and every invariant of the run `services` | proofs |
| `JsonlPipelineProofs` | appended lines stay, what the checkpoint passes | proofs |

Definitions named "Faulty variant of ..." are not part of any specification: each
is the definition that follows it with a plausible bug, kept to show that the
property named in `PROJECT.json` notices it.

### ExtrinsicIngest

Processes are the daemon `Live` and any set of `Backfills`. A process's `pc` names
the statement it is about to execute:

| `pc` | Code | Step |
|---|---|---|
| `off` | container or command not running | `StartLive`, `StartBackfill`, `StartBackfillOf` |
| `connect`, `poll` | `_connect_provider`, `get_current_block` | `ConnectLive`, `PollFails`, `PollHead` |
| `scan` | `_find_missing_blocks` | `FindMissing` |
| `loop` | the `for block_number` loops | `NextBlock`, `RangeDone`, `BackfillDone` |
| `ingest` | `service.ingest_block` | `IngestBlock`, `BlockUnavailable` |
| `read` | the query for `existing_hashes` | `ReadExisting` |
| `write` | `bulk_create(ignore_conflicts=True)` | `WriteRows` |
| `enrich`, `save`, `history` | `update_hyperparam`, once per changed parameter | `GetOrCreateParam`, `SaveParam`, `AddHistory` |
| `enrich` (nothing left) | `dispatch_block_notifications` | `Notify` |
| `events` | `dispatch_block_event_notifications` | `NotifyEvents` |

There is no surrounding transaction in the code, so each statement commits on its
own and is a step of its own. From every statement that calls the provider or the
database the process may leave by `Raise`; since the step before it may or may not
have happened, this covers a statement that committed although its caller saw an
error. `Crash` may happen anywhere. The two dispatch calls catch their exceptions,
so they only crash.

The extrinsics of a block are fixed by the constant `BlockExts` (the hash is the
only field that is told apart, plus the hyperparameter it sets); two blocks may
contain the same hash, which the unique key of the table resolves in favour of the
first one stored. Only extrinsics that `_parse_extrinsic_record` accepts are in
`BlockExts`. `sends` and `eventSends` observe dispatches and count none, one, many;
`raced` records the blocks some process stored from a stale `existing_hashes`;
`skipped` the blocks the daemon gave up after an exception.

The graceful stop of the two loops by a signal is a `Crash` between blocks here; it
is modelled in `SyncDaemon`.

### IngestLedger

Three variables (`head`, `rows`, `published`) and three actions: the chain grows, a
block is stored whole, extrinsics already stored are published. The refinement maps
`published` to the pairs that were dispatched or have a history entry. What it says
beyond invariants: rows are never changed or removed by ingestion, no block above
the head is ever stored, and an announcement never precedes its row.

### BlockWalk

The other promise of the daemon, about the order of its work: `head`, the last block
passed and the block in hand. `Begin` starts right before the head, `Take` takes up the
next block and nothing else, `Pass` leaves it, whether it was stored, was unreadable or
failed, and `Forget` is a process that died. In `ExtrinsicIngest` the last block is
`lastProcessed`, the block in hand `blk[live]`; the range of blocks that `handle` computes
from one reading of the head, its work list, is not part of the mapping: that it never
leads the daemon astray is what the refinement `WalksTheChain` says. The loop of
`SyncDaemon` handles a block in one step, so it says nothing about a block in hand; the
same promise is `EachBlockOnce` there.

### SyncDaemon

One process with the variables of `handle` and of `ProviderReconnectBackoff`, an
environment (`head`, `reachable`), signals and restarts. `reachable` is about reading the
head: a handshake may succeed at any time (`Connect`), also while the head cannot be read,
and leaves the state of the outage alone, which only `ReadHead` ends. Waiting is explicit: a
one-second `Slice` at a time, the flag looked at before each. Handling a block is
one step that succeeds or raises. The nested loop of `_connect_provider` and the
outer loop are one `top` state: the same condition, `_shutdown`, is tested at both,
and both leave through the same `finally`. The metagraph daemon differs only in
blocks it passes without touching the provider, which are `HandleBlock` too.

`attempt` is unbounded in the code and counted up to `AttemptCap`, which the
assumption keeps above the alert threshold: beyond it only `attempt` itself is
forgotten, not the delay or the number of error records.

### ApyIngest

One validator of one subnet, so that a block (the last dump of an epoch) has at most
one snapshot (`row`), one timestamp (`stamp`) and one fact. Three kinds of actors:

* `Syncs`, the transactions of `sync_metagraph`: `SyncWrite` takes an id from the
  sequence, or keeps that of an existing row; `SyncCommit` makes the snapshot and
  the block visible, `SyncAbort` loses the id.
* `Ticks`, executions of the beat task: `TickBegin` (lock, watermark, `MAX(id)`),
  `Reconcile`, `TickUpsert`, `TickSweep`, `TickExpire`, `TickCommit`. Each statement is
  a step and sees what is committed when it starts (read committed); what the
  transaction writes is in `work` and becomes `facts` with the watermark.
* `Backfills`, runs of `backfill_validator_apy_epochs`: `BackfillRange` (given
  endpoints) or `BackfillDays` (derived), `Reconcile` and `BackfillUpsert` per chunk,
  each chunk committed, then `BackfillFinish`.

`Abort` cuts any worker off between two statements. `SetTimestamp` is one update of
`backfill_timestamps`. A block stands for its date: `expiry` is the newest one older
than `RETENTION_DAYS`. A snapshot is a value in `Values` when it qualifies for a fact
and `None` otherwise; the APY formula is a function of it and left out. `late` and
`during` observe: a block is late when its transaction committed with `Margin` or
more ids taken since it got its own, which for a row rewritten long after it was
inserted is always so. A tick will not see such a block; a completed backfill of its
range does, and takes it out of `late` unless it was committed again meanwhile.

### EpochSchedule

`get_dumpable_blocks_in_range` is the state machine (one step per epoch); the
helpers are operators of the same name. Tempo and dumps per epoch are the
constants of the code. `step * i` is exact there (360 / 3), so the floor of the
product is the integer division of the model.

### MetagraphSync

Four processes, each with a pass over blocks (`todo`): the daemon `live`, which
follows the head, skips a block that fails and starts again at the head; `gaps`
(`backfill_metagraph`, the missing dumpable blocks of its window); `history`
(`historical_metagraph_backfill`, epoch starts, without weights); and `burns`
(`backfill_burn_metrics`). `MaxRunning` of them run at the same time.

| `pc` | Code | Step |
|---|---|---|
| `off` | between passes | `PollHead`, `ScanGaps`, `ScanHistory`, `ScanBurns` |
| `fetch` | the chain call, and the reads of `sync_metagraph`'s transaction | `Fetch`, `FetchNothing` |
| `commit` | its writes: hotkeys, subnet, neurons, snapshots, weights, dump | `CommitSync` |
| `burn` | `BurnService.sync_burn` | `SyncBurn` |
| `emissions` | `BurnService.sync_subnet_emissions` | `SyncEmissions` |

The transaction is two steps, what it reads and what it writes, because every other
process may commit in between: `read[w]` keeps the rows as read, and `SavedRow`,
`SavedKeys` do what the ORM does with them (`save()` writes every column, an unchanged
object is not saved at all). Row locks taken by the first write and held to the commit
make the commit one step. One subnet is modelled, next to the root subnet's meta
epochs. `Owner`, `ColdkeyAt`, `UidAt`, `WeightsAt` and `TempoAt` are what the chain says
at each block; a metagraph may also come without its optional values (`lean`). The
database may begin with a subnet row of an earlier dump. Bonds and collaterals are
linked as weights are, by `_build_uid_to_neuron_map`; they are not modelled beside them.
Sums of incentives are abstracted to the set of neurons that they range over.

The reads of `sync_burn` are one step with its write. Something committed between the
dump and that step shows in `interrupted`; `burn[m].alone` says that there was nothing,
and that the burn was computed right after its dump. A kill between the two leaves the
burn out, which `Fail` and `Restart` at `burn` allow.

### Retention

`BeginRun` takes the lock and fixes both cutoffs, `DeleteBatch` is one transaction of a
batch, the oldest rows first, and goes on to the next table after an empty or a last
batch. `Abort` is an exception, a time limit or a kill, after which the task is
redelivered. `LoseSession` is a lost connection: the server frees the lock at once, the
run finds out with its next statement (`EndLost`), and its `finally` must not free what
another run holds by then. Time and blocks are one counter; blocks in `Untimed` have no
timestamp and can be no cutoff; old blocks come in by backfill and may be expired
already. A table has at most one row per block.

### NotificationRouting

One dispatch at a time: `Order` is the registration order of the handlers, `turn` the
one that is notified. `HandlerOf` is matching (first match, Sudo unwrapped, the catch-all
last), `NotifyChannel` a handler with one message for its group, `ok` the URLs that take
it. Coldkey swaps are looked up and announced centrally (`AnnounceSwaps`), then routed to
the webhooks of each subnet the signer owns (`PostToSubnet`), with owners and webhooks
that change in between. `HandlerRaises` is an exception out of `notify()`. Two dispatches
of one block, extrinsics and then events, are one here. An item is its kind, whether it
is wrapped in Sudo, its success and its signer; texts are left out.

### HyperparamSync, TaskQueues, SnapshotHealth

`HyperparamSync` is one parameter of one subnet: the three statements of
`update_hyperparam` against runs of `sync_hyperparams`, whose values are fetched before
they are saved and may be an older block's. `TaskQueues` has the two Redis lists,
unacknowledged tasks, and `move_tasks` as the two commands per task that the client
sends one by one (the pipeline in the code is opened but not used for them).
`SnapshotHealth` counts subnet by subnet outside of a transaction and replaces the table
inside one; `stale` is the DELETE that does not see rows committed after it began, which
the unique constraint then catches.

### AtLeastOnce

The promise shared by the Celery queues and the checkpoints of `ingest_metagraph`: what is
handed over stays pending until it is done or was dropped on purpose, and may be delivered
and done again. For the queues, a task is pending while it is in a list or with a worker
(`Pending`), and `flush_queue` is the drop. For the files, `Begun` are those handed over,
a sync is the work, and the checkpoint the acknowledgement. `Services` has both mappings,
`D` and `E`.

### JsonlPipeline

The JSONL partitions, one per day, the processes that append to them and the Dagster job
that ingests them.

| Code | Step |
|---|---|
| `_append_local`: open, which creates the file; lock and first write; last write, flush and unlock | `OpenFile`, `BeginLine`, `EndLine` |
| `_append_storage`: read, delete, save | `ReadContent`, `DeleteFile`, `SaveFile` |
| the sensor and the hourly schedule | `SensorTick`, `HourlyTick` |
| the job: checkpoint and list of files; one file; end of the list; rows; checkpoint | `BeginRead`, `ReadPartition`, `EndRead`, `CreateRows`, `SaveCheckpoint` |
| kills, and an operator who removes a file | `KillWriter`, `KillJob`, `RemovePartition` |

A line is longer than a write may be, so that it reaches the file in parts. The writers'
lock keeps other writers out, but no reader takes it: between `BeginLine` and `EndLine` a
run finds a last line that does not parse (`"torn"`), or that parses but lacks its
newline. `read_partitioned_dir` skips what does not parse, and counts it. The part that
a killed writer leaves is continued by the next append, and the joined line does not parse
either (`joined`).

A run lists the files once, reads them in order, and lines are appended in front of it and
behind it meanwhile. One file is read in one step: files only grow at their end, so what
the loop sees of it is what was there when it met the end. Empty and malformed input
moves the checkpoint, records without a hash alone do not, and a total below the
checkpoint resets it and reads again (`EndRead`). At most one run of the sensor and one of the
schedule go on at a time. Rows are created in batches that ignore what exists; a run killed
between two of them leaves some of the rows a later run creates, which no property tells
from none. An operator removes only files that nobody is writing to. A record whose
writer was killed is not appended again.

What a checkpoint may pass although it has no row is collected in `slipped`, at the step
that makes it happen: the record that a run has met half written (`ReadPartition`), and
the one appended to a partition while a later one has lines or behind a run that goes on
to a later one (`Late`). Both happen in the code, see section 6. `CheckpointCovers` says
that these are the only ones.

At this commit `definitions.py:27-34` registers no jobs, sensors or schedules and
`store_extrinsics_artifact` returns before it writes, so that nothing in the deployment
runs this code or that of `MetagraphFiles`; it is kept in the repository with its tests, and
modelled as it stands.

### MetagraphFiles

One file per subnet and block, opened and then written, and a job that lists the files
without a checkpoint and takes them one by one, with its own sensor and schedule.

### Services, MCServices

`Services` brings the six modules without shared state of interest together, as
instances with variables of their own (`Retention` is extended), and names their
properties, so that what the run checks and what `ServicesProofs` proves are the same
formulas. `MCServices` composes them as alternatives: `focus` is the service that runs,
chosen at the start, so that the state space is the sum of theirs and one run checks each
on its own constants. Fairness is that of each module's `FairSpec`, for the service in
focus.

## 3. The runs

| Run | Instance | Shows |
|---|---|---|
| `ingest_race` | daemon + 1 backfill on 2 blocks, and a third that the daemon has to itself (`ThirdBlockAlone`); 3 extrinsics, one of them in two blocks, 1 parameter changed in each block, events in two; 1 232 355 states | whole blocks, refinement of the ledger, a repeated dispatch only after a stale read or for a hash stored under another block; the daemon walks along the chain and leaves no readable block unstored |
| `ingest_live` | daemon + 1 backfill, 2 blocks; 32 460 states | gaps in the window are filled; the daemon gets to the head |
| `ingest_failed_caught` | daemon alone | violated, see section 6 |
| `ingest_hyperparam` | daemon + 1 backfill, 2 blocks | violated, see section 6 |
| `sync_daemon` | the loop: delays 1, 2, 4, 5; threshold 3; 4 blocks. The schedule: 9 starts x 6 lengths x 3 subnets around epoch boundaries; together 5 173 states | alerts, each block once, stop, report; the enumerations agree |
| `apy_ingest` | 1 tick, 1 backfill in chunks of 1, 2 syncs, 2 blocks, 3 ids; 1 790 532 states | exclusion; the watermark hides nothing that was not late |
| `apy_live` | 1 tick, 1 sync, 2 blocks, one timed late, the window moving past both; 127 977 states | facts catch up, late dates arrive, expired facts leave |
| `apy_narrow` | 1 sync, 2 ids | violated, see section 6 |
| `metagraph_sync` | daemon and three backfills, two at a time, 2 blocks, 3 hotkeys, 2 coldkeys; 819 074 states | dumps, weights and the subnet row are right whatever interleaves; an undisturbed burn is exact |
| `metagraph_history` | daemon and burn backfill, one at a time | violated, see section 6 |
| `services` | the six small services, see below; 110 568 states | their invariants and liveness; tasks and files are delivered at least once |
| `jsonl_pipeline` | 2 lines, 2 partitions, 2 writers, 1 fault; 1 030 081 states | appended lines stay; the checkpoint passes nothing but what has slipped; what waits behind it is read |

Why the bounds suffice. A race needs two processes in one block, a further block whose
parameter change is older, and one more extrinsic than the first so that "some but not all
rows" can happen: two blocks and three extrinsics. The third block, which repeats the hash of
the first, lets the daemon skip one and go on; the state constraint `ThirdBlockAlone` stops
behaviours in which a backfill is at work when the chain has it, for the size of the run.
In `ingest_live`, `Lookback` 1 makes the
first block leave the window when the chain grows twice. For the backoff, the cap (5) is
met after three doublings, past the threshold (3), and recovery can happen on either side.
The schedule's starts are the blocks before, on and after an epoch boundary for subnets 0,
1 and 128, and the lengths reach from one block over one epoch, one epoch and a block, to
more than two. The symmetric part (several backfills) is left to the proofs, which hold
for any set of them.

For the APY ingest two syncs are what it takes for ids to commit out of order, and a
margin smaller than the ids available lets a sync fall out of it; two blocks and
chunks of one block give a backfill two transactions with everything else in between.
Every block gets a timestamp with its first sync in `apy_ingest`: section 6 says what
happens otherwise.

For the metagraph, the two blocks differ in everything at once: the subnet is sold, the
owner's coldkey is swapped, one hotkey takes another's uid, one weight refers to an
unknown uid. One is an epoch start whose anchor is an earlier block, the other begins a
meta epoch, so that all kinds of steps occur. Two processes at a time are what a race
needs, and any two of the four meet; the proofs have no such bound.

For the services: five blocks with windows of two and one, one block without a timestamp
and one of a validator, batches of one row, two per table and run, so that runs are capped
and the next has to resume; two runs. Two items of seven kinds per dispatch, two subnets,
signers and URLs, two changes of owner or webhook. Three blocks with two changes of a
parameter, two runs. Two tasks, two executions of `move_tasks`, one kill. Three blocks, two
subnets, two windows, two executions of the health task. Two files, two job runs, one crash.

For the JSONL files: two lines are one before and one behind a run, or one in each
partition, or one that continues the other's part; a run reads the first partition, both
are appended to, and it reads the second. A local file has either two writers at once and
no fault, or one writer and a fault: a writer that is started again after its kill is as
good as another one, and with both at once TLC would not finish in time. The sizes repeat
after a removal, so that a run key can be used up. `Records` may lack a hash only in the
instances with faults. The proofs have no such bounds.

The deadlock check is off for `sync_daemon`, where the scan of a range ends, for `services`,
where every service has bounds at which it stops, for `jsonl_pipeline`, where a storage
may have taken all lines, and for `metagraph_history`.

### Fairness

`SyncDaemon`: weak fairness of the daemon's own steps, that is: the process is
scheduled and its clock runs. Nothing is assumed of the chain, so an endless outage
is a behaviour, and `OutageIsReported` is about it. It excludes behaviours with
infinitely many restarts, because the attempts are kept in memory.

`ExtrinsicIngest`, used by `ingest_live` only:

* weak fairness of the processes' own steps (scheduling) and of `StartLive`
  (`restart: always`);
* strong fairness of `PollHead`: the head can be read again and again;
* for the backfills: strong fairness of starting one (operators keep running the
  command) and, per block, of the steps that read and store it: the provider does
  not fail for ever for the same block. The code gives no such guarantee by itself,
  it is what "a later run will get it" means;
* eventually no process is killed any more.

The daemon gets none of the last two kinds for its blocks: they may all fail,
`DaemonReachesHead` still holds. `GapsAreFilled` is about blocks with an extrinsic
of their own (`Storable`); a block without one can never have a row.

`ApyIngest`, used by `apy_live` only: strong fairness of `TickBegin` (beat starts ticks
again and again, and some find the lock free: backfills are commands that end); weak
fairness of what a tick does next, its step or being cut off; and if ticks begin for
ever, some of them are not cut off. Nothing is assumed of syncs, of timestamps or of
the passing of time. Backfills are left out of that run, for its size.

The services (`MCFairness`): beat begins retention runs whoever ran last, and a run goes
on with its next batch or ends when its session is lost; from some time on all steps are
`Undisturbed` (no kill, no lost session, no backfill of an old block), as otherwise no run
would get to the last table. Workers take and finish what is in the lists.
The hourly schedules come round and their runs go on; a file that has been opened is
written. Sensors get no fairness, the schedules make up for what they drop.

`jsonl_pipeline`: the hourly schedule comes round and runs go on, unless killed. Nothing is
assumed of writers, of the sensor, or of there being no faults but for their bound.

## 4. What is proved

All of it for every value of the constants allowed by the named assumptions
(`IngestAssumption`, `BackoffAssumption`, `ScheduleAssumption`, `ApyAssumption`,
`MetagraphAssumption`, `RetentionAssumption`, `ServicesAssumption`, `PipelineAssumption`),
each stated where the constants are declared and evaluated by TLC in every run of its
module. With them every invariant and every safety property of a step that the passing
runs check is a theorem; section 5 lists what is left.

**Types and control** (`TypeAndJobs`). `TypeOK` is not inductive: dispatching needs
the block number to be a block, saving needs a pending extrinsic. `JobInv` says, for
each control point, what a process holds: no block between blocks, one at or below
the chain's bound inside; nothing seen before the read; pending positions only of
fresh extrinsics that set a parameter.

**Whole blocks and repeated dispatches** (`BlocksAreWhole`, `SentOnceUnlessRaced`),
from `OnceInv`: every block is whole in the table; what a process has seen is a part
of what is stored and, unless nothing was there, all of it; once past the write every
extrinsic of its block has a row; what has been sent was stored; a process about to
send something already sent raced or found the hash under another block. Each action
but the write and the two dispatches leaves the relevant parts alone
(`QuietKeepsOnce`).

**Refinement** (`IngestImplementsLedger`): `WriteRows` is `Store`, the dispatches and
`AddHistory` are `Publish`, everything else stutters. It needs `OnceInv` (rows exist
when published) and `BehindHead` (no process holds a block above the head), itself
an invariant proved from the ranges the loops are given.

**The walk along the chain** (`DaemonWalksTheChain`), with any backfills beside the daemon:
the invariant `InStep` ties the three things the code keeps of its position together. Between
blocks, the work list is empty or is exactly the blocks from the last one passed to a head
that the chain has reached; inside, the block in hand is the next one, and the
list is what remains after it; before the first reading, nothing is in hand. An exception
throws the list away together with the provider, and passes the block: that both happen is why
the next list neither repeats the block nor leaves one out (`RangeAfter`).

**What the daemon leaves behind** (`NothingPassedUnstored`). `PassedIsStored` is the
action property that the range passed by the daemon is in the table but for the blocks it
could not read or that raised. It needs `OnceInv`, since a daemon that finds all hashes of
its block existing writes nothing and relies on the backfill that did (`DoneMeansStored`).

**The daemon alone** (`DaemonNeverRaces`, `DaemonGoesForward`, under
`Backfills = {}`): the second from an invariant that orders every stored hyperparameter
block at or below the block in hand, and that at or below all remaining ones, through
failures and through restarts, which begin at the head.

**Daemon loop** (`TypeCorrect`, `OneAlert`, `HandledOnce`) and **schedule**
(`ScanInvariant`, `ScanIsExact`, `EpochsMeet`, `StartsAreExact`): the schedule's proofs
rest on `EpochsPartition` (an epoch's first block is less than one duration back and has
index 0), so that the epoch of a block is determined by it. For the enumeration of epoch
starts, `StartPosition` says that a dump's position is "start" at index 0 only, and
`StartsInRange` that stepping by one duration from the first start at or after the range's
beginning leaves none out.

**APY ingest.** `MutualExclusion`: a worker that has begun is the one that has the lock
(`LockHeld`); beginning takes a free lock, each way of ending, also being cut off, gives
it back. `NoTimedBlockIsMissed`: the types (`TypeCorrect`) are inductive by themselves;
the watermark needs, beyond them,

* ids: snapshots keep their ids, the sequence is ahead of all of them, and a block is in
  one transaction at a time (`IdInv`); the watermark and what a worker at work will make
  of it are ids that were seen (`MarkInv`), so that a transaction that commits later has a
  greater id, or is within the margin, or is late;
* times: every stored block has its timestamp, and no worker's window is ahead of the time
  (`TimeInv`);
* what is committed during a backfill is found by a later tick whatever the backfill makes
  of the watermark (`DuringInv`);
* the tick (`TickInv`), statement by statement: a block that its new watermark would hide
  is right in its work, or is still in the range the next statement takes care of;
* the backfill (`BackInv`), chunk by chunk: behind its position in its range the facts are
  right but for what was committed during it, and one that will move the watermark covers
  all blocks that are not expired.

The last point is false for a derived range that is shorter than the window or ends at
untimed blocks: hence `Skips \subseteq {0}` and, for `NothingIsMissed`, `Untimed = {}`. Both are
what the run `apy_ingest` has, and section 6 shows the runs that need them.

**Metagraph** (`TypeCorrect`, `DumpsRight`, `WeightsRight`, `RowRight`, `BurnsRight`), in three
layers. `Typed` adds to `TypeOK` what a process holds of its pass and of the rows it has
read. `Content` is the conjunction of the three properties with `SnapInv` (snapshots only of
hotkeys registered at their block): the step that matters is the commit, where the row
written is either the block's own or, when nothing changed, the one another transaction has
left, never a mixture, because the owner and the tempo are both set from the chain or both
from one row. `Alone` says that a process that nobody has interrupted since its reads
still has in the tables what it has read or written, from which the burn follows.

**Retention** (`Exclusive`, `NoOrphanMetrics`, `OnlyExpired`): a run in progress has the lock or
has lost its session (`LockInv`), and the cutoffs fixed at its start only get further behind
the window (`CutoffInv`), so that late batches are as right as the first ones. `Cardinality`
and the batch size play no part: the batch is a subset of what is expired.

**Hyperparameters** (`RecordsAreOfOneBlock`, `HistoryIsRight`), from `ParamInv`: the copy the
daemon holds between its statements is of one block, so that saving it over a newer row is
wrong only about the time; what the last block in the daemon's hand knew
(`Known`) is the value before the change or there is a missed change in between.

**Snapshot health** (`HealthIsOfOneRun`, `HealthIsNeverUndercounted`), from `HealthInv`. Each
execution counts a set of subnets that only depends on when it began, and any two such
sets are comparable by inclusion; so an execution that inserts beside the other's rows, which its
DELETE did not see, meets a row with the same key, and the unique constraint fails it
(`StaleMeetsRow`). Counts can be too high because snapshots are only added while
they are taken and written. It is assumed that a window is longer than the distance of
two dumpable blocks, so that a subnet that is counted has a count for every window: in the
code 50400 blocks and more against 121.

**Notifications** (`ChannelsAreRight`, `NothingIsSwallowed`), from `NotifyInv`: items of a
handler that had its turn were heard or are known to be unheard, nobody else's were
heard; owners looked up during the swap's turn are in `ownedBy` however they change; the
total is the number of items heard, less those of a handler that raised. That every item
has exactly one handler is `HandlersAre`, by cases over the registration order.

**JSONL files** (`AppendedStays`, `CheckpointsCover`), from `PipelineInv` (`PipelineInvariant`):

* `LocalInv`: the file of a writer within a line ends with the part it has written, and
  nobody else is within a line there; a line that was written is in a file, and is no part
  that a later append would continue. `StoreInv`: unless writers of one partition
  overlapped, what a writer holds is what its file had, with the line, and the file it
  deleted stays missing until it saves.
* `CoverInv`: the checkpoint, and the totals that runs are going to save as checkpoints,
  pass only lines that are known: torn for good, without a hash, with a row, or slipped. A
  line is stood for by what it is and what its writer will make of it (`Items`), so that
  completing it makes nothing unknown.
* For a run between two partitions this is `Reads`: all that lies behind it is known or
  read, the lines in front of it that it will pass over, by its own count, are known, and
  it cannot have counted more than is there. Three lemmas carry it along: `ReadsBegin`,
  `ReadsOn` for the next partition and `ReadsEnd`; and `ReadsGrow` says that it survives
  whatever writers do, provided that a line that comes to lie before lines already there
  is known at once (`Grown`). That is where `Late` is needed: without it the two
  statements fail.

The line numbers are sums over the partitions before. What `SumUpto` computes cannot be
proved by induction over its definition, so `SumIs` gives its two equations from the
existence of such a function (`SumsExist`), and everything about sums goes upwards from the first
partition by the smallest counterexample (`Upwards`).

**Queues** (`NoTaskIsLost`), the safety half of `SentIsDone`: `NothingLost` needs
`PushedInv`, that the task the command has pushed and not removed has got to the second
list or further, and `QueueInv`, that this task is the first of those to move.
`QueuesDeliver` then shows the queues, step by step, to implement `AtLeastOnce`: the
interesting steps are `RemoveTask`, where the copy that leaves the source list is covered
by the one pushed before it, by a worker, or by its having been done (`PushedInv`), and
`Redeliver`, which may bring back a task that was done already.

**Metagraph files** (`MarkedFilesAreSynced`), the safety half of `FilesAreSynced`: a run
marks only what has been synced, which only whole files are. `FilesDeliver` is the
refinement: marking forgets a file that is through, wherever other runs are.
`DeliveryAtLeastOnce` is both.

Two techniques recur. What should be an induction over the length of a sequence is an
argument by the smallest counterexample (`SmallestExists`, `LeastExists`, from the
well-foundedness of the naturals), since theorems with operator parameters cannot be used.
And an operator that comes through an instance, such as `S!Cardinality`, is another one to
the provers than its namesake: lemmas like `SameCount` connect them.

## 5. What is only model-checked

* Everything that needs fairness: `GapsAreFilled`, `DaemonReachesHead`, `StopsOnSignal`,
  `OutageIsReported`, `FactsCatchUp`, `DatesArrive`, `ExpiredLeave`, `SentIsDone`,
  `FilesAreSynced`, `WaitingAreRead`. Liveness and ENABLED are out of reach of the proof
  system.
* The findings of section 6, which are counterexamples.
* That the two conditions of `NothingIsMissed` cannot be left out: `apy_narrow`.

`NoTaskIsLost` and `MarkedFilesAreSynced` are the safety halves of `SentIsDone` and
`FilesAreSynced`. `CheckpointsCover` complements `WaitingAreRead`: one is about what the
checkpoint has passed, the other about what is behind it; `NoTimedBlockIsMissed` and
`BlocksAreWhole` are those of `FactsCatchUp` and `GapsAreFilled`, and
`DaemonWalksTheChain` with `NothingPassedUnstored` is that of `DaemonReachesHead`.

The type invariants of `ExtrinsicIngest` and `MetagraphSync` are the other way round: they
are proved (`TypeAndJobs`, `TypeCorrect`) and no run lists them.

## 6. Where the code and its comments disagree

* **A failed block backfill does not catch** (`FailedBlockIsCaught`).
  `sync_extrinsics.py:134`: "Skip the failed block - backfill service will catch it". If
  the failure is in `update_hyperparam`, the rows are committed, the block is not
  missing, and its notifications and parameter changes are lost.
* **A backfill puts an old hyperparameter value back** (`HyperparamNeverOlder`).
  `extrinsics/models.py:37`: "Tracks current hyperparam values for each subnet." and, of the
  column, "Current value of the hyperparam". `update_hyperparam` does not compare its block
  with the record's, so that a backfill of an older block overwrites the daemon's newer
  value, until the next change. Without backfills it never happens
  (`DaemonGoesForward`).
* **A narrow APY backfill moves the watermark** (`NothingMissed` with a `--days` shorter
  than the window). `backfill_validator_apy_epochs.py:104`: "A narrow repair run must NOT
  advance the watermark". Only explicit endpoints count as narrow.
  The default range has the same gap for blocks without a timestamp, since it ends at
  the first and the last block that have one (line 75): with `Skips = {0}` and
  `Untimed = {2}` in `ApyNarrow.cfg` the invariant fails in the same way.
* **Burn history** (`BurnHistoryKept`). `burn_service.py:170-173`: "an ownership or coldkey
  change in between must not rewrite history". The owner's hotkey comes from the dump, but
  its coldkey, and those of the neurons, from the `Hotkey` rows as they are now.

The one about the watermark needs the tick to be behind by more than the margin, as
the comment says; the model's margin is small for that reason.

Further differences met while reading, which no run is about:

* Block events can be dispatched twice. `block_tasks.py:239-241` says "only on first-time
  processing", but two processes that read `existing_hashes` before either writes both
  dispatch them; the model has this behaviour (`raced`), and `ResendOnlyIfRaced` bounds
  it.
* `apy_epoch_ingest.py:12-14` says that dates are never overwritten once set; the upsert
  prefers the block's timestamp whenever another column of the fact changes.
* `metagraph/models.py:481-485` says that burns are cached because the snapshots are
  pruned; a run of `backfill_burn_metrics` over pruned blocks recomputes them from the
  validators' snapshots that are left.
* `metagraph/models.py:410-413` says that a dump's owner is null when the chain reported
  none; the dump takes the owner that the subnet row has (`DumpOf`).
* A burn or an emission whose computation failed after its dump was stored is in no gap
  that `backfill_metagraph` looks for.
* `registered_at`, filled in once according to `metagraph_sync_service.py:223-225`, can be
  cleared again by a sync that read the row before and saves all of it.
* A lite historical dump counts as a dump: `backfill_metagraph` does not bring its
  weights.
* `jobs.py:205` calls the schedule an "hourly backup schedule to ensure all records are
  ingested". The job loses records in three ways, all of which the model has. A run that
  reads while a long line is being written skips it as malformed and counts it
  (`resources.py:122-125`), and the checkpoint then covers it. Lines are numbered over all
  partitions: a record appended to an earlier day than the newest moves the numbers, and
  so does one appended to a day that a run has already passed, when the run goes on to
  lines of a later day. `slipped` holds the records this happens to. And a removed file
  lowers the numbers, so that records elsewhere may fall below the checkpoint before a run
  notices that there are fewer (`removed`).
* `storage.py:101-103` warns that of two concurrent writers "one write will be lost". More
  can be: a writer that finds the file deleted by another one begins a new one, which
  replaces all earlier lines where the storage overwrites and goes to another name where
  it does not; and a kill between delete and save loses the file. `AppendedIsKept`
  excludes these (`raced`) and claims nothing of them.
* A local writer that is killed within a line spoils the next line as well, which is
  appended to the part without a newline (`joined`).

## 7. Coverage and what is not modelled

Formatting of messages, logging, metrics counters and command line parsing are left out
everywhere: no property is about them.

Not modelled, and why:

* Materialised APY views and `refresh_validator_apy_windows`: one SQL statement behind a
  lock, superseded by the APY ingest.
* Admin, explorer, URLs, settings other than the schedules and windows: declarations and
  read-only pages. Migrations restate the models.
* Operator tools (`load_key_labels`, `test_notification`, `simulate_coldkey_swap`,
  `submit_test_extrinsics`, `profile_metagraph_sync`): sequential scripts that are mostly
  input and output. `backfill_timestamps` is an action of `ApyIngest`.
* Deployment files; the restart policy of the daemons is a fairness assumption.

## 8. What comes next

Every safety property of the passing runs is proved. What a next step could add:

* an abstract specification of the APY ingest (facts are a function of the committed
  snapshots, up to what is late), with the refinement proved as that of the ledger is;
* a refinement of `BlockWalk` by `SyncDaemon`, which would need the handling of a block in two
  steps there;
* the safety half of `OutageIsReported` as a theorem of its own.
