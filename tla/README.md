# A TLA+ model of otel-sqlite

otel-sqlite receives OTLP logs over gRPC and stores them in SQLite through a
single writer thread. This directory models the path of a record from the request
to the table and back to the exporter's response, and the parts around that path:
admission, mapping, life cycle, watchdog, maintenance, backup, migration, tokens,
configuration. TLC checks all of it on small instances; TLAPS proves the commit
ledger, the origin buffers, admission to the queue, the permits of exports and the
migrations correct for every instance.
Paths below are relative to the repository root, `src/` in `PROJECT.json`.

## 1. The system

```
 gRPC handlers ──ingest queue──► insert batcher ──command queue──► SQLite writer ──► table
   (tokio tasks)   (bounded,        (thread)         (bounded)       (thread)
       │            admission gate)                                     │
       └──────── commit ledger: tickets, watermark, close ◄─────────────┘
 maintenance worker ──────────────────────────────────────► command queue
 watchdog ◄── stats, ledger ──► health service
```

| part | code | what it does |
|---|---|---|
| commit ledger | `otel-sqlite-core/src/storage/commit.rs` | issues tickets, records what became of each, keeps the watermark (every ticket up to it is settled) and publishes it to waiting handlers |
| log handlers | `otel-sqlite-ingress/src/logs.rs`, `enqueue.rs` | cut a request into chunks, reserve queue room under the admission gate, ticket and send each chunk; in commit mode wait and answer from the ledger |
| ingest queue | `otel-sqlite-ingress/src/lib.rs` | bounded crossbeam channel with the admission gate in front of it |
| insert batcher | `otel-sqlite-core/src/storage/batcher.rs`, `otel-sqlite-storage/src/origin_buffers.rs`, `batcher.rs` | groups chunks per origin into batches by size and age; a chunk may span batches, a batch may hold several chunks |
| writer | `otel-sqlite-storage/src/writer.rs`, `command/logs.rs` | one transaction per batch; retries BUSY, salvages constraint violations row by row, settles the tickets afterwards |
| storage lifecycle | `otel-sqlite-storage/src/lib.rs` | owns threads and channel ends; shutdown works by dropping senders |
| maintenance | `otel-sqlite-runtime/src/{scheduler,worker}.rs`, `otel-sqlite-storage/src/maintenance.rs` | retention, quota and checkpoint commands through the same queue |
| watchdog, health | `otel-sqlite-runtime/src/watchdog.rs`, the two `health.rs` | judges progress from counters and time stamps, sets the health state |
| lifecycle | `otel-sqlite/src/main.rs`, `otel-sqlite-ingress/src/{grpc,shutdown}.rs` | start-up and shutdown order and deadlines |
| mapping, budget | `otel-sqlite-ingress/src/mapping/` | validation and conversion of a request; permits for blocking jobs |
| token file | `otel-sqlite-ingress/src/auth.rs` | cached tokens, re-read in the background or by requests |
| migration, preflight | `otel-sqlite-storage/src/migration.rs`, `otel-sqlite/src/check_cli.rs` | schema at start-up, downgrade guard; `check` |
| backup, restore | `otel-sqlite-storage/src/backup.rs`, `otel-sqlite/src/backup_cli.rs` | online snapshots, encryption, pruning, restore |
| configuration | `otel-sqlite/src/config.rs`, `config/` | defaults, TOML overlay, validation |
| permissions, other CLI | the rest | see "Not modelled" |

The hazards of this code, each at the line where it bites and with the
properties that cover it, are listed in `PROJECT.json`.

## 2. Modules

| module | models | extends |
|---|---|---|
| `TicketBook` | what the ledger promises, without its bookkeeping | |
| `CommitLedger` | every operation of `CommitLedger`; the action's first parameter is the calling thread | |
| `AckWait` | `wait` and `wait_watermark` as tasks on the watch channel | `CommitLedger` |
| `InsertBatching` | `InsertBatcher` and `OriginBuffers` as operators on a sequence of buffers | |
| `OriginBuffers` | those operators under every sequence of pushes, timer flushes and barriers, with a clock | `InsertBatching` |
| `PipelineState` | queues, gate, ledger, table | `CommitLedger` |
| `Handlers` | one log handler per request | `PipelineState` |
| `BatcherThread` | the batcher's event loop and exits | `PipelineState`, `InsertBatching` |
| `WriterThread` | the writer's loop, transaction policy, settlement and exits | `PipelineState` |
| `AckContract` | what commit-mode durability promises to an exporter | |
| `Pipeline` | the composition of the three, and its properties | |
| `BatchTimer` | the batcher's wait under traffic without end | |
| `Admission` | an export from the call to the answer: stream permit, mapping job and its permit, deadline, detached enqueue, a caller that leaves | |
| `ExportMapping` | the mapping job: count, validate, convert, chunk | |
| `AnyValueWalk` | the stack walks over nested values and the recursive converter | |
| `Lifecycle` | `main`, `open`, `join`, the server's drain, the health monitor, the ends of every thread | |
| `HealthEvidence` | what batcher and writer publish about themselves, store by store | |
| `Watchdog` | sampling that evidence, the rules, the halt | `HealthEvidence` |
| `Scheduler` | the maintenance worker, its due times, the queue it shares | |
| `Retention` | prune, quota, vacuum, index rebuild, checkpoint, one step per transaction | |
| `Backup` | backup processes, the live source, the directory | |
| `Restore` | decrypting and installing an artifact | |
| `UtcTimestamp` | the date in an artifact's name | |
| `Migration` | opening the file, migrations, the guard, `check` | |
| `TokenVault` | the cache of the token file | |
| `Configuration` | loading, validating and using settings | |
| `Ordered` | filtering, ascending enumeration and ends of sequences | |
| `CommitLedgerProofs`, `AckWaitProofs`, `BatchingProofs`, `OriginBuffersProofs`, `PipelineProofs`, `AdmissionProofs`, `MigrationProofs` | theorems | |
| `MCAckWait`, `MCOriginBuffers`, `MCPipeline` | symmetry sets and concrete requests for TLC | |
| `MCPipelineModes` | the pipeline in three more settings for TLC | |
| `MCParts`, `MCPartsLive` | the parts around the pipeline for TLC, safety and liveness | |

Definitions introduced as seeded faults, mutants or slips are plausible bugs in the
definition they precede. They appear in no behaviour; each one, put in the place of its
definition, makes TLC report the property it is listed with in `PROJECT.json`.

### State and steps

**Ledger.** The variables are the fields of `CommitLedger` and `Inner`.
`progress` is two functions, 0 where the map has no entry. `settle` and `close`
compute a watermark under the mutex and send it to the watch channel after
releasing it, so each is two steps: the locked section leaves the watermark in the
thread's `outbox`, `Publish` stores it. The drain loop of `settle` is `Drained`,
defined by its result. `last_advance_ms` is left out.

**Waiters.** A waiter borrows the slot, decides and sleeps until the slot is
replaced. `wait` locks the ledger in a step of its own between borrowing and
sleeping, so a watermark may be published in between; the change flag of a
`tokio::sync::watch` receiver is what saves it, and it is modelled.

**Handlers.** A handler starts at the mapped request. `RejectOversized`,
`RejectFull` and `Reserve` are the outcomes of `reserve`; `TakeTicket`, `SendChunk`,
`VoidUnsent` and `PublishVoid` are one turn of the loop of `enqueue`; `AfterEnqueue` is what
follows it in each durability mode; `Wake`, `ReadTicket` (one lock of the ledger per
ticket) and `Answer` are `finish`. `Abandon` drops the handler at its await.
The `Full` branch of `try_send`, which the code calls unreachable, is not an action;
`ReservationHolds` says that it is unreachable.

**Batcher.** One step receives and processes one event; each submission is a
step that blocks while the command queue is full. After the loop the partial
batches are drained; then the ledger (if the writer is gone), the command sender
and the input receiver are given up in the order of the code. Deadlines are
ranks here, because only their order can matter; `OriginBuffers` has the clock.

**Writer.** A batch is a strict transaction, then after a constraint violation a
salvage transaction; BUSY retries up to `MaxTransientRetries`; a fatal error exits.
Then `settle_log_batch` runs one ledger operation per step. On every exit the
receiver is dropped before the ledger is closed.

**Shutdown.** `serving = FALSE` means that the server has returned and that `join` has
released its command sender. A handler holds its `IngestSender` until it is done or
dropped, so the batcher sees a disconnected queue only after that. `Pipeline` has no
deadlines here; `Lifecycle` has them, with chunks only counted.

**Admission.** `future` is the await an export is at, `job` its mapping on the
blocking pool, `task` its enqueue, which may end without having enqueued anything. A
timeout or a caller that leaves drops the future; the job runs on and keeps its
mapping permit, the enqueue task its stream permit. `Finish`, the wait for the commit,
is one step that is taken in the end: that it ends is `EveryRequestAnswered` of the
pipeline and `CallsReturn` of the ledger.

**Mapping.** A request is groups of scopes of records; a record carries the fields a
conversion can change. Times are `Width` bits, with the saturation of the code.
Attributes and bodies are the kind of their value: text, bytes that are no text, an
index into the string table. The walks keep their explicit stack and are started for a
value, for the attributes of a record or a scope, and for a body; the recursive
definition they are compared with is the converter's.

**Life cycle.** `pc` is where `main` is, from `open` to the exit status. Each thread
has a state from starting to joined, and each fault it can have is an action.
A deadline may pass whenever what it bounds has not happened yet.

**Watchdog.** A time stamp is kept as its age, which stops growing when no rule can
tell any more. The sample is read in the order of `StorageHealth::sample`, while the threads
move on between any two reads. The clock ticks when no thread has a step to take.
`rest` is history: how long there was nothing to commit since the watermark last moved.

**Maintenance.** `Scheduler` counts down to `next_due`; a full queue defers, a vanished
writer ends the worker. `Retention` keeps rows, resources, the index, the freelist, the main
file and the WAL; readers and crashes come between transactions.

**Backup and restore.** A page holds the source version it was copied from. The directory is a
sequence ordered by modification time. The choice of a name and the creation of the file
are two steps, so two runs may choose the same one; every step may fail or be the last
of a killed run. `orphans`, `disturbed` and `miscounted` are history: files no run works on any
more, runs whose files another run touched, and a pruning that counted such a file. An
artifact is a header and frames; the artifacts of the run are cut, reordered, repeated
and altered in every small way.

**Migration.** A commit is in the WAL at once and in the main file after a checkpoint; `check`
reads the main file. Processes may have different binaries and may overlap.

**Tokens.** A file is a version, or empty, missing, unreadable or invalid. A read takes time
outside the lock; the claim of the single flight and the publication are steps of their own.

**Configuration.** A file sets keys to values at the edges of their ranges; durations go through
unit, rounding and range; `Start` builds what the scheduler and the watchdog are given.

### Abstractions

A record is `<<request, chunk, i>>`, an origin a model value, and a poisoned record
one that violates a constraint of the table. A transaction that fails stores
nothing: an fsync whose failure leaves the outcome unknown is outside the
model. `WFault` also stands for a maintenance command that ends the writer.
Left out because no property tells it apart: chunks without records (mapping
makes none) and batches without segments. `send_timeout` is `send` with a deadline.
In `Retention` a row is a page and every size is a number of pages. In `Backup` the integrity
check tells a complete copy from a partial one, and encryption is what its tags
guarantee. In `Configuration` floating-point durations are tenths of a unit.

## 3. Runs

| run | instance | question | result |
|---|---|---|---|
| `ledger` | 2 threads, 3 tickets, 1 waiter | Is the watermark the settled prefix, are answers final, is `TicketBook` implemented, whatever order threads call in? | holds, 109,216 states |
| `ledger_publish_race` | 2 threads, 2 tickets | Is every waiter released when its prefix settles or the ledger closes, with two publishers? | violated, finding 1 |
| `buffers` | 2 origins, batches of 3, chunks up to 4, 4 tickets, time to 2 | Do records, tickets and deadlines stay together? | holds, 413,618 states |
| `buffers_expiry_order` | 3 tickets | Are expired batches emitted oldest deadline first? | violated, finding 2 |
| `pipeline_commit` | 2 requests, 3 chunks, one poisoned record, all faults but a batcher panic | Is every response the truth about the table? Do the threads use the ledger as it demands? | holds, 304,768 states |
| `pipeline_modes` | three settings, see below | Does a shutdown keep every queued record, is a positive acknowledgement never wrong, does every handler end and shutdown complete? | holds, 331,635 states |
| `pipeline_batcher_panic` | batcher panic | Is UNAVAILABLE kept for requests with nothing durable? | violated, finding 3 |
| `parts` | 17 instances of the parts around the pipeline | Are exports bounded, outcomes true, deletions justified, backups whole, starts judged rightly, tokens current? | holds, 900,370 states |
| `watchdog_idle` | the watchdog of `parts` | Does it halt only for a fault? | violated, finding 4 |
| `mapping_silent_loss` | the mapping of `parts` | Is every lossy conversion counted? | violated, finding 5 |
| `parts_live` | 14 instances | Do faults end the service, does what is due happen, does every wait end? | holds, 121,862 states |
| `retention_crash` | the crashing retention of `parts_live` | Does a prune that was cut short resume? | violated, finding 6 |

`pipeline_modes` explores one setting to a behaviour: *queued*, enqueue mode without
failures, four requests, one empty and one larger than the queue (`DrainLosesNothing`);
*dying*, commit mode with a batcher that panics and fatal errors of the writer
(`AcknowledgedIsDurable`); *live*, commit mode with fair threads, BUSY, fatal errors and a
writer that exits (`EveryRequestAnswered`, `ShutdownCompletes`).

Why these bounds are enough to meet the interesting cases:

* three tickets allow a gap below a parked ticket and a drain of two;
* the queue holds two chunks and the batch two records, so the two requests
  compete for admission, a chunk of `o1` is split over two batches, and one
  batch holds records of two tickets of different requests;
* the poisoned record is the first of a chunk whose records may be in two batches;
* a command queue of one makes the batcher block on the writer at every turn;
* one retry has both a BUSY that is retried and a BUSY that is given up on.

Deadlock is checked in every run. `Stopped` lets the pipeline stutter only when both
threads are gone and every handler has ended. In the ledger and buffer runs some
call (another `close`, a barrier on empty buffers) is always possible.

The *live* setting leaves out the two ways a batcher dies under a live
writer. The fault-injection exit (`storage/batcher.rs:91-95`) leaves handlers of
chunks still in the queue waiting until the shutdown path closes the ledger, as the comment there
says; the panic is finding 1.

### The parts around the pipeline

`MCParts` and `MCPartsLive` put every other component next to each other: the variable
`part` says which one a behaviour exercises, the others rest in an initial state.
They share no state in the code either, except through the queues, which each of
these modules has in its own abstraction. So a run is the sum of its parts, and a
part with two instances has two names. Each property of these runs is a
conjunction of named clauses, one concern to a property, and `PROJECT.json` has a seeded
fault for most clauses:

| property | clauses |
|---|---|
| `PartsTypeOK` | the type invariant of each part |
| `ExportsAreBounded` | `MappingIsBounded`, `StreamsAreBounded`, `NoLateEnqueue` |
| `MappingIsFaithful` | `WalkDecides`, `AcceptedConverts`, `SizeIsTotal`, `ChunksAreTheRequest`, `TimesKeepOrder`, `FieldLossesAreCounted`, `ExpansionIsTheProduct` |
| `OutcomeIsTrue` | `DrainedOnExit`, `ExitIsHonest` |
| `HaltNeedsPause` | |
| `MaintenanceIsJustified` | `EnqueueIsSpaced`, `EvictionNeeded`, `WindowRespected`, `OldestEvicted`, `PruneSwept`, `IndexMatchesRows`, `NoDanglingResource` |
| `BackupsAreSound` | `SnapshotIsConsistent`, `ArtifactWritten`, `NoPartialLeft`, `NewestKept`, `NameIsCivilDate`, `RestoredIsBackup`, `DatabaseStays`, `NothingLeft` |
| `StartupIsSound` | `AcceptedStarts`, `LoadedIsWritten`, `EnabledIsScheduled`, `OlderStaysOut`, `CleanStopAgrees`, `CheckMissesAfterCrash` |
| `TokensAreCurrent` | `NotRolledBack`, `BadReadKeeps`, `StaleExpires` |
| `MigrationsRunOnce` | `StampedIffRunOnce`, `NoGaps`, `ReadyMeansMigrated` |
| `FaultsEndService` | `DeadPipelineFails`, `DeadPipelineStopsServing`, `FaultIsHalted`, `FaultStaysReported`, `QuietLeakIsHalted`, `VerdictSurvivesHalt` |
| `MaintenanceHappens` | `DueIsEnqueued`, `ExpiredRowsGoAway`, `OrphansGoAway`, `OrphansGoWithTheNextDelete`, `BackupEnds` |
| `WaitsEnd` | `ShutdownEnds`, `WorkerEnds`, `EveryExportEnds`, `CallsReturn`, `PartialBatchIsFlushed`, `RotationTakesEffect`, `StartsSettle` |

Many of these clauses hold only under a condition, because the code does not keep the
unconditional promise. The condition is part of the property, and the instances
have the cases it excludes:

* `HaltNeedsPause`: a process without a fault is halted only after a time with nothing to
  commit, as long as the thresholds leave beside the batch age and one command. Clients
  pause for any time, maintenance comes in between. Without the condition: finding 4.
* `FieldLossesAreCounted`: every field but the body is counted when it changes; the body
  changes uncounted only when it is bytes that are no text or an index (finding 5).
* `ArtifactWritten`: two runs at a time, in one second, with errors and kills; not of a run
  whose name another one worked under, or whose file another one pruned.
* `NoPartialLeft`: but for a killed run, or one that failed to sync its last write, which
  `encrypt_file` does not clean up after.
* `NewestKept`: with two prunings at once; not once one of them listed a file that was
  being written, counted what a killed run left, or met a name that was used again.
* `RestoredIsBackup`: but for an artifact without a single frame, restored as an empty database.
* `BackupEnds`: unless commits interrupt the copy again and again.
* `OlderStaysOut`: an older and a newer binary on one file, both up at once. A process past the
  guard goes on; one that is down or in front of it never gets past it again.
* `CheckMissesAfterCrash`: `check` takes a newer database for one it can serve only when a
  crash left the stamps in the WAL; `CleanStopAgrees`: a clean stop repairs that.
* `OrphansGoWithTheNextDelete`: after a prune that was cut short the orphans are collected by
  the next pass that deletes; `OrphansGoAway`, without that condition, is for passes that are
  not cut short. Finding 6 is what is left.
* `ExpiredRowsGoAway`, `OrphansGoAway`: prunes do run again and again. The writer skips heavy
  operations while its queue is long, so no fairness guarantees it.
* `PartialBatchIsFlushed`: from some time on no other origin has traffic.
* `QuietLeakIsHalted`: the leaked ticket is the only thing outstanding for long enough.
* `StaleExpires`: the bound is `MAX_STALE_TOKEN_AGE` and three reload intervals with their reads,
  for the reads that notice an empty file, start the grace period and end it.

One clause depends on the instance: `EvictionNeeded` is checked without other processes
that read the database, and on a file that has incremental vacuum. The other clauses on
deletions also run with readers and a legacy file. Section 4 says what happens there.

Bounds: the mapping and stream limits are below the number of requests, so permits are
contended; two faults in `process`, so that one meets the handling of the other;
a quota of two pages for three rows and a prune batch of one row, so every pass has several
transactions; two pages and two versions of the source, so a copy can be torn; three frames in
every permutation and cut; calendar years around 1970, 2023, 2099, 2399 and 9999, four years of
days each (leap years, the two kinds of century); three crashes over four
migrations; a grace period short enough to end inside a behaviour; values of every kind to a
depth one beyond the bound; 4-bit times; every key of the configuration at both ends of its
range, and the four durations the watchdog compares in all combinations. Clocks stop
where no rule can tell two ages apart.

`Ended` lets a part stutter that may really stop (the process exits, the artifact is restored,
the request is mapped); for retention, migration and tokens deadlock is checked.

### Properties worth knowing

* `ImplementsContract` (commit mode): OK means every record is stored,
  `partial_success` exactly all but the rejected ones, an error none, from the
  moment of the answer on. It fails only when the batcher panics (finding 3),
  where `AcknowledgedIsDurable` is what remains.
* `NoTicketLeak`: an unsettled ticket always belongs to a chunk that is still in
  someone's hands, so one chunk cannot hold back the watermark for everybody.
* `LedgerMatchesTable`: across splits, salvage and retries each ticket is credited
  with its own rows.
* `OrderIsKept` is `InsertedInOrder` and `FlushIsBarrier`: when a flush reaches the writer, everything queued before it is
  settled.
* `ImplementsLedger`: the pipeline is a client `LedgerSpec` allows. Hence what is proved
  of `LedgerSpec` holds in every pipeline of which this refinement is true.

### Fairness

Handler tasks, the batcher and the writer are scheduled when they can run (a
task of the tokio runtime, an OS thread). Clients hanging up, flush messages, shutdown
and faults are not fair: they need not happen. For the *live* setting of `MCPipelineModes`
(`LiveFairness`) weak fairness is written with explicit conditions (`HandlerRunnable`, `BatcherRunnable`,
`WriterRunnable`) instead of `ENABLED`, which TLC evaluates very slowly on these
actions. The conditions were compared with `ENABLED` on a smaller instance and
agree in all of its 4,154 states. In `AckWait` a computed watermark
is eventually published and a task that can run does.

In `parts_live` the fairness of a part is the premise of its clauses:

| part | fair | not fair |
|---|---|---|
| `Lifecycle` | `main` with its deadlines, signal task, monitor, maintenance worker, watchdog | batcher and writer, the signal, faults |
| `Watchdog` | threads that are ready, the sampler, the clock | clients, faults |
| `Scheduler` | worker, writer, clock | inserts, shutdown |
| `Retention` | a pass that runs goes on, the clock | inserts, crashes, the start of a prune |
| `Backup` | a process that runs goes on | ingestion, starts, faults |
| `Migration` | a start goes on; a supervisor restarts what is down again and again (strong) | stops, crashes |
| `TokenVault` | the background reloader, the clock | writes of the file, requests |
| `Admission` | handlers, the mapping deadline, enqueue tasks | mapping jobs, callers |
| `BatchTimer` | the batcher, the clock | arrivals |
| `AckWait` | publication of a computed watermark, tasks that can run | calls of the ledger |

Threads and tasks are scheduled by the operating system and tokio, the deadlines are
timers of tokio, the restart is that of `deploy/systemd/otel-sqlite.service`. That prunes run again and again is a
premise of the clauses that need it (`PrunesRun`), no fairness. For the watched process the
server keeps serving: once it returned there is nothing left to halt.

## 4. Findings

1. **A stale watermark can replace a newer one** (`commit.rs:265`). Two threads may
   publish in the opposite order of their critical sections. A waiter that goes by
   the slot then sleeps on a ledger that is closed, contrary to the
   module documentation (`commit.rs:26-29`). In the pipeline this needs a batcher
   that panics: its close is overtaken by a settlement the writer computed just
   before and stores just after, and handlers of lost chunks wait until the
   server is stopped. When only the writer fails it does not happen
   (`EveryRequestAnswered` in `pipeline_modes`): the batcher closes after the
   writer's last settlement and before handlers can void anything.
2. **Expired batches are flushed in first-seen order**, not "oldest deadline
   first" as `origin_buffers.rs:188` says. Per-origin order is not affected
   (`FifoPerOrigin`).
3. **A panicking batcher closes the ledger under a live writer**
   (`storage/batcher.rs:77`). Handlers may answer UNAVAILABLE for records the writer then commits,
   while `logs.rs:181-182` reserves it for "requests with no durable records at
   all". The exporter's retry then stores duplicates; nothing is lost.

4. **Work after an idle period looks like a stall** (`watchdog.rs:332`). Each stage is judged by
   its own stamp, joined by `||`, and a waiting writer does not renew its own. The first batch
   after a pause, sampled before a thread marks progress, halts a healthy process;
   `watchdog.rs:24-28` says that "neither" may have made progress and that an idle pipeline's
   stale ages are legitimate. `HaltNeedsPause` is what holds: a pause as long as the
   thresholds allow has to come first, and a busy pipeline is never halted.
5. **Bodies are converted without a count** (`mapping/logs.rs:195`). Bytes that are no text are
   replaced character by character, a string-table index becomes no body. `src/README.md:42-50`
   lists both under "all rejected visibly or counted in `otlp_mapping_loss_total`, never silently
   converted".
6. **A prune that was cut short leaves its orphans** (`maintenance.rs:168`). The sweep runs only
   after a pass that deleted something. After a crash between the last delete and the sweep the
   next prunes delete nothing; lines 132-135 say that a crash "resumes cleanly on the next
   interval". The next pass that deletes repairs it (`OrphansGoWithTheNextDelete`).

### Further disagreements

The following were met while modelling the parts around the pipeline. A line that names a
property is one of which a run checks what is left of the promise: the cases are in the
instances, and the property excludes exactly them. The others came up as counterexamples on
smaller instances, and no run repeats them. Crate prefixes are left out of the paths.

Requests

* `BatchTimer`: `recv_timeout` with a deadline already past still returns a waiting message
  (`batcher.rs:104`). While another origin's chunks keep arriving, a partial batch stays
  buffered without bound; `otel-sqlite/src/config.rs:68-69` promises the "maximum age of the oldest
  buffered record".
* `Admission`: the stream permit ends with the enqueue task, and `finish` waits for the commit
  without one (`logs.rs:162`), so in commit mode the exports in flight are not bounded by
  it, as `logs.rs:27-29` says.
* `AnyValueWalk`: `body_value` converts the items of a body at depth 0 (`mapping/logs.rs:198`),
  the validator visits them at depth 1. A body nested to the converter's bound is refused;
  `common.rs:203-205` calls the two bounds exactly the same.
* `TokenVault`: an unreadable file leaves `consecutive_empty` alone (`auth.rs:256`). Empty, unreadable,
  empty revokes, although no two empty reads followed each other (`auth.rs:89-91`).

Watchdog and scheduler

* Idle, then a ticket (`watchdog.rs:306`): chunks in the ingest queue are not pending work. A ticket
  whose chunk is still there meets an old `last_advance` and is reported lost (`watchdog.rs:296-297`);
  `HaltNeedsPause`.
* Long maintenance (`stats.rs:239`): `sample` reads the stamps first and the maintenance flag
  last. A maintenance that ends in between yields old ages without the flag, and the stall
  rules that `watchdog.rs:240-243` suspends do halt; `HaltNeedsPause`.
* `Scheduler`: the interval counts from the enqueue (`scheduler.rs:115`). A writer busy for longer has two
  instances of one operation in front of it, where `scheduler.rs:112-114` says at most one.

Retention (`maintenance.rs`)

* `PRAGMA wal_checkpoint` reports a busy reader in its result row, which is not looked at
  (line 320). Rows are evicted from a database that fits its quota; lines 269-271 say "stop rather
  than evict blindly". `EvictionNeeded` is therefore checked without readers.
* The VACUUM that converts a legacy file ends in the WAL, and the size is read without folding it
  in (line 280): one batch of rows too many is evicted.

Backup and restore (`backup.rs`)

* A killed run leaves a partial file under its final name, which pruning counts as the newest
  backup (line 548) and removes a complete one for; lines 515-516 say "only completed files"; `NewestKept`.
* A failing `into_inner`, `sync_all` or `restrict_permissions` leaves the encrypted file in
  place (lines 713-718): only errors of the frame loop remove it (lines 721-725); `NoPartialLeft`.
* Two runs in one second may choose the same name (line 582); lines 579-581 say they never do;
  `ArtifactWritten`.
* Pruning may remove a snapshot another run is still working on (line 536). Opening the path again
  creates an empty database, which passes verification and is reported as a backup
  (`backup_cli.rs:204-205`); `ArtifactWritten`.
* A source that commits between any two steps of the copy is never backed up (line 370);
  `docs/operations/backup-restore.md:3-5` says that ingestion need not pause; `BackupEnds`.
* An artifact cut at a frame boundary decrypts without error (line 836), where lines 815-816
  promise that truncation is refused. A restore catches it by the integrity check, unless
  nothing is left at all; `RestoredIsBackup`.

Start and stop

* `Migration`: an older process that already serves goes on when a newer one stamps the file
  (`migration.rs:156`); `OlderStaysOut`.
* `check` reads the main file only (`check_cli.rs:301`). It passes where the server refuses when a newer
  binary's stamp is still in the WAL (`docs/operations/upgrades.md:52-54`), and fails where
  the server starts when the first start crashed before its checkpoint (`check_cli.rs:350`);
  `CheckMissesAfterCrash`.
* `Lifecycle`: after a watchdog halt the process may exit with status 0 (`main.rs:236`), and
  `Restart=on-failure` does not restart it (`deploy/systemd/otel-sqlite.service:32-35`).
* The watchdog sends the halt before it stores `halted` (`watchdog.rs:566`, `:573`), and `main` may read the flag
  in between (`main.rs:227`).
* Monitor and drain deadline are woken independently (`grpc.rs:143`); `health.rs:11-13` promises
  NOT_SERVING "before the drain deadline starts".
* `join` returns at a panicked batcher before it waits for the writer (`storage/src/lib.rs:333`), and `main` returns while
  the writer still has commands, contrary to `main.rs:223-226`.
* When the batcher is late to report ready, `open` fails while the batcher thread lives
  on with the input receiver (`lib.rs:213`); lines 111-114 say "nothing is detached".

## 5. Theorems

Each is proved for every value of the constants, from the assumption named:

| theorems on | for every | from |
|---|---|---|
| ledger, waiters | bound on tickets and records, set of threads, set of tasks | `BoundsAssumption` |
| origin buffers | set of origins, batch size, batch age, sequence of pushes and flushes | `BatchAssumption`, `OriginAssumption` |
| admission to the queue | set of requests with any chunks, capacity of the queues, faults | `PipelineAssumption`, `BoundsAssumption` |
| permits of exports | finite set of requests, two limits of at least one | `AdmissionAssumption` |
| migrations | set of processes and binaries, overlapping or not | `MigrationAssumption` |

| theorem | says |
|---|---|
| `LedgerCorrect` | `LedgerSpec` keeps `LedgerTypeOK` and `WatermarkExact` |
| `PublicationsAreSound` | no watermark, stored or about to be stored, is ahead of the ledger |
| `SettledTicketsAreFinal` | no step changes the state of a settled ticket |
| `LedgerImplementsBook` | `LedgerSpec` implements `TicketBook` |
| `AckTypesHold`, `OutstandingCountHolds` | types of ledger and waiters; the watchdog's count of open tickets is exact |
| `ReleaseIsTruthful` | `wait_watermark` returns without closure only when every ticket up to its own is settled |
| `AnswerIsFinal` | what `wait` returned stays true |
| `BufferTypesHold` | no buffer is empty or holds a full batch, no origin has two |
| `SegmentsStayExact` | segments spell the tickets of the records, through every split |
| `CompletionIsExact` | a segment is marked complete exactly when it has the last record of its ticket |
| `BuffersAreFifo` | what was pushed is what was emitted and what is buffered, in order |
| `DeadlinesAreOfTheOldest` | the deadline of a buffer is that of its oldest record |
| `AdmissionReservesRoom` | a handler at the gate has room for every chunk it has not sent |
| `ExportBudgetsHold` | permits and their holders add up, and an export that was turned away is never enqueued |
| `MappingBudgetHolds` | mapping jobs, abandoned ones included, never exceed the budget |
| `MigrationsApplyOnce` | each migration takes effect once, with its stamp, in order, before its process is ready |
| `OlderIsKeptOut` | `OlderStaysOut` in every step, with processes that overlap |
| `SupersededForGood` | a process that is superseded never reports ready or serves again |

The inductive invariant `LedgerInv` adds two facts to the checked invariants.
`FailedIsSettled` is needed because the state of a ticket looks at `failed` before anything
else: without it an open ticket could already count as failed, and settling it
would change an answer. `NotedOnce` bounds progress by the records of the
ticket. `WatermarkExact` (nothing parked is at or just above the watermark) is the fact
`settle` rests on: either the ticket is the next one and the drain loop runs, or it is
parked. `DrainedExists` shows that the loop stops, from the well-ordering of the
naturals; `DrainedSpec` that it stops at the first gap; `AdvanceSettlesOne` that the locked
section settles that ticket and no other. The refinement follows: a drain of
many parked tickets is one settlement in the book, whose prefix end moves far.

For the waiters, `TaskSound` says that what a task remembers (the flag it
borrowed, the watermark it returned) never runs ahead of the ledger. The
steps of the tasks are steps of the ledger or stutters, so the ledger's theorems carry over.

For the buffers, `BatchingProofs` has the operators and `OriginBuffersProofs` the steps. `consume` walks a
queue of segments; `Piece` and the ends of the segments (`Ends`) give its result in closed form, and the lemmas
on it say where each piece lies in the records. The recursive functions they use are
shown to exist and to be unique; the induction is by a least counterexample, since the
library's induction theorems cannot be instantiated here. `BufferInv` says that there is a function from tickets to the
chunks as they arrived, of which every segment, buffered or emitted, is a run of records.
`SegmentsMatchRecords` alone is not inductive: it does not say which record of its ticket a
segment starts with, so a split could not tell the last one.

For the gate, `ReservationHolds` is not inductive either. `GateInv` adds that one handler at
most is at the gate, that exactly the handlers between reservation and last chunk are, and how
many chunks each has sent. Every step outside the gate then only shortens the queue, or, a flush,
waits for the gate to be free.

For the permits of exports, `AdmissionInv` is the two balances, `NoLateEnqueue` and `Coupled`. The last says
what future, job and enqueue task of a request know of each other: without it a
permit could be given back by a future whose task still holds it, or a job could be
spawned twice. Each step then moves a request into or out of a set of holders while it
takes or returns a permit; `PermitTaken` and `PermitReturned` do the arithmetic of finite
sets once.

For migrations, `MigrationInv` adds `ReadIsStamped`: the versions a process read before the
transaction are a subset of those stamped now. It is why a process that skips a migration
it read as applied skips nothing, and why `Apply`, which takes the lowest version not
read, leaves no gap although another process stamps meanwhile. `Superseded` is preserved by every
step of every process: stamps are never taken back, and the only way past the guard
reads them. Nothing is assumed about overlap.

Checked and proved are so all properties of `ledger` and of `buffers`, `ReservationHolds`,
`ExportsAreBounded`, `MigrationsRunOnce` and `OlderStaysOut`, a clause of `StartupIsSound`.
Only model-checked: all liveness (the prover does not do fairness or `ENABLED`), what
the recursive walks over trees compute, the other properties of the pipeline
and those of the other parts.

## 6. Not modelled

* `permissions.rs`, the health-check and certificate commands, argument parsing and
  printing, the `verify` command: single calls to the operating system, or wording.
* The data model and the SQL of the tables: types and text without steps.
* TLS, HTTP/2, header comparison, the metrics exporter, the configuration dump: libraries
  or pure output. Of authentication only the token cache has state, and it is modelled.
* `send_timeout`, which the server does not use for ingestion.
* The part of each module left out is noted with its component in `PROJECT.json`.

Components are connected by what one assumes of the other: `Lifecycle` counts chunks where `Pipeline`
has them, `Watchdog` has the stamps of threads whose work it abstracts, `Scheduler` has a writer that
takes and finishes. Only ledger, handlers, batcher and writer are composed step by step.

## 7. Plan

1. Theorems: that a positive acknowledgement is durable in `Pipeline`, from an inductive form of
   `LedgerMatchesTable`; `NotRolledBack` of the token cache; the index and resource
   invariants of `Retention`.
2. Compose `Retention` with `WriterThread`, so that maintenance and inserts meet in one queue.
3. Compose `Watchdog` with `Lifecycle`: the halt and the exit status in one behaviour.
