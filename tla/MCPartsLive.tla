----------------------------- MODULE MCPartsLive -----------------------------
(***************************************************************************)
(* What must eventually happen in the parts beside the pipeline, one part  *)
(* to a behaviour as in MCParts.  The fairness of a part is the premise of *)
(* its properties: it says nothing about the parts at rest.                *)
(***************************************************************************)
EXTENDS Migration, Sequences

CONSTANT Explored      \* the parts of this run

SameBinary == [p \in Procs |-> 2]

VARIABLES part,
    pPc, ready, writer, batcher, keeper, dog, halt, halted, sigterm, signal,
    timer, monitor, serving, inflight, ingest, buffer, queue, accepted, errors,
    haltSeen, exit, faults,                                    \* Lifecycle
    dIngest, dBatcher, dQueue, dWriter, stats, age, leaked, wd, smp, verdict,
    gauge, dServing, stopping, haltSent, dHalted, rest,        \* Watchdog
    left, deferred, since, worker, shutdown, sQueue, sWriter, open,
    inserts,                                                   \* Scheduler
    rows, resources, fts, intact, free, rMain, wal, mode, reader, rNow, rPc,
    batch, cutoff, removed, round, rFaults,                    \* Retention
    files, source, bNow, bRuns, bFaults, bPc, sec, plain, enc, copy,
    stale, frames, victims, orphans, disturbed, miscounted,    \* Backup
    vFile, version, cached, reloading, vPc, got, spent, good,
    last,                                                      \* TokenVault
    future, job, task, answer, enqueued, streams, maps,        \* Admission
    tQueue, fill, tAge, marked,                                \* BatchTimer
    nextTicket, settledAbove, committedThrough, committed, dropped, failed, closed,
    updates, outbox, wPc, call, target, seenClosed, changed,
    result                                                     \* AckWait

processVars == <<pPc, ready, writer, batcher, keeper, dog, halt, halted, sigterm, signal,
                 timer, monitor, serving, inflight, ingest, buffer, queue, accepted,
                 errors, haltSeen, exit, faults>>
dogVars     == <<dIngest, dBatcher, dQueue, dWriter, stats, age, leaked, wd, smp, verdict,
                 gauge, dServing, stopping, haltSent, dHalted, rest>>
keeperVars  == <<left, deferred, since, worker, shutdown, sQueue, sWriter, open, inserts>>
rowVars     == <<rows, resources, fts, intact, free, rMain, wal, mode, reader, rNow, rPc,
                 batch, cutoff, removed, round, rFaults>>
backupVars  == <<files, source, bNow, bRuns, bFaults, bPc, sec, plain, enc,
                 copy, stale, frames, victims, orphans, disturbed, miscounted>>
vaultVars   == <<vFile, version, cached, reloading, vPc, got, spent, good, last>>
exportVars  == <<future, job, task, answer, enqueued, streams, maps>>
timerVars   == <<tQueue, fill, tAge, marked>>
waiterVars  == <<nextTicket, settledAbove, committedThrough, committed, dropped, failed, closed,
                 updates, outbox, wPc, call, target, seenClosed, changed, result>>
partsVars   == <<part, vars, processVars, dogVars, keeperVars, rowVars, backupVars,
                 vaultVars, exportVars, timerVars, waiterVars>>

-----------------------------------------------------------------------------
(* The parts *)

Process == INSTANCE Lifecycle WITH
    QueueCap <- 1, MaxChunks <- 1, Handlers <- 1, HaltOnUnhealthy <- TRUE,
    Faults <- {"writer", "wedge", "batcher_panic"},
    MaxFaults <- 1, pc <- pPc

\* The watchdog only reports.
Monitored == INSTANCE Lifecycle WITH
    QueueCap <- 1, MaxChunks <- 1, Handlers <- 1, HaltOnUnhealthy <- FALSE,
    Faults <- {"checkpoint", "writer", "batcher_exit", "batcher_panic"},
    MaxFaults <- 1, pc <- pPc

\* A command may hang, in a quota pass too, and threads may die.
Dog == INSTANCE Watchdog WITH
    BatchAge <- 1, BatchSize <- 1, IngestCapacity <- 1, QueueCapacity <- 1,
    MaxGap <- 3, MaintenanceGap <- 0, MaxExec <- 0, MaxMaintenance <- 0, Old <- 3,
    Faults <- {"wedge", "writer dies", "batcher dies"},
    DegradedAfter <- 2, UnhealthyAfter <- 3, AckStallAfter <- 3,
    MaintenanceStallAfter <- 3, TickInterval <- 1, PressurePercent <- 75,
    HaltOnUnhealthy <- TRUE, ingest <- dIngest, batcher <- dBatcher, queue <- dQueue,
    writer <- dWriter, serving <- dServing, halted <- dHalted

\* A command hangs and the watchdog only reports it.
Reporting == INSTANCE Watchdog WITH
    BatchAge <- 1, BatchSize <- 1, IngestCapacity <- 1, QueueCapacity <- 1,
    MaxGap <- 3, MaintenanceGap <- 0, MaxExec <- 0, MaxMaintenance <- 0, Old <- 3,
    Faults <- {"wedge"}, DegradedAfter <- 2, UnhealthyAfter <- 3, AckStallAfter <- 3,
    MaintenanceStallAfter <- 3, TickInterval <- 1, PressurePercent <- 75,
    HaltOnUnhealthy <- FALSE, ingest <- dIngest, batcher <- dBatcher, queue <- dQueue,
    writer <- dWriter, serving <- dServing, halted <- dHalted

\* A ticket may leak.
Leaking == INSTANCE Watchdog WITH
    BatchAge <- 1, BatchSize <- 2, IngestCapacity <- 1, QueueCapacity <- 1,
    MaxGap <- 3, MaintenanceGap <- 0, MaxExec <- 0, MaxMaintenance <- 0, Old <- 3,
    Faults <- {"leak"}, DegradedAfter <- 2, UnhealthyAfter <- 3, AckStallAfter <- 3,
    MaintenanceStallAfter <- 3, TickInterval <- 1, PressurePercent <- 75,
    HaltOnUnhealthy <- TRUE, ingest <- dIngest, batcher <- dBatcher, queue <- dQueue,
    writer <- dWriter, serving <- dServing, halted <- dHalted

Keeper == INSTANCE Scheduler WITH
    Order <- <<"purge", "checkpoint", "vacuum">>,
    Interval <- [purge |-> 3, checkpoint |-> 2, vacuum |-> 0],
    RetryDelay <- 0, Capacity <- 2, SkipDepth <- 0, Heavy <- {"purge", "vacuum"},
    MaxRun <- 1, MaxInserts <- 2, queue <- sQueue, writer <- sWriter

Rows == INSTANCE Retention WITH
    Resources <- {"a", "b"}, Times <- {0, 2}, Window <- 1, Quota <- 1, BatchRows <- 1,
    MaxRounds <- 2, Modes <- {"incremental"}, Faults <- {}, Readers <- FALSE,
    MaxId <- 2, MaxNow <- 2, MaxFaults <- 0, WalCap <- 1,
    main <- rMain, now <- rNow, pc <- rPc, faults <- rFaults

\* Passes are cut short by crashes and errors.
CrashingRows == INSTANCE Retention WITH
    Resources <- {"a", "b"}, Times <- {0, 2}, Window <- 1, Quota <- 1, BatchRows <- 1,
    MaxRounds <- 2, Modes <- {"incremental"}, Faults <- {"crash", "error"},
    Readers <- FALSE, MaxId <- 2, MaxNow <- 2, MaxFaults <- 1, WalCap <- 1,
    main <- rMain, now <- rNow, pc <- rPc, faults <- rFaults

\* Encrypted backups one after the other, pruned, with a crash or an error.
Copies == INSTANCE Backup WITH
    Procs <- {"p1"}, Keyed <- {"p1"}, Keep <- 1, Pages <- 2, Frames <- 2,
    Versions <- 2, Faults <- {"crash", "error"}, MaxFaults <- 1,
    MaxRuns <- 3, MaxNow <- 1, now <- bNow, runs <- bRuns, faults <- bFaults, pc <- bPc

Vault == INSTANCE TokenVault WITH
    Callers <- {"c1"}, Background <- TRUE, Interval <- 2, MaxStale <- 1,
    MaxRead <- 1, MaxVersion <- 2, file <- vFile, pc <- vPc

Exports == INSTANCE Admission WITH
    Requests <- {"r1", "r2", "r3"}, StreamCap <- 2, MapCap <- 1

Timer == INSTANCE BatchTimer WITH
    Origins <- {"a", "b"}, MaxRecords <- 3, MaxAge <- 2, Capacity <- 2, Chunks <- {1, 2},
    queue <- tQueue, age <- tAge

\* A single thread publishes watermarks; with two of them a waiter may be left
\* asleep (run ledger_publish_race).
Waiters == INSTANCE AckWait WITH
    MaxTicket <- 2, MaxRecords <- 1, Actors <- {"a1"}, Tasks <- {"w1"}, pc <- wPc

-----------------------------------------------------------------------------
(* One part at a time *)

PartsInit ==
    /\ part \in Explored
    /\ Init
    /\ IF part = "monitored" THEN Monitored!Init ELSE Process!Init
    /\ Dog!WatchdogInit /\ Keeper!Init
    /\ IF part = "crashing rows" THEN CrashingRows!Init ELSE Rows!Init
    /\ Copies!Init /\ Vault!Init /\ Exports!Init /\ Timer!Init
    /\ Waiters!AckInit

\* The server of a watched process keeps serving: when it returns there is
\* nothing left to halt.
PartsNext ==
    /\ UNCHANGED part
    /\ IF part = "schema" THEN Next ELSE UNCHANGED vars
    /\ CASE part = "process"   -> Process!Next
         [] part = "monitored" -> Monitored!Next
         [] OTHER              -> UNCHANGED processVars
    /\ CASE part = "dog"       -> Dog!Next /\ dServing'
         [] part = "reporting" -> Reporting!Next /\ dServing'
         [] part = "leaking"   -> Leaking!Next /\ dServing'
         [] OTHER              -> UNCHANGED dogVars
    /\ IF part = "keeper" THEN Keeper!Next ELSE UNCHANGED keeperVars
    /\ CASE part = "rows"          -> Rows!Next
         [] part = "crashing rows" -> CrashingRows!Next
         [] OTHER                  -> UNCHANGED rowVars
    /\ IF part = "copies" THEN Copies!Next ELSE UNCHANGED backupVars
    /\ IF part = "vault" THEN Vault!Next ELSE UNCHANGED vaultVars
    /\ IF part = "exports" THEN Exports!Next ELSE UNCHANGED exportVars
    /\ IF part = "timer" THEN Timer!Next ELSE UNCHANGED timerVars
    /\ IF part = "waiters" THEN Waiters!AckNext ELSE UNCHANGED waiterVars

\* A part that may come to an end stays there; the others always go on.
Ended ==
    /\ part \in {"process", "monitored", "dog", "reporting", "leaking", "keeper", "copies", "exports", "waiters"}
    /\ UNCHANGED partsVars

PartsSpec == PartsInit /\ [][PartsNext \/ Ended]_partsVars

\* With a writer that goes on and is restarted after a crash.
RestartingSpec == PartsSpec /\ CrashingRows!Fairness

ASSUME PartsAssumption ==
    /\ Explored \subseteq {"schema", "process", "monitored", "dog", "reporting",
                          "leaking", "keeper", "rows", "crashing rows", "copies", "vault",
                          "exports", "timer", "waiters"}
    /\ Process!LifecycleAssumption
    /\ Monitored!LifecycleAssumption /\ Dog!EvidenceAssumption /\ Dog!WatchdogAssumption
    /\ Reporting!EvidenceAssumption /\ Reporting!WatchdogAssumption
    /\ Leaking!EvidenceAssumption /\ Leaking!WatchdogAssumption
    /\ Keeper!SchedulerAssumption /\ Rows!RetentionAssumption
    /\ CrashingRows!RetentionAssumption /\ Copies!BackupAssumption
    /\ Vault!VaultAssumption /\ Exports!AdmissionAssumption /\ Timer!TimerAssumption
    /\ Waiters!BoundsAssumption

-----------------------------------------------------------------------------
(* What the parts promise, clause by clause.  MigrationsRunOnce is           *)
(* Migration's own.                                                          *)

\* A process restarted after each crash ends up serving or refusing, although
\* another one migrates the same file.
ConcurrentStartsSettle == part = "schema" => (Fairness => StartsSettle)

\* Once told to stop, the process ends, whatever hangs.
ShutdownEnds == part = "process" => (Process!Fairness => Process!ShutdownEnds)

\* A pipeline thread that dies ends the process with a failure.
DeadPipelineFails == part = "process" => (Process!Fairness => Process!DeadPipelineFails)

\* A dead pipeline is reported NOT_SERVING, also when nothing halts.
DeadPipelineStopsServing ==
    part = "monitored" => (Monitored!Fairness => Monitored!DeadPipelineStopsServing)

\* A wedged command or a dead thread is halted.
FaultIsHalted == part = "dog" => (Dog!Fairness => Dog!FaultIsHalted)

\* Without a halt the gauge keeps showing it.
FaultStaysReported ==
    part = "reporting" => (Reporting!Fairness => Reporting!FaultStaysReported)

\* A leaked ticket is found once nothing else is outstanding.
QuietLeakIsHalted == part = "leaking" => (Leaking!Fairness => Leaking!QuietLeakIsHalted)

\* The maintenance worker ends after a stop and when the writer is gone.
WorkerEnds == part = "keeper" => (Keeper!Fairness => Keeper!WorkerEnds)

\* An operation that is due is enqueued in the end.
DueIsEnqueued == part = "keeper" => (Keeper!Fairness => Keeper!DueIsEnqueued)

\* A resource that lost its last event is collected, if no pass is cut short.
OrphansGoAway == part = "rows" => (Rows!Fairness => Rows!OrphansGoAway)

\* If one is, it is collected by the next pass that deletes something.
OrphansGoWithTheNextDelete ==
    part = "crashing rows" => (CrashingRows!Fairness => CrashingRows!OrphansGoWithTheNextDelete)

\* "a crash mid-prune resumes cleanly on the next interval" (maintenance.rs prune):
\* the next prunes collect what a prune that was cut short has left.
CrashedPruneResumes == part = "crashing rows" => CrashingRows!OrphansGoAway

\* Again and again no stored event is expired, although prunes are cut short.
ExpiredRowsGoAway ==
    part = "crashing rows" => (CrashingRows!Fairness => CrashingRows!ExpiredRowsGoAway)

\* A backup under way ends, unless commits interrupt its copy again and again.
BackupEnds == part = "copies" => (Copies!Fairness => Copies!BackupEnds)

\* A token file that stays as it is, with tokens, is the one in use.
RotationTakesEffect == part = "vault" => (Vault!Fairness => Vault!RotationTakesEffect)

\* Every export is answered, even if no mapping job ends.
EveryExportEnds == part = "exports" => (Exports!Fairness => Exports!EveryExportEnds)

\* A partial batch leaves the batcher once no other origin has traffic.
PartialBatchIsFlushed == part = "timer" => (Timer!Fairness => Timer!PartialBatchIsFlushed)

\* Every call to the ledger returns once it is closed, or once every ticket up
\* to its own settled: no wake-up is lost between borrowing and sleeping.
CallsReturn ==
    part = "waiters" => (Waiters!AckFairness =>
        Waiters!CloseReleasesWaiters /\ Waiters!SettledPrefixReleases)

-----------------------------------------------------------------------------
(* The properties of the run, one for each concern *)

\* A fault does not stay hidden: a dead or wedged thread or a leaked ticket ends
\* the service, by the watchdog, the health monitor or the exit status,
\* and the gauge shows it from the halt on.
FaultsEndService ==
    /\ DeadPipelineFails /\ DeadPipelineStopsServing
    /\ FaultIsHalted /\ FaultStaysReported /\ QuietLeakIsHalted
    /\ [](part = "dog" => Dog!VerdictSurvivesHalt)

\* What is due is done: maintenance is enqueued, expired events and orphaned
\* resources go away, backups end.
MaintenanceHappens ==
    /\ DueIsEnqueued /\ ExpiredRowsGoAway
    /\ OrphansGoAway /\ OrphansGoWithTheNextDelete
    /\ BackupEnds

\* Nobody waits for ever: a shutdown, a worker told to stop, an export, a caller
\* of the ledger, a partial batch, a token rotation, a start beside another one.
WaitsEnd ==
    /\ ShutdownEnds /\ WorkerEnds
    /\ EveryExportEnds /\ CallsReturn /\ PartialBatchIsFlushed
    /\ RotationTakesEffect /\ ConcurrentStartsSettle
=============================================================================
