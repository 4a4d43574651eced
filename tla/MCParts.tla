------------------------------- MODULE MCParts -------------------------------
(***************************************************************************)
(* The parts of the server beside the pipeline, on small instances.  They  *)
(* share no state with each other, so one behaviour exercises one of them: *)
(* `part` says which, and the others stay in an initial state.  A part     *)
(* with two instances has two names and one set of variables.              *)
(***************************************************************************)
EXTENDS Admission, Sequences, SequencesExt

CONSTANT Explored      \* the parts of this run

VARIABLES part,
    pc, ready, writer, batcher, keeper, dog, halt, halted, sigterm, signal,
    timer, monitor, serving, inflight, ingest, buffer, queue, accepted, errors,
    haltSeen, exit, faults,                                    \* Lifecycle
    dIngest, dBatcher, dQueue, dWriter, stats, age, leaked, wd, smp, verdict,
    gauge, dServing, stopping, haltSent, dHalted, rest,        \* Watchdog
    left, deferred, since, worker, shutdown, sQueue, sWriter, open,
    inserts,                                                   \* Scheduler
    rows, resources, fts, intact, free, main, wal, mode, reader, rNow, rPc,
    batch, cutoff, removed, round, rFaults,                    \* Retention
    files, source, bNow, bRuns, bFaults, bPc, sec, plain, enc, copy,
    stale, frames, victims, orphans, disturbed, miscounted,    \* Backup
    artifact, key, temp, target, oPc, frame, before, oRuns, oFaults, \* Restore
    start, day, date,                                          \* UtcTimestamp
    exists, db, mMain, applied, mPc, crashes,                  \* Migration
    vFile, version, cached, reloading, vPc, got, spent, good,
    last,                                                      \* TokenVault
    value, walk, stack, total, wVerdict,                       \* AnyValueWalk
    request, outcome, group, chunks, losses,                   \* ExportMapping
    stage, file, config, built                                 \* Configuration

processVars == <<pc, ready, writer, batcher, keeper, dog, halt, halted, sigterm, signal,
                 timer, monitor, serving, inflight, ingest, buffer, queue, accepted,
                 errors, haltSeen, exit, faults>>
dogVars     == <<dIngest, dBatcher, dQueue, dWriter, stats, age, leaked, wd, smp, verdict,
                 gauge, dServing, stopping, haltSent, dHalted, rest>>
keeperVars  == <<left, deferred, since, worker, shutdown, sQueue, sWriter, open, inserts>>
rowVars     == <<rows, resources, fts, intact, free, main, wal, mode, reader, rNow, rPc,
                 batch, cutoff, removed, round, rFaults>>
backupVars  == <<files, source, bNow, bRuns, bFaults, bPc, sec, plain, enc,
                 copy, stale, frames, victims, orphans, disturbed, miscounted>>
restoreVars == <<artifact, key, temp, target, oPc, frame, before, oRuns, oFaults>>
nameVars    == <<start, day, date>>
schemaVars  == <<exists, db, mMain, applied, mPc, crashes>>
vaultVars   == <<vFile, version, cached, reloading, vPc, got, spent, good, last>>
walkVars    == <<value, walk, stack, total, wVerdict>>
mappingVars == <<request, outcome, group, chunks, losses>>
configVars  == <<stage, file, config, built>>
partsVars   == <<part, vars, processVars, dogVars, keeperVars, rowVars, backupVars,
                 restoreVars, nameVars, schemaVars, vaultVars, walkVars, mappingVars,
                 configVars>>

-----------------------------------------------------------------------------
(* The process *)

Process == INSTANCE Lifecycle WITH
    QueueCap <- 1, MaxChunks <- 1, Handlers <- 1, HaltOnUnhealthy <- TRUE,
    Faults <- {"boot", "slow_boot", "slow_batcher", "checkpoint", "writer", "wedge",
               "batcher_panic", "keeper", "dog", "stall", "listen"},
    MaxFaults <- 2

\* Without faults: every halt of these instances is of a healthy process.
\* Clients may be silent for any time and maintenance is scheduled.
Dog == INSTANCE Watchdog WITH
    BatchAge <- 1, BatchSize <- 2, IngestCapacity <- 1, QueueCapacity <- 1,
    MaxGap <- 3, MaintenanceGap <- 3, MaxExec <- 0, MaxMaintenance <- 0, Old <- 3,
    Faults <- {}, DegradedAfter <- 2, UnhealthyAfter <- 3, AckStallAfter <- 3,
    MaintenanceStallAfter <- 3, TickInterval <- 1, PressurePercent <- 75,
    HaltOnUnhealthy <- TRUE, ingest <- dIngest, batcher <- dBatcher, queue <- dQueue,
    writer <- dWriter, serving <- dServing, halted <- dHalted

\* Quota passes take time, and the server may return while the watchdog is about to
\* halt it.
QuotaDog == INSTANCE Watchdog WITH
    BatchAge <- 1, BatchSize <- 2, IngestCapacity <- 1, QueueCapacity <- 1,
    MaxGap <- 3, MaintenanceGap <- 0, MaxExec <- 0, MaxMaintenance <- 1, Old <- 3,
    Faults <- {}, DegradedAfter <- 2, UnhealthyAfter <- 3, AckStallAfter <- 3,
    MaintenanceStallAfter <- 3, TickInterval <- 1, PressurePercent <- 75,
    HaltOnUnhealthy <- TRUE, ingest <- dIngest, batcher <- dBatcher, queue <- dQueue,
    writer <- dWriter, serving <- dServing, halted <- dHalted

\* One frequent and cheap operation, one heavy, one disabled.
Keeper == INSTANCE Scheduler WITH
    Order <- <<"purge", "checkpoint", "vacuum">>,
    Interval <- [purge |-> 3, checkpoint |-> 2, vacuum |-> 0],
    RetryDelay <- 0, Capacity <- 2, SkipDepth <- 0, Heavy <- {"purge", "vacuum"},
    MaxRun <- 1, MaxInserts <- 3, queue <- sQueue, writer <- sWriter

-----------------------------------------------------------------------------
(* The database file and its backups *)

\* No other process reads the database, which has incremental vacuum.
Rows == INSTANCE Retention WITH
    Resources <- {"a", "b"}, Times <- {0, 2}, Window <- 1, Quota <- 2, BatchRows <- 1,
    MaxRounds <- 2, Modes <- {"incremental"}, Faults <- {"crash", "error", "index"},
    Readers <- FALSE, MaxId <- 3, MaxNow <- 2, MaxFaults <- 1, WalCap <- 1,
    now <- rNow, pc <- rPc, faults <- rFaults

SharedRows == INSTANCE Retention WITH
    Resources <- {"a", "b"}, Times <- {0, 2}, Window <- 1, Quota <- 1, BatchRows <- 1,
    MaxRounds <- 1, Modes <- {"incremental", "legacy"},
    Faults <- {"crash", "error", "index"},
    Readers <- TRUE, MaxId <- 2, MaxNow <- 2, MaxFaults <- 1, WalCap <- 1,
    now <- rNow, pc <- rPc, faults <- rFaults

\* Two runs at a time that may start in one second, fail or be killed, one of them
\* encrypting.
Copies == INSTANCE Backup WITH
    Procs <- {"p1", "p2"}, Keyed <- {"p2"}, Keep <- 1, Pages <- 2, Frames <- 2,
    Versions <- 2, Faults <- {"error", "crash"}, MaxFaults <- 1, MaxRuns <- 2,
    MaxNow <- 2, now <- bNow, runs <- bRuns, faults <- bFaults, pc <- bPc

\* More runs, of one page and in one second, of which two prune at once.
Pruned == INSTANCE Backup WITH
    Procs <- {"p1", "p2"}, Keyed <- {}, Keep <- 1, Pages <- 1, Frames <- 1,
    Versions <- 1, Faults <- {"error", "crash"}, MaxFaults <- 1, MaxRuns <- 3,
    MaxNow <- 1, now <- bNow, runs <- bRuns, faults <- bFaults, pc <- bPc

Pages == 3

Format == INSTANCE Restore WITH
    Artifacts <- {}, Keys <- {}, Faults <- {}, MaxFaults <- 0, MaxRuns <- 0,
    pc <- oPc, runs <- oRuns, faults <- oFaults

Good == [i \in 1..Pages |-> Format!Frame(i)]
Body(fs) == [magic |-> TRUE, version |-> 2, nonce |-> TRUE, frames |-> fs]

\* Cut inside a length prefix or a payload, or between two frames.
Cut ==
    {SubSeq(Good, 1, n) : n \in 0..Pages}
    \union {[SubSeq(Good, 1, n) EXCEPT ![n].len = "short"] : n \in 1..Pages}
    \union {[SubSeq(Good, 1, n) EXCEPT ![n].body = "short"] : n \in 1..Pages}

\* Frames in another order, left out, repeated, or altered.
Changed ==
    {[i \in 1..Pages |-> Good[p[i]]] : p \in [1..Pages -> 1..Pages]}
    \union {RemoveAt(Good, n) : n \in 1..Pages}
    \union {[Good EXCEPT ![n].page = Format!Altered] : n \in 1..Pages}
    \union {[Good EXCEPT ![n].len = "bad"] : n \in 1..Pages}

Headers ==
    {[Body(Good) EXCEPT !.magic = FALSE], [Body(Good) EXCEPT !.version = 0],
     [Body(Good) EXCEPT !.version = 3], [Body(<<>>) EXCEPT !.nonce = FALSE]}

Artifacts ==
    Headers \union UNION {{Body(fs), [Body(fs) EXCEPT !.version = 1]} :
                             fs \in Cut \union Changed}

Restored == INSTANCE Restore WITH
    Keys <- {"right", "wrong", "none"}, Faults <- {"error", "crash", "copy"},
    MaxFaults <- 1, MaxRuns <- 2, pc <- oPc, runs <- oRuns, faults <- oFaults

Names == INSTANCE UtcTimestamp WITH
    FirstYears <- {1970, 2023, 2099, 2399, 9999}, Days <- 1500

\* An older and a newer binary, which may be up at the same time.
Schema == INSTANCE Migration WITH
    Procs <- {"old", "new"}, Latest <- [old |-> 1, new |-> 3], Overlap <- TRUE,
    MaxCrashes <- 3, main <- mMain, pc <- mPc

-----------------------------------------------------------------------------
(* Requests and settings *)

\* Requests reload the token file.
Vault == INSTANCE TokenVault WITH
    Callers <- {"c1", "c2"}, Background <- FALSE, Interval <- 1, MaxStale <- 1,
    MaxRead <- 0, MaxVersion <- 2, file <- vFile, pc <- vPc

\* The background reloader does.
Reloader == INSTANCE TokenVault WITH
    Callers <- {"c1"}, Background <- TRUE, Interval <- 2, MaxStale <- 2,
    MaxRead <- 1, MaxVersion <- 2, file <- vFile, pc <- vPc

Walk == INSTANCE AnyValueWalk WITH
    MaxDepth <- 1, MaxKey <- 1, MaxLeaf <- 1, MaxBody <- 2, MaxAttributes <- 1,
    ValueSize <- 1, KeySize <- 2, AttributeSize <- 4, InputDepth <- 2,
    verdict <- wVerdict

Record(id, time, observed, severity, trace, span, attribute, body) ==
    [id |-> id, time |-> time, observed |-> observed, severity |-> severity,
     trace |-> trace, span |-> span, attribute |-> attribute, body |-> body]

\* Over a 4-bit clock and two-byte ids.
Records == {Record(1, 0, 9, 9, <<>>, <<1, 0>>, "text", "raw bytes"),
            Record(2, 7, 0, -1, <<0, 0>>, <<>>, "index", "text"),
            Record(3, 8, 15, 24, <<0, 1>>, <<0, 0>>, "absent", "index"),
            Record(4, 3, 3, 25, <<1>>, <<1, 1, 1>>, "text", "absent")}

Scopes == [meta : {0, 2, 3}, valid : {TRUE}, records : SeqOf(Records, 2)]
              \union [meta : {1}, valid : {FALSE}, records : {<<>>}]

SmallScopes == [meta : {1}, valid : {TRUE}, records : SeqOf(Records, 1)]

Exports == {<<>>, <<<<>>>>} \union {<<<<s>>>> : s \in Scopes}
               \union {<<<<s, t>>>> : s \in Scopes, t \in SmallScopes}
               \union {<<<<s>>, <<t>>>> : s \in Scopes, t \in SmallScopes}

Mapping == INSTANCE ExportMapping WITH
    Requests <- Exports, MaxRecords <- 4, Budget <- 5, Width <- 4, IdLen <- 2

Keys == INSTANCE Configuration WITH
    Settings <- <<>>, Related <- {}, MaxKeys <- 0, MaxMillis <- 0, MaxRetention <- 0

Secs(n)    == [kind |-> "secs", n |-> n]
Text(t, u) == [kind |-> "text", tenths |-> t, unit |-> u]
Word(w)    == [kind |-> w]

DurationSettings ==
    {Secs(0), Secs(30), Secs(3601), Text(4, "ms"), Text(5, "ms"), Text(25, "ms"),
     Text(15, "s"), Text(20, "m"), Text(10, "h"), Text(11, "h"),
     Text(10, "d"), Text(24, "d"), Word("off"), Word("bad")}

Related == {"batcher_max_batch_age", "degraded_after", "unhealthy_after",
            "maintenance_stall_after"}

Setting(k) ==
    CASE k \in Related ->
            {Secs(0), Secs(30), Text(4, "ms"), Text(15, "s"), Text(20, "m"), Word("bad")}
      [] k \in DOMAIN Keys!Sizes ->
            LET size == Keys!Sizes[k] IN {size[1] - 1, size[1], size[3], size[3] + 1}
      [] k = "retention" ->
            DurationSettings \union {Word("foreign")} \union
                {[kind |-> "table", logs |-> l] :
                    l \in {{}, {Text(10, "h")}, {Word("off")}, {Word("bad")}}}
      [] k \in Keys!Durations        -> DurationSettings
      [] k = "queue_pressure_ratio"  -> {-1, 0, 1, 100, 101}
      [] k = "max_db_bytes"          -> {0, 1048575, 1048576}
      [] k = "checkpoint_mode"       -> {"truncate", "unknown"}
      [] k = "durability_mode"       -> {"enqueue", "unknown"}
      [] k = "listen_address"        -> {"remote", "port zero", "garbage"}
      [] k = "metrics_address"       -> {"loopback", "remote", "port zero", "garbage", "off"}
      [] k = "tls"                   -> {"complete", "not a file", "no cert", "no key"}
      [] k = "auth" -> {"token", "not a file", "none", "none with file",
                        "token without file", "unknown"}
      [] k = "unknown key"           -> {0}
      [] OTHER                       -> {TRUE, FALSE}

Settings == [k \in DOMAIN Keys!Default \union {"unknown key"} |-> Setting(k)]

\* Files that set one key, whichever, or any of the four durations that the
\* watchdog's rules compare with each other.
Config == INSTANCE Configuration WITH
    MaxKeys <- 1, MaxMillis <- 200000000, MaxRetention <- 172800000

-----------------------------------------------------------------------------
(* One part at a time *)

\* An initial state for the parts with many, when they are not explored.
Resting ==
    /\ part \notin {"rows", "shared rows"} => mode = "incremental"
    /\ part # "restore" => artifact = Body(Good) /\ key = "none" /\ target = Format!Absent
    /\ part # "names" => start = 1970
    /\ part # "walk" => walk = "size" /\ value = Walk!Leaf("int", 0)
    /\ part # "mapping" => request = <<>>

PartsInit ==
    /\ part \in Explored
    /\ Resting
    /\ Walk!Init
    /\ Init
    /\ Process!Init /\ Dog!WatchdogInit /\ Keeper!Init
    /\ IF part = "shared rows" THEN SharedRows!Init ELSE Rows!Init
    /\ IF part = "pruned" THEN Pruned!Init ELSE Copies!Init
    /\ Restored!Init /\ Names!Init /\ Schema!Init
    /\ IF part = "reloader" THEN Reloader!Init ELSE Vault!Init
    /\ Mapping!Init /\ Config!Init

PartsNext ==
    /\ UNCHANGED part
    /\ IF part = "admission" THEN Next ELSE UNCHANGED vars
    /\ IF part = "process" THEN Process!Next ELSE UNCHANGED processVars
    /\ CASE part = "dog"       -> Dog!Next /\ dServing'
         [] part = "quota dog" -> QuotaDog!Next /\ (dServing' \/ ~dServing \/ wd \in {"halt", "send"})
         [] OTHER              -> UNCHANGED dogVars
    /\ IF part = "keeper" THEN Keeper!Next ELSE UNCHANGED keeperVars
    /\ CASE part = "rows"        -> Rows!Next
         [] part = "shared rows" -> SharedRows!Next
         [] OTHER                -> UNCHANGED rowVars
    /\ CASE part = "copies" -> Copies!Next
         [] part = "pruned" -> Pruned!Next
         [] OTHER           -> UNCHANGED backupVars
    /\ IF part = "restore" THEN Restored!Next ELSE UNCHANGED restoreVars
    /\ IF part = "names" THEN Names!Next ELSE UNCHANGED nameVars
    /\ IF part = "schema" THEN Schema!Next ELSE UNCHANGED schemaVars
    /\ CASE part = "vault"    -> Vault!Next
         [] part = "reloader" -> Reloader!Next
         [] OTHER             -> UNCHANGED vaultVars
    /\ IF part = "walk" THEN Walk!Next ELSE UNCHANGED walkVars
    /\ IF part = "mapping" THEN Mapping!Next ELSE UNCHANGED mappingVars
    /\ IF part = "config" THEN Config!Next ELSE UNCHANGED configVars

\* A part that may come to an end stays there; the others always go on.
Ended ==
    /\ part \notin {"rows", "shared rows", "schema", "vault", "reloader"}
    /\ UNCHANGED partsVars

PartsSpec == PartsInit /\ [][PartsNext \/ Ended]_partsVars

ASSUME PartsAssumption ==
    /\ Explored \subseteq {"admission", "process", "dog", "quota dog", "keeper", "rows", "shared rows",
                          "copies", "pruned", "restore", "names", "schema", "vault",
                          "reloader", "walk", "mapping", "config"}
    /\ Process!LifecycleAssumption /\ Dog!EvidenceAssumption /\ Dog!WatchdogAssumption
    /\ QuotaDog!EvidenceAssumption /\ QuotaDog!WatchdogAssumption
    /\ Keeper!SchedulerAssumption /\ Rows!RetentionAssumption
    /\ SharedRows!RetentionAssumption /\ Copies!BackupAssumption
    /\ Pruned!BackupAssumption /\ Restored!RestoreAssumption /\ Names!UtcAssumption
    /\ Schema!MigrationAssumption /\ Vault!VaultAssumption /\ Reloader!VaultAssumption
    /\ Walk!WalkAssumption /\ Mapping!MappingAssumption /\ Config!ConfigAssumption

-----------------------------------------------------------------------------
(* What the parts promise.  ExportsAreBounded is Admission's own.            *)

\* Every part's state is well formed: queues within capacity, counters within
\* their bounds, program counters at a step of the code.
PartsTypeOK ==
    CASE part = "admission"   -> AdmissionTypeOK
      [] part = "process"     -> Process!LifecycleTypeOK
      [] part = "dog"         -> Dog!WatchdogTypeOK
      [] part = "quota dog"   -> QuotaDog!WatchdogTypeOK
      [] part = "keeper"      -> Keeper!SchedulerTypeOK
      [] part = "rows"        -> Rows!RetentionTypeOK
      [] part = "shared rows" -> SharedRows!RetentionTypeOK
      [] part = "copies"      -> Copies!BackupTypeOK
      [] part = "pruned"      -> Pruned!BackupTypeOK
      [] part = "restore"     -> Restored!RestoreTypeOK
      [] part = "schema"      -> Schema!MigrationTypeOK
      [] part = "vault"       -> Vault!VaultTypeOK
      [] part = "reloader"    -> Reloader!VaultTypeOK
      [] part = "walk"        -> Walk!WalkTypeOK
      [] OTHER                -> TRUE

\* When Storage::join reports no error every accepted chunk was drained.
DrainedOnExit == Process!DrainedOnExit

\* main returns Ok only if all its threads ended without failure.
ExitIsHonest == Process!ExitIsHonest

\* The watchdog halts only for a fault.
HaltMeansFault == Dog!HaltMeansFault

\* It halts a healthy process only after a pause as long as the thresholds leave.
HaltNeedsPause ==
    /\ part = "dog" => Dog!HaltNeedsPause
    /\ part = "quota dog" => QuotaDog!HaltNeedsPause

\* The stack walks refuse exactly what the recursive definition refuses.
WalkDecides == Walk!WalkDecides

\* What the validator lets through the converter takes.
AcceptedConverts == Walk!AcceptedConverts

\* The size walk counts every nested value once.
SizeIsTotal == Walk!SizeIsTotal

\* The chunks of a mapped request hold its records, once and in order.
ChunksAreTheRequest == Mapping!ChunksAreTheRequest

\* Narrowing keeps the order of times.
TimesKeepOrder == Mapping!TimesKeepOrder

\* Every field but the body stored otherwise than it was sent is counted.
FieldLossesAreCounted == Mapping!FieldLossesAreCounted

\* README.md: lossy conversions are "all rejected visibly or counted in
\* otlp_mapping_loss_total, never silently converted", bytes bodies included.
LossesAreCounted == Mapping!LossesAreCounted

\* The division in the expansion check decides what the product would.
ExpansionIsTheProduct == Mapping!ExpansionIsTheProduct

-----------------------------------------------------------------------------
(* The properties of the run, one for each concern *)

\* What main and Storage::join report is true: Ok from join means drained, Ok from
\* main that no thread failed.
OutcomeIsTrue == part = "process" => DrainedOnExit /\ ExitIsHonest

\* What mapping hands to the pipeline is the request: validators, converter and
\* conversions agree on it, and what they change is counted, but for bodies that
\* are no text.
MappingIsFaithful ==
    /\ part = "walk" => WalkDecides /\ AcceptedConverts /\ SizeIsTotal
    /\ part = "mapping" => /\ ChunksAreTheRequest /\ TimesKeepOrder
                           /\ FieldLossesAreCounted /\ ExpansionIsTheProduct

\* Maintenance comes at its intervals, deletes only what the window or the quota
\* asks for, oldest first and with a sweep after it, and leaves index and
\* resources in step with the events.
MaintenanceIsJustified ==
    /\ [][part = "keeper" => Keeper!EnqueueIsSpaced]_keeperVars
    /\ [][part = "rows" => Rows!EvictionNeeded]_rowVars
    /\ [][(part \in {"rows", "shared rows"}) =>
              Rows!WindowRespected /\ Rows!OldestEvicted /\ Rows!PruneSwept]_rowVars
    /\ []((part \in {"rows", "shared rows"}) =>
               Rows!IndexMatchesRows /\ Rows!NoDanglingResource)

\* A backup reported good is a whole and dated copy of one state, and stays among
\* the kept; a restore installs exactly such a copy or changes nothing.
BackupsAreSound ==
    /\ [][part = "copies" => Copies!ArtifactWritten /\ Copies!NewestKept]_backupVars
    /\ [][part = "pruned" => Pruned!ArtifactWritten /\ Pruned!NewestKept]_backupVars
    /\ [][part = "restore" => Restored!DatabaseStays /\ Restored!NothingLeft]_restoreVars
    /\ []((part \in {"copies", "pruned"}) =>
               Copies!SnapshotIsConsistent /\ Copies!NoPartialLeft)
    /\ [](part = "names" => Names!NameIsCivilDate)
    /\ [](part = "restore" => Restored!RestoredIsBackup)

\* What a start is given is judged rightly: the settings it accepts work and mean
\* what was written, a binary that a newer one has superseded stays out, and check
\* predicts it except after a crash.
StartupIsSound ==
    /\ [](part = "config" => /\ Config!AcceptedStarts /\ Config!LoadedIsWritten
                             /\ Config!EnabledIsScheduled)
    /\ [](part = "schema" => Schema!CheckMissesAfterCrash)
    /\ [][part = "schema" => Schema!OlderStaysOut /\ Schema!CleanStopAgrees]_schemaVars

\* The tokens in use are the newest that were read, survive one bad read, and do
\* not survive the grace period.
TokensAreCurrent ==
    /\ [][(part \in {"vault", "reloader"}) =>
              Vault!NotRolledBack /\ Vault!BadReadKeeps]_vaultVars
    /\ [](part = "reloader" => Reloader!StaleExpires)
=============================================================================
