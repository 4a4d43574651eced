----------------------------- MODULE Retention -----------------------------
(***************************************************************************)
(* What the writer thread does to the database besides inserting: the      *)
(* retention prune, the size quota enforced ahead of every insert, VACUUM, *)
(* the rebuild of the search index and WAL checkpoints                     *)
(* (otel-sqlite-storage/src/maintenance.rs and writer.rs).                 *)
(*                                                                         *)
(* Every transaction is one step, so a reader of the same file, the clock  *)
(* and a crash come between any two of them.  A row occupies one page; a   *)
(* deleted row leaves its page on the freelist; a committed transaction is *)
(* in the WAL until a checkpoint folds it into the main file.              *)
(***************************************************************************)
EXTENDS Integers, FiniteSets, FiniteSetsExt

CONSTANTS Resources,     \* resource dimension rows
          Times,         \* event timestamps a client may send
          Window,        \* retention window, in clock units
          Quota,         \* size quota, in pages
          BatchRows,     \* PRUNE_BATCH_ROWS
          MaxRounds,     \* MAX_QUOTA_ROUNDS
          Modes,         \* auto_vacuum modes of the database at start
          Faults,        \* subset of {"crash", "error", "index"}
          Readers,       \* BOOLEAN: other processes read the database
          MaxId,         \* bound: rowids
          MaxNow,        \* bound: the clock
          MaxFaults,     \* bound: faults of a behaviour
          WalCap         \* pages the WAL grows to before SQLite folds it

RetentionAssumption ==
    /\ Times \subseteq Int /\ Window \in Nat /\ Quota \in Nat
    /\ BatchRows \in Nat \ {0} /\ MaxRounds \in Nat \ {0}
    /\ Modes \subseteq {"incremental", "legacy"} /\ Readers \in BOOLEAN
    /\ MaxId \in Nat /\ MaxNow \in Nat /\ MaxFaults \in Nat /\ WalCap \in Nat

VARIABLES rows,       \* log_event: [id, ts, res]
          resources,  \* log_resource
          fts,        \* rowids in logs_fts
          intact,     \* the index was not damaged since its last rebuild
          free,       \* freelist pages
          main,       \* pages of the main file
          wal,        \* pages of the WAL file
          mode,       \* auto_vacuum mode
          reader,     \* "none", "current" or "behind" the last commit
          now,        \* wall clock
          pc,         \* where the writer is
          batch,      \* the row the insert in progress carries
          cutoff,     \* of the prune in progress
          removed,    \* the pass in progress deleted something
          round,      \* eviction rounds of the pass in progress
          faults      \* faults left

table == <<rows, resources, fts, intact>>
file  == <<free, main, wal, mode>>
pass  == <<batch, cutoff, removed, round>>
env   == <<reader, now, faults>>
vars  == <<table, file, pass, env, pc>>

NoRow == [ts |-> 0, res |-> "none"]

Ids(rs) == {r.id : r \in rs}
Used    == {r.res : r \in rows}
Orphans == resources \ Used

\* INTEGER PRIMARY KEY without AUTOINCREMENT: the largest rowid plus one.
NextId == IF rows = {} THEN 1 ELSE Max(Ids(rows)) + 1

\* Pages of the database as the last committed transaction left it.
Committed == Cardinality(rows) + free

Init ==
    /\ rows = {} /\ resources = {} /\ fts = {} /\ intact = TRUE
    /\ free = 0 /\ main = 0 /\ wal = 0 /\ mode \in Modes
    /\ reader = "none" /\ now = 0 /\ faults = MaxFaults
    /\ pc = "idle" /\ batch = NoRow /\ cutoff = 0
    /\ removed = FALSE /\ round = 0

-----------------------------------------------------------------------------
(* SQLite, as the writer uses it *)

\* A commit appends to the WAL and leaves an open reader behind.  Once the
\* WAL has its full size SQLite folds it by itself, unless someone reads.
Commit ==
    /\ wal' = Min({wal + 1, WalCap})
    /\ reader' = IF reader = "current" THEN "behind" ELSE reader
    /\ main' = IF wal = WalCap /\ reader = "none"
               THEN Cardinality(rows') + free' ELSE main
    /\ UNCHANGED <<now, faults>>

\* A transaction that changed nothing writes no frame.
CommitIf(changed) ==
    IF changed THEN Commit ELSE UNCHANGED <<main, wal, env>>

\* checkpoint(conn, Truncate).  A reader keeps the WAL, and one behind the
\* last commit keeps frames from being folded; PRAGMA wal_checkpoint reports
\* that in its result row, not as an error.
FoldWal ==
    /\ main' = IF reader = "behind" THEN main ELSE Committed
    /\ wal' = IF reader = "none" THEN 0 ELSE wal

\* DELETE FROM log_event: the logs_fts_ad trigger drops the index entries.
DeleteRows(gone) ==
    /\ rows' = rows \ gone
    /\ fts' = fts \ Ids(gone)
    /\ free' = free + Cardinality(gone)
    /\ UNCHANGED <<resources, intact, mode>>
    /\ CommitIf(gone /= {})

\* collect_orphan_dimensions, in a transaction of its own.
SweepOrphans ==
    /\ resources' = resources \ Orphans
    /\ UNCHANGED <<rows, fts, intact, free, mode>>
    /\ CommitIf(Orphans /= {})

\* incremental_vacuum gives the whole freelist back.
Reclaim ==
    /\ free' = 0
    /\ UNCHANGED <<table, mode>>
    /\ CommitIf(free /= 0)

\* convert_to_incremental_vacuum: one full VACUUM.
Convert ==
    /\ free' = 0 /\ mode' = "incremental"
    /\ UNCHANGED table
    /\ Commit

-----------------------------------------------------------------------------
(* Retention prune *)

\* The cutoff is taken when the command executes, not when it was queued.
StartPrune ==
    /\ pc = "idle"
    /\ pc' = "prune" /\ cutoff' = now - Window /\ removed' = FALSE
    /\ UNCHANGED <<table, file, batch, round, env>>

\* Slip: an event exactly as old as the window counts as expired.
ExpiredInclusive(limit) == {r \in rows : r.ts <= limit}

Expired(limit) == {r \in rows : r.ts < limit}

\* Slip: only the last batch decides whether the sweep runs.
PruneBatchForgetful ==
    /\ pc = "prune"
    /\ LET gone == Expired(cutoff)
           n    == Min({Cardinality(gone), BatchRows})
       IN \E S \in kSubset(n, gone) :
            /\ DeleteRows(S)
            /\ removed' = (S /= {})
            /\ pc' = IF n = BatchRows THEN "prune"
                     ELSE IF removed' THEN "prune_sweep" ELSE "idle"
    /\ UNCHANGED <<batch, cutoff, round>>

\* Slip: one batch per prune.
PruneBatchOnce ==
    /\ pc = "prune"
    /\ LET gone == Expired(cutoff)
           n    == Min({Cardinality(gone), BatchRows})
       IN \E S \in kSubset(n, gone) :
            /\ DeleteRows(S)
            /\ removed' = (S /= {})
            /\ pc' = IF removed' THEN "prune_sweep" ELSE "idle"
    /\ UNCHANGED <<batch, cutoff, round>>

\* One bounded transaction; a short batch ends the loop.  The sub-select has
\* a LIMIT and no ORDER BY, so any BatchRows expired rows may go.
PruneBatch ==
    /\ pc = "prune"
    /\ LET gone == Expired(cutoff)
           n    == Min({Cardinality(gone), BatchRows})
       IN \E S \in kSubset(n, gone) :
            /\ DeleteRows(S)
            /\ removed' = (removed \/ S /= {})
            /\ pc' = IF n = BatchRows THEN "prune"
                     ELSE IF removed' THEN "prune_sweep" ELSE "idle"
    /\ UNCHANGED <<batch, cutoff, round>>

PruneSweep ==
    /\ pc = "prune_sweep"
    /\ SweepOrphans
    /\ pc' = "idle"
    /\ UNCHANGED pass

-----------------------------------------------------------------------------
(* Insert behind the size quota *)

\* enforce_quota: the main file and the WAL count.
StartInsert(ts, res) ==
    /\ pc = "idle" /\ NextId <= MaxId
    /\ batch' = [ts |-> ts, res |-> res]
    /\ removed' = FALSE /\ round' = 0
    /\ pc' = IF main + wal > Quota THEN "fold" ELSE "insert"
    /\ UNCHANGED <<table, file, cutoff, env>>

\* The first checkpoint of enforce_size_quota.
Fold ==
    /\ pc = "fold"
    /\ FoldWal
    /\ pc' = IF mode = "incremental" THEN "measure" ELSE "convert"
    /\ UNCHANGED <<table, free, mode, pass, env>>

ConvertLegacy ==
    /\ pc = "convert"
    /\ Convert
    /\ pc' = "measure"
    /\ UNCHANGED pass

\* Slip: ORDER BY timestamp_ns DESC.
IsNewest(S) ==
    /\ Cardinality(S) = Min({Cardinality(rows), BatchRows})
    /\ \A r \in S, s \in rows \ S : r.ts >= s.ts

\* The BatchRows oldest rows: every survivor is at least as young.
IsOldest(S) ==
    /\ Cardinality(S) = Min({Cardinality(rows), BatchRows})
    /\ \A r \in S, s \in rows \ S : r.ts <= s.ts

\* The loop's head leaves it when the main file fits or the rounds are used.
Fits ==
    /\ pc = "measure" /\ (main <= Quota \/ round = MaxRounds)
    /\ pc' = IF removed THEN "sweep" ELSE "insert"
    /\ UNCHANGED <<table, file, pass, env>>

\* prune_oldest_batch; an empty table ends the loop.
Evict ==
    /\ pc = "measure" /\ main > Quota /\ round < MaxRounds
    /\ \E S \in SUBSET rows :
         /\ IsOldest(S)
         /\ DeleteRows(S)
         /\ removed' = (removed \/ S /= {})
         /\ pc' = IF S /= {} THEN "fold_deletes"
                  ELSE IF removed THEN "sweep" ELSE "insert"
    /\ UNCHANGED <<batch, cutoff, round>>

FoldDeletes ==
    /\ pc = "fold_deletes"
    /\ FoldWal
    /\ pc' = "reclaim"
    /\ UNCHANGED <<table, free, mode, pass, env>>

ReclaimPages ==
    /\ pc = "reclaim"
    /\ Reclaim
    /\ pc' = "fold_reclaimed"
    /\ UNCHANGED pass

\* Slip: the reclaimed pages are not folded before the next size check.
FoldReclaimedSkipped ==
    /\ pc = "fold_reclaimed"
    /\ pc' = "measure" /\ round' = round + 1
    /\ UNCHANGED <<table, file, batch, cutoff, removed, env>>

FoldReclaimed ==
    /\ pc = "fold_reclaimed"
    /\ FoldWal
    /\ pc' = "measure" /\ round' = round + 1
    /\ UNCHANGED <<table, free, mode, batch, cutoff, removed, env>>

QuotaSweep ==
    /\ pc = "sweep"
    /\ SweepOrphans
    /\ pc' = "insert"
    /\ UNCHANGED pass

\* A failed checkpoint ends the first fold with nothing evicted, and a later
\* one goes on to the sweep; any other error of the pass leaves it at once.
\* Either way the insert proceeds.
QuotaError ==
    /\ pc \in {"fold", "convert", "measure", "fold_deletes", "reclaim",
               "fold_reclaimed", "sweep"}
    /\ "error" \in Faults /\ faults > 0
    /\ faults' = faults - 1
    /\ pc' = IF pc \in {"fold_deletes", "fold_reclaimed"} THEN "sweep" ELSE "insert"
    /\ UNCHANGED <<table, file, pass, reader, now>>

\* Slip: the resource row is assumed to be there already.
InsertWithoutUpsert ==
    /\ pc = "insert"
    /\ rows' = rows \union {[id |-> NextId, ts |-> batch.ts, res |-> batch.res]}
    /\ fts' = fts \union {NextId}
    /\ resources' = resources \union (IF rows = {} THEN {batch.res} ELSE {})
    /\ free' = Max({free - 1, 0})
    /\ Commit
    /\ pc' = "idle" /\ batch' = NoRow
    /\ UNCHANGED <<intact, mode, cutoff, removed, round>>

\* insert_logs: the resource upsert, the row and (logs_fts_ai) its index
\* entry are one transaction.
Insert ==
    /\ pc = "insert"
    /\ resources' = resources \union {batch.res}
    /\ rows' = rows \union {[id |-> NextId, ts |-> batch.ts, res |-> batch.res]}
    /\ fts' = fts \union {NextId}
    /\ free' = Max({free - 1, 0})
    /\ Commit
    /\ pc' = "idle" /\ batch' = NoRow
    /\ UNCHANGED <<intact, mode, cutoff, removed, round>>

-----------------------------------------------------------------------------
(* The other maintenance commands *)

Vacuum ==
    /\ pc = "idle"
    /\ IF mode = "incremental" THEN Reclaim ELSE Convert
    /\ UNCHANGED <<pass, pc>>

\* Slip: the index is recreated and not repopulated.
RebuildFtsEmpty ==
    /\ pc = "idle"
    /\ fts' = {} /\ intact' = TRUE
    /\ UNCHANGED <<rows, resources, free, mode, pass, pc>>
    /\ Commit

\* Drop, recreate and repopulate from the logs view, in one transaction.
RebuildFts ==
    /\ pc = "idle"
    /\ fts' = {r.id : r \in {q \in rows : q.res \in resources}}
    /\ intact' = TRUE
    /\ UNCHANGED <<rows, resources, free, mode, pass, pc>>
    /\ Commit

\* Checkpoint(Truncate) from the maintenance worker, and at startup.
Checkpoint ==
    /\ pc = "idle"
    /\ FoldWal
    /\ UNCHANGED <<table, free, mode, pass, env, pc>>

-----------------------------------------------------------------------------
(* Environment *)

\* The process dies, or a maintenance error ends the writer: what committed
\* stays.
Crash ==
    /\ "crash" \in Faults /\ faults > 0 /\ pc /= "down"
    /\ faults' = faults - 1
    /\ pc' = "down"
    /\ batch' = NoRow /\ cutoff' = 0 /\ removed' = FALSE /\ round' = 0
    /\ UNCHANGED <<table, file, reader, now>>

\* The next process opens the file and checkpoints before its first command.
Restart ==
    /\ pc = "down"
    /\ FoldWal
    /\ pc' = "idle"
    /\ UNCHANGED <<table, free, mode, pass, env>>

\* Another process empties the search index.
DamageIndex ==
    /\ "index" \in Faults /\ faults > 0 /\ pc = "idle"
    /\ faults' = faults - 1
    /\ fts' = {} /\ intact' = FALSE
    /\ UNCHANGED <<rows, resources, file, pass, reader, now, pc>>

ReaderBegins ==
    /\ Readers /\ reader = "none"
    /\ reader' = "current"
    /\ UNCHANGED <<table, file, pass, now, faults, pc>>

ReaderEnds ==
    /\ reader /= "none"
    /\ reader' = "none"
    /\ UNCHANGED <<table, file, pass, now, faults, pc>>

ClockTick ==
    /\ now < MaxNow
    /\ now' = now + 1
    /\ UNCHANGED <<table, file, pass, reader, faults, pc>>

\* A command in progress; it never waits for anything but SQLite.
Busy ==
    \/ PruneBatch \/ PruneSweep
    \/ Fold \/ ConvertLegacy \/ Fits \/ Evict
    \/ FoldDeletes \/ ReclaimPages \/ FoldReclaimed
    \/ QuotaSweep \/ Insert \/ Restart

Next ==
    \/ Busy
    \/ StartPrune
    \/ \E ts \in Times, res \in Resources : StartInsert(ts, res)
    \/ QuotaError
    \/ Vacuum \/ RebuildFts \/ Checkpoint
    \/ Crash \/ DamageIndex
    \/ ReaderBegins \/ ReaderEnds \/ ClockTick

Spec == Init /\ [][Next]_vars

\* The writer finishes what it starts and the process is restarted.  Nothing is
\* assumed of the scheduler: a backlog defers the heavy operations.
Fairness == WF_vars(Busy) /\ WF_vars(ClockTick)

-----------------------------------------------------------------------------
(* Properties *)

Row == [id : Nat, ts : Times, res : Resources]

RetentionTypeOK ==
    /\ \A r \in rows : r \in Row
    /\ resources \subseteq Resources
    /\ fts \subseteq Nat /\ intact \in BOOLEAN
    /\ free \in Nat /\ main \in Nat /\ wal \in 0..WalCap
    /\ mode \in {"incremental", "legacy"}
    /\ reader \in {"none", "current", "behind"}
    /\ now \in 0..MaxNow /\ faults \in 0..MaxFaults
    /\ pc \in {"idle", "prune", "prune_sweep", "fold", "convert", "measure",
               "fold_deletes", "reclaim", "fold_reclaimed", "sweep", "insert", "down"}
    /\ batch = NoRow \/ batch \in [ts : Times, res : Resources]
    /\ cutoff \in Int /\ removed \in BOOLEAN /\ round \in 0..MaxRounds

\* A search hit always names a live event and every event is found, through
\* prunes, evictions, rowid reuse, crashes and rebuilds, unless the index was
\* damaged since the last rebuild (maintenance.rs: triggers and rebuild_fts).
IndexMatchesRows == intact => fts = Ids(rows)

\* No sweep ever takes the resource of a stored event: the upsert and the row
\* are one transaction, and no resource id is remembered across batches
\* (command/identity.rs resolve_resource, collect_orphan_dimensions).
NoDanglingResource == Used \subseteq resources

\* A prune deletes an event only when it is older than the window at the time
\* of the delete, however long the command was queued or the prune ran
\* (command.rs: the writer interprets the window at execution time).
WindowRespected == pc = "prune" => \A r \in rows \ rows' : r.ts < now - Window

\* The quota evicts a batch only when the database as committed does not fit:
\* never because the file on disk has not caught up with an earlier delete or
\* reclaim (enforce_size_quota).  For a database with incremental vacuum that
\* no other process reads.
EvictionNeeded == pc = "measure" /\ rows' /= rows => Committed > Quota

\* The newest telemetry survives an over-budget database: whatever the quota
\* evicts is no younger than what it keeps.
OldestEvicted == pc = "measure" => \A r \in rows \ rows', s \in rows' : r.ts <= s.ts

\* A finished prune leaves no resource without events behind, unless it found
\* nothing to delete: prune sweeps once at its end.
PruneSwept ==
    (pc \in {"prune", "prune_sweep"} /\ pc' = "idle" /\ removed) => (Orphans' = {})

\* The writer executes prunes again and again.
PrunesRun == []<><<StartPrune>>_vars

\* While prunes are executed, again and again the table holds no expired event,
\* whatever crashes and failed passes cut them short and however inserts keep
\* coming (prune).
ExpiredRowsGoAway == PrunesRun => []<>(Expired(now - Window) = {})

\* While prunes are executed, a resource that lost its last event is collected:
\* "a crash mid-prune resumes cleanly on the next interval" (prune).
OrphansGoAway ==
    PrunesRun => \A res \in Resources : (res \in Orphans) ~> (res \notin Orphans)

\* The same where a pass may be cut short between its deletes and its sweep: the
\* resource is collected unless from then on no pass deletes anything.
OrphansGoWithTheNextDelete ==
    PrunesRun => \A res \in Resources :
                     (res \in Orphans) ~> (res \notin Orphans \/ [](~removed))
=============================================================================
