----------------------------- MODULE Migration -----------------------------
(***************************************************************************)
(* Opening the database: schema migrations at startup, the downgrade guard *)
(* and the `check` preflight (otel-sqlite-storage/src/sqlite.rs,           *)
(* migration.rs and writer.rs bootstrap; otel-sqlite/src/check_cli.rs).    *)
(*                                                                         *)
(* Processes may run different binaries; binary p knows the migrations     *)
(* 0..Latest[p].  A commit reaches the WAL at once and the main file when  *)
(* it is checkpointed; a crash loses neither.  The preflight reads the     *)
(* main file alone.                                                        *)
(***************************************************************************)
EXTENDS Integers, FiniteSets

CONSTANTS Procs,       \* server processes
          Latest,      \* the newest migration each one's binary knows
          Overlap,     \* BOOLEAN: two of them may be up at once
          MaxCrashes   \* bound: crashes of a behaviour

ASSUME MigrationAssumption ==
    /\ Latest \in [Procs -> Nat] /\ Overlap \in BOOLEAN
    /\ MaxCrashes \in Nat

VARIABLES exists,    \* the file is there
          db,        \* the database: committed transactions
          main,      \* what the main file holds of it
          applied,   \* per process: the stamps it read
          pc, crashes

vars == <<exists, db, main, applied, pc, crashes>>

Known(p) == 0..Latest[p]
Versions == UNION {Known(p) : p \in Procs}

\* stampTable: schema_migrations exists; stamps: its rows; runs[v]: how often
\* the SQL of v took effect (000 creates log_event).
EmptyDb == [stampTable |-> FALSE, stamps |-> {}, runs |-> [v \in Versions |-> 0]]

Init ==
    /\ exists = FALSE /\ db = EmptyDb /\ main = EmptyDb
    /\ applied = [p \in Procs |-> {}]
    /\ pc = [p \in Procs |-> "down"]
    /\ crashes = MaxCrashes

Goto(p, l) == pc' = [pc EXCEPT ![p] = l]

Up(p) == pc[p] \notin {"down", "refused", "failed"}
Alone(p) == \A q \in Procs \ {p} : ~Up(q)

\* Slip: the WAL is left as it is.
FoldNever(p) == main' = main

\* The last connection to close, or a checkpoint nobody holds up, folds the
\* WAL into the main file.
Fold(p) == main' = IF Alone(p) THEN db ELSE main

-----------------------------------------------------------------------------
(* Starting *)

\* sqlite::open creates the file.
Open(p) ==
    /\ ~Up(p)
    /\ Overlap \/ Alone(p)
    /\ exists' = TRUE
    /\ applied' = [applied EXCEPT ![p] = {}]
    /\ Goto(p, "opened")
    /\ UNCHANGED <<db, main, crashes>>

\* Slip: CREATE TABLE without IF NOT EXISTS.
CreateStampTableOnce(p) ==
    /\ pc[p] = "opened"
    /\ db' = [db EXCEPT !.stampTable = TRUE]
    /\ Goto(p, IF db.stampTable THEN "failed" ELSE "read")
    /\ UNCHANGED <<exists, main, applied, crashes>>

\* CREATE TABLE IF NOT EXISTS schema_migrations, outside any transaction.
CreateStampTable(p) ==
    /\ pc[p] = "opened"
    /\ db' = [db EXCEPT !.stampTable = TRUE]
    /\ Goto(p, "read")
    /\ UNCHANGED <<exists, main, applied, crashes>>

\* The highest stamp is beyond what the binary knows.
NewerThan(stamps, latest) == \E v \in stamps : v > latest

\* Slip: a database stamped by a newer binary is opened all the same.
ReadAppliedUnguarded(p) ==
    /\ pc[p] = "read"
    /\ applied' = [applied EXCEPT ![p] = db.stamps]
    /\ Goto(p, "apply")
    /\ UNCHANGED <<exists, db, main, crashes>>

\* read_applied_versions, then the downgrade guard.
ReadApplied(p) ==
    /\ pc[p] = "read"
    /\ applied' = [applied EXCEPT ![p] = db.stamps]
    /\ IF NewerThan(db.stamps, Latest[p])
       THEN Goto(p, "refused") /\ Fold(p)
       ELSE Goto(p, "apply") /\ UNCHANGED main
    /\ UNCHANGED <<exists, db, crashes>>

Pending(p) == Known(p) \ applied[p]
NextPending(p) == {v \in Pending(p) : \A w \in Pending(p) : v <= w}

\* Slip: the migration commits before its stamp.
ApplyUnstamped(p) ==
    /\ pc[p] = "apply"
    /\ \E v \in NextPending(p) :
          \/ db' = [db EXCEPT !.runs[v] = @ + 1] /\ UNCHANGED applied
          \/ /\ db' = [db EXCEPT !.stamps = @ \union {v}]
             /\ db.runs[v] > 0
             /\ applied' = [applied EXCEPT ![p] = @ \union {v}]
    /\ UNCHANGED <<exists, main, crashes, pc>>

\* Slip: newest first.
ApplyNewest(p) ==
    /\ pc[p] = "apply"
    /\ \E v \in {u \in Pending(p) : \A w \in Pending(p) : u >= w} :
          IF v \in db.stamps
          THEN Goto(p, "failed") /\ Fold(p) /\ UNCHANGED <<db, applied>>
          ELSE /\ db' = [db EXCEPT !.stamps = @ \union {v}, !.runs[v] = @ + 1]
               /\ applied' = [applied EXCEPT ![p] = @ \union {v}]
               /\ UNCHANGED <<main, pc>>
    /\ UNCHANGED <<exists, crashes>>

\* The next migration it did not read a stamp of: its SQL and its stamp are
\* one transaction, and a stamp that is there by now violates the table's
\* primary key, which rolls the transaction back and fails the start.
Apply(p) ==
    /\ pc[p] = "apply"
    /\ \E v \in NextPending(p) :
          IF v \in db.stamps
          THEN Goto(p, "failed") /\ Fold(p) /\ UNCHANGED <<db, applied>>
          ELSE /\ db' = [db EXCEPT !.stamps = @ \union {v}, !.runs[v] = @ + 1]
               /\ applied' = [applied EXCEPT ![p] = @ \union {v}]
               /\ UNCHANGED <<main, pc>>
    /\ UNCHANGED <<exists, crashes>>

\* Slip: readiness does not wait for the migrations.
ReadyEarly(p) ==
    /\ pc[p] = "apply"
    /\ Goto(p, "ready")
    /\ UNCHANGED <<exists, db, main, applied, crashes>>

\* Migrated: readiness is reported, then the startup checkpoint runs.
Ready(p) ==
    /\ pc[p] = "apply" /\ Pending(p) = {}
    /\ Goto(p, "ready")
    /\ UNCHANGED <<exists, db, main, applied, crashes>>

StartupCheckpoint(p) ==
    /\ pc[p] = "ready"
    /\ Fold(p)
    /\ Goto(p, "serving")
    /\ UNCHANGED <<exists, db, applied, crashes>>

Stop(p) ==
    /\ pc[p] = "serving"
    /\ Fold(p)
    /\ Goto(p, "down")
    /\ UNCHANGED <<exists, db, applied, crashes>>

\* A kill, or a disk error during the start; the WAL stays as it is.
Crash(p) ==
    /\ Up(p) /\ crashes > 0
    /\ crashes' = crashes - 1
    /\ Goto(p, "down")
    /\ UNCHANGED <<exists, db, main, applied>>

Progress(p) ==
    CreateStampTable(p) \/ ReadApplied(p) \/ Apply(p) \/ Ready(p) \/ StartupCheckpoint(p)

Next == \E p \in Procs : Open(p) \/ Progress(p) \/ Stop(p) \/ Crash(p)

Spec == Init /\ [][Next]_vars

\* A start under way goes on, and a supervisor restarts what went down.
Fairness == \A p \in Procs : WF_vars(Progress(p)) /\ SF_vars(Open(p))

-----------------------------------------------------------------------------
(* The preflight *)

\* check_database over inspect_schema, on the main file alone (immutable=1).
Check(latest) ==
    IF ~exists THEN "missing"
    ELSE IF main.runs[0] = 0 THEN "not_otel"
    ELSE IF NewerThan(main.stamps, latest) THEN "newer"
    ELSE IF 0..latest \subseteq main.stamps THEN "current"
    ELSE "pending"

\* Slip: a pending migration blocks the rollout.
CheckOkStrict(latest) == Check(latest) \notin {"not_otel", "newer", "pending"}

\* evaluate: only these two states of a database are errors.
CheckOk(latest) == Check(latest) \notin {"not_otel", "newer"}

\* What the server itself decides, from the database.
WouldStart(latest) == ~NewerThan(db.stamps, latest)

NobodyUp == \A p \in Procs : ~Up(p)

-----------------------------------------------------------------------------
(* Properties *)

MigrationTypeOK ==
    /\ exists \in BOOLEAN /\ crashes \in 0..MaxCrashes
    /\ \A d \in {db, main} :
         /\ d.stampTable \in BOOLEAN /\ d.stamps \subseteq Versions
         /\ d.runs \in [Versions -> 0..1]
    /\ applied \in [Procs -> SUBSET Versions]
    /\ pc \in [Procs -> {"down", "opened", "read", "apply", "ready", "serving",
                         "refused", "failed"}]

\* A migration is stamped exactly when its SQL took effect, and that happened
\* once, however many processes started at once and wherever one crashed
\* (migrate_inner: SQL and stamp in one transaction).
StampedIffRunOnce ==
    \A v \in Versions : db.runs[v] = IF v \in db.stamps THEN 1 ELSE 0

\* Migrations apply in order: no stamp without all the earlier ones.
NoGaps == \A v \in db.stamps : 0..v \subseteq db.stamps

\* A process reports ready only on a database that has every migration its
\* binary knows ("schema problems fail startup, not first traffic").
ReadyMeansMigrated ==
    \A p \in Procs : pc[p] \in {"ready", "serving"} => Known(p) \subseteq db.stamps

\* Each migration takes effect once, in order, and before its process is ready.
MigrationsRunOnce == StampedIffRunOnce /\ NoGaps /\ ReadyMeansMigrated

PastGuard == {"apply", "ready", "serving"}

\* A newer binary has stamped the database, and p is down or has yet to read
\* the stamps.
Superseded(p) == NewerThan(db.stamps, Latest[p]) /\ pc[p] \notin PastGuard

\* "an older binary must refuse to run against a database stamped by a newer
\* one" (migrate_inner's downgrade guard).  The guard is evaluated once, so a
\* process that is past it goes on when another one migrates beside it; but
\* once it is down, however it went down, it never gets past the guard again.
OlderStaysOut == \A p \in Procs : Superseded(p) => Superseded(p)'

\* A process restarted after each crash ends up serving or refusing: no crash
\* point of a start leaves a database that fails every later start.
StartsSettle ==
    \A p \in Procs : (pc[p] = "opened") ~> (pc[p] \in {"serving", "refused"})

\* After a clean stop check passes exactly when a start would not be refused:
\* the checkpoint at the end leaves nothing in the WAL for check to miss,
\* whatever crashes left there before.
CleanStopAgrees ==
    \A p \in Procs : (pc[p] = "serving" /\ pc'[p] = "down" /\ crashes' = crashes /\ NobodyUp')
        => \A q \in Procs : CheckOk(Latest[q])' = WouldStart(Latest[q])'

\* check reads the main file behind the WAL: it may take a newer database for
\* one it can serve, but only after a crash; and what it reports as newer is.
CheckMissesAfterCrash ==
    NobodyUp => \A q \in Procs :
        /\ CheckOk(Latest[q]) /\ ~WouldStart(Latest[q]) => crashes < MaxCrashes
        /\ Check(Latest[q]) = "newer" => ~WouldStart(Latest[q])
=============================================================================
