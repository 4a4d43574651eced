--------------------------- MODULE MigrationProofs ----------------------------
(***************************************************************************)
(* The schema migrations, for any number of processes, binaries and        *)
(* crashes: each migration takes effect once and in order, and a binary    *)
(* that a newer one has superseded never gets past the downgrade guard.    *)
(***************************************************************************)
EXTENDS Migration, TLAPS

Labels == {"down", "opened", "read", "apply", "ready", "serving", "refused", "failed"}

DbType ==
    /\ db \in [stampTable : BOOLEAN, stamps : SUBSET Versions, runs : [Versions -> Nat]]
    /\ applied \in [Procs -> SUBSET Versions]
    /\ pc \in [Procs -> Labels]

\* What a process read of the stamps is still there: nothing removes one.
ReadIsStamped == \A p \in Procs : applied[p] \subseteq db.stamps

\* The inductive invariant.  NoGaps alone is not inductive: the next pending
\* migration of p extends the prefix because what p read is stamped.
MigrationInv ==
    DbType /\ ReadIsStamped /\ StampedIffRunOnce /\ NoGaps /\ ReadyMeansMigrated

LEMMA VersionsAreNumbers == Versions \subseteq Nat /\ \A p \in Procs : Known(p) \subseteq Versions
  BY MigrationAssumption DEF Versions, Known

-----------------------------------------------------------------------------

LEMMA MigrationInitInv == Init => MigrationInv
  BY VersionsAreNumbers
     DEF Init, EmptyDb, MigrationInv, DbType, Labels, ReadIsStamped, StampedIffRunOnce,
         NoGaps, ReadyMeansMigrated

\* Steps that leave the stamps alone.
LEMMA QuietStepInv ==
    ASSUME MigrationInv, NEW p \in Procs,
           \/ Open(p) \/ CreateStampTable(p) \/ ReadApplied(p)
           \/ Ready(p) \/ StartupCheckpoint(p) \/ Stop(p) \/ Crash(p)
    PROVE  MigrationInv'
  <1>a. DbType /\ ReadIsStamped /\ ReadyMeansMigrated
    BY DEF MigrationInv
  <1>b. db'.stamps = db.stamps /\ db'.runs = db.runs
    BY <1>a DEF DbType, Open, CreateStampTable, ReadApplied, Ready, StartupCheckpoint, Stop, Crash
  <1>1. DbType'
    BY <1>a DEF DbType, Labels, Goto, Open, CreateStampTable, ReadApplied, Ready,
                StartupCheckpoint, Stop, Crash
  <1>2. ReadIsStamped'
    BY <1>a, <1>b DEF DbType, ReadIsStamped, Open, CreateStampTable, ReadApplied, Ready,
                      StartupCheckpoint, Stop, Crash
  <1>3. StampedIffRunOnce' /\ NoGaps'
    BY <1>b DEF MigrationInv, StampedIffRunOnce, NoGaps
  <1>4. ReadyMeansMigrated'
    <2>1. CASE Ready(p)
      BY <2>1, <1>a, <1>b
         DEF Ready, Pending, Goto, DbType, ReadIsStamped, ReadyMeansMigrated, Known
    <2>2. CASE ~Ready(p)
      BY <2>2, <1>a, <1>b
         DEF Goto, DbType, ReadyMeansMigrated, Known, Open, CreateStampTable, ReadApplied,
             StartupCheckpoint, Stop, Crash
    <2> QED
      BY <2>1, <2>2
  <1> QED
    BY <1>1, <1>2, <1>3, <1>4 DEF MigrationInv

\* The transaction of a migration: either its stamp was taken meanwhile and
\* nothing happens, or the SQL and the stamp take effect together.
LEMMA ApplyInv ==
    ASSUME MigrationInv, NEW p \in Procs, Apply(p)
    PROVE  MigrationInv'
  <1>a. DbType /\ ReadIsStamped /\ StampedIffRunOnce /\ NoGaps /\ ReadyMeansMigrated
    BY DEF MigrationInv
  <1>b. PICK v \in NextPending(p) :
            IF v \in db.stamps
            THEN Goto(p, "failed") /\ Fold(p) /\ UNCHANGED <<db, applied>>
            ELSE /\ db' = [db EXCEPT !.stamps = @ \union {v}, !.runs[v] = @ + 1]
                 /\ applied' = [applied EXCEPT ![p] = @ \union {v}]
                 /\ UNCHANGED <<main, pc>>
    BY DEF Apply
  <1>c. v \in Known(p) /\ v \in Versions /\ v \in Nat /\ Latest[p] \in Nat
    BY VersionsAreNumbers, MigrationAssumption DEF NextPending, Pending
  <1>1. CASE v \in db.stamps
    BY <1>1, <1>a, <1>b
       DEF MigrationInv, DbType, Labels, Goto, ReadIsStamped, StampedIffRunOnce, NoGaps,
           ReadyMeansMigrated, Known
  <1>2. CASE v \notin db.stamps
    <2>1. /\ db'.stamps = db.stamps \cup {v}
          /\ db'.runs = [db.runs EXCEPT ![v] = @ + 1]
          /\ db'.stampTable = db.stampTable
          /\ applied' = [applied EXCEPT ![p] = @ \cup {v}]
          /\ pc' = pc
      BY <1>2, <1>a, <1>b DEF DbType
    <2>2. DbType'
      <3>1. db.stamps \cup {v} \in SUBSET Versions
        BY <1>a, <1>c DEF DbType
      <3>2. [db.runs EXCEPT ![v] = @ + 1] \in [Versions -> Nat]
        BY <1>a, <1>c DEF DbType
      <3>3. db' = [stampTable |-> db.stampTable, stamps |-> db.stamps \cup {v},
                   runs |-> [db.runs EXCEPT ![v] = @ + 1]]
        BY <1>2, <1>a, <1>b DEF DbType
      <3>4. db.stampTable \in BOOLEAN
        BY <1>a DEF DbType
      <3>5. applied' \in [Procs -> SUBSET Versions]
        BY <2>1, <1>a, <1>c DEF DbType
      <3> QED
        BY <3>1, <3>2, <3>3, <3>4, <3>5, <2>1, <1>a DEF DbType
    <2>3. ReadIsStamped'
      BY <2>1, <1>a DEF DbType, ReadIsStamped
    <2>4. StampedIffRunOnce'
      BY <2>1, <1>2, <1>a, <1>c DEF DbType, StampedIffRunOnce
    <2>5. \A w \in 0..v : w = v \/ w \in db.stamps
      BY <1>a, <1>c DEF ReadIsStamped, NextPending, Pending, Known
    <2>6. NoGaps'
      BY <2>1, <2>5, <1>a, <1>c DEF NoGaps
    <2>7. ReadyMeansMigrated'
      BY <2>1, <1>a DEF ReadyMeansMigrated, Known
    <2> QED
      BY <2>2, <2>3, <2>4, <2>6, <2>7 DEF MigrationInv
  <1> QED
    BY <1>1, <1>2

\* Nothing removes a stamp, of whichever process.
LEMMA StampsStay ==
    ASSUME MigrationInv, NEW p \in Procs,
           Open(p) \/ Progress(p) \/ Stop(p) \/ Crash(p)
    PROVE  db.stamps \subseteq db'.stamps
  <1>a. DbType
    BY DEF MigrationInv
  <1>1. CASE Apply(p)
    <2>1. PICK v \in NextPending(p) :
            IF v \in db.stamps
            THEN Goto(p, "failed") /\ Fold(p) /\ UNCHANGED <<db, applied>>
            ELSE /\ db' = [db EXCEPT !.stamps = @ \union {v}, !.runs[v] = @ + 1]
                 /\ applied' = [applied EXCEPT ![p] = @ \union {v}]
                 /\ UNCHANGED <<main, pc>>
      BY <1>1 DEF Apply
    <2>2. CASE v \in db.stamps
      BY <2>1, <2>2
    <2>3. CASE v \notin db.stamps
      <3>1. db' = [db EXCEPT !.stamps = @ \union {v}, !.runs[v] = @ + 1]
        BY <2>1, <2>3
      <3>2. db'.stamps = db.stamps \union {v}
        BY <3>1, <1>a DEF DbType
      <3> QED
        BY <3>2
    <2> QED
      BY <2>2, <2>3
  <1>2. CASE ~Apply(p)
    BY <1>2, <1>a DEF DbType, Open, Progress, CreateStampTable, ReadApplied, Ready,
                      StartupCheckpoint, Stop, Crash
  <1> QED
    BY <1>1, <1>2

\* The only step past the guard is a read of the stamps, all of them.
LEMMA SupersededStep ==
    ASSUME MigrationInv, NEW p \in Procs, NEW q \in Procs,
           Open(p) \/ Progress(p) \/ Stop(p) \/ Crash(p), Superseded(q)
    PROVE  Superseded(q)'
  <1>a. pc \in [Procs -> Labels]
    BY DEF MigrationInv, DbType
  <1>1. NewerThan(db'.stamps, Latest[q])
    BY StampsStay DEF Superseded, NewerThan
  <1>2. pc'[q] \notin PastGuard
    <2>1. CASE q # p
      BY <2>1, <1>a DEF Superseded, Labels, Goto, Open, Progress, CreateStampTable,
                        ReadApplied, Apply, Ready, StartupCheckpoint, Stop, Crash
    <2>2. CASE q = p
      BY <2>2, <1>a DEF Superseded, PastGuard, Labels, Goto, Open, Progress,
                        CreateStampTable, ReadApplied, Apply, Ready, StartupCheckpoint,
                        Stop, Crash
    <2> QED
      BY <2>1, <2>2
  <1> QED
    BY <1>1, <1>2 DEF Superseded

-----------------------------------------------------------------------------

LEMMA MigrationInvariance == Spec => []MigrationInv
  <1>1. MigrationInv /\ [Next]_vars => MigrationInv'
    <2> SUFFICES ASSUME MigrationInv, [Next]_vars PROVE MigrationInv'
      OBVIOUS
    <2>1. CASE UNCHANGED vars
      BY <2>1 DEF vars, MigrationInv, DbType, ReadIsStamped, StampedIffRunOnce, NoGaps,
                  ReadyMeansMigrated, Known
    <2>2. CASE Next
      BY <2>2, QuietStepInv, ApplyInv DEF Next, Progress
    <2> QED
      BY <2>1, <2>2
  <1> QED
    BY <1>1, MigrationInitInv, PTL DEF Spec

\* migration.rs migrate_inner, with any number of processes starting at once:
\* a migration is stamped exactly when its SQL took effect, which it did once,
\* in order, and a process that reports ready has them all.
THEOREM MigrationsApplyOnce == Spec => []MigrationsRunOnce
  <1>1. Spec => []MigrationInv
    BY MigrationInvariance
  <1>2. MigrationInv => MigrationsRunOnce
    BY DEF MigrationInv, MigrationsRunOnce
  <1> QED
    BY <1>1, <1>2, PTL

\* The downgrade guard of migrate_inner, with processes starting and stopping
\* beside each other as they like: a step never lets a superseded binary in.
THEOREM OlderIsKeptOut == Spec => [][OlderStaysOut]_vars
  <1>1. MigrationInv /\ [Next]_vars => [OlderStaysOut]_vars
    BY SupersededStep DEF OlderStaysOut, Next
  <1> QED
    BY <1>1, MigrationInvariance, PTL DEF Spec

\* And so it is out for good: once a newer binary has stamped the database
\* while p is down, p never reports ready or serves again.
THEOREM SupersededForGood ==
    ASSUME NEW p \in Procs
    PROVE  Spec => [](Superseded(p) => [](pc[p] \notin {"ready", "serving"}))
  <1>1. MigrationInv /\ Superseded(p) /\ [Next]_vars => Superseded(p)'
    <2> SUFFICES ASSUME MigrationInv, Superseded(p), [Next]_vars PROVE Superseded(p)'
      OBVIOUS
    <2>1. CASE UNCHANGED vars
      BY <2>1 DEF vars, Superseded
    <2>2. CASE Next
      BY <2>2, SupersededStep DEF Next
    <2> QED
      BY <2>1, <2>2
  <1>2. Superseded(p) => pc[p] \notin {"ready", "serving"}
    BY DEF Superseded, PastGuard
  <1> QED
    BY <1>1, <1>2, MigrationInvariance, PTL DEF Spec
===============================================================================
