------------------------------- MODULE Backup -------------------------------
(***************************************************************************)
(* The `backup` subcommand (otel-sqlite/src/backup_cli.rs run_backup over  *)
(* otel-sqlite-storage/src/backup.rs): take an online snapshot of the live *)
(* database, optionally encrypt it, prune the directory.  Several backup   *)
(* processes and the server's writer run at once, and any of them may die  *)
(* between two steps.                                                      *)
(*                                                                         *)
(* The directory is the sequence of its artifacts, oldest modification     *)
(* first.  A page holds the source version it was copied from, so a        *)
(* snapshot that mixes two commits is visible.  Three history variables    *)
(* record what the promises of the code depend on.                         *)
(***************************************************************************)
EXTENDS Integers, Sequences, FiniteSets, FiniteSetsExt, SequencesExt

CONSTANTS Procs,         \* backup processes
          Keyed,         \* those given --key-file
          Keep,          \* --keep
          Pages,         \* steps of the online copy
          Frames,        \* frames of the encrypted artifact
          Versions,      \* commits told apart (the source version wraps)
          Faults,        \* subset of {"crash", "error"}
          MaxFaults,     \* bound: faults of a behaviour
          MaxRuns,       \* bound: backups started
          MaxNow         \* bound: the clock, in seconds

BackupAssumption ==
    /\ Keyed \subseteq Procs /\ Keep \in Nat
    /\ {Pages, Frames, Versions} \subseteq Nat \ {0}
    /\ {MaxFaults, MaxRuns, MaxNow} \subseteq Nat

VARIABLES files,    \* [name, body], oldest first
          source,   \* version of the live database
          now,      \* seconds
          runs,     \* backups started
          faults,   \* faults left
          pc, sec, plain, enc, copy, stale, frames, victims,  \* per process
          orphans,   \* history: files that a kill or a failed sync left behind
          disturbed, \* history: whose files another run also named, or pruned
          miscounted \* history: some pruning goes by unfinished files

local   == <<sec, plain, enc, copy, stale, frames, victims>>
history == <<orphans, disturbed, miscounted>>
steps   == <<files, source, now, runs, faults, pc, local>>
vars    == <<steps, history>>

None    == [sec |-> 0, n |-> 0, ext |-> "none"]
Exts    == {"bak", "otsb"}
Partial == [kind |-> "partial", of |-> {}]      \* being written, or left so
Empty   == [kind |-> "empty", of |-> {}]        \* a database without tables
Db(vs)  == [kind |-> "db", of |-> vs]           \* the source versions copied
Enc(vs) == [kind |-> "enc", of |-> vs]

Names == {f.name : f \in Range(files)}
Body(name) == (CHOOSE f \in Range(files) : f.name = name).body
Without(name) == SelectSeq(files, LAMBDA f : f.name /= name)
Written(name, body) == Append(Without(name), [name |-> name, body |-> body])

Complete(body) == body.kind \in {"db", "enc"} /\ Cardinality(body.of) = 1

\* The timestamped name when free, else the first free -<n> suffix.
UniqueBackupPath(s, ext) ==
    LET taken == {m.n : m \in {m \in Names : m.sec = s /\ m.ext = ext}}
    IN [sec |-> s, n |-> Min(0..Cardinality(taken) \ taken), ext |-> ext]

Init ==
    /\ files = <<>> /\ source = 0
    /\ now = 1 /\ runs = 0 /\ faults = MaxFaults
    /\ pc = [p \in Procs |-> "idle"] /\ sec = [p \in Procs |-> 0]
    /\ plain = [p \in Procs |-> None] /\ enc = [p \in Procs |-> None]
    /\ copy = [p \in Procs |-> <<>>] /\ stale = [p \in Procs |-> FALSE]
    /\ frames = [p \in Procs |-> 0] /\ victims = [p \in Procs |-> <<>>]
    /\ orphans = {} /\ disturbed = {} /\ miscounted = FALSE

Ended(p) == pc[p] \in {"idle", "done", "failed", "killed"}

Goto(p, l) == pc' = [pc EXCEPT ![p] = l]

world == <<source, now, runs, faults>>

-----------------------------------------------------------------------------
(* Taking the snapshot *)

\* run_backup names its artifact after the current second.
Start(p) ==
    /\ Ended(p) /\ runs < MaxRuns
    /\ runs' = runs + 1
    /\ sec' = [sec EXCEPT ![p] = now]
    /\ plain' = [plain EXCEPT ![p] = UniqueBackupPath(now, "bak")]
    /\ enc' = [enc EXCEPT ![p] = None]
    /\ copy' = [copy EXCEPT ![p] = <<>>]
    /\ frames' = [frames EXCEPT ![p] = 0]
    /\ Goto(p, "check")
    /\ UNCHANGED <<files, source, now, faults, stale, victims>>

\* backup_to refuses an existing destination, then checks the whole source.
CheckDest(p) ==
    /\ pc[p] = "check"
    /\ Goto(p, IF plain[p] \in Names THEN "failed" ELSE "create")
    /\ UNCHANGED <<files, world, local>>

\* Connection::open creates the destination or opens what is there by now.
Create(p) ==
    /\ pc[p] = "create"
    /\ files' = IF plain[p] \in Names THEN files ELSE Written(plain[p], Partial)
    /\ stale' = [stale EXCEPT ![p] = FALSE]
    /\ Goto(p, "copy")
    /\ UNCHANGED <<world, sec, plain, enc, copy, frames, victims>>

\* The backup API holds the destination's write lock from its first page on.
Locked(p, name) ==
    \E q \in Procs \ {p} : pc[q] = "copy" /\ copy[q] /= <<>> /\ plain[q] = name

\* Slip: a commit between two steps goes unnoticed.
CopyPageUnaware(p) ==
    /\ pc[p] = "copy" /\ ~Locked(p, plain[p])
    /\ copy' = [copy EXCEPT ![p] = Append(copy[p], source)]
    /\ files' = IF plain[p] \notin Names THEN files
                ELSE Written(plain[p], IF Len(copy'[p]) = Pages
                                       THEN Db(Range(copy'[p])) ELSE Partial)
    /\ Goto(p, IF Len(copy'[p]) = Pages THEN "normalise" ELSE "copy")
    /\ UNCHANGED <<world, sec, plain, enc, stale, frames, victims>>

\* Slip: the change that made the copy start over is never forgotten.
CopyPageRestarting(p) ==
    /\ pc[p] = "copy" /\ ~Locked(p, plain[p])
    /\ copy' = [copy EXCEPT ![p] = Append(IF stale[p] THEN <<>> ELSE @, source)]
    /\ files' = IF plain[p] \notin Names THEN files
                ELSE Written(plain[p], IF Len(copy'[p]) = Pages
                                       THEN Db(Range(copy'[p])) ELSE Partial)
    /\ Goto(p, IF Len(copy'[p]) = Pages THEN "normalise" ELSE "copy")
    /\ UNCHANGED <<world, sec, plain, enc, stale, frames, victims>>

\* One step of run_to_completion.  A commit since the last step makes SQLite
\* start over; a busy destination makes the loop sleep and try again.
CopyPage(p) ==
    /\ pc[p] = "copy" /\ ~Locked(p, plain[p])
    /\ copy' = [copy EXCEPT ![p] = Append(IF stale[p] THEN <<>> ELSE @, source)]
    /\ stale' = [stale EXCEPT ![p] = FALSE]
    /\ files' = IF plain[p] \notin Names THEN files
                ELSE Written(plain[p], IF Len(copy'[p]) = Pages
                                       THEN Db(Range(copy'[p])) ELSE Partial)
    /\ Goto(p, IF Len(copy'[p]) = Pages THEN "normalise" ELSE "copy")
    /\ UNCHANGED <<world, sec, plain, enc, frames, victims>>

\* Slip: the cleanup guard is disarmed before the copy is verified.
CleanedUpNothing(p) == {files}

\* What an error of process p may leave of the directory.  RemoveOnDrop deletes
\* the destination of backup_to and encrypt_file its output while it writes
\* frames.  An output that fails to sync stays, and so does everything that was
\* complete; remove_file may or may not have come before the error.
CleanedUp(p) ==
    CASE pc[p] \in {"create", "copy", "normalise", "verify"} -> {Without(plain[p])}
      [] pc[p] = "frames" -> {Without(enc[p])}
      [] pc[p] = "sync" /\ enc[p] \in Names -> {files, Written(enc[p], Partial)}
      [] pc[p] = "remove" -> {files, Without(plain[p])}
      [] OTHER -> {files}

Abandon(p) ==
    /\ files' \in CleanedUp(p)
    /\ Goto(p, "failed")
    /\ UNCHANGED <<world, local>>

\* Opening the destination once more, to fold it into a single file, creates
\* it when it is gone; a locked one is an error after the busy timeout.
Normalise(p) ==
    /\ pc[p] = "normalise"
    /\ IF Locked(p, plain[p])
       THEN Abandon(p)
       ELSE /\ files' = IF plain[p] \in Names
                        THEN Written(plain[p], Body(plain[p]))
                        ELSE Written(plain[p], Empty)
            /\ Goto(p, "verify")
            /\ UNCHANGED <<world, local>>

\* integrity_check and foreign_key_check pass on an empty database too.
VerifyCopy(p) ==
    /\ pc[p] = "verify"
    /\ IF plain[p] \notin Names \/ Locked(p, plain[p])
       THEN Abandon(p)
       ELSE IF Body(plain[p]) = Partial
       THEN Abandon(p)
       ELSE /\ Goto(p, IF p \in Keyed THEN "name" ELSE "list")
            /\ UNCHANGED <<files, world, local>>

-----------------------------------------------------------------------------
(* Encrypting it *)

\* A free name in the second of the snapshot.
NameEncrypted(p) ==
    /\ pc[p] = "name"
    /\ enc' = [enc EXCEPT ![p] = UniqueBackupPath(sec[p], "otsb")]
    /\ Goto(p, "encrypt")
    /\ UNCHANGED <<files, world, sec, plain, copy, stale, frames, victims>>

\* encrypt_file opens the snapshot and creates its output, which must be new:
\* DestinationExists when another run took the name by now.
CreateEncrypted(p) ==
    /\ pc[p] = "encrypt"
    /\ IF plain[p] \notin Names \/ enc[p] \in Names
       THEN Goto(p, "failed") /\ UNCHANGED <<files, local>>
       ELSE /\ copy' = [copy EXCEPT ![p] = SetToSeq(Body(plain[p]).of)]
            /\ files' = Written(enc[p], Partial)
            /\ Goto(p, "frames")
            /\ UNCHANGED <<sec, plain, enc, stale, frames, victims>>
    /\ UNCHANGED world

\* Slip: the last chunk is taken for the end of the file.
WriteFrameShort(p) ==
    /\ pc[p] = "frames"
    /\ frames' = [frames EXCEPT ![p] = @ + 1]
    /\ files' = IF enc[p] \notin Names THEN files
                ELSE Written(enc[p], IF frames'[p] = Frames
                                     THEN Enc(Range(copy[p])) ELSE Partial)
    /\ Goto(p, IF frames'[p] = Max({Frames - 1, 1}) THEN "sync" ELSE "frames")
    /\ UNCHANGED <<world, sec, plain, enc, copy, stale, victims>>

\* One frame per chunk of plaintext, then flush.
WriteFrame(p) ==
    /\ pc[p] = "frames"
    /\ frames' = [frames EXCEPT ![p] = @ + 1]
    /\ files' = IF enc[p] \notin Names THEN files
                ELSE Written(enc[p], IF frames'[p] = Frames
                                     THEN Enc(Range(copy[p])) ELSE Partial)
    /\ Goto(p, IF frames'[p] = Frames THEN "sync" ELSE "frames")
    /\ UNCHANGED <<world, sec, plain, enc, copy, stale, victims>>

\* sync_all, restrict_permissions: the latter wants the file by its name.
SyncEncrypted(p) ==
    /\ pc[p] = "sync"
    /\ Goto(p, IF enc[p] \in Names THEN "remove" ELSE "failed")
    /\ UNCHANGED <<files, world, local>>

\* The plaintext snapshot goes once the encrypted one is synced; then the
\* encrypted one is read for its digest.  Either may be gone: an error.
RemovePlain(p) ==
    /\ pc[p] = "remove"
    /\ files' = Without(plain[p])
    /\ Goto(p, IF {plain[p], enc[p]} \subseteq Names THEN "list" ELSE "failed")
    /\ UNCHANGED <<world, local>>

-----------------------------------------------------------------------------
(* Pruning *)

Newest(fs, n) == SubSeq(fs, Len(fs) - Min({n, Len(fs)}) + 1, Len(fs))
Beyond(fs, n) == SubSeq(fs, 1, Len(fs) - Min({n, Len(fs)}))

\* Slip: one artifact fewer is kept.
ListEager(p) ==
    /\ pc[p] = "list"
    /\ victims' = [victims EXCEPT ![p] =
                     IF Keep = 0 THEN <<>> ELSE Reverse(Beyond(files, Keep - 1))]
    /\ Goto(p, "prune")
    /\ UNCHANGED <<files, world, sec, plain, enc, copy, stale, frames>>

\* prune_old_backups reads the directory once, newest first.
List(p) ==
    /\ pc[p] = "list"
    /\ victims' = [victims EXCEPT ![p] =
                     IF Keep = 0 THEN <<>> ELSE Reverse(Beyond(files, Keep))]
    /\ Goto(p, "prune")
    /\ UNCHANGED <<files, world, sec, plain, enc, copy, stale, frames>>

\* Then it removes the rest one by one; one that is gone already is an error.
RemoveVictim(p) ==
    /\ pc[p] = "prune"
    /\ IF victims[p] = <<>>
       THEN Goto(p, "done") /\ UNCHANGED <<files, victims>>
       ELSE /\ files' = Without(Head(victims[p]).name)
            /\ victims' = [victims EXCEPT ![p] =
                             IF Head(@).name \in Names THEN Tail(@) ELSE <<>>]
            /\ Goto(p, IF Head(victims[p]).name \in Names THEN "prune" ELSE "failed")
    /\ UNCHANGED <<world, sec, plain, enc, copy, stale, frames>>

-----------------------------------------------------------------------------
(* Environment *)

\* A full disk, a failed read, a key that cannot be read, a directory that
\* cannot be listed: any step may fail.
IoError(p) ==
    /\ "error" \in Faults /\ faults > 0 /\ ~Ended(p)
    /\ faults' = faults - 1
    /\ files' \in CleanedUp(p)
    /\ Goto(p, "failed")
    /\ UNCHANGED <<source, now, runs, local>>

\* The process is killed; nothing is cleaned up.
Crash(p) ==
    /\ "crash" \in Faults /\ faults > 0 /\ ~Ended(p)
    /\ faults' = faults - 1
    /\ Goto(p, "killed")
    /\ UNCHANGED <<files, source, now, runs, local>>

\* The server's writer commits a batch.
CommitSource ==
    /\ source' = (source + 1) % Versions
    /\ stale' = [p \in Procs |-> pc[p] = "copy" /\ copy[p] /= <<>>]
    /\ UNCHANGED <<files, now, runs, faults, pc, sec, plain, enc,
                   copy, frames, victims>>

ClockTick ==
    /\ now < MaxNow
    /\ now' = now + 1
    /\ UNCHANGED <<files, source, runs, faults, pc, local>>

Proceed(p) ==
    \/ CheckDest(p) \/ Create(p) \/ CopyPage(p) \/ Normalise(p) \/ VerifyCopy(p)
    \/ NameEncrypted(p) \/ CreateEncrypted(p) \/ WriteFrame(p) \/ SyncEncrypted(p)
    \/ RemovePlain(p) \/ List(p) \/ RemoveVictim(p)

Step ==
    \/ \E p \in Procs : Start(p) \/ Proceed(p) \/ IoError(p) \/ Crash(p)
    \/ CommitSource \/ ClockTick

-----------------------------------------------------------------------------
(* History *)

\* Before the pruning; from then on the artifact is as it should stay.
Working(p) == ~Ended(p) /\ pc[p] \notin {"list", "prune"}

Own(p) == {plain[p], enc[p]}
InHand == UNION {Own(p) : p \in {p \in Procs : Working(p)}}

\* Files no one works on any more, though they may be unfinished.
Orphaned ==
    UNION {Own(p) : p \in {p \in Procs : Working(p) /\ pc'[p] = "killed"}}
        \union {enc[p] : p \in {p \in Procs : pc[p] = "sync" /\ pc'[p] = "failed"}}

\* Another run works under p's name, or prunes a file of p.
Meddled(p) ==
    \E q \in Procs \ {p} :
        \/ Working(p)' /\ ~Ended(q)' /\ plain'[q] = plain'[p]
        \/ victims'[q] /= victims[q] /\ Own(p) \cap (Names \ Names') /= {}

\* p lists the directory while another run is still at work on one of its files,
\* or one of the newest Keep is no backup.
Miscount(p) ==
    /\ pc[p] = "list" /\ pc'[p] = "prune"
    /\ \/ InHand \cap Names /= {}
       \/ \E f \in Range(Newest(files, Keep)) : ~Complete(f.body)

\* A file is created under a name that a pruning has listed.
NameReused ==
    \E p \in Procs : {f.name : f \in Range(victims[p])} \cap (Names' \ Names) /= {}

Remember ==
    /\ orphans' = (orphans \union Orphaned) \cap Names'
    /\ disturbed' = {p \in Procs : Meddled(p) \/ (p \in disturbed /\ ~(Ended(p) /\ ~Ended(p)'))}
    /\ miscounted' = (miscounted \/ NameReused \/ \E p \in Procs : Miscount(p))

Next == Step /\ Remember

Spec == Init /\ [][Next]_vars

\* A process that can take a step takes it.  Nothing is assumed of the server.
Fairness == \A p \in Procs : WF_vars(Proceed(p) /\ Remember)
-----------------------------------------------------------------------------
(* Properties *)

BackupTypeOK ==
    /\ \A f \in Range(files) :
         /\ f.name.sec \in 1..MaxNow /\ f.name.n \in Nat /\ f.name.ext \in Exts
         /\ f.body.kind \in {"partial", "empty", "db", "enc"}
         /\ f.body.of \subseteq 0..Versions - 1
    /\ Cardinality(Names) = Len(files)
    /\ orphans \subseteq Names /\ disturbed \subseteq Procs /\ miscounted \in BOOLEAN
    /\ \A p \in Procs :
         /\ pc[p] \in {"idle", "check", "create", "copy", "normalise", "verify", "name",
                       "encrypt", "frames", "sync", "remove", "list", "prune", "done",
                       "failed", "killed"}
         /\ copy[p] \in BoundedSeq(0..Versions - 1, Pages)
         /\ frames[p] \in 0..Frames

\* A finished snapshot is one committed state of the live database, never a
\* mixture of two, though the writer commits between the steps of the copy
\* (backup_to over the Online Backup API).
SnapshotIsConsistent == \A f \in Range(files) : Cardinality(f.body.of) <= 1

\* When the snapshot or its encryption is reported good, the artifact of that
\* name holds a whole snapshot, whatever failed or was killed beside it, unless
\* another run worked under the same name or pruned the file on the way
\* (unique_backup_path, backup_to, RemoveOnDrop).
ArtifactWritten ==
    \A p \in Procs \ disturbed :
        (pc[p] \in {"verify", "remove"} /\ pc'[p] = "list") =>
            LET name == IF p \in Keyed THEN enc[p] ELSE plain[p]
            IN name \in Names' /\ Complete(Body(name)')

\* A partial file in the directory is the work of a run that goes on, or was
\* left by one that was killed or could not sync its last write: every other
\* error removes what could pass for a backup later (RemoveOnDrop, encrypt_file).
NoPartialLeft ==
    \A f \in Range(files) : f.body = Partial => f.name \in InHand \union orphans

\* Pruning never takes one of the newest Keep completed backups, with several
\* runs pruning at once, as long as none of them listed a file that another was
\* still at work on, counted one that a killed run left, or removes by a name
\* that was given away again (prune_old_backups goes by the names it read).
NewestKept ==
    (\E p \in Procs : victims'[p] /= victims[p]) /\ ~miscounted /\ ~miscounted' =>
        LET done == SelectSeq(files, LAMBDA f : Complete(f.body))
        IN \A f \in Range(Newest(done, Keep)) : f.name \in Names'

\* A commit makes the copy of p start over.
Interrupted(p) == CommitSource /\ stale'[p]

\* A backup under way finishes or fails, while the server ingests as it likes,
\* unless commits interrupt its copy again and again (run_to_completion).
BackupEnds ==
    \A p \in Procs : (~Ended(p) ~> Ended(p)) \/ []<><<Interrupted(p)>>_vars
=============================================================================
