------------------------------ MODULE Restore ------------------------------
(***************************************************************************)
(* The `restore` subcommand and the encrypted artifact format              *)
(* (otel-sqlite/src/backup_cli.rs run_restore, otel-sqlite-storage/src/    *)
(* backup.rs restore_into, decrypt_to): authenticate and decrypt an        *)
(* artifact frame by frame, verify the plaintext, copy it into a clean     *)
(* directory, verify the copy.                                             *)
(*                                                                         *)
(* The backed-up database is the sequence of its pages; one frame carries  *)
(* one page.  An artifact may have been cut, reordered or altered.         *)
(***************************************************************************)
EXTENDS Integers, Sequences, FiniteSets, SequencesExt

CONSTANTS Pages,        \* pages of the backed-up database
          Artifacts,    \* artifacts an operator may hold
          Keys,         \* subset of {"right", "wrong", "none"}
          Faults,       \* subset of {"error", "crash", "copy"}
          MaxFaults,    \* bound: faults of a behaviour
          MaxRuns       \* bound: restores started

RestoreAssumption ==
    /\ Pages \in Nat \ {0} /\ MaxFaults \in Nat /\ MaxRuns \in Nat
    /\ Keys \subseteq {"right", "wrong", "none"}

Altered == 0                          \* a page whose bytes were changed
Whole   == [i \in 1..Pages |-> i]
Absent  == <<-1>>                     \* no such file

\* A v2 frame: length prefix, then the ciphertext of page `page` under the
\* nonce of index `index`.  "short" is an end of file inside the field.
Frame(i) == [len |-> "ok", body |-> "ok", index |-> i, page |-> i]

VARIABLES artifact,  \* [magic, version, nonce, frames], fixed
          key,       \* --key-file of this run
          temp,      \* otel-logs.db.decrypting
          target,    \* otel-logs.db in the destination directory
          pc, frame, before, runs, faults

vars == <<artifact, key, temp, target, pc, frame, before, runs, faults>>

Init ==
    /\ artifact \in Artifacts
    /\ key \in Keys
    /\ temp = Absent
    /\ target \in {Absent, Whole}     \* the directory may hold a database
    /\ pc = "start" /\ frame = 1 /\ before = <<>> /\ runs = 1
    /\ faults = MaxFaults

Encrypted == artifact.magic

\* The bytes of an artifact that is a plain database.
Plain == [i \in 1..Len(artifact.frames) |-> artifact.frames[i].page]

-----------------------------------------------------------------------------
(* Decryption *)

\* AES-GCM authenticates the ciphertext under the nonce the reader expects.
Authentic(f, i) == key = "right" /\ f.index = i /\ f.page /= Altered

\* Slip: the temporary plaintext is left when a frame does not authenticate.
RefuseKeepingTemp ==
    /\ pc' = "failed"
    /\ UNCHANGED <<artifact, key, temp, target, frame, before, runs, faults>>

\* Leaving restore_into with an error before the copy: the temporary file is
\* removed, a target that was there already is not touched.
Refuse ==
    /\ temp' = Absent
    /\ pc' = "failed"
    /\ UNCHANGED <<artifact, key, target, frame, before, runs, faults>>

\* Slip: the guard that removes the target is armed before the checks.
CheckTargetGuarded ==
    /\ pc = "start"
    /\ IF (Encrypted /\ key = "none") \/ target /= Absent \/ temp /= Absent
       THEN /\ pc' = "failed" /\ target' = Absent
            /\ UNCHANGED <<artifact, key, temp, frame, before, runs, faults>>
       ELSE /\ pc' = IF key = "none" THEN "verify" ELSE "header"
            /\ frame' = 1
            /\ UNCHANGED <<artifact, key, temp, target, before, runs, faults>>

\* run_restore wants a key for an encrypted artifact; restore_into wants a
\* destination without a database and without any other file.
CheckTarget ==
    /\ pc = "start"
    /\ IF (Encrypted /\ key = "none") \/ target /= Absent \/ temp /= Absent
       THEN /\ pc' = "failed"
            /\ UNCHANGED <<artifact, key, temp, target, frame, before, runs, faults>>
       ELSE /\ pc' = IF key = "none" THEN "verify" ELSE "header"
            /\ frame' = 1
            /\ UNCHANGED <<artifact, key, temp, target, before, runs, faults>>

\* decrypt_to: magic, version, then the body of that version.  A v1 body is
\* one ciphertext, so only the artifact as it was written authenticates.
ReadHeader ==
    /\ pc = "header"
    /\ IF ~artifact.magic \/ artifact.version \notin {1, 2} \/ ~artifact.nonce
       THEN Refuse
       ELSE IF artifact.version = 2
       THEN /\ temp' = <<>> /\ pc' = "frames"
            /\ UNCHANGED <<artifact, key, target, frame, before, runs, faults>>
       ELSE IF key = "right" /\ artifact.frames = [i \in 1..Pages |-> Frame(i)]
       THEN /\ temp' = Whole /\ pc' = "verify"
            /\ UNCHANGED <<artifact, key, target, frame, before, runs, faults>>
       ELSE Refuse

\* Slip: the frame's own position is trusted instead of the reader's count.
FrameAcceptedAnywhere(f, i) ==
    /\ f.len = "ok" /\ f.body = "ok"
    /\ key = "right" /\ f.page /= Altered

FrameAccepted(f, i) ==
    /\ f.len = "ok"      \* whole, not zero, within MAX_FRAME_CIPHERTEXT
    /\ f.body = "ok"     \* as many bytes as announced
    /\ Authentic(f, i)

\* One turn of decrypt_v2_body's loop; the end of the file between two frames
\* is the end of the backup.
ReadFrame ==
    /\ pc = "frames"
    /\ IF frame > Len(artifact.frames)
       THEN /\ pc' = "verify"
            /\ UNCHANGED <<artifact, key, temp, target, frame, before, runs, faults>>
       ELSE IF FrameAccepted(artifact.frames[frame], frame)
       THEN /\ temp' = Append(temp, artifact.frames[frame].page)
            /\ frame' = frame + 1
            /\ UNCHANGED <<artifact, key, target, pc, before, runs, faults>>
       ELSE Refuse

-----------------------------------------------------------------------------
(* Verification and copy *)

\* integrity_check and foreign_key_check: a file shorter than its header says
\* is malformed, an empty file is an empty database, and altered bytes inside
\* a row go unnoticed.
Sound(db) == Len(db) \in {0, Pages}

\* The copy has the digest of what was verified.
SameAsVerified(db) == Sound(db) /\ db = before

VerifyBefore ==
    /\ pc = "verify"
    /\ LET db == IF key = "none" THEN Plain ELSE temp
       IN IF Sound(db)
          THEN /\ before' = db /\ pc' = "copy"
               /\ UNCHANGED <<artifact, key, temp, target, frame, runs, faults>>
          ELSE Refuse

\* fs::copy; a faulty disk may store something else.
Copy ==
    /\ pc = "copy"
    /\ \/ target' = before /\ UNCHANGED faults
       \/ /\ "copy" \in Faults /\ faults > 0 /\ before /= <<>>
          /\ target' \in {[before EXCEPT ![1] = Altered], Front(before)}
          /\ faults' = faults - 1
    /\ pc' = "verify_copy"
    /\ UNCHANGED <<artifact, key, temp, frame, before, runs>>

\* Past this point an error also removes the target (RemoveOnDrop).
VerifyCopy ==
    /\ pc = "verify_copy"
    /\ temp' = Absent
    /\ IF SameAsVerified(target)
       THEN pc' = "done" /\ UNCHANGED target
       ELSE pc' = "failed" /\ target' = Absent
    /\ UNCHANGED <<artifact, key, frame, before, runs, faults>>

\* An I/O error of any step.
IoError ==
    /\ "error" \in Faults /\ faults > 0
    /\ pc \in {"header", "frames", "verify", "copy", "verify_copy"}
    /\ faults' = faults - 1
    /\ temp' = Absent /\ pc' = "failed"
    /\ target' = IF pc \in {"copy", "verify_copy"} THEN Absent ELSE target
    /\ UNCHANGED <<artifact, key, frame, before, runs>>

\* The process dies, possibly in the middle of the copy.
Crash ==
    /\ "crash" \in Faults /\ faults > 0
    /\ pc \in {"header", "frames", "verify", "copy", "verify_copy"}
    /\ faults' = faults - 1 /\ pc' = "crashed"
    /\ target' \in IF pc = "copy" THEN {target, before} \union {SubSeq(before, 1, n) : n \in 0..Len(before)}
                   ELSE {target}
    /\ UNCHANGED <<artifact, key, temp, frame, before, runs>>

\* The operator tries again, perhaps with another key.
Retry ==
    /\ pc \in {"failed", "crashed"} /\ runs < MaxRuns
    /\ runs' = runs + 1 /\ pc' = "start" /\ frame' = 1 /\ before' = <<>>
    /\ key' \in Keys
    /\ UNCHANGED <<artifact, temp, target, faults>>

Step == CheckTarget \/ ReadHeader \/ ReadFrame \/ VerifyBefore \/ Copy \/ VerifyCopy

Next == Step \/ IoError \/ Crash \/ Retry

Spec == Init /\ [][Next]_vars

-----------------------------------------------------------------------------
(* Properties *)

File == {Absent} \union UNION {[1..n -> 0..Pages] : n \in 0..Pages + 1}

RestoreTypeOK ==
    /\ temp \in File /\ target \in File
    /\ before \in File /\ frame \in 1..Pages + 2
    /\ pc \in {"start", "header", "frames", "verify", "copy", "verify_copy",
               "done", "failed", "crashed"}

\* Whatever was cut, reordered or altered in an encrypted artifact, and whatever
\* the disk did to the copy, a restore that reports success installed exactly the
\* backed-up database, or an empty one if not a single frame was left
\* (decrypt_v2_body, decrypt_v1_body, restore_into).
RestoredIsBackup ==
    (pc = "done" /\ Encrypted) =>
        target = Whole \/ (artifact.frames = <<>> /\ target = <<>>)

\* A restore that fails leaves neither a partial database nor decrypted
\* plaintext of its own behind (RemoveOnDrop, TempGuard).
NothingLeft ==
    (pc \in {"header", "frames", "verify", "copy", "verify_copy"} /\ pc' = "failed")
        => (target' = Absent /\ temp' = Absent)

\* A database in the destination directory that this restore did not put
\* there stays as it was, through every failure, crash and retry.
DatabaseStays == (target /= Absent /\ pc /= "verify_copy") => target' = target
=============================================================================
