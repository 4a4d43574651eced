---------------------------- MODULE HealthEvidence ----------------------------
(***************************************************************************)
(* The evidence the pipeline publishes about its health (stats.rs) and the *)
(* steps of the batcher and the writer that change it, one step per store  *)
(* or per group of stores nobody can read in between.                      *)
(*                                                                         *)
(* A chunk is one record with one ticket.  Time is counted in ticks, and a *)
(* time stamp is kept as its age, which stops growing at Old: every        *)
(* comparison with a threshold gives the same result from there on.  The   *)
(* clock ticks only when no thread has a step it could take at once; a     *)
(* command of the writer takes up to MaxExec ticks, maintenance up to      *)
(* MaxMaintenance, and a wedged command for ever.                          *)
(***************************************************************************)
EXTENDS Naturals, Sequences, FiniteSets, SequencesExt

CONSTANTS BatchAge,         \* batcher_max_batch_age, in ticks
          BatchSize,        \* records of a full batch
          IngestCapacity,   \* capacity of the ingest channel
          QueueCapacity,    \* capacity of the command channel
          MaxGap,           \* longest silence of the clients; Old: no bound
          MaintenanceGap,   \* interval of the scheduler; 0: disabled
          TickInterval,     \* interval of the watchdog
          MaxExec, MaxMaintenance,
          Old,              \* age at which a time stamp stops ageing
          Faults            \* which failures may happen in this instance

EvidenceAssumption ==
    /\ {BatchAge, BatchSize, IngestCapacity, QueueCapacity} \subseteq Nat \ {0}
    /\ {MaxGap, MaintenanceGap, MaxExec, MaxMaintenance, Old} \subseteq Nat
    /\ Faults \subseteq {"wedge", "writer dies", "batcher dies", "leak"}

VARIABLES ingest,     \* chunks in the ingest channel
          batcher,    \* pc, records buffered, records of the batch being sent
          queue,      \* command channel: 0 is maintenance, n an insert of n records
          writer,     \* pc, the command in hand, whether it is wedged
          stats,      \* the published atomics
          age,        \* the age of every time stamp
          leaked      \* tickets whose records were dropped without void

evidenceVars == <<ingest, batcher, queue, writer, stats, age, leaked>>

Stamps == {"writer", "batcher", "advance", "maintenance", "oldest", "exec",
           "client", "schedule", "tick"}

EvidenceInit ==
    /\ ingest = 0
    /\ batcher = [pc |-> "top", buffered |-> 0, out |-> 0]
    /\ queue = <<>>
    /\ writer = [pc |-> "top", cmd |-> 0, wedged |-> FALSE]
    /\ stats = [depth |-> 0, inFlight |-> 0, maintenance |-> FALSE, started |-> FALSE,
                buffered |-> 0, writerRunning |-> TRUE, batcherRunning |-> TRUE]
    /\ age = [s \in Stamps |-> 0]
    /\ leaked = 0

Sum(s) == FoldSeq(LAMBDA n, acc : n + acc, 0, s)
Alive == stats.writerRunning /\ stats.batcherRunning

(* CommitLedger::outstanding_tickets: issued and not settled.  The ticket  *)
(* of a chunk is issued before the chunk enters the ingest channel and     *)
(* settles after its commit.                                               *)
OutstandingTickets ==
    ingest + batcher.buffered + batcher.out + Sum(queue) + leaked
    + (IF writer.pc \in {"begin", "quota", "exec", "settle"} THEN writer.cmd ELSE 0)

(* WriterStats::mark_progress and its twin: the time stamp becomes now.    *)
Marked(stamps) == [s \in Stamps |-> IF s \in stamps THEN 0 ELSE age[s]]

-------------------------------------------------------------------------------
(* Producers: a handler issues a ticket and queues its chunk; the          *)
(* scheduler queues a maintenance command unless the queue is full.        *)
Send ==
    /\ Alive /\ ingest < IngestCapacity /\ age.client > 0
    /\ ingest' = ingest + 1
    /\ age' = Marked({"client"})
    /\ UNCHANGED <<batcher, queue, writer, stats, leaked>>

Schedule ==
    /\ Alive /\ Len(queue) < QueueCapacity
    /\ MaintenanceGap > 0 /\ age.schedule >= MaintenanceGap
    /\ queue' = Append(queue, 0)
    /\ age' = Marked({"schedule"})
    /\ UNCHANGED <<ingest, batcher, writer, stats, leaked>>

-------------------------------------------------------------------------------
(* The batcher thread.                                                     *)
BObserve ==   \* observe_buffered at the top of the loop
    /\ stats.batcherRunning /\ batcher.pc = "top"
    /\ stats' = [stats EXCEPT !.buffered = batcher.buffered]
    /\ batcher' = [batcher EXCEPT !.pc = "recv"]
    /\ UNCHANGED <<ingest, queue, writer, age, leaked>>

BReceive ==   \* a chunk: progress, then push; a full buffer becomes a batch
    /\ stats.batcherRunning /\ batcher.pc = "recv" /\ ingest > 0
    /\ LET n == batcher.buffered + 1 IN
        /\ batcher' = IF n = BatchSize THEN [pc |-> "submit", buffered |-> 0, out |-> n]
                                       ELSE [pc |-> "top", buffered |-> n, out |-> 0]
        /\ age' = Marked({"batcher"} \cup IF n = 1 THEN {"oldest"} ELSE {})
    /\ ingest' = ingest - 1
    /\ UNCHANGED <<queue, writer, stats, leaked>>

BTimer ==     \* the age deadline: recv_timeout gives it only without a message
    /\ stats.batcherRunning /\ batcher.pc = "recv" /\ ingest = 0
    /\ batcher.buffered > 0 /\ age.oldest >= BatchAge
    /\ batcher' = [pc |-> "submit", buffered |-> 0, out |-> batcher.buffered]
    /\ UNCHANGED <<ingest, queue, writer, stats, age, leaked>>

(* Mutant: a submission that does not wait for room.                       *)
BSubmitUnbounded ==
    /\ stats.batcherRunning /\ batcher.pc = "submit" /\ stats.writerRunning
    /\ queue' = Append(queue, batcher.out)
    /\ batcher' = [batcher EXCEPT !.pc = "top", !.out = 0]
    /\ age' = Marked({"batcher"})
    /\ UNCHANGED <<ingest, writer, stats, leaked>>

BSubmit ==    \* submit_log_batch: blocks while the queue is full, then progress
    /\ stats.batcherRunning /\ batcher.pc = "submit"
    /\ stats.writerRunning /\ Len(queue) < QueueCapacity
    /\ queue' = Append(queue, batcher.out)
    /\ batcher' = [batcher EXCEPT !.pc = "top", !.out = 0]
    /\ age' = Marked({"batcher"})
    /\ UNCHANGED <<ingest, writer, stats, leaked>>

BAbandon ==   \* the command receiver is gone: what is held is dropped, the loop ends
    /\ stats.batcherRunning /\ batcher.pc = "submit" /\ ~stats.writerRunning
    /\ batcher' = [pc |-> "top", buffered |-> 0, out |-> 0]
    /\ stats' = [stats EXCEPT !.buffered = 0, !.batcherRunning = FALSE]
    /\ UNCHANGED <<ingest, queue, writer, age, leaked>>

-------------------------------------------------------------------------------
(* The writer thread.                                                      *)
WTop ==
    /\ stats.writerRunning /\ writer.pc = "top"
    /\ stats' = [stats EXCEPT !.depth = Len(queue)]
    /\ writer' = [writer EXCEPT !.pc = "recv"]
    /\ UNCHANGED <<ingest, batcher, queue, age, leaked>>

WReceive ==
    /\ stats.writerRunning /\ writer.pc = "recv" /\ queue # <<>>
    /\ writer' = [writer EXCEPT !.pc = "begin", !.cmd = Head(queue)]
    /\ queue' = Tail(queue)
    /\ UNCHANGED <<ingest, batcher, stats, age, leaked>>

WBegin ==     \* begin_command publishes the backlog and the command in flight
    /\ stats.writerRunning /\ writer.pc = "begin"
    /\ stats' = [stats EXCEPT !.depth = Len(queue), !.inFlight = 1]
    /\ age' = Marked({"exec"})
    /\ \E next \in IF writer.cmd = 0 THEN {"guard"} ELSE {"exec", "quota"} :
            writer' = [writer EXCEPT !.pc = next]
    /\ UNCHANGED <<ingest, batcher, queue, leaked>>

(* maintenance_guard: the start is stored before the flag.  enforce_quota  *)
(* takes the guard before an insert, execute before a maintenance command. *)
WGuard ==
    /\ stats.writerRunning /\ writer.pc \in {"guard", "quota"} /\ ~stats.started
    /\ stats' = [stats EXCEPT !.started = TRUE, !.maintenance = TRUE]
    /\ age' = Marked({"maintenance"})
    /\ UNCHANGED <<ingest, batcher, queue, writer, leaked>>

(* A maintenance command marks progress when it ran; one that was deferred *)
(* behind a backlog, or a quota pass that failed, does not.                *)
WMaintained ==
    /\ stats.writerRunning /\ ~writer.wedged
    /\ writer.pc \in {"guard", "quota"} /\ stats.maintenance
    /\ \E ran \in BOOLEAN : age' = Marked(IF ran THEN {"writer", "exec"} ELSE {"exec"})
    /\ stats' = [stats EXCEPT !.maintenance = FALSE, !.started = FALSE]
    /\ writer' = [writer EXCEPT !.pc = IF writer.pc = "quota" THEN "exec" ELSE "end"]
    /\ UNCHANGED <<ingest, batcher, queue, leaked>>

(* Mutant: a commit is not marked as progress.                             *)
WCommitUnmarked ==
    /\ stats.writerRunning /\ ~writer.wedged /\ writer.pc = "exec"
    /\ writer' = [writer EXCEPT !.pc = "settle"]
    /\ UNCHANGED <<ingest, batcher, queue, stats, age, leaked>>

WCommit ==    \* run_transaction marks progress when the transaction committed
    /\ stats.writerRunning /\ ~writer.wedged /\ writer.pc = "exec"
    /\ age' = Marked({"writer"})
    /\ writer' = [writer EXCEPT !.pc = "settle"]
    /\ UNCHANGED <<ingest, batcher, queue, stats, leaked>>

(* settle_log_batch: the watermark advances unless an earlier ticket leaked *)
WSettle ==
    /\ stats.writerRunning /\ writer.pc = "settle"
    /\ age' = Marked(IF leaked = 0 THEN {"advance"} ELSE {})
    /\ writer' = [writer EXCEPT !.pc = "end"]
    /\ UNCHANGED <<ingest, batcher, queue, stats, leaked>>

WEnd ==       \* the in-flight guard is dropped at the end of the loop body
    /\ stats.writerRunning /\ writer.pc = "end"
    /\ stats' = [stats EXCEPT !.inFlight = 0]
    /\ writer' = [writer EXCEPT !.pc = "top"]
    /\ UNCHANGED <<ingest, batcher, queue, age, leaked>>

-------------------------------------------------------------------------------
(* Failures: a command that never returns, a thread that ends, and records *)
(* dropped without voiding their ticket (here the oldest buffered one).    *)
Wedge ==
    /\ "wedge" \in Faults /\ stats.writerRunning /\ ~writer.wedged
    /\ writer.pc = "exec" \/ (writer.pc \in {"guard", "quota"} /\ stats.maintenance)
    /\ writer' = [writer EXCEPT !.wedged = TRUE]
    /\ UNCHANGED <<ingest, batcher, queue, stats, age, leaked>>

(* RunningGuard, InFlightGuard and MaintenanceGuard are dropped on exit.   *)
WriterDies ==
    /\ "writer dies" \in Faults /\ stats.writerRunning /\ ~writer.wedged
    /\ stats' = [stats EXCEPT !.writerRunning = FALSE, !.inFlight = 0,
                              !.maintenance = FALSE, !.started = FALSE]
    /\ UNCHANGED <<ingest, batcher, queue, writer, age, leaked>>

BatcherDies ==
    /\ "batcher dies" \in Faults /\ stats.batcherRunning
    /\ stats' = [stats EXCEPT !.batcherRunning = FALSE]
    /\ UNCHANGED <<ingest, batcher, queue, writer, age, leaked>>

Leak ==
    /\ "leak" \in Faults /\ leaked = 0 /\ stats.batcherRunning
    /\ batcher.pc = "top" /\ batcher.buffered > 0
    /\ queue = <<>> /\ writer.pc \in {"top", "recv"}
    /\ batcher' = [batcher EXCEPT !.buffered = @ - 1]
    /\ leaked' = 1
    /\ UNCHANGED <<ingest, queue, writer, stats, age>>

-------------------------------------------------------------------------------
Executing ==
    \/ writer.pc = "exec"
    \/ writer.pc \in {"guard", "quota"} /\ stats.maintenance

BatcherStep == BObserve \/ BReceive \/ BTimer \/ BSubmit \/ BAbandon
WriterStep == WTop \/ WReceive \/ WBegin \/ WGuard \/ WMaintained \/ WCommit
              \/ WSettle \/ WEnd
EvidenceStep == Send \/ Schedule \/ BatcherStep \/ WriterStep
                \/ Wedge \/ WriterDies \/ BatcherDies \/ Leak

(* A thread that could take a step at once.                                *)
BatcherReady ==
    /\ stats.batcherRunning
    /\ \/ batcher.pc = "top"
       \/ batcher.pc = "recv" /\ (ingest > 0 \/ (batcher.buffered > 0 /\ age.oldest >= BatchAge))
       \/ batcher.pc = "submit" /\ (~stats.writerRunning \/ Len(queue) < QueueCapacity)
WriterReady ==
    /\ stats.writerRunning /\ ~writer.wedged
    /\ writer.pc = "recv" => queue # <<>>
    /\ Executing => age.exec >= IF stats.maintenance THEN MaxMaintenance ELSE MaxExec
ClientsDue == Alive /\ MaxGap < Old /\ age.client >= MaxGap /\ ingest < IngestCapacity

(* The age from which no reader of the stamp can tell the difference; 0    *)
(* for a stamp that nobody reads until it is set again.                    *)
Cap(s) ==
    CASE s = "oldest" -> IF batcher.buffered = 0 THEN 0 ELSE BatchAge
      [] s = "exec" -> IF Executing THEN MaxExec + MaxMaintenance ELSE 0
      [] s = "maintenance" -> IF stats.started THEN Old ELSE 0
      [] s = "client" -> IF MaxGap < Old THEN MaxGap ELSE Old - BatchAge
      [] s = "schedule" -> MaintenanceGap
      [] s = "tick" -> TickInterval
      [] OTHER -> Old
Elapse == age' = [s \in Stamps |-> IF age[s] < Cap(s) THEN age[s] + 1 ELSE Cap(s)]
Quiet == ~BatcherReady /\ ~WriterReady /\ ~ClientsDue
===============================================================================
