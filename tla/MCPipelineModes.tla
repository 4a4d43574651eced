--------------------------- MODULE MCPipelineModes ---------------------------
(***************************************************************************)
(* The pipeline in the settings that pipeline_commit leaves out, one to a  *)
(* behaviour: enqueue mode without failures, a batcher that panics, fair   *)
(* threads with a writer that fails.                                       *)
(***************************************************************************)
EXTENDS Naturals, Sequences, TLC

CONSTANTS r1, r2, r3, r4, o1, o2

VARIABLES setting,
    nextTicket, settledAbove, committedThrough, committed, dropped, failed, closed,
    updates, outbox,                                           \* CommitLedger
    gate, ingest, ingestOpen, commands, commandsOpen, serving, table,
    pc, inHand, tickets, tally, reply, flushes,                \* Handlers
    buffers, bpc, outbound, balive,                            \* BatcherThread
    wpc, cur, attempt, todo                                    \* WriterThread

Chunk(o, n) == [origin |-> o, size |-> n]

\* A request of two origins and one of a single chunk.
TwoRequests == (r1 :> <<Chunk(o1, 1), Chunk(o2, 2)>>) @@ (r2 :> <<Chunk(o1, 2)>>)

\* The same with an empty request and one of more chunks than the queue.
FourRequests ==
    TwoRequests @@ (r3 :> <<>>)
                @@ (r4 :> <<Chunk(o1, 1), Chunk(o2, 1), Chunk(o1, 1)>>)

Threads == {"batcher", "writer"}
SecondIsPoison == {<<r2, 1, 1>>}

Queued == INSTANCE Pipeline WITH
    Requests <- {r1, r2, r3, r4}, Work <- FourRequests, Poison <- SecondIsPoison,
    Actors <- {r1, r2, r3, r4} \cup Threads, Durability <- "enqueue", Faults <- {},
    IngestCapacity <- 2, CommandCapacity <- 1, MaxBatchRecords <- 2,
    MaxTransientRetries <- 1, MaxFlushes <- 0, MaxTicket <- 3, MaxRecords <- 2

Dying == INSTANCE Pipeline WITH
    Requests <- {r1, r2}, Work <- TwoRequests, Poison <- SecondIsPoison,
    Actors <- {r1, r2} \cup Threads, Durability <- "commit",
    Faults <- {"batcher panics", "fatal"},
    IngestCapacity <- 2, CommandCapacity <- 1, MaxBatchRecords <- 2,
    MaxTransientRetries <- 1, MaxFlushes <- 0, MaxTicket <- 3, MaxRecords <- 2

Live == INSTANCE Pipeline WITH
    Requests <- {r1, r2}, Work <- TwoRequests, Poison <- SecondIsPoison,
    Actors <- {r1, r2} \cup Threads, Durability <- "commit",
    Faults <- {"busy", "fatal", "writer exits"},
    IngestCapacity <- 2, CommandCapacity <- 1, MaxBatchRecords <- 2,
    MaxTransientRetries <- 1, MaxFlushes <- 0, MaxTicket <- 3, MaxRecords <- 2

ModesInit ==
    /\ setting \in {"queued", "dying", "live"}
    /\ IF setting = "queued" THEN Queued!Init ELSE Live!Init

ModesNext ==
    /\ UNCHANGED setting
    /\ CASE setting = "queued" -> Queued!Next
         [] setting = "dying"  -> Dying!Next
         [] setting = "live"   -> Live!Next

modesVars == <<setting, Live!pipelineVars>>
ModesSpec == ModesInit /\ [][ModesNext]_modesVars

ASSUME ModesAssumption ==
    /\ Queued!PipelineAssumption /\ Dying!PipelineAssumption /\ Live!PipelineAssumption

\* Handler tasks, the batcher and the writer run when they can: weak fairness,
\* written with the conditions of Pipeline in place of ENABLED.
LiveFairness ==
    /\ \A r \in {r1, r2} : \/ []<>~Live!HandlerRunnable(r)
                          \/ []<><<setting = "live" /\ Live!Handler(r)>>_modesVars
    /\ []<>~Live!BatcherRunnable \/ []<><<setting = "live" /\ Live!Batcher>>_modesVars
    /\ []<>~Live!WriterRunnable \/ []<><<setting = "live" /\ Live!Writer>>_modesVars

-----------------------------------------------------------------------------
\* In enqueue mode and without failures a shutdown loses nothing: once the
\* writer has exited, every healthy record that was queued is in the table.
DrainLosesNothing == setting = "queued" => Queued!DrainLosesNothing

\* A positive acknowledgement is never wrong, not even when the batcher panics
\* and closes the ledger under a writer that goes on committing.
AcknowledgedIsDurable == setting = "dying" => Dying!AcknowledgedIsDurable

\* With fair threads every handler whose client stays ends with a response,
\* whatever the writer meets.
EveryRequestAnswered == setting = "live" => (LiveFairness => Live!EveryRequestAnswered)

\* Once the server has returned both threads exit.
ShutdownCompletes == setting = "live" => (LiveFairness => Live!ShutdownCompletes)
=============================================================================
