----------------------------- MODULE BatcherThread -----------------------------
(***************************************************************************)
(* The insert batcher thread (otel-sqlite-storage, batcher.rs): it takes   *)
(* chunks off the ingest queue, groups them per origin (InsertBatching)    *)
(* and submits the batches to the writer, blocking while the command queue *)
(* is full.  Once the writer is gone it closes the ledger.                 *)
(*                                                                         *)
(* Deadlines are ranks: a deadline armed now is later than every deadline  *)
(* still armed.                                                            *)
(***************************************************************************)
EXTENDS PipelineState, InsertBatching

VARIABLES buffers,          \* OriginBuffers
          bpc,              \* where the thread is
          outbound,         \* commands the current event has still to submit
          balive            \* the local flag alive

batcherVars == <<buffers, bpc, outbound, balive>>

BatcherInit ==
    /\ buffers = <<>>
    /\ bpc = "loop"
    /\ outbound = <<>>
    /\ balive = TRUE

NextDue == 1 + Len(buffers)

(* WriteCommand::InsertLogs *)
InsertLogs(submission) ==
    [kind |-> "InsertLogs", records |-> submission.records,
     segments |-> submission.segments, commitSeqs |-> CommitSeqs(submission)]

Inserts(submissions) ==
    [k \in DOMAIN submissions |-> InsertLogs(submissions[k])]

(* Ranks of the deadlines, so that the state stays finite. *)
Ranked(bufs) ==
    [k \in DOMAIN bufs |-> [bufs[k] EXCEPT !.deadline =
        Cardinality({j \in DOMAIN bufs : bufs[j].deadline <= bufs[k].deadline})]]

(* The event leaves these buffers, and these commands to submit. *)
Handled(result, commandsOut, there) ==
    /\ buffers' = Ranked(result.buffers)
    /\ outbound' = commandsOut
    /\ bpc' = there
    /\ UNCHANGED balive

BRecvLogs ==
    /\ bpc = "loop" /\ ingest # <<>> /\ Head(ingest).kind = "Logs"
    /\ ingest' = Tail(ingest)
    /\ LET chunk == Head(ingest)
           pushed == Push(buffers, Work[chunk.request][chunk.chunk].origin,
                          ChunkRecords(chunk.request, chunk.chunk), chunk.commitSeq,
                          NextDue)
       IN  Handled(pushed, Inserts(pushed.out),
                   IF pushed.out = <<>> THEN "loop" ELSE "submit")
    /\ UNCHANGED <<ledgerVars, gate, ingestOpen, commands, commandsOpen, serving, table>>

(* Seeded fault: the barrier overtakes the partial batches. *)
BRecvFlushFirst ==
    /\ bpc = "loop" /\ ingest # <<>> /\ Head(ingest).kind = "Flush"
    /\ ingest' = Tail(ingest)
    /\ LET flushed == FlushAll(buffers)
       IN  Handled(flushed, <<Head(ingest)>> \o Inserts(flushed.out), "submit")
    /\ UNCHANGED <<ledgerVars, gate, ingestOpen, commands, commandsOpen, serving, table>>

(* Barrier: the partial batches go first. *)
BRecvFlush ==
    /\ bpc = "loop" /\ ingest # <<>> /\ Head(ingest).kind = "Flush"
    /\ ingest' = Tail(ingest)
    /\ LET flushed == FlushAll(buffers)
       IN  Handled(flushed, Append(Inserts(flushed.out), Head(ingest)), "submit")
    /\ UNCHANGED <<ledgerVars, gate, ingestOpen, commands, commandsOpen, serving, table>>

(* recv_timeout prefers a message: the timer fires on an empty queue only. *)
BTimer ==
    /\ bpc = "loop" /\ ingest = <<>>
    /\ \E now \in {b.deadline : b \in Range(buffers)} :
         LET flushed == FlushExpired(buffers, now)
         IN  Handled(flushed, Inserts(flushed.out), "submit")
    /\ UNCHANGED <<ledgerVars, channelVars, table>>

(* Seeded fault: the partial batches are not flushed. *)
DrainNothing == Handled([buffers |-> <<>>], <<>>, "leave")

(* After the loop, still alive: flush every partial batch. *)
Drain ==
    LET flushed == FlushAll(buffers)
    IN  Handled(flushed, Inserts(flushed.out),
                IF flushed.out = <<>> THEN "leave" ELSE "drain")

BDisconnected(sendersGone) ==
    /\ bpc = "loop" /\ ingest = <<>> /\ sendersGone
    /\ Drain
    /\ UNCHANGED <<ledgerVars, channelVars, table>>

(* The fault-injection knob leaves the loop with alive still set. *)
BFault ==
    /\ bpc = "loop" /\ "batcher exits" \in Faults
    /\ Drain
    /\ UNCHANGED <<ledgerVars, channelVars, table>>

AfterSubmit(stillAlive) ==
    bpc' = IF Len(outbound) > 1 THEN bpc
           ELSE IF bpc = "submit" /\ stillAlive THEN "loop" ELSE "leave"

(* Seeded fault: the bound of the command queue is ignored. *)
BSubmitUnbounded ==
    /\ bpc \in {"submit", "drain"} /\ commandsOpen
    /\ commands' = Append(commands, Head(outbound))
    /\ outbound' = Tail(outbound)
    /\ AfterSubmit(balive)
    /\ UNCHANGED <<ledgerVars, gate, ingest, ingestOpen, commandsOpen, serving, table,
                   buffers, balive>>

(* submit blocks while the queue is full. *)
BSubmit ==
    /\ bpc \in {"submit", "drain"} /\ commandsOpen
    /\ Len(commands) < CommandCapacity
    /\ commands' = Append(commands, Head(outbound))
    /\ outbound' = Tail(outbound)
    /\ AfterSubmit(balive)
    /\ UNCHANGED <<ledgerVars, gate, ingest, ingestOpen, commandsOpen, serving, table,
                   buffers, balive>>

(* The writer is gone: the records of the command are dropped. *)
BSubmitFails ==
    /\ bpc \in {"submit", "drain"} /\ ~commandsOpen
    /\ outbound' = Tail(outbound)
    /\ balive' = FALSE
    /\ AfterSubmit(FALSE)
    /\ UNCHANGED <<ledgerVars, channelVars, table, buffers>>

(* A panic unwinds: buffers are lost and LedgerCloseOnDrop closes. *)
BPanic ==
    /\ bpc \in {"loop", "submit", "drain"} /\ "batcher panics" \in Faults
    /\ buffers' = <<>>
    /\ outbound' = <<>>
    /\ balive' = FALSE
    /\ bpc' = "leave"
    /\ UNCHANGED <<ledgerVars, channelVars, table>>

(* Not alive: nothing pending can be completed, every waiter must fail. *)
BClose ==
    /\ bpc = "leave" /\ ~balive
    /\ Close("batcher")
    /\ buffers' = <<>>
    /\ bpc' = "closing"
    /\ UNCHANGED <<channelVars, table, outbound, balive>>

BPublish ==
    /\ bpc = "closing"
    /\ Publish("batcher")
    /\ bpc' = "closed"
    /\ UNCHANGED <<channelVars, table, buffers, outbound, balive>>

(* drop(commands); when alive the writer closes the ledger itself. *)
BDropCommands ==
    /\ (bpc = "leave" /\ balive) \/ bpc = "closed"
    /\ bpc' = "input"
    /\ UNCHANGED <<ledgerVars, channelVars, table, buffers, outbound, balive>>

(* The receiver goes last; what is still queued goes with it. *)
BDropInput ==
    /\ bpc = "input"
    /\ ingest' = <<>>
    /\ ingestOpen' = FALSE
    /\ bpc' = "dead"
    /\ UNCHANGED <<ledgerVars, gate, commands, commandsOpen, serving, table, buffers,
                   outbound, balive>>

(* The batcher's command sender is dropped. *)
BatcherSenderGone == bpc \in {"input", "dead"}

BatcherStep(sendersGone) ==
    \/ BRecvLogs \/ BRecvFlush \/ BTimer \/ BDisconnected(sendersGone)
    \/ BSubmit \/ BSubmitFails
    \/ BClose \/ BPublish \/ BDropCommands \/ BDropInput
===============================================================================
