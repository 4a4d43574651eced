----------------------------- MODULE WriterThread -----------------------------
(***************************************************************************)
(* The SQLite writer thread (otel-sqlite-storage, writer.rs): one          *)
(* transaction per batch under the retry and salvage policy, then one      *)
(* ledger operation after another for the tickets of the batch.  On every  *)
(* exit the command receiver is dropped before the ledger is closed.       *)
(***************************************************************************)
EXTENDS PipelineState, Ordered, Functions

CONSTANT MaxTransientRetries    \* MAX_TRANSIENT_RETRIES

ASSUME RetryAssumption == MaxTransientRetries \in Nat

VARIABLES wpc,              \* where the thread is
          cur,              \* the batch being persisted, as a set of at most one
          attempt,          \* persist_with_policy: retries so far
          todo              \* settle_log_batch: ledger operations still to do

writerVars == <<wpc, cur, attempt, todo>>

WriterInit ==
    /\ wpc = "recv"
    /\ cur = {}
    /\ attempt = 0
    /\ todo = <<>>

(* At the top of the loop. *)
Ready == wpc = "recv" /\ Idle("writer")

(* Flush is a no-op for the writer. *)
WRecv ==
    /\ Ready /\ commands # <<>>
    /\ commands' = Tail(commands)
    /\ IF Head(commands).kind = "Flush"
       THEN UNCHANGED <<wpc, cur>>
       ELSE cur' = {Head(commands)} /\ wpc' = "persist"
    /\ UNCHANGED <<ledgerVars, gate, ingest, ingestOpen, commandsOpen, serving, table,
                   attempt, todo>>

(* The rows that violate no constraint of the table. *)
Healthy(batch) == Filter(batch.records, Range(batch.records) \ Poison)
HasPoison(batch) == Range(batch.records) \cap Poison # {}

Note(seg) == [op |-> "note_committed", ticket |-> seg.commitSeq, n |-> seg.records]
(* Seeded fault: the first segment of a split chunk completes its ticket. *)
CompletionOfEverySegment(seg) ==
    <<[op |-> "complete", ticket |-> seg.commitSeq, n |-> 0]>>

Completion(seg) ==
    IF seg.complete THEN <<[op |-> "complete", ticket |-> seg.commitSeq, n |-> 0]>> ELSE <<>>

(* settle_log_batch after the strict pass. *)
Settlement(batch) ==
    Flatten([k \in DOMAIN batch.segments |->
                  <<Note(batch.segments[k])>> \o Completion(batch.segments[k])])

(* Where the segments of a batch end among its records. *)
BatchEnds(batch) ==
    Ends([k \in DOMAIN batch.segments |-> batch.segments[k].records])

(* Seeded fault: the rows of the whole batch are counted for each ticket. *)
SalvagedOfBatch(batch, t, poisoned) ==
    Cardinality({i \in DOMAIN batch.records : (batch.records[i] \in Poison) = poisoned})

(* SalvageOutcome::by_ticket, the rows dropped or the rows kept: those of  *)
(* the segments of the ticket.                                             *)
Salvaged(batch, t, poisoned) ==
    LET end == BatchEnds(batch)
    IN  Cardinality({i \in DOMAIN batch.records :
          /\ \E k \in DOMAIN batch.segments :
               batch.segments[k].commitSeq = t /\ end[k - 1] < i /\ i <= end[k]
          /\ (batch.records[i] \in Poison) = poisoned})

SalvageNotes(batch, t) ==
    LET kept == Salvaged(batch, t, FALSE)
        lost == Salvaged(batch, t, TRUE)
    IN  (IF kept > 0 THEN <<[op |-> "note_committed", ticket |-> t, n |-> kept]>> ELSE <<>>)
        \o (IF lost > 0 THEN <<[op |-> "note_dropped", ticket |-> t, n |-> lost]>> ELSE <<>>)

(* Seeded fault: tickets of a salvaged batch are never completed. *)
SalvageWithoutCompletion(batch) ==
    Flatten([k \in DOMAIN batch.commitSeqs |-> SalvageNotes(batch, batch.commitSeqs[k])])

(* settle_log_batch after a salvage pass: the notes of every ticket first. *)
SalvageSettlement(batch) ==
    Flatten([k \in DOMAIN batch.commitSeqs |-> SalvageNotes(batch, batch.commitSeqs[k])])
      \o Flatten([k \in DOMAIN batch.segments |-> Completion(batch.segments[k])])

(* The strict transaction commits. *)
WCommit ==
    /\ wpc = "persist"
    /\ \E batch \in cur :
         /\ ~HasPoison(batch)
         /\ table' = table \o batch.records
         /\ todo' = Settlement(batch)
    /\ cur' = {}
    /\ attempt' = 0
    /\ wpc' = "settle"
    /\ UNCHANGED <<ledgerVars, channelVars>>

(* Seeded fault: the rows before the violation stay. *)
WPoisonWithoutRollback ==
    /\ wpc = "persist"
    /\ \E batch \in cur : HasPoison(batch) /\ table' = table \o Healthy(batch)
    /\ attempt' = 0
    /\ wpc' = "salvage"
    /\ UNCHANGED <<ledgerVars, channelVars, cur, todo>>

(* A constraint violation rolls the strict transaction back. *)
WPoison ==
    /\ wpc = "persist" /\ \E batch \in cur : HasPoison(batch)
    /\ attempt' = 0
    /\ wpc' = "salvage"
    /\ UNCHANGED <<ledgerVars, channelVars, table, cur, todo>>

(* The tolerant transaction commits the healthy rows. *)
WSalvage ==
    /\ wpc = "salvage"
    /\ \E batch \in cur :
         /\ table' = table \o Healthy(batch)
         /\ todo' = SalvageSettlement(batch)
    /\ cur' = {}
    /\ wpc' = "settle"
    /\ UNCHANGED <<ledgerVars, channelVars, attempt>>

(* BUSY or LOCKED: the strict pass backs off and retries. *)
WBusy ==
    /\ wpc = "persist" /\ "busy" \in Faults
    /\ attempt < MaxTransientRetries
    /\ attempt' = attempt + 1
    /\ UNCHANGED <<ledgerVars, channelVars, table, wpc, cur, todo>>

(* The writer gives up: a fatal error, BUSY with the retries used up, or   *)
(* any error of the salvage pass, which has no retry.                      *)
WGiveUp ==
    /\ \/ wpc \in {"persist", "salvage"} /\ "fatal" \in Faults
       \/ wpc = "persist" /\ "busy" \in Faults /\ attempt = MaxTransientRetries
       \/ wpc = "salvage" /\ "busy" \in Faults
    /\ cur' = {}
    /\ attempt' = 0
    /\ wpc' = "exit"
    /\ UNCHANGED <<ledgerVars, channelVars, table, todo>>

(* One ledger operation of settle_log_batch. *)
Apply(o) ==
    \/ o.op = "note_committed" /\ NoteCommitted("writer", o.ticket, o.n)
    \/ o.op = "note_dropped" /\ NoteDropped("writer", o.ticket, o.n)
    \/ o.op = "complete" /\ Complete("writer", o.ticket)

WSettle ==
    /\ wpc = "settle" /\ todo # <<>>
    /\ Apply(Head(todo))
    /\ todo' = Tail(todo)
    /\ wpc' = IF Len(todo) = 1 THEN "recv" ELSE "settle"
    /\ UNCHANGED <<channelVars, table, cur, attempt>>

(* The unlocked half of complete and of close. *)
WPublish ==
    /\ Publish("writer")
    /\ wpc' = IF wpc = "closing" THEN "dead" ELSE wpc
    /\ UNCHANGED <<channelVars, table, cur, attempt, todo>>

(* The fault-injection knob, or a maintenance command that failed. *)
WFault ==
    /\ Ready /\ "writer exits" \in Faults
    /\ wpc' = "exit"
    /\ UNCHANGED <<ledgerVars, channelVars, table, cur, attempt, todo>>

(* The queue is drained and every sender is gone: the graceful exit. *)
WDisconnected(sendersGone) ==
    /\ Ready /\ commands = <<>> /\ sendersGone
    /\ wpc' = "exit"
    /\ UNCHANGED <<ledgerVars, channelVars, table, cur, attempt, todo>>

(* run_inner returns: its receiver is dropped with what is queued. *)
WExit ==
    /\ wpc = "exit"
    /\ commands' = <<>>
    /\ commandsOpen' = FALSE
    /\ wpc' = "close"
    /\ UNCHANGED <<ledgerVars, gate, ingest, ingestOpen, serving, table, cur, attempt, todo>>

(* Seeded fault: the writer exits without closing the ledger. *)
WLeaveOpen ==
    /\ wpc = "close"
    /\ wpc' = "dead"
    /\ UNCHANGED <<ledgerVars, channelVars, table, cur, attempt, todo>>

(* LedgerCloseOnDrop in run. *)
WClose ==
    /\ wpc = "close"
    /\ Close("writer")
    /\ wpc' = "closing"
    /\ UNCHANGED <<channelVars, table, cur, attempt, todo>>

WriterStep(sendersGone) ==
    \/ WRecv \/ WCommit \/ WPoison \/ WSalvage \/ WSettle \/ WPublish
    \/ WDisconnected(sendersGone) \/ WExit \/ WClose
===============================================================================
