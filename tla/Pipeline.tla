------------------------------- MODULE Pipeline -------------------------------
(***************************************************************************)
(* The ingestion pipeline: request handlers, insert batcher and SQLite     *)
(* writer, interleaved over the queues, the ledger and the table they      *)
(* share.                                                                  *)
(***************************************************************************)
EXTENDS Handlers, BatcherThread, WriterThread

pipelineVars == <<ledgerVars, channelVars, table, handlerVars, batcherVars, writerVars>>

Init == StateInit /\ HandlerInit /\ BatcherInit /\ WriterInit

(* Seeded fault: join keeps its own sender while it waits. *)
CommandSenderKept == FALSE

(* The command queue's senders: the batcher's and the one Storage keeps. *)
CommandSendersGone == ~serving /\ BatcherSenderGone

Handler(r) == HandlerStep(r) /\ UNCHANGED <<batcherVars, writerVars>>
Batcher == BatcherStep(IngestSendersGone) /\ UNCHANGED <<handlerVars, writerVars>>
Writer == WriterStep(CommandSendersGone) /\ UNCHANGED <<handlerVars, batcherVars>>

(* What need not happen: clients hanging up, control messages, shutdown.   *)
Environment ==
    /\ (\E r \in Requests : Abandon(r)) \/ SendFlush \/ StopServing
    /\ UNCHANGED <<batcherVars, writerVars>>

BatcherFailure == (BFault \/ BPanic) /\ UNCHANGED <<handlerVars, writerVars>>
WriterFailure == (WBusy \/ WGiveUp \/ WFault) /\ UNCHANGED <<handlerVars, batcherVars>>

(* Everything has stopped. *)
Stopped ==
    /\ bpc = "dead" /\ wpc = "dead"
    /\ \A r \in Requests : pc[r] \in {"done", "dropped"}
    /\ UNCHANGED pipelineVars

Next ==
    \/ \E r \in Requests : Handler(r)
    \/ Batcher
    \/ Writer
    \/ Environment
    \/ BatcherFailure
    \/ WriterFailure
    \/ Stopped

Spec == Init /\ [][Next]_pipelineVars

(* When each of them can take a step, for the fairness of the threads: a   *)
(* blocking call has what it waits for.                                    *)
HandlerRunnable(r) ==
    \/ pc[r] = "mapped" /\ (gate = {} \/ Len(Work[r]) > IngestCapacity)
    \/ pc[r] \in {"issue", "send", "voided", "sent", "reading"}
    \/ pc[r] = "waiting" /\ (updates.closed \/ updates.committedThrough >= tickets[r][Len(tickets[r])])

BatcherRunnable ==
    \/ bpc = "loop" /\ (ingest # <<>> \/ buffers # <<>> \/ IngestSendersGone)
    \/ bpc \in {"submit", "drain"} /\ (Len(commands) < CommandCapacity \/ ~commandsOpen)
    \/ bpc \in {"leave", "closing", "closed", "input"}

WriterRunnable ==
    \/ Ready /\ (commands # <<>> \/ CommandSendersGone)
    \/ ~Idle("writer")
    \/ wpc \notin {"recv", "dead"}
-------------------------------------------------------------------------------
(* Vocabulary of the properties. *)
SentChunks == UNION {{<<r, c>> : c \in DOMAIN tickets[r]} : r \in Requests}
TicketOf(chunk) == tickets[chunk[1]][chunk[2]]
RecordsIn(chunk) == Range(ChunkRecords(chunk[1], chunk[2]))
OriginOf(record) == Work[record[1]][record[2]].origin

(* Tickets of a sequence of messages, commands or buffers. *)
SegmentTickets(items) ==
    UNION {{seg.commitSeq : seg \in Range(item.segments)} : item \in Range(items)}
LogsOf(messages) == {m \in Range(messages) : m.kind = "Logs"}
InsertsOf(messages) == SelectSeq(messages, LAMBDA m : m.kind = "InsertLogs")

(* Tickets whose chunk, or a part of it, is still on its way. *)
InFlight ==
    {inHand[r] : r \in {q \in Requests : pc[q] \in {"send", "voided"}}}
    \cup {m.commitSeq : m \in LogsOf(ingest)}
    \cup SegmentTickets(buffers)
    \cup SegmentTickets(InsertsOf(outbound))
    \cup SegmentTickets(InsertsOf(commands))
    \cup UNION {SegmentTickets(<<batch>>) : batch \in cur}
    \cup {o.ticket : o \in Range(todo)}

(* Types of the composed state, the admission gate's ownership included. *)
PipelineTypeOK ==
    /\ LedgerTypeOK
    /\ \A r \in Requests : (r \in gate) <=> (pc[r] \in {"issue", "send", "voided"})
    /\ Cardinality(gate) <= 1
    /\ Len(ingest) <= IngestCapacity
    /\ Len(commands) <= CommandCapacity
    /\ ingestOpen \in BOOLEAN /\ commandsOpen \in BOOLEAN
    /\ attempt \in 0..MaxTransientRetries

(* Admission is all-or-nothing: while a handler holds the gate there is    *)
(* room in the ingest queue for every chunk it has not sent yet, so the    *)
(* Full branch of enqueue, which the code calls unreachable, is.           *)
ReservationHolds ==
    \A r \in gate :
        Len(ingest) + Len(Work[r]) - Len(tickets[r]) <= IngestCapacity

(* No record is inserted twice, and the records of an origin are inserted  *)
(* in the order of their tickets, across chunks, batches, salvage passes   *)
(* and retries.                                                            *)
InsertedInOrder ==
    \A k, l \in DOMAIN table :
        k < l /\ OriginOf(table[k]) = OriginOf(table[l]) =>
          LET a == table[k]
              b == table[l]
          IN  \/ tickets[a[1]][a[2]] < tickets[b[1]][b[2]]
              \/ a[1] = b[1] /\ a[2] = b[2] /\ a[3] < b[3]

(* What the ledger says of a ticket is what the table holds of its chunk:  *)
(* Completed is every record, Failed every record but the quarantined      *)
(* ones, and progress never counts a record that is not there.             *)
LedgerMatchesTable ==
    \A chunk \in SentChunks :
        LET s == State(TicketOf(chunk))
            present == Cardinality(RecordsIn(chunk) \cap Rows)
        IN  CASE s.kind = "Completed" -> RecordsIn(chunk) \subseteq Rows
              [] s.kind = "Failed" -> /\ s.committed = present
                                      /\ s.dropped = Cardinality(RecordsIn(chunk) \cap Poison)
                                      /\ s.committed + s.dropped = Cardinality(RecordsIn(chunk))
              [] s.kind = "Unsettled" -> s.committed <= present

(* No ticket leaks: while both receivers live and the batcher has not      *)
(* given up, a ticket that is issued and not settled belongs to a chunk    *)
(* that is still on its way, so the watermark cannot stall on it.          *)
NoTicketLeak ==
    ingestOpen /\ commandsOpen /\ balive /\ wpc # "exit" =>
        \A t \in 1..nextTicket : IsSettled(t) \/ t \in InFlight

(* Flush is a barrier: when it reaches the writer, every ticket issued     *)
(* before it was sent is settled and below the watermark.                  *)
FlushIsBarrier ==
    Ready /\ commands # <<>> /\ Head(commands).kind = "Flush" =>
        committedThrough >= Head(commands).upto

(* The queues keep the order of arrival from the handlers to the table:    *)
(* for the records of an origin, and for a flush among all of them.        *)
OrderIsKept == InsertedInOrder /\ FlushIsBarrier

(* Commit mode keeps the durability contract with exporters: finish        *)
(* answers the truth about the table, whatever fails meanwhile.            *)
Contract == INSTANCE AckContract WITH
    RecordsOf <- RecordsOf, stored <- Rows, answer <- reply

ImplementsContract == Contract!ContractSpec

(* The pipeline uses the ledger only the way LedgerSpec lets its callers:  *)
(* tickets that were issued, no record noted twice.                        *)
ImplementsLedger == LedgerSpec

(* Without failures a shutdown loses nothing: once the writer has exited,  *)
(* every healthy record of every chunk that was queued is in the table.    *)
DrainLosesNothing ==
    wpc = "dead" => \A chunk \in SentChunks : RecordsIn(chunk) \ Poison \subseteq Rows

(* Every handler whose client stays ends with a response. *)
EveryRequestAnswered ==
    \A r \in Requests : <>(pc[r] \in {"done", "dropped"})

(* Once the server has returned, both threads exit: the batcher when the   *)
(* last sender is gone, the writer when it has drained the queue.          *)
ShutdownCompletes == ~serving ~> (bpc = "dead" /\ wpc = "dead")

(* A positive acknowledgement is never wrong, not even when the batcher    *)
(* panics and closes the ledger under a writer that goes on committing:    *)
(* what finish reports as accepted is in the table.                        *)
AcknowledgedIsDurable ==
    \A r \in Requests :
        /\ reply[r] = Ok => RecordsOf(r) \subseteq Rows
        /\ reply[r].kind = "partial" =>
             Total(r) - reply[r].rejected <= Cardinality(RecordsOf(r) \cap Rows)

(* The retryable UNAVAILABLE is kept for requests with nothing durable     *)
(* (finish in logs.rs): what it was said of is never in the table.         *)
UnavailableMeansNothingDurable ==
    \A r \in Requests : reply[r] = Unavailable => RecordsOf(r) \cap Rows = {}
===============================================================================
