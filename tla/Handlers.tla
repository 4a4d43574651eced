------------------------------- MODULE Handlers -------------------------------
(***************************************************************************)
(* The OTLP log handlers (otel-sqlite-ingress: logs.rs, enqueue.rs and     *)
(* IngestSender in lib.rs), from the mapped request to the wire response.  *)
(* Every mapped chunk takes a ticket and a slot of the ingest queue while  *)
(* the handler holds the admission gate; in commit mode the handler then   *)
(* waits for the watermark to cover its last ticket and asks the ledger    *)
(* what became of each.                                                    *)
(***************************************************************************)
EXTENDS PipelineState, FiniteSetsExt

CONSTANTS Durability,       \* DurabilityMode: "commit" or "enqueue"
          MaxFlushes        \* bound on Flush control messages

ASSUME HandlerAssumption ==
    Durability \in {"commit", "enqueue"} /\ MaxFlushes \in Nat

VARIABLES pc,               \* per request: where its handler is
          inHand,           \* per request: ticket issued and not yet sent
          tickets,          \* EnqueueOutcome::tickets, the ticket of each chunk sent
          tally,            \* finish: tickets read, records committed, any failed
          reply,            \* per request: the wire response
          flushes           \* Flush messages sent so far

handlerVars == <<pc, inHand, tickets, tally, reply, flushes>>

NoReply == [kind |-> "none"]
Ok == [kind |-> "ok"]
Unavailable == [kind |-> "unavailable"]
InvalidArgument == [kind |-> "invalid"]
PartialSuccess(n) == [kind |-> "partial", rejected |-> n]

Total(r) == Cardinality(RecordsOf(r))

(* EnqueueOutcome::accepted: the records of the chunks sent. *)
Accepted(r) == MapThenSumSet(LAMBDA c : Work[r][c].size, 1..Len(tickets[r]))

HandlerInit ==
    /\ pc = [r \in Requests |-> "mapped"]
    /\ inHand = [r \in Requests |-> 0]
    /\ tickets = [r \in Requests |-> <<>>]
    /\ tally = [r \in Requests |-> [read |-> 0, committed |-> 0, anyFailed |-> FALSE]]
    /\ reply = [r \in Requests |-> NoReply]
    /\ flushes = 0

Respond(r, response) ==
    /\ pc' = [pc EXCEPT ![r] = "done"]
    /\ reply' = [reply EXCEPT ![r] = response]

(* A request that can never fit is a permanent error. *)
RejectOversized(r) ==
    /\ pc[r] = "mapped"
    /\ Len(Work[r]) > IngestCapacity
    /\ Respond(r, InvalidArgument)
    /\ UNCHANGED <<ledgerVars, channelVars, table, inHand, tickets, tally, flushes>>

(* IngestSender::reserve found too little room: nothing was issued. *)
RejectFull(r) ==
    /\ pc[r] = "mapped" /\ gate = {}
    /\ Len(Work[r]) <= IngestCapacity
    /\ Len(ingest) + Len(Work[r]) > IngestCapacity
    /\ Respond(r, Unavailable)
    /\ UNCHANGED <<ledgerVars, channelVars, table, inHand, tickets, tally, flushes>>

(* Seeded fault: reserve looks for one free slot, not for one per chunk. *)
ReserveOneSlot(r) ==
    /\ pc[r] = "mapped" /\ gate = {}
    /\ Work[r] # <<>> /\ Len(Work[r]) <= IngestCapacity
    /\ Len(ingest) < IngestCapacity
    /\ gate' = {r}
    /\ pc' = [pc EXCEPT ![r] = "issue"]
    /\ UNCHANGED <<ledgerVars, ingest, ingestOpen, commands, commandsOpen, serving,
                   table, inHand, tickets, tally, reply, flushes>>

(* reserve succeeded: the handler holds the gate.  An empty request has    *)
(* nothing to send and is answered at once.                                *)
Reserve(r) ==
    /\ pc[r] = "mapped" /\ gate = {}
    /\ Len(Work[r]) <= IngestCapacity
    /\ Len(ingest) + Len(Work[r]) <= IngestCapacity
    /\ IF Work[r] = <<>>
       THEN Respond(r, Ok) /\ UNCHANGED gate
       ELSE /\ gate' = {r}
            /\ pc' = [pc EXCEPT ![r] = "issue"]
            /\ UNCHANGED reply
    /\ UNCHANGED <<ledgerVars, ingest, ingestOpen, commands, commandsOpen, serving,
                   table, inHand, tickets, tally, flushes>>

TakeTicket(r) ==
    /\ pc[r] = "issue"
    /\ Issue(r)
    /\ inHand' = [inHand EXCEPT ![r] = nextTicket']
    /\ pc' = [pc EXCEPT ![r] = "send"]
    /\ UNCHANGED <<channelVars, table, tickets, tally, reply, flushes>>

(* try_send into the reserved capacity; the last chunk releases the gate.  *)
SendChunk(r) ==
    LET c == Len(tickets[r]) + 1
        last == c = Len(Work[r])
    IN  /\ pc[r] = "send" /\ ingestOpen
        /\ ingest' = Append(ingest, [kind |-> "Logs", request |-> r, chunk |-> c,
                                     commitSeq |-> inHand[r]])
        /\ tickets' = [tickets EXCEPT ![r] = Append(@, inHand[r])]
        /\ pc' = [pc EXCEPT ![r] = IF last THEN "sent" ELSE "issue"]
        /\ gate' = IF last THEN {} ELSE gate
        /\ UNCHANGED <<ledgerVars, ingestOpen, commands, commandsOpen, serving, table,
                       inHand, tally, reply, flushes>>

(* The storage side is gone: the ticket in hand is voided, the rest of the *)
(* request is rejected.  The gate is held until void has published.        *)
VoidUnsent(r) ==
    /\ pc[r] = "send" /\ ~ingestOpen
    /\ Void(r, inHand[r])
    /\ pc' = [pc EXCEPT ![r] = "voided"]
    /\ UNCHANGED <<channelVars, table, inHand, tickets, tally, reply, flushes>>

PublishVoid(r) ==
    /\ pc[r] = "voided"
    /\ Publish(r)
    /\ gate' = {}
    /\ pc' = [pc EXCEPT ![r] = "sent"]
    /\ UNCHANGED <<ingest, ingestOpen, commands, commandsOpen, serving, table,
                   inHand, tickets, tally, reply, flushes>>

(* finish, up to the wait: nothing accepted is UNAVAILABLE; enqueue mode   *)
(* answers at once.                                                        *)
AfterEnqueue(r) ==
    LET rejected == Total(r) - Accepted(r)
    IN  /\ pc[r] = "sent"
        /\ IF tickets[r] = <<>> THEN Respond(r, Unavailable)
           ELSE IF Durability = "commit"
           THEN pc' = [pc EXCEPT ![r] = "waiting"] /\ UNCHANGED reply
           ELSE Respond(r, IF rejected = 0 THEN Ok ELSE PartialSuccess(rejected))
        /\ UNCHANGED <<ledgerVars, channelVars, table, inHand, tickets, tally, flushes>>

(* Seeded fault: waiting for the first ticket of the request only. *)
WakeOnFirst(r) ==
    /\ pc[r] = "waiting"
    /\ updates.committedThrough >= Head(tickets[r]) \/ updates.closed
    /\ pc' = [pc EXCEPT ![r] = "reading"]
    /\ UNCHANGED <<ledgerVars, channelVars, table, inHand, tickets, tally, reply, flushes>>

(* wait_watermark(last_ticket) returns on what is published. *)
Wake(r) ==
    /\ pc[r] = "waiting"
    /\ updates.committedThrough >= tickets[r][Len(tickets[r])] \/ updates.closed
    /\ pc' = [pc EXCEPT ![r] = "reading"]
    /\ UNCHANGED <<ledgerVars, channelVars, table, inHand, tickets, tally, reply, flushes>>

(* state() of the next ticket, under its own lock. *)
ReadTicket(r) ==
    LET k == tally[r].read + 1
        s == State(tickets[r][k])
        n == IF s.kind = "Completed" THEN Work[r][k].size ELSE s.committed
    IN  /\ pc[r] = "reading" /\ k <= Len(tickets[r])
        /\ tally' = [tally EXCEPT ![r] =
             [read |-> k, committed |-> @.committed + n,
              anyFailed |-> @.anyFailed \/ s.kind = "Failed"]]
        /\ UNCHANGED <<ledgerVars, channelVars, table, pc, inHand, tickets, reply, flushes>>

Answer(r) ==
    LET rejected == Total(r) - tally[r].committed
    IN  /\ pc[r] = "reading" /\ tally[r].read = Len(tickets[r])
        /\ Respond(r, IF rejected = 0 THEN Ok
                      ELSE IF tally[r].anyFailed \/ tally[r].committed > 0
                      THEN PartialSuccess(rejected)
                      ELSE Unavailable)
        /\ UNCHANGED <<ledgerVars, channelVars, table, inHand, tickets, tally, flushes>>

(* The client hangs up, or the drain deadline passes: the handler future is *)
(* dropped at an await and there is no response.  The enqueue task it was   *)
(* awaiting runs to its end.                                                *)
Abandon(r) ==
    /\ pc[r] \in {"sent", "waiting"}
    /\ pc' = [pc EXCEPT ![r] = "dropped"]
    /\ UNCHANGED <<ledgerVars, channelVars, table, inHand, tickets, tally, reply, flushes>>

(* IngestSender::send of a Flush: takes the gate for one try_send.  upto   *)
(* is a history: the tickets issued before it.                             *)
SendFlush ==
    /\ flushes < MaxFlushes /\ serving /\ gate = {}
    /\ ingestOpen /\ Len(ingest) < IngestCapacity
    /\ ingest' = Append(ingest, [kind |-> "Flush", upto |-> nextTicket])
    /\ flushes' = flushes + 1
    /\ UNCHANGED <<ledgerVars, gate, ingestOpen, commands, commandsOpen, serving, table,
                   pc, inHand, tickets, tally, reply>>

(* The server returned and Storage::join released its command sender. *)
StopServing ==
    /\ serving
    /\ serving' = FALSE
    /\ UNCHANGED <<ledgerVars, gate, ingest, ingestOpen, commands, commandsOpen, table,
                   handlerVars>>

(* Every IngestSender is dropped: the server's and those of its handlers. *)
IngestSendersGone == ~serving /\ \A r \in Requests : pc[r] \in {"done", "dropped"}

HandlerStep(r) ==
    \/ RejectOversized(r) \/ RejectFull(r) \/ Reserve(r) \/ TakeTicket(r)
    \/ SendChunk(r) \/ VoidUnsent(r) \/ PublishVoid(r) \/ AfterEnqueue(r)
    \/ Wake(r) \/ ReadTicket(r) \/ Answer(r)

HandlerNext ==
    \/ \E r \in Requests : HandlerStep(r) \/ Abandon(r)
    \/ SendFlush
    \/ StopServing
===============================================================================
