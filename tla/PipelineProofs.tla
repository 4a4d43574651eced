---------------------------- MODULE PipelineProofs ----------------------------
(***************************************************************************)
(* The ingestion pipeline for every set of requests, batch size and queue  *)
(* capacity.                                                               *)
(***************************************************************************)
EXTENDS Pipeline, SequenceTheorems, TLAPS

LogsMessage == [kind : {"Logs"}, request : Requests, chunk : Nat, commitSeq : Nat]
Barrier == [kind : {"Flush"}, upto : Nat]
-------------------------------------------------------------------------------
(* Admission: one request at a time, with room for all of its chunks. *)
HandlerPositions == {"mapped", "issue", "send", "voided", "sent", "waiting", "reading", "done",
                     "dropped"}
GateInv ==
    /\ nextTicket \in Nat
    /\ pc \in [Requests -> HandlerPositions]
    /\ gate \subseteq Requests /\ \A r, s \in gate : r = s
    /\ \A r \in Requests : (r \in gate) <=> (pc[r] \in {"issue", "send", "voided"})
    /\ ingest \in Seq(LogsMessage \cup Barrier) /\ Len(ingest) <= IngestCapacity
    /\ inHand \in [Requests -> Nat]
    /\ tickets \in [Requests -> Seq(Nat)]
    /\ \A r \in Requests : /\ Len(tickets[r]) <= Len(Work[r])
                           /\ pc[r] = "mapped" => tickets[r] = <<>>
                           /\ pc[r] \in {"issue", "send"} => Len(tickets[r]) < Len(Work[r])
    /\ ReservationHolds
-------------------------------------------------------------------------------
(* Work is a list of chunks, none of them empty. *)
LEMMA WorkFacts ==
    ASSUME NEW r \in Requests
    PROVE  /\ Len(Work[r]) \in Nat /\ DOMAIN Work[r] = 1..Len(Work[r])
           /\ \A c \in 1..Len(Work[r]) :
                /\ Work[r][c].origin \in Origins /\ Work[r][c].size \in 1..MaxRecords
                /\ Work[r][c].size \in Nat /\ Work[r][c].size > 0
<1>1. Work[r] \in Seq([origin : Origins, size : 1..MaxRecords])
  BY PipelineAssumption
<1>2. \A c \in 1..Len(Work[r]) : Work[r][c] \in [origin : Origins, size : 1..MaxRecords]
  BY <1>1, ElementOfSeq
<1> QED
  BY <1>1, <1>2, BoundsAssumption

LEMMA Capacities ==
    /\ IngestCapacity \in Nat /\ IngestCapacity > 0
    /\ CommandCapacity \in Nat /\ CommandCapacity > 0
<1>1. IngestCapacity \in Nat \ {0} /\ CommandCapacity \in Nat \ {0}
  BY PipelineAssumption, Zenon
<1> QED
  BY <1>1

LEMMA ActorsAre == Requests \subseteq Actors /\ "batcher" \in Actors /\ "writer" \in Actors
BY PipelineAssumption

(* A queue without its first element. *)
LEMMA TailFacts ==
    ASSUME NEW T, NEW s \in Seq(T), s # <<>>
    PROVE  /\ Len(s) \in Nat /\ Len(s) > 0 /\ Head(s) = s[1] /\ Head(s) \in T
           /\ Tail(s) \in Seq(T) /\ Len(Tail(s)) = Len(s) - 1
           /\ \A i \in 1..(Len(s) - 1) : i + 1 \in 1..Len(s) /\ Tail(s)[i] = s[i + 1]
OBVIOUS

(* The gate, and the room behind it.  A handler moves on without passing   *)
(* through the gate;                                                       *)
LEMMA GateMove ==
    ASSUME GateInv, NEW r \in Requests, NEW p \in HandlerPositions \ {"mapped"},
           pc' = [pc EXCEPT ![r] = p], UNCHANGED <<gate, ingest, tickets>>,
           (p \in {"issue", "send", "voided"}) <=> (pc[r] \in {"issue", "send", "voided"}),
           p \in {"issue", "send"} => pc[r] \in {"issue", "send"},
           inHand' \in [Requests -> Nat], nextTicket' \in Nat
    PROVE  GateInv'
<1>1. pc \in [Requests -> HandlerPositions]
  BY DEF GateInv
<1>2. pc' \in [Requests -> HandlerPositions] /\ \A q \in Requests : pc'[q] = IF q = r THEN p ELSE pc[q]
  BY <1>1
<1>3. \A q \in Requests : (q \in gate) <=> (pc'[q] \in {"issue", "send", "voided"})
  BY <1>2 DEF GateInv
<1>4. \A q \in Requests : /\ pc'[q] = "mapped" => pc[q] = "mapped"
                          /\ pc'[q] \in {"issue", "send"} => pc[q] \in {"issue", "send"}
  BY <1>2
<1>5. \A q \in Requests : /\ Len(tickets[q]) <= Len(Work[q])
                          /\ pc'[q] = "mapped" => tickets[q] = <<>>
                          /\ pc'[q] \in {"issue", "send"} => Len(tickets[q]) < Len(Work[q])
  BY <1>4 DEF GateInv
<1> QED
  BY <1>2, <1>3, <1>5 DEF GateInv, ReservationHolds

(* it takes the gate, with room for all of its chunks;                     *)
LEMMA GateEnter ==
    ASSUME GateInv, NEW r \in Requests, pc[r] = "mapped", pc' = [pc EXCEPT ![r] = "issue"],
           gate = {}, gate' = {r}, UNCHANGED <<nextTicket, ingest, inHand, tickets>>,
           Len(ingest) + Len(Work[r]) <= IngestCapacity, Work[r] # <<>>
    PROVE  GateInv'
<1>1. /\ pc \in [Requests -> HandlerPositions] /\ tickets[r] = <<>>
      /\ ingest \in Seq(LogsMessage \cup Barrier)
  BY DEF GateInv
<1>2. /\ pc' \in [Requests -> HandlerPositions]
      /\ \A q \in Requests : pc'[q] = IF q = r THEN "issue" ELSE pc[q]
  BY <1>1 DEF HandlerPositions
<1>3. \A q \in Requests : (q \in gate') <=> (pc'[q] \in {"issue", "send", "voided"})
  BY <1>2 DEF GateInv
<1>4. Len(tickets[r]) = 0 /\ Len(Work[r]) > 0 /\ Len(Work[r]) \in Nat /\ Len(ingest) \in Nat
  BY <1>1, WorkFacts
<1>5. \A q \in Requests : /\ Len(tickets[q]) <= Len(Work[q])
                          /\ pc'[q] = "mapped" => tickets[q] = <<>>
                          /\ pc'[q] \in {"issue", "send"} => Len(tickets[q]) < Len(Work[q])
  BY <1>2, <1>4 DEF GateInv
<1>6. Len(ingest) + Len(Work[r]) - Len(tickets[r]) <= IngestCapacity
  <2> DEFINE a == Len(ingest)
             b == Len(Work[r])
             c == Len(tickets[r])
  <2>1. a \in Nat /\ b \in Nat /\ c = 0 /\ a + b <= IngestCapacity
    BY <1>4
  <2> HIDE DEF a, b, c
  <2>2. a + b - c <= IngestCapacity
    BY <2>1
  <2> QED
    BY <2>2 DEF a, b, c
<1>7. ReservationHolds'
  BY <1>6 DEF ReservationHolds
<1> QED
  BY <1>2, <1>3, <1>5, <1>7 DEF GateInv

(* it sends a chunk into the room it reserved and keeps the gate, or, with *)
(* its last chunk or after it voided a ticket, releases it.                *)
LEMMA GateSend ==
    ASSUME GateInv, NEW r \in Requests, SendChunk(r)
    PROVE  GateInv'
<1> DEFINE n == Len(tickets[r])
           m == [kind |-> "Logs", request |-> r, chunk |-> n + 1, commitSeq |-> inHand[r]]
           last == n + 1 = Len(Work[r])
           p == IF last THEN "sent" ELSE "issue"
<1>1. /\ pc[r] = "send" /\ ingest' = Append(ingest, m) /\ inHand' = inHand /\ nextTicket' = nextTicket
      /\ tickets' = [tickets EXCEPT ![r] = Append(@, inHand[r])]
      /\ pc' = [pc EXCEPT ![r] = p] /\ gate' = IF last THEN {} ELSE gate
  BY DEF SendChunk, ledgerVars
<1>2. /\ pc \in [Requests -> HandlerPositions] /\ tickets \in [Requests -> Seq(Nat)]
      /\ ingest \in Seq(LogsMessage \cup Barrier) /\ inHand \in [Requests -> Nat]
      /\ r \in gate /\ gate \subseteq Requests /\ \A q \in gate : q = r
      /\ n < Len(Work[r]) /\ Len(ingest) + Len(Work[r]) - n <= IngestCapacity
  BY <1>1 DEF GateInv, ReservationHolds
<1>3. n \in Nat /\ Len(Work[r]) \in Nat /\ Len(ingest) \in Nat /\ IngestCapacity \in Nat
  BY <1>2, WorkFacts, Capacities
<1>4. m \in LogsMessage
  BY <1>2, <1>3 DEF LogsMessage
<1>5. ingest' \in Seq(LogsMessage \cup Barrier) /\ Len(ingest') = Len(ingest) + 1
  BY <1>1, <1>2, <1>4
<1>6. /\ tickets' \in [Requests -> Seq(Nat)]
      /\ \A q \in Requests : q # r => tickets'[q] = tickets[q]
      /\ Len(tickets'[r]) = n + 1
  <2>1. Append(tickets[r], inHand[r]) \in Seq(Nat) /\ Len(Append(tickets[r], inHand[r])) = n + 1
    BY <1>2
  <2> QED
    BY <1>1, <1>2, <2>1
<1>7. /\ pc' \in [Requests -> HandlerPositions]
      /\ \A q \in Requests : pc'[q] = IF q = r THEN p ELSE pc[q]
  BY <1>1, <1>2 DEF HandlerPositions
<1>8. \A q \in Requests : (q \in gate) <=> (pc[q] \in {"issue", "send", "voided"})
  BY DEF GateInv
<1>9. \A q \in Requests : (q \in gate') <=> (pc'[q] \in {"issue", "send", "voided"})
  <2>1. CASE last
    BY <1>1, <1>2, <1>7, <1>8, <2>1
  <2>2. CASE ~last
    BY <1>1, <1>2, <1>7, <1>8, <2>2
  <2> QED
    BY <2>1, <2>2
<1>10. gate' \subseteq gate
  BY <1>1
<1> HIDE DEF n, m, last, p
<1>11. \A q \in Requests : /\ Len(tickets'[q]) <= Len(Work[q])
                           /\ pc'[q] = "mapped" => tickets'[q] = <<>>
                           /\ pc'[q] \in {"issue", "send"} => Len(tickets'[q]) < Len(Work[q])
  <2> SUFFICES ASSUME NEW q \in Requests
               PROVE  /\ Len(tickets'[q]) <= Len(Work[q])
                      /\ pc'[q] = "mapped" => tickets'[q] = <<>>
                      /\ pc'[q] \in {"issue", "send"} => Len(tickets'[q]) < Len(Work[q])
    OBVIOUS
  <2>1. CASE q = r
    <3>1. Len(tickets'[q]) <= Len(Work[q]) /\ (~last => Len(tickets'[q]) < Len(Work[q]))
      BY <1>2, <1>3, <1>6, <2>1 DEF last
    <3>2. pc'[q] = p /\ p # "mapped" /\ p # "send" /\ (p = "issue" => ~last)
      BY <1>7, <2>1 DEF p
    <3> QED
      BY <3>1, <3>2
  <2>2. CASE q # r
    BY <1>6, <1>7, <2>2 DEF GateInv
  <2> QED
    BY <2>1, <2>2
<1>12. Len(ingest') <= IngestCapacity /\ Len(ingest') + Len(Work[r]) - Len(tickets'[r]) <= IngestCapacity
  <2> DEFINE a == Len(ingest)
             b == Len(Work[r])
             c == Len(ingest')
             d == Len(tickets'[r])
  <2>1. a \in Nat /\ b \in Nat /\ n \in Nat /\ IngestCapacity \in Nat /\ c = a + 1 /\ d = n + 1
        /\ n < b /\ a + b - n <= IngestCapacity
    BY <1>2, <1>3, <1>5, <1>6
  <2> HIDE DEF a, b, c, d
  <2>2. c <= IngestCapacity /\ c + b - d <= IngestCapacity
    BY <2>1
  <2> QED
    BY <2>2 DEF a, b, c, d
<1>13. ReservationHolds'
  BY <1>2, <1>10, <1>12 DEF ReservationHolds
<1> QED
  BY <1>1, <1>2, <1>5, <1>6, <1>7, <1>9, <1>10, <1>11, <1>12, <1>13 DEF GateInv

LEMMA GateLeave ==
    ASSUME GateInv, NEW r \in Requests, PublishVoid(r)
    PROVE  GateInv'
<1>1. /\ pc[r] = "voided" /\ UNCHANGED <<nextTicket, ingest, inHand, tickets>>
      /\ pc' = [pc EXCEPT ![r] = "sent"] /\ gate' = {}
  BY DEF PublishVoid, Publish
<1>2. pc \in [Requests -> HandlerPositions] /\ r \in gate /\ \A q \in gate : q = r
  BY <1>1 DEF GateInv
<1>3. /\ pc' \in [Requests -> HandlerPositions]
      /\ \A q \in Requests : pc'[q] = IF q = r THEN "sent" ELSE pc[q]
  BY <1>1, <1>2 DEF HandlerPositions
<1>4. \A q \in Requests : pc'[q] \notin {"issue", "send", "voided"}
  BY <1>2, <1>3 DEF GateInv
<1>5. \A q \in Requests : /\ Len(tickets[q]) <= Len(Work[q])
                          /\ pc'[q] = "mapped" => tickets[q] = <<>>
  BY <1>3 DEF GateInv
<1> QED
  BY <1>1, <1>3, <1>4, <1>5 DEF GateInv, ReservationHolds

(* The queue takes a flush only while nobody holds the gate, and otherwise *)
(* shrinks.                                                                *)
LEMMA GateFlush ==
    ASSUME GateInv, SendFlush
    PROVE  GateInv'
<1> DEFINE m == [kind |-> "Flush", upto |-> nextTicket]
<1>1. /\ gate = {} /\ gate' = {} /\ UNCHANGED <<nextTicket, pc, inHand, tickets>>
      /\ ingest' = Append(ingest, m) /\ Len(ingest) < IngestCapacity
  BY DEF SendFlush, ledgerVars
<1>2. ingest \in Seq(LogsMessage \cup Barrier) /\ m \in Barrier
  BY DEF GateInv, Barrier
<1>3. ingest' \in Seq(LogsMessage \cup Barrier) /\ Len(ingest') = Len(ingest) + 1 /\ Len(ingest) \in Nat
  BY <1>1, <1>2
<1>4. Len(ingest') <= IngestCapacity
  BY <1>1, <1>3, Capacities
<1> QED
  BY <1>1, <1>3, <1>4 DEF GateInv, ReservationHolds

LEMMA GateShrink ==
    ASSUME GateInv, UNCHANGED <<nextTicket, pc, gate, inHand, tickets>>,
           ingest' = ingest \/ ingest' = <<>> \/ (ingest # <<>> /\ ingest' = Tail(ingest))
    PROVE  GateInv'
<1>1. ingest \in Seq(LogsMessage \cup Barrier)
  BY DEF GateInv
<1>2. ingest' \in Seq(LogsMessage \cup Barrier) /\ Len(ingest') <= Len(ingest) /\ Len(ingest') \in Nat
      /\ Len(ingest) \in Nat
  <2>1. Len(ingest) \in Nat /\ Len(<<>>) = 0 /\ <<>> \in Seq(LogsMessage \cup Barrier)
    BY <1>1
  <2>2. ingest # <<>> => /\ Tail(ingest) \in Seq(LogsMessage \cup Barrier)
                         /\ Len(Tail(ingest)) = Len(ingest) - 1 /\ Len(ingest) > 0
    BY <1>1, TailFacts
  <2>3. CASE ingest' = ingest
    BY <1>1, <2>1, <2>3
  <2>4. CASE ingest' = <<>>
    BY <2>1, <2>4
  <2>5. CASE ingest # <<>> /\ ingest' = Tail(ingest)
    BY <2>1, <2>2, <2>5
  <2> QED
    BY <2>3, <2>4, <2>5
<1>3. \A q \in gate : Len(ingest') + Len(Work[q]) - Len(tickets[q]) <= IngestCapacity
  <2> SUFFICES ASSUME NEW q \in gate
               PROVE  Len(ingest') + Len(Work[q]) - Len(tickets[q]) <= IngestCapacity
    OBVIOUS
  <2>1. /\ q \in Requests /\ tickets \in [Requests -> Seq(Nat)]
        /\ Len(ingest) + Len(Work[q]) - Len(tickets[q]) <= IngestCapacity
    BY DEF GateInv, ReservationHolds
  <2> DEFINE a == Len(ingest)
             b == Len(Work[q])
             c == Len(tickets[q])
             d == Len(ingest')
  <2>2. a \in Nat /\ b \in Nat /\ c \in Nat /\ d \in Nat /\ d <= a /\ a + b - c <= IngestCapacity
        /\ IngestCapacity \in Nat
    BY <1>2, <2>1, WorkFacts, Capacities
  <2> HIDE DEF a, b, c, d
  <2>3. d + b - c <= IngestCapacity
    BY <2>2
  <2> QED
    BY <2>3 DEF a, b, c, d
<1>4. Len(ingest') <= IngestCapacity
  BY <1>2, Capacities DEF GateInv
<1> QED
  BY <1>2, <1>3, <1>4 DEF GateInv, ReservationHolds

LEMMA GateInit == Init => GateInv
<1> SUFFICES ASSUME Init PROVE GateInv
  OBVIOUS
<1>1. /\ nextTicket = 0 /\ pc = [r \in Requests |-> "mapped"] /\ gate = {} /\ ingest = <<>>
      /\ inHand = [r \in Requests |-> 0] /\ tickets = [r \in Requests |-> <<>>]
  BY DEF Init, StateInit, LedgerInit, HandlerInit
<1>2. \A r \in Requests : tickets[r] = <<>> /\ Len(tickets[r]) = 0 /\ pc[r] = "mapped"
  BY <1>1
<1>3. \A r \in Requests : Len(Work[r]) \in Nat
  BY WorkFacts
<1>4. Len(ingest) <= IngestCapacity
  BY <1>1, Capacities
<1>5. tickets \in [Requests -> Seq(Nat)]
  BY <1>1
<1> QED
  BY <1>1, <1>2, <1>3, <1>4, <1>5 DEF GateInv, ReservationHolds, HandlerPositions

(* What each of the threads does to the gate and the ingest queue. *)
LEMMA GateHandler ==
    ASSUME GateInv, NEW r \in Requests, HandlerStep(r) \/ Abandon(r)
    PROVE  GateInv'
<1>1. inHand \in [Requests -> Nat] /\ nextTicket \in Nat
  BY DEF GateInv
<1>2. CASE RejectOversized(r)
  BY <1>1, <1>2, GateMove DEF RejectOversized, Respond, HandlerPositions, ledgerVars, channelVars
<1>3. CASE RejectFull(r)
  BY <1>1, <1>3, GateMove DEF RejectFull, Respond, HandlerPositions, ledgerVars, channelVars
<1>4. CASE Reserve(r)
  <2>1. CASE Work[r] = <<>>
    BY <1>1, <1>4, <2>1, GateMove DEF Reserve, Respond, HandlerPositions, ledgerVars
  <2>2. CASE Work[r] # <<>>
    BY <1>4, <2>2, GateEnter DEF Reserve, ledgerVars
  <2> QED
    BY <2>1, <2>2
<1>5. CASE TakeTicket(r)
  <2>1. nextTicket' \in Nat
    BY <1>1, <1>5 DEF TakeTicket, Issue
  <2>2. inHand' \in [Requests -> Nat]
    BY <1>1, <1>5, <2>1 DEF TakeTicket
  <2> QED
    BY <1>5, <2>1, <2>2, GateMove DEF TakeTicket, HandlerPositions, channelVars
<1>6. CASE SendChunk(r)
  BY <1>6, GateSend
<1>7. CASE VoidUnsent(r)
  BY <1>1, <1>7, GateMove DEF VoidUnsent, Void, Settle, HandlerPositions, channelVars
<1>8. CASE PublishVoid(r)
  BY <1>8, GateLeave
<1>9. CASE AfterEnqueue(r)
  <2>1. /\ pc[r] = "sent" /\ UNCHANGED <<nextTicket, gate, ingest, inHand, tickets>>
        /\ pc' = [pc EXCEPT ![r] = "done"] \/ pc' = [pc EXCEPT ![r] = "waiting"]
    BY <1>9 DEF AfterEnqueue, Respond, ledgerVars, channelVars
  <2> QED
    BY <1>1, <2>1, GateMove DEF HandlerPositions
<1>10. CASE Wake(r)
  BY <1>1, <1>10, GateMove DEF Wake, HandlerPositions, ledgerVars, channelVars
<1>11. CASE ReadTicket(r)
  BY <1>11, GateShrink DEF ReadTicket, ledgerVars, channelVars
<1>12. CASE Answer(r)
  BY <1>1, <1>12, GateMove DEF Answer, Respond, HandlerPositions, ledgerVars, channelVars
<1>13. CASE Abandon(r)
  BY <1>1, <1>13, GateMove DEF Abandon, HandlerPositions, ledgerVars, channelVars
<1> QED
  BY <1>2, <1>3, <1>4, <1>5, <1>6, <1>7, <1>8, <1>9, <1>10, <1>11, <1>12, <1>13 DEF HandlerStep

LEMMA GateBatcher ==
    ASSUME GateInv, BatcherStep(IngestSendersGone) \/ BFault \/ BPanic, UNCHANGED handlerVars
    PROVE  GateInv'
<1>1. UNCHANGED <<pc, inHand, tickets>>
  BY DEF handlerVars
<1>2. CASE BRecvLogs
  BY <1>1, <1>2, GateShrink DEF BRecvLogs, ledgerVars
<1>3. CASE BRecvFlush
  BY <1>1, <1>3, GateShrink DEF BRecvFlush, ledgerVars
<1>4. CASE BTimer \/ BDisconnected(IngestSendersGone) \/ BFault \/ BSubmitFails \/ BPanic \/ BDropCommands
  BY <1>1, <1>4, GateShrink
     DEF BTimer, BDisconnected, BFault, BSubmitFails, BPanic, BDropCommands, ledgerVars, channelVars
<1>5. CASE BSubmit
  BY <1>1, <1>5, GateShrink DEF BSubmit, ledgerVars
<1>6. CASE BClose \/ BPublish
  BY <1>1, <1>6, GateShrink DEF BClose, BPublish, Close, Publish, channelVars
<1>7. CASE BDropInput
  BY <1>1, <1>7, GateShrink DEF BDropInput, ledgerVars
<1> QED
  BY <1>2, <1>3, <1>4, <1>5, <1>6, <1>7 DEF BatcherStep

LEMMA GateWriter ==
    ASSUME GateInv, WriterStep(CommandSendersGone) \/ WBusy \/ WGiveUp \/ WFault, UNCHANGED handlerVars
    PROVE  GateInv'
<1>1. UNCHANGED <<pc, inHand, tickets>>
  BY DEF handlerVars
<1>2. CASE WCommit \/ WPoison \/ WSalvage \/ WDisconnected(CommandSendersGone) \/ WBusy \/ WGiveUp
           \/ WFault
  BY <1>1, <1>2, GateShrink
     DEF WCommit, WPoison, WSalvage, WDisconnected, WBusy, WGiveUp, WFault, ledgerVars, channelVars
<1>3. CASE WRecv \/ WExit
  BY <1>1, <1>3, GateShrink DEF WRecv, WExit, ledgerVars
<1>4. CASE WSettle
  BY <1>1, <1>4, GateShrink
     DEF WSettle, Apply, NoteCommitted, NoteDropped, Complete, Settle, channelVars
<1>5. CASE WPublish \/ WClose
  BY <1>1, <1>5, GateShrink DEF WPublish, WClose, Publish, Close, channelVars
<1> QED
  BY <1>2, <1>3, <1>4, <1>5 DEF WriterStep

(* Admission is all-or-nothing for every set of requests and every queue   *)
(* capacity: while a handler holds the gate there is room for every chunk  *)
(* it has not sent, so try_send into the reserved room never finds the     *)
(* ingest queue full (IngestSender::reserve, enqueue).                     *)
THEOREM AdmissionReservesRoom == Spec => []ReservationHolds
<1>1. Init => GateInv
  BY GateInit
<1>2. GateInv /\ [Next]_pipelineVars => GateInv'
  <2> SUFFICES ASSUME GateInv, [Next]_pipelineVars PROVE GateInv'
    OBVIOUS
  <2>1. ASSUME NEW r \in Requests, Handler(r) PROVE GateInv'
    BY <2>1, GateHandler DEF Handler
  <2>2. CASE Batcher \/ BatcherFailure
    BY <2>2, GateBatcher DEF Batcher, BatcherFailure
  <2>3. CASE Writer \/ WriterFailure
    BY <2>3, GateWriter DEF Writer, WriterFailure
  <2>4. CASE Environment
    <3>1. CASE SendFlush
      BY <3>1, GateFlush
    <3>2. CASE StopServing
      BY <3>2, GateShrink DEF StopServing, ledgerVars, handlerVars
    <3>3. ASSUME NEW r \in Requests, Abandon(r) PROVE GateInv'
      BY <3>3, GateHandler
    <3> QED
      BY <2>4, <3>1, <3>2, <3>3 DEF Environment
  <2>5. CASE Stopped \/ UNCHANGED pipelineVars
    BY <2>5, GateShrink DEF Stopped, pipelineVars, handlerVars, ledgerVars, channelVars
  <2> QED
    BY <2>1, <2>2, <2>3, <2>4, <2>5 DEF Next
<1>3. GateInv => ReservationHolds
  BY DEF GateInv
<1> QED
  BY <1>1, <1>2, <1>3, PTL DEF Spec
===============================================================================
