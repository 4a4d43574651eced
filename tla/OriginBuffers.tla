---------------------------- MODULE OriginBuffers -----------------------------
(***************************************************************************)
(* The per-origin buffers of the insert batcher under every sequence of    *)
(* pushes, timer flushes and barrier flushes, with the clock explicit.     *)
(* A record is <<ticket, i, n>>: the i-th of the n records of its chunk.   *)
(***************************************************************************)
EXTENDS InsertBatching, FiniteSets

CONSTANTS Origins,          \* batch origins
          MaxBatchAge,      \* InsertBatcherConfig::max_batch_age
          MaxChunk,         \* bound on the records of a chunk
          MaxTicket,        \* bound on the chunks pushed
          MaxTime           \* bound on the clock

ASSUME OriginAssumption ==
    /\ MaxBatchAge \in Nat /\ MaxChunk \in Nat \ {0}
    /\ MaxTicket \in Nat /\ MaxTime \in Nat

VARIABLES buffers,          \* OriginBuffers::buffers
          now,              \* Instant::now()
          arrived,          \* history: per origin, every record pushed, in order
          arrivedAt,        \* history: when the chunk of each ticket was pushed
          emitted           \* history: every submission, in order

bufferVars == <<buffers, now, arrived, arrivedAt, emitted>>

BufferInit ==
    /\ buffers = <<>>
    /\ now = 0
    /\ arrived = [o \in Origins |-> <<>>]
    /\ arrivedAt = <<>>
    /\ emitted = <<>>

PushChunk(o, n) ==
    LET ticket == Len(arrivedAt) + 1
        incoming == [i \in 1..n |-> <<ticket, i, n>>]
        done == Push(buffers, o, incoming, ticket, now + MaxBatchAge)
    IN  /\ ticket <= MaxTicket
        /\ buffers' = done.buffers
        /\ emitted' = emitted \o done.out
        /\ arrived' = [arrived EXCEPT ![o] = @ \o incoming]
        /\ arrivedAt' = Append(arrivedAt, now)
        /\ UNCHANGED now

(* Event::Timer: recv_timeout returned at or after the nearest deadline. *)
TimerFlush ==
    /\ \E b \in Range(buffers) : now >= b.deadline
    /\ LET done == FlushExpired(buffers, now)
       IN  buffers' = done.buffers /\ emitted' = emitted \o done.out
    /\ UNCHANGED <<now, arrived, arrivedAt>>

(* flush_buffers: a Flush barrier or the end of the input. *)
BarrierFlush ==
    /\ LET done == FlushAll(buffers)
       IN  buffers' = done.buffers /\ emitted' = emitted \o done.out
    /\ UNCHANGED <<now, arrived, arrivedAt>>

Tick ==
    /\ now < MaxTime
    /\ now' = now + 1
    /\ UNCHANGED <<buffers, arrived, arrivedAt, emitted>>

BufferNext ==
    \/ \E o \in Origins, n \in 1..MaxChunk : PushChunk(o, n)
    \/ TimerFlush
    \/ BarrierFlush
    \/ Tick

BufferSpec == BufferInit /\ [][BufferNext]_bufferVars
-------------------------------------------------------------------------------
(* The ticket of each record that a list of segments stands for. *)
Spelled(segments, Count(_)) ==
    Flatten([k \in DOMAIN segments |->
                  [i \in 1..Count(segments[k]) |-> segments[k].commitSeq]])

TicketsOf(records) == [i \in DOMAIN records |-> records[i][1]]

(* The state of the buffers: at most one, non-empty and short of a full    *)
(* batch, per origin.                                                      *)
BufferTypeOK ==
    /\ \A b \in Range(buffers) :
         /\ b.origin \in Origins
         /\ Len(b.records) \in 1..(MaxBatchRecords - 1)
         /\ b.deadline \in Nat
    /\ \A i, j \in DOMAIN buffers : i # j => buffers[i].origin # buffers[j].origin

(* The segments always partition the records they stand for, buffered or   *)
(* emitted, in the same order (OriginBuffer::segments: "in the same order  *)
(* as the batcher's buffer").                                              *)
SegmentsMatchRecords ==
    /\ \A b \in Range(buffers) :
         Spelled(b.segments, LAMBDA s : s.left) = TicketsOf(b.records)
    /\ \A e \in Range(emitted) :
         Spelled(e.segments, LAMBDA s : s.records) = TicketsOf(e.records)

(* A segment is marked complete exactly when its batch carries the last    *)
(* record of its chunk, however the chunk was split.                       *)
CompleteMarksLastRecord ==
    \A e \in Range(emitted) : \A s \in Range(e.segments) :
        s.complete <=> \E r \in Range(e.records) : r[1] = s.commitSeq /\ r[2] = r[3]

(* The records of an origin that a list of buffers or submissions holds. *)
RecordsOf(s, o) ==
    Flatten([k \in DOMAIN s |-> IF s[k].origin = o THEN s[k].records ELSE <<>>])

(* Nothing is lost, duplicated or reordered within an origin.              *)
FifoPerOrigin ==
    \A o \in Origins : arrived[o] = RecordsOf(emitted, o) \o RecordsOf(buffers, o)

(* The deadline of a buffer is that of its oldest record: records joining  *)
(* a partial batch never postpone it.                                      *)
DeadlineOfOldest ==
    \A b \in Range(buffers) :
        b.deadline = arrivedAt[b.records[1][1]] + MaxBatchAge

(* flush_expired emits "every expired partial batch (oldest deadline       *)
(* first)".                                                                *)
ExpiredOldestFirst ==
    LET out == FlushExpired(buffers, now).out
        DeadlineOf(k) == buffers[Place(buffers, out[k].origin)].deadline
    IN  \A i, j \in DOMAIN out : i < j => DeadlineOf(i) <= DeadlineOf(j)
===============================================================================
