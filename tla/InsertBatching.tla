---------------------------- MODULE InsertBatching ----------------------------
(***************************************************************************)
(* The pure part of the insert batcher: InsertBatcher (otel-sqlite-core,   *)
(* storage/batcher.rs) and OriginBuffers (otel-sqlite-storage,             *)
(* origin_buffers.rs).  The buffers are a sequence, in first-seen order,   *)
(* of one record per active origin:                                        *)
(*   records   the buffered records, oldest first                          *)
(*   segments  the ticket of each run of records and how many are left     *)
(*   deadline  when the partial batch must be flushed                      *)
(* A push or a flush returns the new buffers and the submissions emitted.  *)
(***************************************************************************)
EXTENDS Ordered, FiniteSetsExt

CONSTANT MaxBatchRecords    \* InsertBatcherConfig::max_batch_records

ASSUME BatchAssumption == MaxBatchRecords \in Nat \ {0}

(* The records of segment k are at positions end[k - 1] + 1 .. end[k].     *)
SegmentEnds(segments) == Ends([k \in DOMAIN segments |-> segments[k].left])

(* Seeded faults of consume: a segment that was split before is taken in   *)
(* its full length; every segment taken counts as complete.                *)
PieceWithoutSplit(segment, start, end, from, to) ==
    [commitSeq |-> segment.commitSeq,
     records |-> (IF end < to THEN end ELSE to) - start,
     complete |-> end <= to]

PieceAsComplete(segment, start, end, from, to) ==
    [commitSeq |-> segment.commitSeq,
     records |-> (IF end < to THEN end ELSE to) - (IF start > from THEN start ELSE from),
     complete |-> TRUE]

(* The part that a batch of the records from + 1 .. to takes of a segment  *)
(* at start + 1 .. end; it is complete when none of it remains.            *)
Piece(segment, start, end, from, to) ==
    [commitSeq |-> segment.commitSeq,
     records |-> (IF end < to THEN end ELSE to) - (IF start > from THEN start ELSE from),
     complete |-> end <= to]

(* OriginBuffer::consume for the batch of the records from + 1 .. to, the  *)
(* ones before it being consumed already.                                  *)
Consume(segments, from, to) ==
    LET end == SegmentEnds(segments)
        at == Ascending({k \in DOMAIN segments : end[k] > from /\ end[k - 1] < to})
    IN  [j \in DOMAIN at |->
           Piece(segments[at[j]], end[at[j] - 1], end[at[j]], from, to)]

(* The segments left in the queue once the first count records are gone.   *)
Unconsumed(segments, count) ==
    LET end == SegmentEnds(segments)
        at == Ascending({k \in DOMAIN segments : end[k] > count})
    IN  [j \in DOMAIN at |->
           [commitSeq |-> segments[at[j]].commitSeq,
            left |-> end[at[j]] - (IF end[at[j] - 1] > count THEN end[at[j] - 1] ELSE count)]]

(* InsertBatcher::push: where the last full batch of n records ends.       *)
FullUpTo(n) == (n \div MaxBatchRecords) * MaxBatchRecords

(* The submission of the records from + 1 .. to of a buffer. *)
Submission(origin, all, segments, from, to) ==
    [origin |-> origin, records |-> SubSeq(all, from + 1, to),
     segments |-> Consume(segments, from, to)]

(* Every full batch is emitted. *)
FullBatches(origin, all, segments) ==
    [k \in 1..(Len(all) \div MaxBatchRecords) |->
        Submission(origin, all, segments, (k - 1) * MaxBatchRecords, k * MaxBatchRecords)]

(* Seeded fault: the record after the last full batch is lost. *)
RemainderSkippingOne(all) == SubSeq(all, FullUpTo(Len(all)) + 2, Len(all))

Remainder(all) == SubSeq(all, FullUpTo(Len(all)) + 1, Len(all))

(* Seeded fault: every arrival postpones the deadline. *)
RearmedAlways(old, incoming, due) == due

(* The deadline is armed when records enter an empty buffer and is left    *)
(* alone by records that join them.                                        *)
Rearmed(old, incoming, due) ==
    IF old.records # <<>> /\ Len(old.records) + Len(incoming) < MaxBatchRecords
    THEN old.deadline ELSE due

(* Where the buffer of an origin is, 0 when there is none. *)
Place(buffers, origin) ==
    LET at == {k \in DOMAIN buffers : buffers[k].origin = origin}
    IN  IF at = {} THEN 0 ELSE Min(at)

(* OriginBuffers::push.  due is the deadline of records arriving now.  The *)
(* buffer of the origin is added behind the others, or emptied and removed.*)
Push(buffers, origin, incoming, commitSeq, due) ==
    LET known == Place(buffers, origin)
        old == IF known = 0
               THEN [origin |-> origin, records |-> <<>>, segments |-> <<>>,
                     deadline |-> due]
               ELSE buffers[known]
        all == old.records \o incoming
        segments == Append(old.segments, [commitSeq |-> commitSeq, left |-> Len(incoming)])
        new == [origin |-> origin, records |-> Remainder(all),
                segments |-> Unconsumed(segments, FullUpTo(Len(all))),
                deadline |-> Rearmed(old, incoming, due)]
    IN  [buffers |->
           IF new.records = <<>>
           THEN Filter(buffers, {b \in Range(buffers) : b.origin # origin})
           ELSE IF known = 0 THEN Append(buffers, new)
           ELSE [buffers EXCEPT ![known] = new],
         out |-> FullBatches(origin, all, segments)]

(* What flush_with emits: a submission for every picked buffer, in the     *)
(* order of the buffers.                                                   *)
Flushed(picked) ==
    [k \in DOMAIN picked |->
        Submission(picked[k].origin, picked[k].records, picked[k].segments,
                   0, Len(picked[k].records))]

(* Seeded fault: emptied buffers stay. *)
FlushKeepingEmpty(buffers, due) ==
    [buffers |-> [k \in DOMAIN buffers |->
                    IF buffers[k] \in due
                    THEN [buffers[k] EXCEPT !.records = <<>>, !.segments = <<>>]
                    ELSE buffers[k]],
     out |-> Flushed(Filter(buffers, due))]

(* OriginBuffers::flush_with for the buffers in due: emptied buffers are   *)
(* not retained.                                                           *)
FlushWith(buffers, due) ==
    [buffers |-> Filter(buffers, Range(buffers) \ due),
     out |-> Flushed(Filter(buffers, due))]

FlushAll(buffers) == FlushWith(buffers, Range(buffers))
FlushExpired(buffers, now) ==
    FlushWith(buffers, {b \in Range(buffers) : now >= b.deadline})

(* Submission::commit_seqs: the tickets of a submission, ascending. *)
CommitSeqs(submission) ==
    Ascending({seg.commitSeq : seg \in Range(submission.segments)})
===============================================================================
