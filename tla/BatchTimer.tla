------------------------------ MODULE BatchTimer ------------------------------
(***************************************************************************)
(* The wait of the batcher thread (otel-sqlite-storage/src/batcher.rs): a  *)
(* message that is queued is taken before an expired deadline is looked    *)
(* at.  Traffic has no end here, so a buffer is reduced to how many        *)
(* records it holds and how old its deadline clock is; OriginBuffers has   *)
(* the buffers in full.                                                    *)
(***************************************************************************)
EXTENDS Integers, Sequences

CONSTANTS Origins,
          MaxRecords,   \* max_batch_records
          MaxAge,       \* max_batch_age, in ticks
          Capacity,     \* of the ingest queue
          Chunks        \* sizes of the chunks that arrive

TimerAssumption ==
    /\ MaxRecords \in Nat \ {0} /\ MaxAge \in Nat \ {0} /\ Capacity \in Nat \ {0}
    /\ Chunks \subseteq Nat \ {0}

Unarmed == -1

VARIABLES queue,  \* chunks waiting, <<origin, records>>
          fill,   \* records buffered for each origin
          age,    \* ticks since the oldest of them armed the deadline
          marked  \* history: origins with a record under observation

vars == <<queue, fill, age, marked>>

Init ==
    /\ queue = <<>>
    /\ fill = [o \in Origins |-> 0]
    /\ age = [o \in Origins |-> Unarmed]
    /\ marked = {}

Arrive(o, n) ==
    /\ Len(queue) < Capacity
    /\ queue' = Append(queue, <<o, n>>)
    /\ UNCHANGED <<fill, age, marked>>

\* Mutant of Receive: the clock of what is left after a full batch is not armed.
ReceiveDisarming ==
    /\ queue # <<>>
    /\ LET o     == Head(queue)[1]
           total == fill[o] + Head(queue)[2]
           full  == total >= MaxRecords
       IN /\ fill' = [fill EXCEPT ![o] = total % MaxRecords]
          /\ age' = [age EXCEPT ![o] = IF full THEN Unarmed
                                       ELSE IF @ = Unarmed THEN 0 ELSE @]
          /\ marked' = IF full THEN marked \ {o} ELSE marked
    /\ queue' = Tail(queue)

\* recv_timeout returns a queued message whether or not the deadline passed.
\* Full batches go out at once; the clock starts when records enter an empty
\* buffer.
Receive ==
    /\ queue # <<>>
    /\ LET o     == Head(queue)[1]
           total == fill[o] + Head(queue)[2]
           full  == total >= MaxRecords
       IN /\ fill' = [fill EXCEPT ![o] = total % MaxRecords]
          /\ age' = [age EXCEPT ![o] = IF total % MaxRecords = 0 THEN Unarmed
                                       ELSE IF full \/ @ = Unarmed THEN 0 ELSE @]
          /\ marked' = IF full THEN marked \ {o} ELSE marked
    /\ queue' = Tail(queue)

\* Event::Timer: nothing is queued and the nearest deadline has passed.
Timer ==
    LET expired == {o \in Origins : age[o] = MaxAge}
    IN /\ queue = <<>> /\ expired # {}
       /\ fill' = [o \in Origins |-> IF o \in expired THEN 0 ELSE fill[o]]
       /\ age' = [o \in Origins |-> IF o \in expired THEN Unarmed ELSE age[o]]
       /\ marked' = marked \ expired
       /\ UNCHANGED queue

Tick ==
    /\ \E o \in Origins : age[o] \in 0..(MaxAge - 1)
    /\ age' = [o \in Origins |-> IF age[o] \in 0..(MaxAge - 1) THEN age[o] + 1 ELSE age[o]]
    /\ UNCHANGED <<queue, fill, marked>>

\* A record that is buffered now is singled out.
Observe(o) ==
    /\ fill[o] > 0 /\ o \notin marked
    /\ marked' = marked \cup {o}
    /\ UNCHANGED <<queue, fill, age>>

Batcher == Receive \/ Timer

Next ==
    \/ \E o \in Origins, n \in Chunks : Arrive(o, n)
    \/ Batcher
    \/ Tick
    \/ \E o \in Origins : Observe(o)

Spec == Init /\ [][Next]_vars

\* The thread runs and time passes; clients send as they please.
Fairness == WF_vars(Batcher) /\ WF_vars(Tick)

-----------------------------------------------------------------------------
(* Properties *)

\* "Maximum age of the oldest buffered record before a partial batch is
\* flushed": a buffered record leaves in a full batch or by the timer once no
\* other origin has traffic.  With traffic of two origins this is not so: each
\* message that is queued is taken before the expired deadline of the other.
PartialBatchIsFlushed ==
    \A o \in Origins :
        <>[](\A i \in DOMAIN queue : queue[i][1] = o)
            => ((o \in marked) ~> (o \notin marked))
=============================================================================
