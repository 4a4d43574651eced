------------------------------ MODULE Scheduler -------------------------------
(***************************************************************************)
(* The maintenance worker (worker.rs) and its schedule (scheduler.rs): a   *)
(* thread that puts due operations into the command queue it shares with   *)
(* the insert batcher, and the writer that runs or skips them.             *)
(*                                                                         *)
(* Time is counted in ticks.  `left' counts down to Task::next_due; the    *)
(* clock stands still while a thread has a step it could take at once.     *)
(***************************************************************************)
EXTENDS Integers, Sequences, FiniteSets, SequencesExt

CONSTANTS Order,         \* the operations, in the order of Scheduler::tasks
          Interval,      \* per operation: its interval, 0 when it is disabled
          RetryDelay,    \* config.retry_delay
          Capacity,      \* of the command queue
          SkipDepth,     \* MAINTENANCE_PRESSURE_SKIP_DEPTH
          Heavy,         \* the operations of heavy_maintenance_label
          MaxRun,        \* longest run of a command, in ticks
          MaxInserts     \* bound: insert commands the batcher submits

Ops == ToSet(Order)
Enabled == {op \in Ops : Interval[op] > 0}

SchedulerAssumption ==
    /\ Interval \in [Ops -> Nat] /\ Heavy \subseteq Ops
    /\ {RetryDelay, SkipDepth, MaxRun, MaxInserts} \subseteq Nat /\ Capacity \in Nat \ {0}

VARIABLES left,       \* per enabled operation: ticks until it is due
          deferred,   \* Task::deferred
          since,      \* ticks since its last successful enqueue (history)
          worker,     \* pc: check, tick, wait, ended; at: next task of the tick
          shutdown,   \* the worker was told to stop
          queue,      \* the command channel
          writer,     \* the command it runs and for how long
          open,       \* the receiver of the channel is alive
          inserts     \* insert commands submitted so far

vars == <<left, deferred, since, worker, shutdown, queue, writer, open, inserts>>

(* Mutant: the delay as configured, zero included.                         *)
RetryUnclamped == RetryDelay

(* The retry delay has a floor, so that a full queue is never polled.      *)
Retry == IF RetryDelay = 0 THEN 1 ELSE RetryDelay

(* Scheduler::new and Task::new: first due one interval after the start.   *)
Init ==
    /\ left = [op \in Enabled |-> Interval[op]]
    /\ deferred = [op \in Enabled |-> FALSE]
    /\ since = [op \in Enabled |-> 0]
    /\ worker = [pc |-> "check", at |-> 1]
    /\ shutdown = FALSE
    /\ queue = <<>>
    /\ writer = [cmd |-> "none", run |-> 0]
    /\ open = TRUE
    /\ inserts = 0

-------------------------------------------------------------------------------
(* The top of the loop: a pending shutdown ends it, else a tick starts.    *)
Check ==
    /\ worker.pc = "check"
    /\ worker' = [pc |-> IF shutdown THEN "ended" ELSE "tick", at |-> 1]
    /\ UNCHANGED <<left, deferred, since, shutdown, queue, writer, open, inserts>>

Task == Order[worker.at]
Due == Task \in Enabled /\ left[Task] = 0
Proceed == worker' = [worker EXCEPT !.at = @ + 1]

Skip ==
    /\ worker.pc = "tick" /\ worker.at <= Len(Order) /\ ~Due
    /\ Proceed
    /\ UNCHANGED <<left, deferred, since, shutdown, queue, writer, open, inserts>>

(* Mutant: a successful enqueue is retried like a failed one.              *)
EnqueueWithoutReschedule ==
    /\ worker.pc = "tick" /\ worker.at <= Len(Order) /\ Due
    /\ open /\ Len(queue) < Capacity
    /\ queue' = Append(queue, Task)
    /\ left' = [left EXCEPT ![Task] = Retry]
    /\ deferred' = [deferred EXCEPT ![Task] = FALSE]
    /\ since' = [since EXCEPT ![Task] = 0]
    /\ Proceed
    /\ UNCHANGED <<shutdown, writer, open, inserts>>

(* try_send succeeded: reschedule.                                         *)
Enqueue ==
    /\ worker.pc = "tick" /\ worker.at <= Len(Order) /\ Due
    /\ open /\ Len(queue) < Capacity
    /\ queue' = Append(queue, Task)
    /\ left' = [left EXCEPT ![Task] = Interval[Task]]
    /\ deferred' = [deferred EXCEPT ![Task] = FALSE]
    /\ since' = [since EXCEPT ![Task] = 0]
    /\ Proceed
    /\ UNCHANGED <<shutdown, writer, open, inserts>>

(* The queue is full: the operation stays due and is retried later.        *)
Defer ==
    /\ worker.pc = "tick" /\ worker.at <= Len(Order) /\ Due
    /\ open /\ Len(queue) = Capacity
    /\ left' = [left EXCEPT ![Task] = Retry]
    /\ deferred' = [deferred EXCEPT ![Task] = TRUE]
    /\ Proceed
    /\ UNCHANGED <<since, shutdown, queue, writer, open, inserts>>

(* Mutant: a closed queue is treated like a full one.                      *)
DisconnectedAsFull ==
    /\ worker.pc = "tick" /\ worker.at <= Len(Order) /\ Due /\ ~open
    /\ left' = [left EXCEPT ![Task] = Retry]
    /\ Proceed
    /\ UNCHANGED <<deferred, since, shutdown, queue, writer, open, inserts>>

(* The queue is closed: the tick reports it at once and the worker ends.   *)
Disconnected ==
    /\ worker.pc = "tick" /\ worker.at <= Len(Order) /\ Due /\ ~open
    /\ worker' = [pc |-> "ended", at |-> 1]
    /\ UNCHANGED <<left, deferred, since, shutdown, queue, writer, open, inserts>>

EndTick ==
    /\ worker.pc = "tick" /\ worker.at > Len(Order)
    /\ worker' = [pc |-> "wait", at |-> 1]
    /\ UNCHANGED <<left, deferred, since, shutdown, queue, writer, open, inserts>>

(* select!: the timer of next_deadline, or the shutdown channel.  Without  *)
(* an enabled operation only shutdown ends the wait.                       *)
TimerFires == \E op \in Enabled : left[op] = 0
Wake ==
    /\ worker.pc = "wait" /\ (shutdown \/ TimerFires)
    /\ \/ shutdown /\ worker' = [pc |-> "ended", at |-> 1]
       \/ TimerFires /\ worker' = [pc |-> "check", at |-> 1]
    /\ UNCHANGED <<left, deferred, since, shutdown, queue, writer, open, inserts>>

WorkerStep == Check \/ Skip \/ Enqueue \/ Defer \/ Disconnected \/ EndTick \/ Wake

-------------------------------------------------------------------------------
(* MaintenanceHandle::stop signals; a dropped handle has the same effect.  *)
Stop ==
    /\ ~shutdown
    /\ shutdown' = TRUE
    /\ UNCHANGED <<left, deferred, since, worker, queue, writer, open, inserts>>

(* The insert batcher, the other producer.                                 *)
SubmitInsert ==
    /\ open /\ Len(queue) < Capacity /\ inserts < MaxInserts
    /\ queue' = Append(queue, "insert")
    /\ inserts' = inserts + 1
    /\ UNCHANGED <<left, deferred, since, worker, shutdown, writer, open>>

(* The writer takes a command; run_maintenance drops a heavy operation     *)
(* when more than SkipDepth commands wait behind it.                       *)
Take ==
    /\ open /\ writer.cmd = "none" /\ queue # <<>>
    /\ queue' = Tail(queue)
    /\ writer' = IF Head(queue) \in Heavy /\ Len(Tail(queue)) > SkipDepth
                 THEN writer ELSE [cmd |-> Head(queue), run |-> 0]
    /\ UNCHANGED <<left, deferred, since, worker, shutdown, open, inserts>>

Finish ==
    /\ open /\ writer.cmd # "none"
    /\ writer' = [cmd |-> "none", run |-> 0]
    /\ UNCHANGED <<left, deferred, since, worker, shutdown, queue, open, inserts>>

(* The writer ends, on an error of a command or after a fault.             *)
WriterExits ==
    /\ open
    /\ open' = FALSE /\ queue' = <<>> /\ writer' = [cmd |-> "none", run |-> 0]
    /\ UNCHANGED <<left, deferred, since, worker, shutdown, inserts>>

-------------------------------------------------------------------------------
WorkerReady == \/ worker.pc \in {"check", "tick"}
               \/ worker.pc = "wait" /\ (shutdown \/ TimerFires)
WriterReady == open /\ (IF writer.cmd = "none" THEN queue # <<>> ELSE writer.run >= MaxRun)

Tick ==
    /\ ~WorkerReady /\ ~WriterReady /\ worker.pc # "ended"
    /\ left' = [op \in Enabled |-> IF left[op] > 0 THEN left[op] - 1 ELSE left[op]]
    /\ since' = [op \in Enabled |-> IF since[op] < Interval[op] THEN since[op] + 1 ELSE since[op]]
    /\ writer' = IF writer.cmd = "none" THEN writer ELSE [writer EXCEPT !.run = @ + 1]
    /\ UNCHANGED <<deferred, worker, shutdown, queue, open, inserts>>

Next == WorkerStep \/ Stop \/ SubmitInsert \/ Take \/ Finish \/ WriterExits \/ Tick

Spec == Init /\ [][Next]_vars

(* Both threads get their turn and the clock goes on.                      *)
Fairness ==
    /\ WF_vars(WorkerStep) /\ WF_vars(Tick)
    /\ []<>~WriterReady \/ []<><<Take \/ Finish>>_vars

-------------------------------------------------------------------------------
SchedulerTypeOK ==
    /\ left \in [Enabled -> 0..Max({Interval[op] : op \in Ops} \cup {Retry})]
    /\ deferred \in [Enabled -> BOOLEAN]
    /\ worker \in [pc : {"check", "tick", "wait", "ended"}, at : 1..Len(Order) + 1]
    /\ queue \in BoundedSeq(Ops \cup {"insert"}, Capacity)
    /\ writer.cmd \in Ops \cup {"insert", "none"} /\ writer.run \in 0..MaxRun

(* An operation is enqueued at least a full interval after its previous    *)
(* enqueue, or after the start, however often it was deferred meanwhile.   *)
EnqueueIsSpaced ==
    \A op \in Enabled :
        Len(SelectSeq(queue', LAMBDA c : c = op)) > Len(SelectSeq(queue, LAMBDA c : c = op))
            => since[op] >= Interval[op]

(* The worker does not outlive the pipeline: it ends after a stop, and     *)
(* when the writer is gone, if it schedules anything at all.               *)
WorkerEnds ==
    /\ shutdown ~> (worker.pc = "ended")
    /\ (~open /\ Enabled # {}) ~> (worker.pc = "ended")

(* An operation that is due, deferred or not, is enqueued in the end: the  *)
(* queue is full only while inserts arrive.                                *)
DueIsEnqueued ==
    \A op \in Enabled : (left[op] = 0) ~> (since[op] = 0 \/ worker.pc = "ended" \/ ~open)
===============================================================================
