------------------------------ MODULE Admission ------------------------------
(***************************************************************************)
(* How many exports are worked on at once (otel-sqlite-ingress/src/logs.rs *)
(* handle, mapping/budget.rs, grpc.rs): the process-wide stream permits,   *)
(* the mapping permits that travel with jobs nobody can cancel, the        *)
(* detached enqueue task, deadlines, and callers that go away.             *)
(***************************************************************************)
EXTENDS Integers, FiniteSets

CONSTANTS Requests,   \* exports of a behaviour
          StreamCap,  \* max_concurrent_streams, at least 1
          MapCap      \* mapping_concurrency, at least 1

ASSUME AdmissionAssumption ==
    /\ IsFiniteSet(Requests)
    /\ StreamCap \in Nat \ {0} /\ MapCap \in Nat \ {0}

VARIABLES future,    \* where the handler's future waits
          job,       \* its mapping job on the blocking pool
          task,      \* its enqueue task on the blocking pool
          answer,
          enqueued,  \* requests whose chunks entered the queue
          streams, maps  \* permits available

vars == <<future, job, task, answer, enqueued, streams, maps>>

Init ==
    /\ future = [r \in Requests |-> "new"]
    /\ job = [r \in Requests |-> "none"]
    /\ task = [r \in Requests |-> "none"]
    /\ answer = [r \in Requests |-> "none"]
    /\ enqueued = {}
    /\ streams = StreamCap /\ maps = MapCap

At(r, l)   == future[r] = l
Goto(r, l) == future' = [future EXCEPT ![r] = l]
Answer(r, a) == Goto(r, "answered") /\ answer' = [answer EXCEPT ![r] = a]

-----------------------------------------------------------------------------
(* The handler *)

Arrive(r) ==
    /\ At(r, "new") /\ Goto(r, "stream")
    /\ UNCHANGED <<job, task, answer, enqueued, streams, maps>>

GetStream(r) ==
    /\ At(r, "stream") /\ streams > 0
    /\ streams' = streams - 1 /\ Goto(r, "mapPermit")
    /\ UNCHANGED <<job, task, answer, enqueued, maps>>

\* The permit moves into the job, which is queued on the blocking pool.
GetMapping(r) ==
    /\ At(r, "mapPermit") /\ maps > 0
    /\ maps' = maps - 1 /\ Goto(r, "mapping") /\ job' = [job EXCEPT ![r] = "queued"]
    /\ UNCHANGED <<task, answer, enqueued, streams>>

\* Mutant of MapTimeout: an abandoned job's permit is handed out again.
MapTimeoutReleasing(r) ==
    /\ future[r] \in {"mapPermit", "mapping"}
    /\ Answer(r, "timeout") /\ streams' = streams + 1
    /\ maps' = IF At(r, "mapping") /\ job[r] # "done" THEN maps + 1 ELSE maps
    /\ UNCHANGED <<job, task, enqueued>>

\* Mutant of MapTimeout: the deadline covers only the job.
MapTimeoutJobOnly(r) ==
    /\ At(r, "mapping")
    /\ Answer(r, "timeout") /\ streams' = streams + 1
    /\ UNCHANGED <<job, task, enqueued, maps>>

\* One deadline covers the wait for the permit and for the job.
MapTimeout(r) ==
    /\ future[r] \in {"mapPermit", "mapping"}
    /\ Answer(r, "timeout") /\ streams' = streams + 1
    /\ UNCHANGED <<job, task, enqueued, maps>>

JobStarts(r) ==
    /\ job[r] = "queued" /\ job' = [job EXCEPT ![r] = "running"]
    /\ UNCHANGED <<future, task, answer, enqueued, streams, maps>>

\* Mutant of JobEnds: the job hands its chunks on by itself.
JobEndsEnqueuing(r) ==
    /\ job[r] = "running" /\ job' = [job EXCEPT ![r] = "done"]
    /\ maps' = maps + 1 /\ enqueued' = enqueued \cup {r}
    /\ UNCHANGED <<future, task, answer, streams>>

JobEnds(r) ==
    /\ job[r] = "running" /\ job' = [job EXCEPT ![r] = "done"]
    /\ maps' = maps + 1
    /\ UNCHANGED <<future, task, answer, enqueued, streams>>

\* Mapped: the stream permit moves into the enqueue task.  Refused or failed:
\* answered.
MapResult(r) ==
    /\ At(r, "mapping") /\ job[r] = "done"
    /\ \/ /\ Goto(r, "enqueue") /\ task' = [task EXCEPT ![r] = "running"]
          /\ UNCHANGED <<answer, streams>>
       \/ /\ Answer(r, "refused") /\ streams' = streams + 1
          /\ UNCHANGED task
    /\ UNCHANGED <<job, enqueued, maps>>

\* More chunks than the queue holds, no room for them or a task that fails:
\* nothing was enqueued.  The permit is dropped with the task.
EnqueueRuns(r) ==
    /\ task[r] = "running" /\ streams' = streams + 1
    /\ \/ task' = [task EXCEPT ![r] = "done"] /\ enqueued' = enqueued \cup {r}
       \/ task' = [task EXCEPT ![r] = "refused"] /\ UNCHANGED enqueued
    /\ UNCHANGED <<future, job, answer, maps>>

EnqueueReturns(r) ==
    /\ At(r, "enqueue")
    /\ \/ task[r] = "done" /\ Goto(r, "finish") /\ UNCHANGED answer
       \/ task[r] = "refused" /\ Answer(r, "refused")
    /\ UNCHANGED <<job, task, enqueued, streams, maps>>

\* In commit mode wait_watermark was awaited here.  It has no deadline: that it
\* returns is the pipeline's EveryRequestAnswered and the ledger's CallsReturn.
Finish(r) ==
    /\ At(r, "finish") /\ Answer(r, "settled")
    /\ UNCHANGED <<job, task, enqueued, streams, maps>>

\* Mutant of Cancel: the stream permit is given back by the future even after
\* it moved into the enqueue task.
CancelTwice(r) ==
    /\ future[r] \in {"stream", "mapPermit", "mapping", "enqueue", "finish"}
    /\ Goto(r, "gone")
    /\ streams' = IF future[r] \in {"mapPermit", "mapping", "enqueue"}
                  THEN streams + 1 ELSE streams
    /\ UNCHANGED <<job, task, answer, enqueued, maps>>

\* The caller went away: the future is dropped at an await, with the stream
\* permit if it still holds it.
Cancel(r) ==
    /\ future[r] \in {"stream", "mapPermit", "mapping", "enqueue", "finish"}
    /\ Goto(r, "gone")
    /\ streams' = IF future[r] \in {"mapPermit", "mapping"} THEN streams + 1 ELSE streams
    /\ UNCHANGED <<job, task, answer, enqueued, maps>>

Handler(r) == GetStream(r) \/ GetMapping(r) \/ MapResult(r) \/ EnqueueReturns(r) \/ Finish(r)

Next == \E r \in Requests :
            \/ Arrive(r) \/ Handler(r) \/ MapTimeout(r) \/ Cancel(r)
            \/ JobStarts(r) \/ JobEnds(r) \/ EnqueueRuns(r)

Spec == Init /\ [][Next]_vars

\* Futures are polled, deadlines pass and the short enqueue tasks run; nothing
\* is assumed of the mapping jobs.
Fairness == \A r \in Requests :
                WF_vars(Handler(r)) /\ WF_vars(MapTimeout(r)) /\ WF_vars(EnqueueRuns(r))

-----------------------------------------------------------------------------
(* Properties *)

AdmissionTypeOK ==
    /\ future \in [Requests -> {"new", "stream", "mapPermit", "mapping", "enqueue",
                                "finish", "answered", "gone"}]
    /\ job \in [Requests -> {"none", "queued", "running", "done"}]
    /\ task \in [Requests -> {"none", "running", "done", "refused"}]
    /\ answer \in [Requests -> {"none", "timeout", "refused", "settled"}]
    /\ enqueued \subseteq Requests
    /\ streams \in 0..StreamCap /\ maps \in 0..MapCap

Jobs      == {r \in Requests : job[r] \in {"queued", "running"}}
Holding   == {r \in Requests : future[r] \in {"mapPermit", "mapping"}}
Enqueuing == {r \in Requests : task[r] = "running"}

\* Jobs whose callers timed out or went away still count against the mapping
\* budget: at most MapCap are queued or running.
MappingIsBounded == Cardinality(Jobs) + maps = MapCap

\* The stream bound holds from the permit to the end of the enqueue task, also
\* for requests whose future was dropped meanwhile.
StreamsAreBounded == Cardinality(Holding \cup Enqueuing) + streams = StreamCap

\* A request answered as timed out or refused never enters the queue, nor did
\* it before: the job's result is dropped with the future.
NoLateEnqueue ==
    \A r \in Requests : answer[r] \in {"timeout", "refused"} =>
                            r \notin enqueued /\ task[r] \in {"none", "refused"}

\* Both budgets balance, whatever outlives its request (logs.rs handle,
\* budget.rs spawn), and a request that was turned away stays out.
ExportsAreBounded == MappingIsBounded /\ StreamsAreBounded /\ NoLateEnqueue

\* Every export is answered or abandoned by its caller, even if no mapping job
\* ever ends: one deadline covers both waits.
EveryExportEnds ==
    \A r \in Requests : At(r, "stream") ~> future[r] \in {"answered", "gone"}
====
