----------------------------- MODULE Lifecycle -----------------------------
(***************************************************************************)
(* The process from start to exit: `main` (otel-sqlite/src/main.rs), the   *)
(* pipeline's start and bounded join (otel-sqlite-storage/src/lib.rs), the *)
(* gRPC server's drain (otel-sqlite-ingress/src/grpc.rs, shutdown.rs), the *)
(* health monitor (health.rs) and the ends of the watchdog and of the      *)
(* maintenance worker (otel-sqlite-runtime).                               *)
(*                                                                         *)
(* Chunks are counted where they wait.  What makes the watchdog unhealthy  *)
(* is module Watchdog's subject: here a dead thread always does and a      *)
(* stall verdict may come at any time.  A deadline may pass whenever what  *)
(* it bounds has not happened.  tonic serves connections in tasks of their *)
(* own, which outlive a server given up at the drain deadline.             *)
(***************************************************************************)
EXTENDS Naturals

CONSTANTS QueueCap,   \* capacity of the ingest and of the command queue
          MaxChunks,  \* bound: chunks accepted in a behaviour
          Handlers,   \* bound: requests in flight
          HaltOnUnhealthy,  \* WatchdogConfig::halt_on_unhealthy
          Faults,     \* what may go wrong, a subset of FaultKinds
          MaxFaults   \* bound: faults of a behaviour

FaultKinds == {"boot", "slow_boot", "slow_batcher", "checkpoint", "writer",
               "wedge", "batcher_panic", "batcher_exit", "keeper", "dog",
               "stall", "listen"}

LifecycleAssumption ==
    /\ QueueCap \in Nat \ {0} /\ MaxChunks \in Nat /\ Handlers \in Nat
    /\ HaltOnUnhealthy \in BOOLEAN
    /\ Faults \subseteq FaultKinds /\ MaxFaults \in Nat

VARIABLES pc,        \* where `main` is
          ready,     \* the writer's message to Storage::open
          writer, batcher, keeper, dog,    \* the four threads
          halt,      \* the watchdog's halt channel: sent, and its receiver
          halted,    \* WatchdogHandle::halted
          sigterm, signal,                 \* the OS signal; signal_tx's value
          timer,     \* the drain deadline is running
          monitor, serving,                \* the health monitor; its report
          inflight, ingest, buffer, queue, \* requests; chunks per stage
          accepted,
          errors,    \* what main collected, by step
          haltSeen,  \* main's halt_requested
          exit,      \* how the process ended
          faults

threads == <<writer, batcher, keeper, dog>>
stages  == <<ingest, buffer, queue>>
outside == <<halt, halted, sigterm, signal>>
server  == <<timer, monitor, serving, inflight, accepted>>
outcome == <<errors, haltSeen, exit>>
vars == <<pc, ready, threads, stages, outside, server, outcome, faults>>

Steps == {"serve", "watchdog", "maintenance", "storage"}

Init ==
    /\ pc = "opening" /\ ready = "none"
    /\ writer = "boot" /\ batcher = "absent" /\ keeper = "absent" /\ dog = "absent"
    /\ halt = [sent |-> FALSE, receiver |-> TRUE] /\ halted = FALSE
    /\ sigterm = FALSE /\ signal = FALSE
    /\ timer = FALSE /\ monitor = "absent" /\ serving = FALSE
    /\ inflight = 0 /\ ingest = 0 /\ buffer = 0 /\ queue = 0 /\ accepted = 0
    /\ errors = [s \in Steps |-> "none"]
    /\ haltSeen = FALSE /\ exit = "none"
    /\ faults = MaxFaults

Alive == exit = "none"

Fault(k) == /\ k \in Faults /\ faults > 0
            /\ faults' = faults - 1

Exit(how) == exit' = how /\ pc' = "exited"

\* The running guards of stats.rs: set from a thread's start to its end.
WriterRuns  == writer \in {"boot", "ready", "run", "wedged"}
BatcherRuns == batcher = "run"
PipelineDead == batcher # "absent" /\ (~WriterRuns \/ (~BatcherRuns /\ batcher # "spawned"))

\* Who holds a sender of the ingest queue, and of the command queue.
IngestOpen == pc \in {"opening", "batcher", "observers", "binding", "serving", "draining"}
                  \/ inflight > 0
QueueOpen  == \/ pc \notin {"joinBatcher", "joinWriter", "report", "exited"}
              \/ batcher \in {"spawned", "run"}
              \/ keeper = "run"

-----------------------------------------------------------------------------
(* Storage::open *)

\* bootstrap reports exactly once: opened and migrated, or the error.
WriterBoots ==
    /\ Alive /\ writer = "boot"
    /\ \/ writer' = "ready" /\ ready' = "ok" /\ UNCHANGED faults
       \/ Fault("boot") /\ writer' = "failed" /\ ready' = "err"
    /\ UNCHANGED <<pc, batcher, keeper, dog, stages, outside, server, outcome>>

\* The checkpoint after the report may still fail.
WriterStarts ==
    /\ Alive /\ writer = "ready"
    /\ \/ writer' = "run" /\ UNCHANGED faults
       \/ Fault("checkpoint") /\ writer' = "failed"
    /\ UNCHANGED <<pc, ready, batcher, keeper, dog, stages, outside, server, outcome>>

OpenContinues ==
    /\ pc = "opening" /\ ready = "ok"
    /\ batcher' = "spawned" /\ pc' = "batcher"
    /\ UNCHANGED <<ready, writer, keeper, dog, stages, outside, server, outcome, faults>>

\* The batcher publishes its liveness guard, then reports.
BatcherStarts ==
    /\ Alive /\ batcher = "spawned"
    /\ batcher' = "run"
    /\ UNCHANGED <<pc, ready, writer, keeper, dog, stages, outside, server, outcome, faults>>

\* main spawns the maintenance worker and the watchdog.
OpenReturns ==
    /\ pc = "batcher" /\ batcher # "spawned"
    /\ keeper' = "run" /\ dog' = "run" /\ pc' = "binding"
    /\ UNCHANGED <<ready, writer, batcher, stages, outside, server, outcome, faults>>

\* An error, or the startup timeout while waiting for either thread: the
\* senders are dropped, the writer is reaped if it ends in time.
OpenFails ==
    /\ \/ pc = "opening" /\ ready = "err" /\ UNCHANGED faults
       \/ pc = "opening" /\ ready = "none" /\ Fault("slow_boot")
       \/ pc = "batcher" /\ batcher = "spawned" /\ Fault("slow_batcher")
    /\ Exit("startup")
    /\ UNCHANGED <<ready, threads, stages, outside, server, errors, haltSeen>>

-----------------------------------------------------------------------------
(* The gRPC server and its tasks *)

\* Certificates and tokens load before the tasks are spawned, the address is
\* bound after; either failure ends serve_with_shutdown with an error.
Listen ==
    /\ pc = "binding"
    /\ \/ /\ monitor' = "poll" /\ pc' = "serving"
          /\ UNCHANGED <<halt, errors, faults>>
       \/ /\ Fault("listen") /\ monitor' \in {"absent", "poll"} /\ pc' = "served"
          /\ halt' = [halt EXCEPT !.receiver = monitor' = "poll"]
          /\ errors' = [errors EXCEPT !["serve"] = "failed"]
    /\ UNCHANGED <<ready, threads, stages, halted, sigterm, signal, timer,
                   serving, inflight, accepted, haltSeen, exit>>

Request ==
    /\ pc = "serving" /\ inflight < Handlers
    /\ inflight' = inflight + 1
    /\ UNCHANGED <<pc, ready, threads, stages, outside, timer, monitor, serving,
                   accepted, outcome, faults>>

\* A handler's chunk enters the ingest queue while the batcher receives.
HandlerSends ==
    /\ Alive /\ inflight > 0 /\ accepted < MaxChunks
    /\ ingest < QueueCap /\ batcher = "run"
    /\ ingest' = ingest + 1 /\ accepted' = accepted + 1
    /\ UNCHANGED <<pc, ready, threads, buffer, queue, outside, timer, monitor,
                   serving, inflight, outcome, faults>>

HandlerEnds ==
    /\ Alive /\ inflight > 0
    /\ inflight' = inflight - 1
    /\ UNCHANGED <<pc, ready, threads, stages, outside, timer, monitor, serving,
                   accepted, outcome, faults>>

Sigterm ==
    /\ Alive /\ ~sigterm /\ monitor # "absent"
    /\ sigterm' = TRUE
    /\ UNCHANGED <<pc, ready, threads, stages, halt, halted, signal, server,
                   outcome, faults>>

\* The signal task: an OS signal, a halt, or the watchdog's sender gone.
SignalTask ==
    /\ Alive /\ monitor # "absent" /\ ~signal
    /\ sigterm \/ halt.sent \/ dog \in {"done", "panicked"}
    /\ signal' = TRUE /\ halt' = [halt EXCEPT !.receiver = FALSE]
    /\ UNCHANGED <<pc, ready, threads, stages, halted, sigterm, server, outcome, faults>>

\* Mutant of MonitorPolls: only the writer is looked at.
MonitorPollsWriter ==
    /\ Alive /\ monitor = "poll"
    /\ serving' = WriterRuns
    /\ UNCHANGED <<pc, ready, threads, stages, outside, timer, monitor, inflight,
                   accepted, outcome, faults>>

\* Both branches of the monitor's select may be ready; either is taken.
MonitorPolls ==
    /\ Alive /\ monitor = "poll"
    /\ serving' = (WriterRuns /\ BatcherRuns)
    /\ UNCHANGED <<pc, ready, threads, stages, outside, timer, monitor, inflight,
                   accepted, outcome, faults>>

MonitorHalts ==
    /\ Alive /\ monitor = "poll" /\ signal
    /\ serving' = FALSE /\ monitor' = "done"
    /\ UNCHANGED <<pc, ready, threads, stages, outside, timer, inflight, accepted,
                   outcome, faults>>

StopAccepting ==
    /\ pc = "serving" /\ signal
    /\ pc' = "draining"
    /\ UNCHANGED <<ready, threads, stages, outside, server, outcome, faults>>

StartDeadline ==
    /\ pc \in {"serving", "draining"} /\ signal /\ ~timer
    /\ timer' = TRUE
    /\ UNCHANGED <<pc, ready, threads, stages, outside, monitor, serving, inflight,
                   accepted, outcome, faults>>

\* The select ends: every connection drained, or the deadline came first.
ServeReturns ==
    /\ \/ pc = "draining" /\ inflight = 0
       \/ pc \in {"serving", "draining"} /\ timer
    /\ pc' = "served"
    /\ UNCHANGED <<ready, threads, stages, outside, server, outcome, faults>>

-----------------------------------------------------------------------------
(* The batcher and the writer *)

BatcherTakes ==
    /\ Alive /\ batcher = "run" /\ ingest > 0
    /\ ingest' = ingest - 1 /\ buffer' = buffer + 1
    /\ UNCHANGED <<pc, ready, threads, queue, outside, server, outcome, faults>>

BatcherSubmits ==
    /\ Alive /\ batcher = "run" /\ buffer > 0 /\ queue < QueueCap /\ WriterRuns
    /\ buffer' = buffer - 1 /\ queue' = queue + 1
    /\ UNCHANGED <<pc, ready, threads, ingest, outside, server, outcome, faults>>

\* The loop ends on a closed input, flushed; on a closed command queue; by the
\* injected fault; or by a panic.
BatcherEnds ==
    /\ Alive /\ batcher = "run"
    /\ \/ ~IngestOpen /\ ingest = 0 /\ buffer = 0 /\ batcher' = "done" /\ UNCHANGED faults
       \/ buffer > 0 /\ ~WriterRuns /\ batcher' = "done" /\ UNCHANGED faults
       \/ buffer = 0 /\ Fault("batcher_exit") /\ batcher' = "done"
       \/ Fault("batcher_panic") /\ batcher' = "panicked"
    /\ UNCHANGED <<pc, ready, writer, keeper, dog, stages, outside, server, outcome>>

WriterExecutes ==
    /\ Alive /\ writer = "run" /\ queue > 0
    /\ queue' = queue - 1
    /\ \/ UNCHANGED <<writer, faults>>
       \/ Fault("writer") /\ writer' \in {"failed", "panicked"}
       \/ Fault("wedge") /\ writer' = "wedged"
    /\ UNCHANGED <<pc, ready, batcher, keeper, dog, ingest, buffer, outside, server,
                   outcome>>

\* The queue is closed and drained; the final checkpoint may fail.
WriterEnds ==
    /\ Alive /\ writer = "run" /\ queue = 0 /\ ~QueueOpen
    /\ \/ writer' = "done" /\ UNCHANGED faults
       \/ Fault("checkpoint") /\ writer' = "failed"
    /\ UNCHANGED <<pc, ready, batcher, keeper, dog, stages, outside, server, outcome>>

-----------------------------------------------------------------------------
(* The maintenance worker and the watchdog *)

KeeperEnds ==
    /\ Alive /\ keeper = "run"
    /\ \/ (pc = "joinKeeper" \/ ~WriterRuns) /\ keeper' = "done" /\ UNCHANGED faults
       \/ Fault("keeper") /\ keeper' = "panicked"
    /\ UNCHANGED <<pc, ready, writer, batcher, dog, stages, outside, server, outcome>>

\* Without halt_on_unhealthy a verdict is only reported.
DogJudges ==
    /\ Alive /\ dog = "run" /\ HaltOnUnhealthy
    /\ \/ PipelineDead /\ UNCHANGED faults
       \/ ~PipelineDead /\ Fault("stall")
    /\ dog' = "unhealthy"
    /\ UNCHANGED <<pc, ready, writer, batcher, keeper, stages, outside, server, outcome>>

\* A requested stop or a missing receiver withholds the halt.
DogHalts ==
    /\ Alive /\ dog = "unhealthy"
    /\ IF pc = "joinDog" \/ ~halt.receiver
       THEN dog' = "done" /\ UNCHANGED halt
       ELSE dog' = "sent" /\ halt' = [halt EXCEPT !.sent = TRUE]
    /\ UNCHANGED <<pc, ready, writer, batcher, keeper, stages, halted, sigterm,
                   signal, server, outcome, faults>>

DogFlags ==
    /\ Alive /\ dog = "sent"
    /\ halted' = TRUE /\ dog' = "done"
    /\ UNCHANGED <<pc, ready, writer, batcher, keeper, stages, halt, sigterm, signal,
                   server, outcome, faults>>

DogEnds ==
    /\ Alive /\ dog = "run"
    /\ \/ pc = "joinDog" /\ dog' = "done" /\ UNCHANGED faults
       \/ Fault("dog") /\ dog' = "panicked"
    /\ UNCHANGED <<pc, ready, writer, batcher, keeper, stages, outside, server, outcome>>

-----------------------------------------------------------------------------
(* main, after serve_with_shutdown *)

Record(step, thread) ==
    errors' = [errors EXCEPT ![step] = IF thread = "done" THEN "none" ELSE thread]

ReadHalt ==
    /\ pc = "served"
    /\ haltSeen' = halted /\ pc' = "joinDog"
    /\ UNCHANGED <<ready, threads, stages, outside, server, errors, exit, faults>>

JoinDog ==
    /\ pc = "joinDog" /\ dog \in {"done", "panicked"}
    /\ Record("watchdog", dog) /\ pc' = "joinKeeper"
    /\ UNCHANGED <<ready, threads, stages, outside, server, haltSeen, exit, faults>>

JoinKeeper ==
    /\ pc = "joinKeeper" /\ keeper \in {"done", "panicked"}
    /\ Record("maintenance", keeper) /\ pc' = "joinBatcher"
    /\ UNCHANGED <<ready, threads, stages, outside, server, haltSeen, exit, faults>>

\* join_inner released its own sender; a panicked batcher ends it at once.
JoinBatcher ==
    /\ pc = "joinBatcher" /\ batcher \in {"done", "panicked"}
    /\ Record("storage", batcher)
    /\ pc' = IF batcher = "done" THEN "joinWriter" ELSE "report"
    /\ UNCHANGED <<ready, threads, stages, outside, server, haltSeen, exit, faults>>

\* Mutant of JoinWriter: the writer is not waited for.
JoinWriterUnwaited ==
    /\ pc = "joinWriter"
    /\ Record("storage", IF WriterRuns THEN "done" ELSE writer) /\ pc' = "report"
    /\ UNCHANGED <<ready, threads, stages, outside, server, haltSeen, exit, faults>>

JoinWriter ==
    /\ pc = "joinWriter" /\ ~WriterRuns
    /\ Record("storage", writer) /\ pc' = "report"
    /\ UNCHANGED <<ready, threads, stages, outside, server, haltSeen, exit, faults>>

\* Mutant of JoinTimeout: the budget covers the batcher alone.
JoinTimeoutBatcherOnly ==
    /\ pc = "joinBatcher" /\ batcher = "run"
    /\ errors' = [errors EXCEPT !["storage"] = "timeout"] /\ pc' = "report"
    /\ UNCHANGED <<ready, threads, stages, outside, server, haltSeen, exit, faults>>

\* The shutdown budget is one deadline for both threads.
JoinTimeout ==
    /\ \/ pc = "joinBatcher" /\ batcher = "run"
       \/ pc = "joinWriter" /\ WriterRuns
    /\ errors' = [errors EXCEPT !["storage"] = "timeout"] /\ pc' = "report"
    /\ UNCHANGED <<ready, threads, stages, outside, server, haltSeen, exit, faults>>

\* Mutant of Report: the storage result is not looked at.
ReportWithoutStorage ==
    /\ pc = "report"
    /\ Exit(CASE errors["serve"] # "none"       -> "serve"
              [] errors["watchdog"] # "none"    -> "watchdog"
              [] errors["maintenance"] # "none" -> "maintenance"
              [] OTHER                          -> "ok")
    /\ UNCHANGED <<ready, threads, stages, outside, server, errors, haltSeen, faults>>

\* The first failed step, in this order, is what the process ends with.
Report ==
    /\ pc = "report"
    /\ Exit(CASE errors["serve"] # "none"       -> "serve"
              [] errors["watchdog"] # "none"    -> "watchdog"
              [] errors["maintenance"] # "none" -> "maintenance"
              [] errors["storage"] # "none"     -> "storage"
              [] OTHER                          -> "ok")
    /\ UNCHANGED <<ready, threads, stages, outside, server, errors, haltSeen, faults>>

Startup  == WriterBoots \/ WriterStarts \/ OpenContinues \/ BatcherStarts
                \/ OpenReturns \/ OpenFails
Serving  == Listen \/ Request \/ HandlerSends \/ HandlerEnds \/ Sigterm \/ SignalTask
                \/ MonitorPolls \/ MonitorHalts \/ StopAccepting \/ StartDeadline
                \/ ServeReturns
Pipeline == BatcherTakes \/ BatcherSubmits \/ BatcherEnds \/ WriterExecutes \/ WriterEnds
Workers  == KeeperEnds \/ DogJudges \/ DogHalts \/ DogFlags \/ DogEnds
Teardown == ReadHalt \/ JoinDog \/ JoinKeeper \/ JoinBatcher \/ JoinWriter
                \/ JoinTimeout \/ Report

Next == Startup \/ Serving \/ Pipeline \/ Workers \/ Teardown

Spec == Init /\ [][Next]_vars

-----------------------------------------------------------------------------
(* Fairness: main, the runtime's tasks, the watchdog and the maintenance   *)
(* worker run, and deadlines pass.  Nothing is assumed of the writer, of   *)
(* the batcher, of clients or of faults.                                   *)

MainStep == OpenContinues \/ OpenReturns \/ Listen \/ StopAccepting \/ ServeReturns
                \/ Teardown

Fairness ==
    /\ WF_vars(MainStep)
    /\ WF_vars(StartDeadline)
    /\ WF_vars(SignalTask)
    /\ WF_vars(MonitorHalts)
    /\ WF_vars(MonitorPolls)
    /\ WF_vars(KeeperEnds /\ keeper' = "done")
    /\ WF_vars(DogJudges /\ faults' = faults)
    /\ WF_vars(DogHalts)
    /\ WF_vars(DogFlags)
    /\ WF_vars(DogEnds /\ dog' = "done")

-----------------------------------------------------------------------------
(* Properties *)

LifecycleTypeOK ==
    /\ pc \in {"opening", "batcher", "binding", "serving", "draining", "served",
               "joinDog", "joinKeeper", "joinBatcher", "joinWriter", "report", "exited"}
    /\ ready \in {"none", "ok", "err"}
    /\ writer \in {"boot", "ready", "run", "wedged", "failed", "panicked", "done"}
    /\ batcher \in {"absent", "spawned", "run", "panicked", "done"}
    /\ keeper \in {"absent", "run", "panicked", "done"}
    /\ dog \in {"absent", "run", "unhealthy", "sent", "panicked", "done"}
    /\ halt \in [sent: BOOLEAN, receiver: BOOLEAN]
    /\ {halted, sigterm, signal, timer, serving, haltSeen} \subseteq BOOLEAN
    /\ monitor \in {"absent", "poll", "done"}
    /\ inflight \in 0..Handlers /\ accepted \in 0..MaxChunks
    /\ {ingest, queue} \subseteq 0..QueueCap /\ buffer \in 0..MaxChunks
    /\ errors \in [Steps -> {"none", "failed", "panicked", "timeout"}]
    /\ exit \in {"none", "startup", "ok"} \cup Steps
    /\ faults \in 0..MaxFaults

Served == exit \notin {"none", "startup"}

\* When storage.join_timeout reports no error, every chunk accepted by any
\* handler, also by one that outlived the drain deadline, has left the ingest
\* queue, the batcher and the command queue, and the writer ended by itself,
\* whatever the other steps of the teardown reported.
DrainedOnExit ==
    Served /\ errors["storage"] = "none"
        => writer = "done" /\ ingest = 0 /\ buffer = 0 /\ queue = 0

\* main returns Ok only if the server, the watchdog, the maintenance worker,
\* the batcher and the writer all ended without failure.
ExitIsHonest ==
    exit = "ok" => /\ writer = "done" /\ batcher = "done"
                   /\ keeper = "done" /\ dog = "done"
                   /\ errors["serve"] = "none"

\* Once the server was told to stop, the process ends, whatever the writer,
\* the batcher and the clients do: the drain and the join are bounded and
\* neither the watchdog nor the maintenance worker can block.
ShutdownEnds == signal ~> ~Alive

\* A pipeline thread that dies while the server runs ends the process with a
\* failure, so that a supervisor restarts it.
DeadPipelineFails == (pc = "serving" /\ PipelineDead) ~> exit \notin {"none", "ok"}

\* A dead pipeline is soon reported NOT_SERVING, and never SERVING again.
DeadPipelineStopsServing == PipelineDead ~> [](Alive => ~serving)
====
