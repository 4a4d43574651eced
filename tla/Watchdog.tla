------------------------------- MODULE Watchdog -------------------------------
(***************************************************************************)
(* The watchdog (watchdog.rs): every TickInterval it reads the evidence,   *)
(* one atomic at a time, derives a verdict and, on an unhealthy one, sends *)
(* the halt once and ends, or goes on when halt_on_unhealthy is off.  The  *)
(* process may stop it at any moment.                                      *)
(***************************************************************************)
EXTENDS HealthEvidence

CONSTANTS DegradedAfter, UnhealthyAfter, AckStallAfter, MaintenanceStallAfter,
          PressurePercent,  \* queue_pressure_ratio, in percent
          HaltOnUnhealthy   \* halt_on_unhealthy

(* WatchdogConfig::validate and validate_watchdog: the orderings a server  *)
(* insists on before it starts.                                            *)
ValidConfig ==
    /\ {DegradedAfter, UnhealthyAfter, AckStallAfter, MaintenanceStallAfter,
        TickInterval} \subseteq Nat \ {0}
    /\ DegradedAfter < UnhealthyAfter
    /\ UnhealthyAfter <= MaintenanceStallAfter
    /\ BatchAge < DegradedAfter
    /\ PressurePercent \in 1..100

WatchdogAssumption ==
    /\ ValidConfig /\ HaltOnUnhealthy \in BOOLEAN
    /\ {UnhealthyAfter, AckStallAfter, MaintenanceStallAfter} \subseteq 1..Old
    /\ MaxGap <= Old

VARIABLES wd,        \* pc of the watchdog: "wait", a read of sample, or "ended"
          smp,       \* the fields read so far
          verdict,   \* the reason of the last verdict, if it was Unhealthy
          gauge,     \* sidecar_health_state
          serving,   \* the server runs and holds the receiver of the halt
          stopping,  \* shutdown was signalled by the process
          haltSent,  \* the halt channel holds true
          halted,    \* WatchdogHandle::requested_halt
          rest       \* history: ticks without an insert to commit

watchdogVars == <<wd, smp, verdict, gauge, serving, stopping, haltSent, halted>>
vars == <<evidenceVars, watchdogVars, rest>>

NoSample == [writer |-> 0, batcher |-> 0, depth |-> 0, pending |-> 0, tickets |-> 0,
             advance |-> 0, elapsed |-> 0, maintenance |-> FALSE,
             writerRunning |-> TRUE, batcherRunning |-> TRUE]

WatchdogInit ==
    /\ EvidenceInit
    /\ wd = "start"
    /\ smp = NoSample
    /\ verdict = "none"
    /\ gauge = "unset"
    /\ serving = TRUE /\ stopping = FALSE /\ haltSent = FALSE /\ halted = FALSE
    /\ rest = 0

-------------------------------------------------------------------------------
(* StorageHealth::sample.  The time stamps are read first, the maintenance *)
(* flag last; each group is read while the threads go on.  Of a number     *)
(* only what the rules compare it with is kept.                            *)
AtLeast(n, limits) == Max({0} \cup {limit \in limits : n >= limit})

SampleTimes ==
    /\ wd = "start" /\ ~stopping
    /\ smp' = [NoSample EXCEPT
                 !.writerRunning = stats.writerRunning,
                 !.batcherRunning = stats.batcherRunning,
                 !.writer = AtLeast(age.writer, {DegradedAfter, UnhealthyAfter}),
                 !.batcher = AtLeast(age.batcher, {DegradedAfter, UnhealthyAfter}),
                 !.elapsed = IF stats.started
                             THEN AtLeast(age.maintenance, {MaintenanceStallAfter}) ELSE 0]
    /\ wd' = "depth"

SampleDepth ==
    /\ wd = "depth"
    /\ smp' = [smp EXCEPT !.depth = stats.depth + stats.inFlight]
    /\ wd' = "records"

SampleRecords ==
    /\ wd = "records"
    /\ smp' = [smp EXCEPT !.pending = AtLeast(smp.depth + stats.buffered, {1})]
    /\ wd' = "tickets"

SampleTickets ==
    /\ wd = "tickets"
    /\ smp' = [smp EXCEPT !.tickets = AtLeast(OutstandingTickets, {1})]
    /\ wd' = "advance"

SampleAdvance ==
    /\ wd = "advance"
    /\ smp' = [smp EXCEPT !.advance = AtLeast(age.advance, {AckStallAfter}),
                          !.maintenance = stats.maintenance]
    /\ wd' = "evaluate"

Sample == /\ SampleTimes \/ SampleDepth \/ SampleRecords \/ SampleTickets
             \/ SampleAdvance
          /\ UNCHANGED <<verdict, gauge, serving, stopping, haltSent, halted>>

-------------------------------------------------------------------------------
PressureThreshold ==
    LET t == (QueueCapacity * PressurePercent) \div 100 IN IF t = 0 THEN 1 ELSE t

Saturated(s) == s.depth >= PressureThreshold
AckStalled(s) == s.tickets > 0 /\ s.advance >= AckStallAfter

Rule(applies, state, reason) == [applies |-> applies, state |-> state, reason |-> reason]

(* evaluate: the first rule that applies gives the verdict.  Maintenance   *)
(* suspends the stall rules; pending work is judged stage by stage.        *)
Rules(s) ==
    LET maintained == s.maintenance
        working == ~s.maintenance /\ s.pending > 0
        slow(limit) == s.writer >= limit \/ s.batcher >= limit
    IN <<Rule(~s.writerRunning, "Unhealthy", "WriterNotRunning"),
         Rule(~s.batcherRunning, "Unhealthy", "BatcherNotRunning"),
         Rule(maintained /\ s.elapsed >= MaintenanceStallAfter, "Unhealthy", "MaintenanceStalled"),
         Rule(maintained /\ AckStalled(s), "Degraded", "MaintenanceAckStall"),
         Rule(maintained /\ Saturated(s), "Degraded", "MaintenanceSaturated"),
         Rule(maintained, "Healthy", "MaintenanceRunning"),
         Rule(~working /\ AckStalled(s), "Unhealthy", "AckStall"),
         Rule(~working, "Healthy", "Idle"),
         Rule(slow(UnhealthyAfter), "Unhealthy", "Stalled"),
         Rule(slow(DegradedAfter), "Degraded", "Draining"),
         Rule(Saturated(s), "Degraded", "Saturated"),
         Rule(TRUE, "Healthy", "Progressing")>>

(* Mutants: maintenance without a bound; idle tested before the tickets.   *)
EvaluateTrustingMaintenance(s) ==
    LET rules == Remove(Rules(s), Rules(s)[3])
        first == SelectInSeq(rules, LAMBDA r : r.applies)
    IN [state |-> rules[first].state, reason |-> rules[first].reason]
EvaluateIdleFirst(s) ==
    LET rules == Remove(Rules(s), Rules(s)[7])
        first == SelectInSeq(rules, LAMBDA r : r.applies)
    IN [state |-> rules[first].state, reason |-> rules[first].reason]

Evaluate(s) ==
    LET first == SelectInSeq(Rules(s), LAMBDA r : r.applies)
    IN [state |-> Rules(s)[first].state, reason |-> Rules(s)[first].reason]

(* The loop body after the sample: metrics, then the wait for the timer    *)
(* or, on an unhealthy verdict, the halt.                                  *)
Judge ==
    /\ wd = "evaluate"
    /\ gauge' = Evaluate(smp).state
    /\ verdict' = IF gauge' = "Unhealthy" THEN Evaluate(smp).reason ELSE "none"
    /\ wd' = IF gauge' = "Unhealthy" /\ HaltOnUnhealthy THEN "halt" ELSE "wait"
    /\ age' = Marked({"tick"})
    /\ smp' = NoSample
    /\ UNCHANGED <<serving, stopping, haltSent, halted>>

(* Shutdown is checked once more, and only then the halt is sent.  When    *)
(* the receiver is gone the loop ends as after a shutdown.                 *)
CheckBeforeHalt ==
    /\ wd = "halt" /\ ~stopping
    /\ wd' = "send"
    /\ UNCHANGED <<smp, verdict, gauge, serving, stopping, haltSent, halted, age>>

SendHalt ==
    /\ wd = "send" /\ serving
    /\ haltSent' = TRUE
    /\ wd' = "flag halt"
    /\ UNCHANGED <<smp, verdict, gauge, serving, stopping, halted, age>>

(* Mutant: the gauge is reset on every way out of the loop.                *)
FlagHaltResetting ==
    /\ wd = "flag halt"
    /\ halted' = TRUE
    /\ wd' = "ended"
    /\ gauge' = "Healthy"
    /\ UNCHANGED <<smp, verdict, serving, stopping, haltSent, age>>

(* requested_halt is stored after the channel was written.                 *)
FlagHalt ==
    /\ wd = "flag halt"
    /\ halted' = TRUE
    /\ wd' = "ended"
    /\ UNCHANGED <<smp, verdict, gauge, serving, stopping, haltSent, age>>

(* The loop ends without a halt and the health gauge is reset.             *)
EndLoop ==
    /\ \/ stopping /\ wd \in {"start", "wait", "halt"}
       \/ ~serving /\ wd = "send"
    /\ wd' = "ended"
    /\ gauge' = IF halted THEN gauge ELSE "Healthy"
    /\ UNCHANGED <<smp, verdict, serving, stopping, haltSent, halted, age>>

Timer ==
    /\ wd = "wait" /\ age.tick >= TickInterval
    /\ wd' = "start"
    /\ UNCHANGED <<smp, verdict, gauge, serving, stopping, haltSent, halted, age>>

(* The server returns, on a signal or on the halt, and then the process    *)
(* stops the watchdog (main.rs).                                           *)
ServerReturns ==
    /\ serving
    /\ serving' = FALSE
    /\ UNCHANGED <<wd, smp, verdict, gauge, stopping, haltSent, halted, age>>

Stop ==
    /\ ~serving /\ ~stopping
    /\ stopping' = TRUE
    /\ UNCHANGED <<wd, smp, verdict, gauge, serving, haltSent, halted, age>>

WatchdogStep == (Sample /\ UNCHANGED age) \/ Judge \/ CheckBeforeHalt \/ SendHalt \/ FlagHalt
                \/ EndLoop \/ Timer

(* The watchdog thread has a step it could take at once.                   *)
WatchdogReady == \/ wd \notin {"wait", "ended"}
                 \/ wd = "wait" /\ (stopping \/ age.tick >= TickInterval)

(* What the thresholds leave for a pause between two commits, when the     *)
(* next batch may wait for its age and then for one command.               *)
Margin == Min({UnhealthyAfter, AckStallAfter}) - BatchAge - MaxExec

(* No insert is on its way, or maintenance holds it up.                    *)
Resting == OutstandingTickets = leaked \/ stats.maintenance

(* The pause since the last advance of the watermark; one as long as the   *)
(* margin is remembered.                                                   *)
Paused(ticks) ==
    rest' = IF rest = Margin \/ age'.client >= Margin THEN Margin
            ELSE IF age'.advance = 0 THEN 0
            ELSE IF Resting THEN rest + ticks ELSE rest

Tick ==
    /\ Quiet /\ ~WatchdogReady /\ wd # "ended"
    /\ Elapse
    /\ UNCHANGED <<ingest, batcher, queue, writer, stats, leaked, watchdogVars>>

others == <<ingest, batcher, queue, writer, stats, leaked>>
Next ==
    \/ wd # "ended" /\ EvidenceStep /\ UNCHANGED watchdogVars /\ Paused(0)
    \/ WatchdogStep /\ UNCHANGED others /\ Paused(0)
    \/ (ServerReturns \/ Stop) /\ UNCHANGED others /\ Paused(0)
    \/ Tick /\ Paused(1)
Spec == WatchdogInit /\ [][Next]_vars

(* The operating system gives every thread that can go on its turn, and    *)
(* the clock goes on; clients and the process promise nothing.             *)
Fairness ==
    /\ []<>~BatcherReady \/ []<><<BatcherStep>>_vars
    /\ []<>~WriterReady \/ []<><<WriterStep>>_vars
    /\ []<>~WatchdogReady \/ []<><<WatchdogStep>>_vars
    /\ []<>(wd = "ended" \/ ~Quiet \/ WatchdogReady) \/ []<><<Tick>>_vars

-------------------------------------------------------------------------------
(* The state is well formed: queues within their capacities, ages capped.  *)
WatchdogTypeOK ==
    /\ ingest \in 0..IngestCapacity
    /\ queue \in BoundedSeq(0..BatchSize, QueueCapacity)
    /\ batcher.buffered \in 0..BatchSize /\ batcher.out \in 0..BatchSize
    /\ stats.depth \in 0..QueueCapacity /\ stats.inFlight \in 0..1
    /\ age \in [Stamps -> 0..Old]
    /\ gauge \in {"unset", "Healthy", "Degraded", "Unhealthy"}
    /\ {serving, stopping, haltSent, halted} \subseteq BOOLEAN
    /\ rest \in 0..Margin

(* The watchdog halts the server only for a fault: a command that never    *)
(* returns, a thread that ended, a ticket that leaked.  watchdog.rs calls  *)
(* a stall WORK BUT NO PROGRESS, and validate_watchdog wants no "low-      *)
(* volume stream" to make it "halt a healthy process".                     *)
HaltMeansFault == haltSent => writer.wedged \/ ~Alive \/ leaked > 0

(* A process without a fault is halted only if, at some time, there was    *)
(* nothing to commit for as long as the thresholds leave beside the batch  *)
(* age and a command: no order in which samples fall between the steps of  *)
(* batcher, writer and maintenance makes a busy pipeline look stalled.     *)
HaltNeedsPause == HaltMeansFault \/ rest = Margin

(* "After an unhealthy halt the last verdict must stay visible until the   *)
(* process exits": once the halt is sent the gauge shows Unhealthy.        *)
VerdictSurvivesHalt == haltSent => gauge = "Unhealthy"

(* A wedged command or a dead thread is halted, unless the process stops   *)
(* first; no mix of traffic and maintenance hides it.                      *)
FaultIsHalted == (writer.wedged \/ ~Alive) ~> (haltSent \/ ~serving)

(* With halt_on_unhealthy off the fault stays visible instead: from some   *)
(* verdict on the gauge says Unhealthy and no later sample takes it back.  *)
FaultStaysReported == (writer.wedged \/ ~Alive) ~> [](gauge = "Unhealthy")

(* A leaked ticket is found once the pipeline holds no other work.         *)
QuietLeakIsHalted ==
    <>[](leaked > 0 /\ OutstandingTickets = leaked /\ queue = <<>>)
        => <>(haltSent \/ ~serving)
===============================================================================
