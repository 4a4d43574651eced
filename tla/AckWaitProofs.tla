---------------------------- MODULE AckWaitProofs -----------------------------
(***************************************************************************)
(* A released waiter was told the truth, for every number of tickets,      *)
(* threads and waiting tasks.                                              *)
(***************************************************************************)
EXTENDS AckWait, CommitLedgerProofs, FiniteSetTheorems

(* The steps of the tasks are steps of the ledger or leave it alone. *)
LEMMA AckStepIsLedgerStep == [AckNext]_ackVars => [LedgerNext]_ledgerVars
BY DEF AckNext, ackVars, Mutate, PublishAndWake, Subscribe, Look, Decide, LedgerNext

(* The ledger with waiters is still the ledger, so its theorems hold here. *)
LEMMA AckImplementsLedger == AckSpec => LedgerSpec
<1>1. AckInit => LedgerInit
  BY DEF AckInit
<1> QED
  BY <1>1, AckStepIsLedgerStep, PTL DEF AckSpec, LedgerSpec

(* What one task remembers is sound: a flag or a watermark it borrowed     *)
(* does not run ahead of the ledger, and a settled answer is the ledger's. *)
TaskSound(w) ==
    /\ pc[w] # "idle" => target[w] \in 1..nextTicket
    /\ pc[w] = "decide" => call[w] = "wait"
    /\ seenClosed[w] => closed
    /\ pc[w] = "done" /\ call[w] = "wait_watermark" =>
         LET wm == result[w].wm
         IN  /\ wm.committedThrough \in 0..committedThrough
             /\ wm.committedThrough >= target[w] \/ wm.closed
             /\ wm.closed => closed
    /\ pc[w] = "done" /\ call[w] = "wait" =>
         IF result[w].kind = "Closed" THEN closed
         ELSE IsSettled(target[w]) /\ State(target[w]) = result[w]

TaskTypes ==
    /\ pc \in [Tasks -> {"idle", "look", "decide", "asleep", "done"}]
    /\ call \in [Tasks -> Calls]
    /\ target \in [Tasks -> 0..MaxTicket]
    /\ seenClosed \in [Tasks -> BOOLEAN]
    /\ changed \in [Tasks -> BOOLEAN]
    /\ DOMAIN result = Tasks

AckInv == LedgerInv /\ TaskTypes /\ \A w \in Tasks : TaskSound(w)

(* No call has been made at the start. *)
LEMMA AckInitInv == AckInit => AckInv
<1> SUFFICES ASSUME AckInit PROVE AckInv
  OBVIOUS
<1>1. LedgerInv
  BY LedgerInitInv DEF AckInit
<1>2. TaskTypes
  BY BoundsAssumption DEF AckInit, TaskTypes, Calls
<1>3. \A w \in Tasks : TaskSound(w)
  BY BoundsAssumption DEF AckInit, LedgerInit, TaskSound
<1> QED
  BY <1>1, <1>2, <1>3 DEF AckInv

(* A ledger step leaves what a task remembers sound. *)
LEMMA LedgerStepKeepsTask ==
    ASSUME LedgerInv, LedgerInv', [LedgerNext]_ledgerVars, NEW w \in Tasks,
           TaskSound(w),
           pc'[w] = pc[w], call'[w] = call[w], target'[w] = target[w],
           seenClosed'[w] = seenClosed[w], result'[w] = result[w]
    PROVE  TaskSound(w)'
<1>1. /\ nextTicket \in 0..nextTicket' /\ committedThrough \in 0..committedThrough'
      /\ closed => closed'
  BY LedgerMonotone
<1>2. nextTicket' \in Nat /\ committedThrough' \in Nat
  BY BoundsAssumption DEF LedgerInv, LedgerTypeOK
<1>3. pc[w] # "idle" => target[w] \in 1..nextTicket' /\ target[w] \in Tickets
  <2>1. pc[w] # "idle" => target[w] \in 1..nextTicket
    BY DEF TaskSound
  <2>2. 1..nextTicket \subseteq 1..nextTicket' /\ 1..nextTicket \subseteq Tickets
    BY <1>1, <1>2, BoundsAssumption DEF LedgerInv, LedgerTypeOK, Tickets
  <2> QED
    BY <2>1, <2>2
<1>4. pc[w] = "done" /\ call[w] = "wait_watermark" =>
        /\ result[w].wm.committedThrough \in 0..committedThrough'
        /\ result[w].wm.committedThrough >= target[w] \/ result[w].wm.closed
        /\ result[w].wm.closed => closed'
  BY <1>1, <1>2 DEF TaskSound
<1>5. ASSUME pc[w] = "done", call[w] = "wait", result[w].kind # "Closed"
      PROVE  (IsSettled(target[w]) /\ State(target[w]) = result[w])'
  <2>1. IsSettled(target[w]) /\ State(target[w]) = result[w]
    BY <1>5 DEF TaskSound
  <2>2. PICK t \in Tickets : t = target[w]
    BY <1>3, <1>5
  <2>3. IsSettled(t)' /\ State(t)' = State(t)
    BY <2>1, <2>2, SettledStepFinal
  <2> QED
    BY <2>1, <2>2, <2>3 DEF IsSettled, State
<1>6. pc[w] = "done" /\ call[w] = "wait" /\ result[w].kind = "Closed" => closed'
  BY <1>1 DEF TaskSound
<1>7. seenClosed[w] => closed'
  BY <1>1 DEF TaskSound
<1> QED
  BY <1>3, <1>4, <1>5, <1>6, <1>7 DEF TaskSound

(* Subscribing, borrowing and deciding keep every task sound. *)
LEMMA AckStepInv == AckInv /\ [AckNext]_ackVars => AckInv'
<1> SUFFICES ASSUME AckInv, [AckNext]_ackVars PROVE AckInv'
  OBVIOUS
<1>1. LedgerInv /\ LedgerInv' /\ [LedgerNext]_ledgerVars
  BY AckStepIsLedgerStep, LedgerStepInv DEF AckInv
<1>2. TaskTypes'
  <2> USE DEF AckInv, TaskTypes
  <2>1. CASE UNCHANGED ackVars \/ \E a \in Actors : Mutate(a)
    BY <2>1 DEF ackVars, taskVars, Mutate
  <2>2. ASSUME NEW a \in Actors, PublishAndWake(a) PROVE TaskTypes'
    BY <2>2 DEF PublishAndWake
  <2>3. ASSUME NEW w \in Tasks, NEW c \in Calls, NEW t \in 1..nextTicket,
               Subscribe(w, c, t)
        PROVE  TaskTypes'
    BY <2>3, BoundsAssumption DEF Subscribe, LedgerInv, LedgerTypeOK
  <2>4. ASSUME NEW w \in Tasks, Look(w) PROVE TaskTypes'
    <3>1. updates.closed \in BOOLEAN
      BY DEF LedgerInv, LedgerTypeOK, Watermarks
    <3> QED
      BY <3>1, <2>4 DEF Look, Return
  <2>5. ASSUME NEW w \in Tasks, Decide(w) PROVE TaskTypes'
    BY <2>5 DEF Decide, Return
  <2> QED
    BY <2>1, <2>2, <2>3, <2>4, <2>5 DEF AckNext
<1>3. ASSUME NEW w \in Tasks PROVE TaskSound(w)'
  <2>0. TaskSound(w) /\ TaskTypes
    BY DEF AckInv
  <2>1. CASE /\ pc'[w] = pc[w] /\ call'[w] = call[w] /\ target'[w] = target[w]
             /\ seenClosed'[w] = seenClosed[w] /\ result'[w] = result[w]
    BY <1>1, <2>0, <2>1, LedgerStepKeepsTask
  <2>2. ASSUME NEW c \in Calls, NEW t \in 1..nextTicket, Subscribe(w, c, t)
        PROVE  TaskSound(w)'
    BY <2>0, <2>2 DEF Subscribe, TaskSound, TaskTypes, ledgerVars, innerVars
  <2>3. CASE Look(w)
    <3>1. /\ updates.committedThrough \in 0..committedThrough
          /\ updates.closed => closed
      BY <1>1 DEF LedgerInv, LedgerTypeOK, PublishedSound, Watermarks
    <3>2. /\ UNCHANGED <<nextTicket, innerVars, call, target>>
          /\ seenClosed'[w] = updates.closed
      BY <2>0, <2>3 DEF Look, TaskTypes, ledgerVars
    <3>3. CASE pc'[w] # "done"
      <4>1. pc'[w] = "decide" => call[w] = "wait"
        BY <2>0, <2>3 DEF Look, Return, TaskTypes
      <4>2. pc[w] # "idle"
        BY <2>3 DEF Look
      <4> QED
        BY <2>0, <3>1, <3>2, <3>3, <4>1, <4>2 DEF TaskSound, innerVars
    <3>4. CASE pc'[w] = "done"
      <4>1. /\ call[w] # "wait" /\ Covered(w, updates)
            /\ result'[w] = [kind |-> "Watermark", wm |-> updates]
        BY <2>0, <2>3, <3>4 DEF Look, Return, TaskTypes
      <4> QED
        BY <2>0, <2>3, <3>1, <3>2, <3>4, <4>1 DEF Look, Covered, TaskSound, innerVars
    <3> QED
      BY <3>3, <3>4
  <2>4. CASE Decide(w)
    <3>1. UNCHANGED <<nextTicket, innerVars, call, target, seenClosed>>
      BY <2>4 DEF Decide, ledgerVars
    <3>2. call[w] = "wait" /\ pc[w] # "idle"
      BY <2>0, <2>4 DEF Decide, TaskSound
    <3>3. CASE pc'[w] # "done"
      BY <2>0, <2>4, <3>1, <3>2, <3>3 DEF Decide, TaskSound, innerVars
    <3>4. CASE pc'[w] = "done" /\ State(target[w]).kind # "Unsettled"
      <4>1. result'[w] = State(target[w])
        BY <2>0, <2>4, <3>4 DEF Decide, Return, TaskTypes
      <4>2. IsSettled(target[w]) /\ State(target[w]).kind # "Closed"
        BY <3>4, <1>1 DEF State, LedgerInv, FailedIsSettled
      <4>3. IsSettled(target[w])' /\ State(target[w])' = State(target[w])
        BY <3>1, <4>2 DEF innerVars, State, IsSettled
      <4> QED
        BY <2>0, <3>1, <3>2, <3>4, <4>1, <4>2, <4>3 DEF TaskSound, innerVars
    <3>5. CASE pc'[w] = "done" /\ State(target[w]).kind = "Unsettled"
      <4>1. result'[w] = [kind |-> "Closed"] /\ seenClosed[w]
        BY <2>0, <2>4, <3>5 DEF Decide, Return, TaskTypes
      <4> QED
        BY <2>0, <3>1, <3>2, <3>5, <4>1 DEF TaskSound, innerVars
    <3> QED
      BY <3>3, <3>4, <3>5
  <2> QED
    BY <2>0, <2>1, <2>2, <2>3, <2>4
    DEF AckNext, ackVars, taskVars, Mutate, PublishAndWake, Subscribe, Look, Decide,
      Return, TaskTypes
<1> QED
  BY <1>1, <1>2, <1>3 DEF AckInv

(* A wait_watermark call is released only after every ticket up to its own *)
(* settled, or after the ledger was closed.                                *)
THEOREM ReleaseIsTruthful == AckSpec => []ReleasedAfterEveryPredecessor
<1>1. AckInv => ReleasedAfterEveryPredecessor
  <2> SUFFICES ASSUME AckInv, NEW w \in Tasks, pc[w] = "done",
                      call[w] = "wait_watermark"
               PROVE  LET wm == result[w].wm
                      IN  /\ ~wm.closed => \A t \in 1..target[w] : IsSettled(t)
                          /\ wm.closed => closed
    BY DEF ReleasedAfterEveryPredecessor
  <2>1. /\ result[w].wm.committedThrough \in 0..committedThrough
        /\ result[w].wm.committedThrough >= target[w] \/ result[w].wm.closed
        /\ result[w].wm.closed => closed
    BY DEF AckInv, TaskSound
  <2>2. committedThrough \in Nat /\ target[w] \in Nat
    BY BoundsAssumption DEF AckInv, TaskTypes, LedgerInv, LedgerTypeOK
  <2> QED
    BY <2>1, <2>2 DEF IsSettled
<1> QED
  BY <1>1, AckInitInv, AckStepInv, PTL DEF AckSpec

(* What a wait call returned stays true of the ledger. *)
THEOREM AnswerIsFinal == AckSpec => []AnswerStaysTrue
<1>1. AckInv => AnswerStaysTrue
  BY DEF AckInv, TaskSound, AnswerStaysTrue
<1> QED
  BY <1>1, AckInitInv, AckStepInv, PTL DEF AckSpec

(* The waiters' state keeps its types. *)
THEOREM AckTypesHold == AckSpec => []AckTypeOK
<1>1. AckInv => AckTypeOK
  BY DEF AckInv, LedgerInv, TaskTypes, AckTypeOK
<1> QED
  BY <1>1, AckInitInv, AckStepInv, PTL DEF AckSpec

(* The settled tickets are those up to the watermark and, beyond them, the *)
(* parked ones, so the difference outstanding_tickets computes is a count. *)
LEMMA OutstandingIsCount == LedgerInv => OutstandingExact
<1> SUFFICES ASSUME LedgerInv PROVE OutstandingExact
  OBVIOUS
<1> DEFINE Issued == 1..nextTicket
           Below == 1..committedThrough
           Settled == Below \cup settledAbove
<1>1. /\ nextTicket \in Nat /\ committedThrough \in Nat /\ committedThrough <= nextTicket
      /\ settledAbove \subseteq Issued
      /\ \A t \in settledAbove : t > committedThrough + 1
  BY BoundsAssumption DEF LedgerInv, LedgerTypeOK, WatermarkExact
<1>2. /\ IsFiniteSet(Issued) /\ Cardinality(Issued) = nextTicket
      /\ IsFiniteSet(Below) /\ Cardinality(Below) = committedThrough
  BY <1>1, FS_Interval
<1>3. IsFiniteSet(settledAbove) /\ Cardinality(settledAbove) \in Nat
  BY <1>1, <1>2, FS_Subset, FS_CardinalityType
<1>4. Below \cap settledAbove = {} /\ Settled \subseteq Issued
  BY <1>1
<1>5. Cardinality(Settled) = committedThrough + Cardinality(settledAbove)
  <2>1. Cardinality(Settled) = Cardinality(Below) + Cardinality(settledAbove)
                                 - Cardinality(Below \cap settledAbove)
    BY <1>2, <1>3, FS_Union
  <2>2. Cardinality(Below \cap settledAbove) = 0
    BY <1>4, FS_EmptySet
  <2> HIDE DEF Below, Settled
  <2> QED
    BY <2>1, <2>2, <1>1, <1>2, <1>3
<1>6. Issued \cap Settled = Settled
  BY <1>4
<1>7. Cardinality(Issued \ Settled) = nextTicket - Cardinality(Settled)
  <2> HIDE DEF Issued, Settled
  <2>1. Cardinality(Issued \ Settled) = Cardinality(Issued) - Cardinality(Issued \cap Settled)
    BY <1>2, FS_Difference
  <2> QED
    BY <2>1, <1>2, <1>6, Zenon
<1>8. Cardinality(Settled) <= nextTicket
  BY <1>2, <1>4, FS_Subset
<1>9. {t \in 1..nextTicket : ~IsSettled(t)} = Issued \ Settled
  BY <1>1 DEF IsSettled
<1>10. OutstandingTickets(nextTicket) = nextTicket - Cardinality(Settled)
  <2> HIDE DEF Settled
  <2>1. ~(nextTicket > Cardinality(Settled)) => nextTicket - Cardinality(Settled) = 0
    BY <1>1, <1>3, <1>5, <1>8
  <2> QED
    BY <1>5, <2>1, Zenon DEF OutstandingTickets
<1> QED
  BY <1>7, <1>9, <1>10, Zenon DEF OutstandingExact

(* outstanding_tickets is the number of issued tickets that are not        *)
(* settled, in every state of the ledger and its waiters.                  *)
THEOREM OutstandingCountHolds == AckSpec => []OutstandingExact
<1>1. AckInv => OutstandingExact
  BY OutstandingIsCount DEF AckInv
<1> QED
  BY <1>1, AckInitInv, AckStepInv, PTL DEF AckSpec
===============================================================================
