--------------------------- MODULE AdmissionProofs ----------------------------
(***************************************************************************)
(* The permit accounting of Admission, for every number of requests and    *)
(* every size of the two budgets.                                          *)
(***************************************************************************)
EXTENDS Admission, FiniteSetTheorems, TLAPS

\* Who holds a stream permit: a future until its job is mapped, then the
\* enqueue task, which outlives the future.
Permits == Holding \cup Enqueuing

\* What the future, the job and the enqueue task of a request know of each
\* other.
Coupled ==
    \A r \in Requests :
        /\ future[r] \in {"new", "stream", "mapPermit"} => job[r] = "none"
        /\ future[r] \in {"new", "stream", "mapPermit", "mapping"} => task[r] = "none"
        /\ task[r] # "done" => r \notin enqueued
        /\ answer[r] # "none" => future[r] = "answered"

\* The inductive invariant: the two budgets balance, and a request that was
\* turned away has nothing left that could enqueue it.
AdmissionInv ==
    AdmissionTypeOK /\ MappingIsBounded /\ StreamsAreBounded /\ NoLateEnqueue /\ Coupled

-----------------------------------------------------------------------------

\* Taking a permit for a new holder keeps the sum of holders and free permits.
LEMMA PermitTaken ==
    ASSUME NEW S, IsFiniteSet(S), NEW x, x \notin S, NEW free \in Int, NEW cap \in Int,
           Cardinality(S) + free = cap
    PROVE  Cardinality(S \cup {x}) + (free - 1) = cap
  <1>1. Cardinality(S) \in Nat
    BY FS_CardinalityType
  <1>2. Cardinality(S \cup {x}) = Cardinality(S) + 1
    BY FS_AddElement
  <1> QED
    BY <1>1, <1>2

\* Giving one back keeps it as well.
LEMMA PermitReturned ==
    ASSUME NEW S, IsFiniteSet(S), NEW x, x \in S, NEW free \in Int, NEW cap \in Int,
           Cardinality(S) + free = cap
    PROVE  Cardinality(S \ {x}) + (free + 1) = cap
  <1>1. Cardinality(S) \in Nat
    BY FS_CardinalityType
  <1>2. Cardinality(S \ {x}) = Cardinality(S) - 1
    BY FS_RemoveElement
  <1> QED
    BY <1>1, <1>2

LEMMA HoldersFinite == IsFiniteSet(Jobs) /\ IsFiniteSet(Permits)
  BY AdmissionAssumption, FS_Subset DEF Jobs, Permits, Holding, Enqueuing

\* A budget that balances bounds what is free.
LEMMA BalanceBounds ==
    ASSUME NEW S, IsFiniteSet(S), NEW free \in Int, NEW cap \in Nat,
           Cardinality(S) + free = cap, free >= 0
    PROVE  free \in 0..cap
  <1>1. Cardinality(S) \in Nat
    BY FS_CardinalityType
  <1> QED
    BY <1>1

-----------------------------------------------------------------------------

LEMMA InitInv == Init => AdmissionInv
  <1> SUFFICES ASSUME Init PROVE AdmissionInv
    OBVIOUS
  <1>1. Jobs = {} /\ Holding \cup Enqueuing = {}
    BY DEF Init, Jobs, Holding, Enqueuing
  <1>2. MappingIsBounded /\ StreamsAreBounded
    BY <1>1, FS_EmptySet, AdmissionAssumption DEF Init, MappingIsBounded, StreamsAreBounded
  <1>3. AdmissionTypeOK
    BY AdmissionAssumption DEF Init, AdmissionTypeOK
  <1>4. NoLateEnqueue /\ Coupled
    BY DEF Init, NoLateEnqueue, Coupled
  <1> QED
    BY <1>2, <1>3, <1>4 DEF AdmissionInv

LEMMA StutterInv == ASSUME AdmissionInv, UNCHANGED vars PROVE AdmissionInv'
  BY DEF vars, AdmissionInv, AdmissionTypeOK, MappingIsBounded, StreamsAreBounded,
         NoLateEnqueue, Coupled, Jobs, Holding, Enqueuing

\* Every step keeps the budgets balanced and the parts of a request coupled.
LEMMA StepInv ==
    ASSUME AdmissionInv, NEW r \in Requests,
           \/ Arrive(r) \/ Handler(r) \/ MapTimeout(r) \/ Cancel(r)
           \/ JobStarts(r) \/ JobEnds(r) \/ EnqueueRuns(r)
    PROVE  AdmissionInv'
  <1>a. AdmissionTypeOK /\ NoLateEnqueue /\ Coupled
    BY DEF AdmissionInv
  <1>b. /\ IsFiniteSet(Jobs) /\ IsFiniteSet(Jobs')
        /\ IsFiniteSet(Permits) /\ IsFiniteSet(Permits')
    BY HoldersFinite, AdmissionAssumption, FS_Subset
       DEF Jobs, Permits, Holding, Enqueuing
  <1>c. /\ streams \in Int /\ maps \in Int /\ streams >= 0 /\ maps >= 0
        /\ StreamCap \in Int /\ MapCap \in Int
        /\ StreamCap \in Nat /\ MapCap \in Nat
    BY <1>a, AdmissionAssumption DEF AdmissionTypeOK
  <1>d. Cardinality(Jobs) + maps = MapCap /\ Cardinality(Permits) + streams = StreamCap
    BY DEF AdmissionInv, MappingIsBounded, StreamsAreBounded, Permits
  <1> DEFINE Balanced ==
        /\ maps' \in Int /\ maps' >= 0 /\ streams' \in Int /\ streams' >= 0
        /\ Cardinality(Jobs') + maps' = MapCap
        /\ Cardinality(Permits') + streams' = StreamCap
  <1> DEFINE Shape ==
        /\ future' \in [Requests -> {"new", "stream", "mapPermit", "mapping", "enqueue",
                                    "finish", "answered", "gone"}]
        /\ job' \in [Requests -> {"none", "queued", "running", "done"}]
        /\ task' \in [Requests -> {"none", "running", "done", "refused"}]
        /\ answer' \in [Requests -> {"none", "timeout", "refused", "settled"}]
        /\ enqueued' \subseteq Requests
        /\ NoLateEnqueue' /\ Coupled'
  <1> SUFFICES Shape /\ Balanced
    <2> SUFFICES ASSUME Shape, Balanced PROVE AdmissionInv'
      OBVIOUS
    <2>1. streams' \in 0..StreamCap /\ maps' \in 0..MapCap
      BY <1>b, <1>c, BalanceBounds
    <2> QED
      BY <2>1 DEF AdmissionInv, AdmissionTypeOK, MappingIsBounded, StreamsAreBounded, Permits
  <1>1. CASE Arrive(r)
    <2>1. Shape
      BY <1>1, <1>a DEF Arrive, At, Goto, Answer, AdmissionTypeOK, NoLateEnqueue, Coupled
    <2>2. Jobs' = Jobs /\ maps' = maps
      BY <1>1, <1>a DEF Arrive, At, Goto, Answer, Jobs, AdmissionTypeOK, Coupled
    <2>3. Permits' = Permits /\ streams' = streams
      BY <1>1, <1>a DEF Arrive, At, Goto, Answer, Permits, Holding, Enqueuing, AdmissionTypeOK, Coupled
    <2>4. Balanced
      BY <2>2, <2>3, <1>b, <1>c, <1>d, PermitTaken, PermitReturned
    <2> QED
      BY <2>1, <2>4
  <1>2. CASE GetStream(r)
    <2>1. Shape
      BY <1>2, <1>a DEF GetStream, At, Goto, Answer, AdmissionTypeOK, NoLateEnqueue, Coupled
    <2>2. Jobs' = Jobs /\ maps' = maps
      BY <1>2, <1>a DEF GetStream, At, Goto, Answer, Jobs, AdmissionTypeOK, Coupled
    <2>3. r \notin Permits /\ Permits' = Permits \cup {r} /\ streams' = streams - 1 /\ streams > 0
      BY <1>2, <1>a DEF GetStream, At, Goto, Answer, Permits, Holding, Enqueuing, AdmissionTypeOK, Coupled
    <2>4. Balanced
      BY <2>2, <2>3, <1>b, <1>c, <1>d, PermitTaken, PermitReturned
    <2> QED
      BY <2>1, <2>4
  <1>3. CASE GetMapping(r)
    <2>1. Shape
      BY <1>3, <1>a DEF GetMapping, At, Goto, Answer, AdmissionTypeOK, NoLateEnqueue, Coupled
    <2>2. r \notin Jobs /\ Jobs' = Jobs \cup {r} /\ maps' = maps - 1 /\ maps > 0
      BY <1>3, <1>a DEF GetMapping, At, Goto, Answer, Jobs, AdmissionTypeOK, Coupled
    <2>3. Permits' = Permits /\ streams' = streams
      BY <1>3, <1>a DEF GetMapping, At, Goto, Answer, Permits, Holding, Enqueuing, AdmissionTypeOK, Coupled
    <2>4. Balanced
      BY <2>2, <2>3, <1>b, <1>c, <1>d, PermitTaken, PermitReturned
    <2> QED
      BY <2>1, <2>4
  <1>4. CASE MapResult(r)
    <2>1. Shape
      BY <1>4, <1>a DEF MapResult, At, Goto, Answer, AdmissionTypeOK, NoLateEnqueue, Coupled
    <2>2. Jobs' = Jobs /\ maps' = maps
      BY <1>4, <1>a DEF MapResult, At, Goto, Answer, Jobs, AdmissionTypeOK, Coupled
    <2>3. \/ Permits' = Permits /\ streams' = streams
          \/ r \in Permits /\ Permits' = Permits \ {r} /\ streams' = streams + 1
      BY <1>4, <1>a DEF MapResult, At, Goto, Answer, Permits, Holding, Enqueuing, AdmissionTypeOK, Coupled
    <2>4. Balanced
      BY <2>2, <2>3, <1>b, <1>c, <1>d, PermitTaken, PermitReturned
    <2> QED
      BY <2>1, <2>4
  <1>5. CASE EnqueueReturns(r)
    <2>1. Shape
      BY <1>5, <1>a DEF EnqueueReturns, At, Goto, Answer, AdmissionTypeOK, NoLateEnqueue, Coupled
    <2>2. Jobs' = Jobs /\ maps' = maps
      BY <1>5, <1>a DEF EnqueueReturns, At, Goto, Answer, Jobs, AdmissionTypeOK, Coupled
    <2>3. Permits' = Permits /\ streams' = streams
      BY <1>5, <1>a DEF EnqueueReturns, At, Goto, Answer, Permits, Holding, Enqueuing, AdmissionTypeOK, Coupled
    <2>4. Balanced
      BY <2>2, <2>3, <1>b, <1>c, <1>d, PermitTaken, PermitReturned
    <2> QED
      BY <2>1, <2>4
  <1>6. CASE Finish(r)
    <2>1. Shape
      BY <1>6, <1>a DEF Finish, At, Goto, Answer, AdmissionTypeOK, NoLateEnqueue, Coupled
    <2>2. Jobs' = Jobs /\ maps' = maps
      BY <1>6, <1>a DEF Finish, At, Goto, Answer, Jobs, AdmissionTypeOK, Coupled
    <2>3. Permits' = Permits /\ streams' = streams
      BY <1>6, <1>a DEF Finish, At, Goto, Answer, Permits, Holding, Enqueuing, AdmissionTypeOK, Coupled
    <2>4. Balanced
      BY <2>2, <2>3, <1>b, <1>c, <1>d, PermitTaken, PermitReturned
    <2> QED
      BY <2>1, <2>4
  <1>7. CASE MapTimeout(r)
    <2>1. Shape
      BY <1>7, <1>a DEF MapTimeout, At, Goto, Answer, AdmissionTypeOK, NoLateEnqueue, Coupled
    <2>2. Jobs' = Jobs /\ maps' = maps
      BY <1>7, <1>a DEF MapTimeout, At, Goto, Answer, Jobs, AdmissionTypeOK, Coupled
    <2>3. r \in Permits /\ Permits' = Permits \ {r} /\ streams' = streams + 1
      BY <1>7, <1>a DEF MapTimeout, At, Goto, Answer, Permits, Holding, Enqueuing, AdmissionTypeOK, Coupled
    <2>4. Balanced
      BY <2>2, <2>3, <1>b, <1>c, <1>d, PermitTaken, PermitReturned
    <2> QED
      BY <2>1, <2>4
  <1>8. CASE Cancel(r)
    <2>1. Shape
      BY <1>8, <1>a DEF Cancel, At, Goto, Answer, AdmissionTypeOK, NoLateEnqueue, Coupled
    <2>2. Jobs' = Jobs /\ maps' = maps
      BY <1>8, <1>a DEF Cancel, At, Goto, Answer, Jobs, AdmissionTypeOK, Coupled
    <2>3. \/ Permits' = Permits /\ streams' = streams
          \/ r \in Permits /\ Permits' = Permits \ {r} /\ streams' = streams + 1
      BY <1>8, <1>a DEF Cancel, At, Goto, Answer, Permits, Holding, Enqueuing, AdmissionTypeOK, Coupled
    <2>4. Balanced
      BY <2>2, <2>3, <1>b, <1>c, <1>d, PermitTaken, PermitReturned
    <2> QED
      BY <2>1, <2>4
  <1>9. CASE JobStarts(r)
    <2>1. Shape
      BY <1>9, <1>a DEF JobStarts, At, Goto, Answer, AdmissionTypeOK, NoLateEnqueue, Coupled
    <2>2. Jobs' = Jobs /\ maps' = maps
      BY <1>9, <1>a DEF JobStarts, At, Goto, Answer, Jobs, AdmissionTypeOK, Coupled
    <2>3. Permits' = Permits /\ streams' = streams
      BY <1>9, <1>a DEF JobStarts, At, Goto, Answer, Permits, Holding, Enqueuing, AdmissionTypeOK, Coupled
    <2>4. Balanced
      BY <2>2, <2>3, <1>b, <1>c, <1>d, PermitTaken, PermitReturned
    <2> QED
      BY <2>1, <2>4
  <1>10. CASE JobEnds(r)
    <2>1. Shape
      BY <1>10, <1>a DEF JobEnds, At, Goto, Answer, AdmissionTypeOK, NoLateEnqueue, Coupled
    <2>2. r \in Jobs /\ Jobs' = Jobs \ {r} /\ maps' = maps + 1
      BY <1>10, <1>a DEF JobEnds, At, Goto, Answer, Jobs, AdmissionTypeOK, Coupled
    <2>3. Permits' = Permits /\ streams' = streams
      BY <1>10, <1>a DEF JobEnds, At, Goto, Answer, Permits, Holding, Enqueuing, AdmissionTypeOK, Coupled
    <2>4. Balanced
      BY <2>2, <2>3, <1>b, <1>c, <1>d, PermitTaken, PermitReturned
    <2> QED
      BY <2>1, <2>4
  <1>11. CASE EnqueueRuns(r)
    <2>1. Shape
      BY <1>11, <1>a DEF EnqueueRuns, At, Goto, Answer, AdmissionTypeOK, NoLateEnqueue, Coupled
    <2>2. Jobs' = Jobs /\ maps' = maps
      BY <1>11, <1>a DEF EnqueueRuns, At, Goto, Answer, Jobs, AdmissionTypeOK, Coupled
    <2>3. r \in Permits /\ Permits' = Permits \ {r} /\ streams' = streams + 1
      BY <1>11, <1>a DEF EnqueueRuns, At, Goto, Answer, Permits, Holding, Enqueuing, AdmissionTypeOK, Coupled
    <2>4. Balanced
      BY <2>2, <2>3, <1>b, <1>c, <1>d, PermitTaken, PermitReturned
    <2> QED
      BY <2>1, <2>4
  <1> QED
    BY <1>1, <1>2, <1>3, <1>4, <1>5, <1>6, <1>7, <1>8, <1>9, <1>10, <1>11 DEF Handler

-----------------------------------------------------------------------------

\* The invariant holds of every behaviour.
THEOREM AdmissionInvariant == Spec => []AdmissionInv
  <1>1. AdmissionInv /\ [Next]_vars => AdmissionInv'
    <2> SUFFICES ASSUME AdmissionInv, [Next]_vars PROVE AdmissionInv'
      OBVIOUS
    <2>1. CASE UNCHANGED vars
      BY <2>1, StutterInv
    <2>2. CASE Next
      BY <2>2, StepInv DEF Next
    <2> QED
      BY <2>1, <2>2
  <1> QED
    BY InitInv, <1>1, PTL DEF Spec

\* mapping/budget.rs: jobs nobody waits for any more still count, so never
\* more than mapping_concurrency are queued or running, whatever times out.
THEOREM MappingBudgetHolds == Spec => [](MappingIsBounded /\ Cardinality(Jobs) <= MapCap)
  <1>1. AdmissionInv => MappingIsBounded /\ Cardinality(Jobs) <= MapCap
    <2> SUFFICES ASSUME AdmissionInv PROVE MappingIsBounded /\ Cardinality(Jobs) <= MapCap
      OBVIOUS
    <2>1. Cardinality(Jobs) \in Nat
      BY HoldersFinite, FS_CardinalityType
    <2>2. Cardinality(Jobs) + maps = MapCap /\ maps \in Int /\ maps >= 0 /\ MapCap \in Nat
      BY AdmissionAssumption DEF AdmissionInv, AdmissionTypeOK, MappingIsBounded
    <2> QED
      BY <2>1, <2>2 DEF MappingIsBounded
  <1> QED
    BY AdmissionInvariant, <1>1, PTL

\* logs.rs handle and budget.rs spawn: no permit is lost or given back twice
\* between a future that is dropped and the job or task that outlives it, and an
\* export answered as timed out or refused never reaches the queue.
THEOREM ExportBudgetsHold == Spec => []ExportsAreBounded
  BY AdmissionInvariant, PTL DEF AdmissionInv, ExportsAreBounded
===============================================================================
