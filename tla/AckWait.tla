------------------------------- MODULE AckWait --------------------------------
(***************************************************************************)
(* The commit ledger with the two kinds of asynchronous waiters that read  *)
(* it: wait (one ticket) and wait_watermark (every ticket up to one).      *)
(* A waiter subscribes to the watch channel and loops: it borrows the      *)
(* published watermark, decides, and sleeps until the slot is replaced.    *)
(* wait takes its decision in a second step, after locking the ledger for  *)
(* the state of its ticket.                                                *)
(***************************************************************************)
EXTENDS CommitLedger

CONSTANT Tasks          \* tasks that make one call each

VARIABLES pc,           \* per task: idle, look, decide, asleep, done
          call,         \* per task: wait or wait_watermark
          target,       \* per task: the ticket it waits for
          seenClosed,   \* per task: the flag of the watermark it borrowed last
          changed,      \* per task: the slot was replaced since then
          result        \* per task: what the call returned

taskVars == <<pc, call, target, seenClosed, changed, result>>
ackVars == <<ledgerVars, taskVars>>

Calls == {"wait", "wait_watermark"}
Pending == [kind |-> "pending"]

AckInit ==
    /\ LedgerInit
    /\ pc = [w \in Tasks |-> "idle"]
    /\ call = [w \in Tasks |-> "wait"]
    /\ target = [w \in Tasks |-> 0]
    /\ seenClosed = [w \in Tasks |-> FALSE]
    /\ changed = [w \in Tasks |-> FALSE]
    /\ result = [w \in Tasks |-> Pending]

(* The call: subscribe, for a ticket that was handed out. *)
Subscribe(w, c, t) ==
    /\ pc[w] = "idle"
    /\ call' = [call EXCEPT ![w] = c]
    /\ pc' = [pc EXCEPT ![w] = "look"]
    /\ target' = [target EXCEPT ![w] = t]
    /\ UNCHANGED <<ledgerVars, seenClosed, changed, result>>

Return(w, r) ==
    /\ pc' = [pc EXCEPT ![w] = "done"]
    /\ result' = [result EXCEPT ![w] = r]

(* Seeded fault: the ticket itself is not covered. *)
CoveredStrictly(w, wm) == wm.committedThrough > target[w] \/ wm.closed

Covered(w, wm) == wm.committedThrough >= target[w] \/ wm.closed

(* updates.borrow_and_update(), reached from subscribe or from changed(). *)
(* wait_watermark decides on the borrowed value alone.                     *)
Look(w) ==
    /\ pc[w] = "look" \/ (pc[w] = "asleep" /\ changed[w])
    /\ seenClosed' = [seenClosed EXCEPT ![w] = updates.closed]
    /\ changed' = [changed EXCEPT ![w] = FALSE]
    /\ IF call[w] = "wait"
       THEN pc' = [pc EXCEPT ![w] = "decide"] /\ UNCHANGED result
       ELSE IF Covered(w, updates)
       THEN Return(w, [kind |-> "Watermark", wm |-> updates])
       ELSE pc' = [pc EXCEPT ![w] = "asleep"] /\ UNCHANGED result
    /\ UNCHANGED <<ledgerVars, call, target>>

(* wait reads the state of its ticket; commit evidence outranks closure,   *)
(* and closure is judged on the watermark borrowed before.                 *)
Decide(w) ==
    /\ pc[w] = "decide"
    /\ LET s == State(target[w])
       IN  IF s.kind # "Unsettled"
           THEN Return(w, s)
           ELSE IF seenClosed[w]
           THEN Return(w, [kind |-> "Closed"])
           ELSE pc' = [pc EXCEPT ![w] = "asleep"] /\ UNCHANGED result
    /\ UNCHANGED <<ledgerVars, call, target, seenClosed, changed>>

(* Seeded fault: a task between borrowing and sleeping misses the change. *)
PublishToSleepers(a) ==
    /\ Publish(a)
    /\ changed' = [w \in Tasks |-> changed[w] \/ pc[w] = "asleep"]
    /\ UNCHANGED <<pc, call, target, seenClosed, result>>

(* send_replace wakes every subscribed task. *)
PublishAndWake(a) ==
    /\ Publish(a)
    /\ changed' = [w \in Tasks |-> changed[w] \/ pc[w] \in {"decide", "asleep"}]
    /\ UNCHANGED <<pc, call, target, seenClosed, result>>

Mutate(a) ==
    /\ LedgerCall(a)
    /\ UNCHANGED taskVars

AckNext ==
    \/ \E a \in Actors : Mutate(a)
    \/ \E a \in Actors : PublishAndWake(a)
    \/ \E w \in Tasks, c \in Calls, t \in 1..nextTicket : Subscribe(w, c, t)
    \/ \E w \in Tasks : Look(w)
    \/ \E w \in Tasks : Decide(w)

(* A thread that left the mutex goes on to store its watermark, and the    *)
(* executor polls a woken task.  Nothing obliges a thread to call, settle  *)
(* or close.                                                               *)
AckFairness ==
    /\ \A a \in Actors : WF_ackVars(PublishAndWake(a))
    /\ \A w \in Tasks : WF_ackVars(Look(w)) /\ WF_ackVars(Decide(w))

AckSpec == AckInit /\ [][AckNext]_ackVars
FairAckSpec == AckSpec /\ AckFairness
-------------------------------------------------------------------------------
(* Types of the ledger's and the tasks' state. *)
AckTypeOK ==
    /\ LedgerTypeOK
    /\ pc \in [Tasks -> {"idle", "look", "decide", "asleep", "done"}]
    /\ call \in [Tasks -> Calls] /\ target \in [Tasks -> 0..MaxTicket]
    /\ seenClosed \in [Tasks -> BOOLEAN]
    /\ changed \in [Tasks -> BOOLEAN]

(* A wait_watermark call that returned without seeing closure returned     *)
(* after every ticket up to its own settled (commit.rs: "a waiter can      *)
(* never be released while any of its own accepted records are still       *)
(* uncommitted"); one that saw closure returned after close was called.    *)
ReleasedAfterEveryPredecessor ==
    \A w \in Tasks : pc[w] = "done" /\ call[w] = "wait_watermark" =>
        LET wm == result[w].wm
        IN  /\ ~wm.closed => \A t \in 1..target[w] : IsSettled(t)
            /\ wm.closed => closed

(* What wait returned stays what the ledger says of the ticket, whatever   *)
(* is called on that ticket afterwards; Closed is returned only once the   *)
(* ledger was closed.                                                      *)
AnswerStaysTrue ==
    \A w \in Tasks : pc[w] = "done" /\ call[w] = "wait" =>
        IF result[w].kind = "Closed" THEN closed ELSE State(target[w]) = result[w]

(* outstanding_tickets counts the issued tickets that are not settled: the *)
(* watermark and the parked tickets never overlap and never outrun issue.  *)
OutstandingExact ==
    OutstandingTickets(nextTicket) =
        Cardinality({t \in 1..nextTicket : ~IsSettled(t)})

(* Close fails every pending and future waiter (commit.rs, module comment  *)
(* and close): once the ledger is closed every call that was made returns. *)
CloseReleasesWaiters ==
    \A w \in Tasks : closed /\ pc[w] # "idle" ~> pc[w] = "done"

(* A call returns once every ticket up to its own settled.                 *)
SettledPrefixReleases ==
    \A w \in Tasks :
        pc[w] # "idle" /\ target[w] <= committedThrough ~> pc[w] = "done"
===============================================================================
