----------------------------- MODULE CommitLedger -----------------------------
(***************************************************************************)
(* The commit ledger (otel-sqlite-core, storage/commit.rs): a registry of  *)
(* commit tickets shared by the ingress handlers, the insert batcher and   *)
(* the SQLite writer.  Every operation is an action operator with the      *)
(* calling thread as its first parameter, so that client modules compose   *)
(* them with their own steps.                                              *)
(*                                                                         *)
(* settle and close compute the watermark under the mutex and store it in  *)
(* the watch channel after releasing it, so each is two steps: the locked  *)
(* section leaves the computed watermark in the thread's outbox, Publish   *)
(* stores it.  Between the two the thread does nothing else.               *)
(***************************************************************************)
EXTENDS Naturals, FiniteSets

CONSTANTS MaxTicket,    \* bound on the u64 ticket counter
          MaxRecords,   \* bound on the records behind one ticket
          Actors        \* threads that call mutating operations

ASSUME BoundsAssumption == MaxTicket \in Nat /\ MaxRecords \in Nat

VARIABLES nextTicket,       \* CommitLedger::next_ticket
          settledAbove,     \* Inner::settled_above
          committedThrough, \* Inner::committed_through
          committed,        \* Inner::progress[t].committed, 0 when absent
          dropped,          \* Inner::progress[t].dropped, 0 when absent
          failed,           \* Inner::failed
          closed,           \* Inner::closed
          updates,          \* the watch slot: last published watermark
          outbox            \* per thread: the watermark computed and not yet
                            \* published, as a set of at most one

innerVars == <<settledAbove, committedThrough, committed, dropped, failed, closed>>
ledgerVars == <<nextTicket, innerVars, updates, outbox>>

Tickets == 1..MaxTicket
Watermarks == [committedThrough : 0..MaxTicket, closed : BOOLEAN]

Idle(a) == outbox[a] = {}

(* Inner::is_settled; it holds of ticket 0, which every operation ignores. *)
IsSettled(t) == t <= committedThrough \/ t \in settledAbove

(* The drain loop of settle: the watermark reached from t by absorbing the *)
(* tickets parked directly above it.                                       *)
IsDrained(n, t, above) ==
    /\ \A m \in (t + 1)..n : m \in above
    /\ n + 1 \notin above

Drained(t, above) == CHOOSE n \in t..MaxTicket : IsDrained(n, t, above)

LedgerInit ==
    /\ nextTicket = 0
    /\ settledAbove = {}
    /\ committedThrough = 0
    /\ committed = [t \in Tickets |-> 0]
    /\ dropped = [t \in Tickets |-> 0]
    /\ failed = {}
    /\ closed = FALSE
    /\ updates = [committedThrough |-> 0, closed |-> FALSE]
    /\ outbox = [a \in Actors |-> {}]

(* The ticket handed out is nextTicket'. *)
Issue(a) ==
    /\ Idle(a)
    /\ nextTicket < MaxTicket
    /\ nextTicket' = nextTicket + 1
    /\ UNCHANGED <<innerVars, updates, outbox>>

NoteCommitted(a, t, n) ==
    /\ Idle(a)
    /\ committed' = IF IsSettled(t) THEN committed
                    ELSE [committed EXCEPT ![t] = @ + n]
    /\ UNCHANGED <<nextTicket, settledAbove, committedThrough, dropped, failed,
                   closed, updates, outbox>>

NoteDropped(a, t, n) ==
    /\ Idle(a)
    /\ dropped' = IF IsSettled(t) THEN dropped
                  ELSE [dropped EXCEPT ![t] = @ + n]
    /\ UNCHANGED <<nextTicket, settledAbove, committedThrough, committed, failed,
                   closed, updates, outbox>>

(* Seeded faults of Advance: the drain loop left out, one step too far, no *)
(* test for the next ticket.                                               *)
AdvanceWithoutDrain(t) ==
    IF t = committedThrough + 1
    THEN committedThrough' = t /\ UNCHANGED settledAbove
    ELSE settledAbove' = settledAbove \cup {t} /\ UNCHANGED committedThrough

AdvanceTooFar(t) ==
    IF t = committedThrough + 1
    THEN /\ committedThrough' = Drained(t, settledAbove) + 1
         /\ settledAbove' = {m \in settledAbove : m > committedThrough'}
    ELSE settledAbove' = settledAbove \cup {t} /\ UNCHANGED committedThrough

AdvancePastGaps(t) ==
    /\ committedThrough' = t
    /\ settledAbove' = {m \in settledAbove : m > t}

(* The part of settle that moves the watermark or parks the ticket. *)
Advance(t) ==
    IF t = committedThrough + 1
    THEN /\ committedThrough' = Drained(t, settledAbove)
         /\ settledAbove' = {m \in settledAbove : m > committedThrough'}
    ELSE /\ settledAbove' = settledAbove \cup {t}
         /\ UNCHANGED committedThrough

(* The part of settle that decides between failed and completed. *)
Resolve(t, voided) ==
    IF ~voided /\ dropped[t] > 0
    THEN /\ failed' = failed \cup {t}
         /\ UNCHANGED <<committed, dropped>>
    ELSE /\ committed' = [committed EXCEPT ![t] = 0]
         /\ dropped' = [dropped EXCEPT ![t] = 0]
         /\ UNCHANGED failed

(* Seeded faults of Settle: no early return for a settled ticket; the      *)
(* ticket published in place of the watermark.                             *)
SettleTwice(a, t, voided) ==
    /\ Idle(a)
    /\ Resolve(t, voided)
    /\ Advance(t)
    /\ outbox' = [outbox EXCEPT ![a] =
         {[committedThrough |-> committedThrough', closed |-> closed]}]
    /\ UNCHANGED <<closed, nextTicket, updates>>

SettlePublishingTicket(a, t, voided) ==
    /\ Idle(a) /\ ~IsSettled(t)
    /\ Resolve(t, voided)
    /\ Advance(t)
    /\ outbox' = [outbox EXCEPT ![a] = {[committedThrough |-> t, closed |-> closed]}]
    /\ UNCHANGED <<closed, nextTicket, updates>>

Settle(a, t, voided) ==
    /\ Idle(a)
    /\ IF IsSettled(t)
       THEN UNCHANGED <<innerVars, outbox>>
       ELSE /\ Resolve(t, voided)
            /\ Advance(t)
            /\ UNCHANGED closed
            /\ outbox' = [outbox EXCEPT ![a] =
                 {[committedThrough |-> committedThrough', closed |-> closed]}]
    /\ UNCHANGED <<nextTicket, updates>>

Complete(a, t) == Settle(a, t, FALSE)
Void(a, t) == Settle(a, t, TRUE)

Close(a) ==
    /\ Idle(a)
    /\ closed' = TRUE
    /\ outbox' = [outbox EXCEPT ![a] =
         {[committedThrough |-> committedThrough, closed |-> TRUE]}]
    /\ UNCHANGED <<nextTicket, settledAbove, committedThrough, committed, dropped,
                   failed, updates>>

Publish(a) ==
    /\ \E w \in outbox[a] : updates' = w
    /\ outbox' = [outbox EXCEPT ![a] = {}]
    /\ UNCHANGED <<nextTicket, innerVars>>

(* CommitLedger::state *)
State(t) ==
    IF t \in failed
    THEN [kind |-> "Failed", committed |-> committed[t], dropped |-> dropped[t]]
    ELSE IF IsSettled(t)
    THEN [kind |-> "Completed", committed |-> 0, dropped |-> 0]
    ELSE [kind |-> "Unsettled", committed |-> committed[t], dropped |-> dropped[t]]

(* CommitLedger::outstanding_tickets for an issued counter read beforehand;*)
(* both subtractions saturate at zero.                                     *)
OutstandingTickets(count) ==
    LET settled == committedThrough + Cardinality(settledAbove)
    IN  IF count > settled THEN count - settled ELSE 0

(* Any thread may call any operation on any ticket that was handed out,    *)
(* again and again.  The one thing callers guarantee is that a record is   *)
(* noted once.                                                             *)
LedgerCall(a) ==
    \/ Issue(a)
    \/ \E t \in 1..nextTicket :
         \/ \E n \in 1..(MaxRecords - committed[t] - dropped[t]) :
              NoteCommitted(a, t, n) \/ NoteDropped(a, t, n)
         \/ Complete(a, t)
         \/ Void(a, t)
    \/ Close(a)

LedgerNext == \E a \in Actors : LedgerCall(a) \/ Publish(a)
LedgerSpec == LedgerInit /\ [][LedgerNext]_ledgerVars
-------------------------------------------------------------------------------
(* Types of the ledger's state. *)
LedgerTypeOK ==
    /\ nextTicket \in 0..MaxTicket
    /\ committedThrough \in 0..nextTicket
    /\ settledAbove \subseteq 1..nextTicket
    /\ failed \subseteq 1..nextTicket
    /\ committed \in [Tickets -> 0..MaxRecords]
    /\ dropped \in [Tickets -> 0..MaxRecords]
    /\ closed \in BOOLEAN
    /\ updates \in Watermarks
    /\ outbox \in [Actors -> SUBSET Watermarks]

(* The watermark is the end of the longest settled prefix: the ticket just *)
(* above it is not settled, and parked tickets lie beyond that one.        *)
WatermarkExact == \A t \in settledAbove : t > committedThrough + 1

(* What waiters see, or are about to see, is never ahead of the ledger.    *)
PublishedSound ==
    \A w \in {updates} \cup UNION {outbox[a] : a \in Actors} :
        w.committedThrough <= committedThrough /\ (w.closed => closed)

(* A settled ticket never changes its state again: a late note_committed,  *)
(* note_dropped, complete or void of it is ignored.                        *)
SettledIsFinal ==
    [][\A t \in Tickets : IsSettled(t) => (State(t)' = State(t))]_ledgerVars

(* The ledger implements the ticket book. *)
Outcome(t) ==
    IF t \in failed THEN "failed" ELSE IF IsSettled(t) THEN "completed" ELSE "open"

Book == INSTANCE TicketBook WITH
    issued <- nextTicket,
    outcome <- [t \in Tickets |-> Outcome(t)],
    through <- committedThrough,
    shut <- closed,
    announced <- [through |-> updates.committedThrough, shut |-> updates.closed]

ImplementsBook == Book!BookSpec
===============================================================================
