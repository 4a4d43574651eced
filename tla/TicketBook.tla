------------------------------ MODULE TicketBook ------------------------------
(***************************************************************************)
(* What the commit ledger promises to the code around it, with none of its *)
(* bookkeeping: tickets are numbered consecutively, each settles at most   *)
(* once and for good, the watermark is always the end of the longest       *)
(* settled prefix, and whatever is announced to waiters was true when it   *)
(* was computed.  An announcement may be older than the one it replaces:   *)
(* the promise about announcements is soundness, not freshness.            *)
(***************************************************************************)
EXTENDS Naturals

CONSTANT MaxTicket      \* bound on the ticket counter

VARIABLES issued,       \* number of tickets handed out
          outcome,      \* "open", "completed" or "failed", per ticket
          through,      \* end of the longest settled prefix
          shut,         \* the pipeline is gone
          announced     \* what waiters were last told

bookVars == <<issued, outcome, through, shut, announced>>

BookTickets == 1..MaxTicket

(* n is the end of the longest prefix of settled tickets. *)
IsPrefixEnd(n, oc) ==
    /\ n \in 0..MaxTicket
    /\ \A m \in 1..n : oc[m] # "open"
    /\ n + 1 \in BookTickets => oc[n + 1] = "open"

BookInit ==
    /\ issued = 0
    /\ outcome = [t \in BookTickets |-> "open"]
    /\ through = 0
    /\ shut = FALSE
    /\ announced = [through |-> 0, shut |-> FALSE]

IssueTicket ==
    /\ issued < MaxTicket
    /\ issued' = issued + 1
    /\ UNCHANGED <<outcome, through, shut, announced>>

SettleTicket(t, o) ==
    /\ t <= issued
    /\ outcome[t] = "open"
    /\ outcome' = [outcome EXCEPT ![t] = o]
    /\ IsPrefixEnd(through', outcome')
    /\ UNCHANGED <<issued, shut, announced>>

ShutBook ==
    /\ shut' = TRUE
    /\ UNCHANGED <<issued, outcome, through, announced>>

Announce ==
    /\ announced' \in [through : 0..through, shut : BOOLEAN]
    /\ announced'.shut => shut
    /\ UNCHANGED <<issued, outcome, through, shut>>

BookNext ==
    \/ IssueTicket
    \/ \E t \in BookTickets, o \in {"completed", "failed"} : SettleTicket(t, o)
    \/ ShutBook
    \/ Announce

BookSpec == BookInit /\ [][BookNext]_bookVars
===============================================================================
