-------------------------- MODULE CommitLedgerProofs --------------------------
(***************************************************************************)
(* Theorems about the commit ledger, for every bound and every set of      *)
(* threads: its inductive invariant, and that it implements TicketBook.    *)
(***************************************************************************)
EXTENDS CommitLedger, WellFoundedInduction, TLAPS

(* A ticket is failed only once it is settled (settle inserts it in the    *)
(* same critical section).                                                 *)
FailedIsSettled == \A t \in failed : IsSettled(t)

(* The progress of a ticket never counts more records than it carries.     *)
NotedOnce == \A t \in Tickets : committed[t] + dropped[t] <= MaxRecords

LedgerInv ==
    /\ LedgerTypeOK
    /\ WatermarkExact
    /\ PublishedSound
    /\ FailedIsSettled
    /\ NotedOnce

(* The drain loop of settle stops, and stops at the right place: starting  *)
(* from any ticket there is a first gap among the parked tickets.          *)
LEMMA DrainedExists ==
    ASSUME NEW t \in Tickets, NEW above, above \subseteq Tickets
    PROVE  \E n \in t..MaxTicket : IsDrained(n, t, above)
<1> DEFINE Gaps == {n \in Nat : n >= t /\ n + 1 \notin above}
<1>1. t \in Nat /\ MaxTicket \in Nat /\ t <= MaxTicket
  BY BoundsAssumption DEF Tickets
<1>2. MaxTicket \in Gaps
  BY <1>1 DEF Tickets
<1>3. \E x \in Gaps : \A y \in Gaps : ~(<<y, x>> \in OpToRel(<, Nat))
  <2> HIDE DEF Gaps
  <2>1. Gaps \subseteq Nat
    BY DEF Gaps
  <2>2. Gaps # {}
    BY <1>2
  <2> QED
    BY <2>1, <2>2, NatLessThanWellFounded, WFMin
<1>4. PICK n \in Gaps : \A y \in Gaps : ~(<<y, n>> \in OpToRel(<, Nat))
  BY <1>3
<1>5. \A y \in Gaps : ~(y < n)
  BY <1>4 DEF OpToRel
<1>6. n \in t..MaxTicket
  BY <1>1, <1>2, <1>5
<1>7. ASSUME NEW m \in (t + 1)..n PROVE m \in above
  <2>1. m - 1 \in Nat /\ m - 1 >= t /\ m - 1 < n /\ (m - 1) + 1 = m
    BY <1>1, <1>6
  <2>2. m - 1 \notin Gaps
    BY <2>1, <1>5
  <2> QED
    BY <2>1, <2>2
<1> QED
  BY <1>6, <1>7 DEF IsDrained

(* The CHOOSE in Drained names such a gap. *)
LEMMA DrainedSpec ==
    ASSUME NEW t \in Tickets, NEW above, above \subseteq Tickets
    PROVE  /\ Drained(t, above) \in t..MaxTicket
           /\ IsDrained(Drained(t, above), t, above)
BY DrainedExists DEF Drained

(* CommitLedger::new establishes the invariant. *)
THEOREM LedgerInitInv == LedgerInit => LedgerInv
<1> SUFFICES ASSUME LedgerInit PROVE LedgerInv
  OBVIOUS
<1> USE BoundsAssumption DEF LedgerInit
<1>1. LedgerTypeOK
  <2>1. committed \in [Tickets -> 0..MaxRecords] /\ dropped \in [Tickets -> 0..MaxRecords]
    OBVIOUS
  <2>2. updates \in Watermarks
    BY DEF Watermarks
  <2>3. outbox \in [Actors -> SUBSET Watermarks]
    OBVIOUS
  <2>4. nextTicket \in 0..MaxTicket /\ committedThrough \in 0..nextTicket
    OBVIOUS
  <2>5. /\ settledAbove \subseteq 1..nextTicket
        /\ failed \subseteq 1..nextTicket
        /\ closed \in BOOLEAN
    OBVIOUS
  <2> QED
    BY <2>1, <2>2, <2>3, <2>4, <2>5, Zenon DEF LedgerTypeOK
<1>2. WatermarkExact /\ FailedIsSettled
  BY DEF WatermarkExact, FailedIsSettled
<1>3. PublishedSound
  BY DEF PublishedSound
<1>4. NotedOnce
  BY DEF NotedOnce
<1> QED
  BY <1>1, <1>2, <1>3, <1>4 DEF LedgerInv

(* A ticket above the watermark and not the next one is beyond the next. *)
LEMMA BeyondNext ==
    ASSUME NEW c \in Nat, NEW n \in Nat, n > c, n # c + 1
    PROVE  n > c + 1
OBVIOUS

(* Settling a ticket that was not settled: the locked section of settle    *)
(* keeps the watermark exact and settles that ticket and no other.         *)
LEMMA AdvanceSettlesOne ==
    ASSUME LedgerInv, NEW t \in 1..nextTicket, ~IsSettled(t), Advance(t)
    PROVE  /\ committedThrough' \in committedThrough..nextTicket
           /\ settledAbove' \subseteq 1..nextTicket
           /\ \A m \in settledAbove' : m > committedThrough' + 1
           /\ \A m \in Tickets : IsSettled(m)' <=> (IsSettled(m) \/ m = t)
<1> USE BoundsAssumption DEF LedgerInv, LedgerTypeOK, WatermarkExact, IsSettled, Tickets
<1>1. CASE t = committedThrough + 1
  <2>1. /\ committedThrough' = Drained(t, settledAbove)
        /\ settledAbove' = {m \in settledAbove : m > committedThrough'}
    BY <1>1 DEF Advance
  <2>2. t \in Tickets /\ settledAbove \subseteq Tickets
    OBVIOUS
  <2>3. /\ committedThrough' \in t..MaxTicket
        /\ IsDrained(committedThrough', t, settledAbove)
    BY <2>1, <2>2, DrainedSpec
  <2>4. committedThrough' <= nextTicket
    <3>1. CASE committedThrough' = t
      BY <3>1
    <3>2. CASE committedThrough' > t
      BY <3>2, <2>3 DEF IsDrained
    <3> QED
      BY <3>1, <3>2, <2>3
  <2>5. ASSUME NEW m \in settledAbove' PROVE m > committedThrough' + 1
    <3>1. m \in settledAbove /\ m > committedThrough' /\ m \in Nat
      BY <2>1
    <3>2. committedThrough' + 1 \notin settledAbove
      BY <2>3 DEF IsDrained
    <3>3. m # committedThrough' + 1
      BY ONLY <3>1, <3>2
    <3>4. committedThrough' \in Nat
      BY <2>3
    <3> QED
      BY ONLY <3>1, <3>3, <3>4, BeyondNext
  <2>6. ASSUME NEW m \in Tickets
        PROVE IsSettled(m)' <=> (IsSettled(m) \/ m = t)
    <3>1. CASE m <= t
      BY <3>1, <2>1, <2>3, <1>1
    <3>2. CASE m > t /\ m <= committedThrough'
      BY <3>2, <2>3 DEF IsDrained
    <3>3. CASE m > committedThrough'
      <4>1. m > t
        BY <3>3, <2>3
      <4>2. m \in settledAbove' <=> m \in settledAbove
        BY <3>3, <2>1
      <4>3. ~(m <= committedThrough) /\ ~(m <= committedThrough') /\ m # t
        BY <4>1, <3>3, <2>3, <1>1
      <4> QED
        BY <4>2, <4>3
    <3> QED
      BY <3>1, <3>2, <3>3, <2>3
  <2>7. committedThrough' \in committedThrough..nextTicket
    BY <2>3, <2>4, <1>1
  <2>8. settledAbove' \subseteq 1..nextTicket
    BY <2>1
  <2> QED
    BY <2>5, <2>6, <2>7, <2>8
<1>2. CASE t # committedThrough + 1
  <2>1. settledAbove' = settledAbove \cup {t} /\ committedThrough' = committedThrough
    BY <1>2 DEF Advance
  <2>2. t > committedThrough + 1
    BY <1>2
  <2>3. \A m \in settledAbove' : m > committedThrough' + 1
    BY <2>1, <2>2
  <2>4. \A m \in Tickets : IsSettled(m)' <=> (IsSettled(m) \/ m = t)
    BY <2>1
  <2> QED
    BY <2>1, <2>3, <2>4
<1> QED
  BY <1>1, <1>2

(* Every call and every publication keeps the invariant. *)
LEMMA SettleInv ==
    ASSUME LedgerInv, NEW a \in Actors, NEW t \in 1..nextTicket,
           NEW voided \in BOOLEAN, Settle(a, t, voided)
    PROVE  LedgerInv'
<1>1. CASE IsSettled(t)
  BY <1>1 DEF Settle, LedgerInv, LedgerTypeOK, WatermarkExact, PublishedSound,
    FailedIsSettled, NotedOnce, IsSettled, innerVars
<1>2. CASE ~IsSettled(t)
  <2>0. /\ Resolve(t, voided) /\ Advance(t)
        /\ closed' = closed /\ updates' = updates /\ nextTicket' = nextTicket
        /\ outbox' = [outbox EXCEPT ![a] =
             {[committedThrough |-> committedThrough', closed |-> closed]}]
    BY <1>2 DEF Settle
  <2>1. /\ committedThrough' \in committedThrough..nextTicket
        /\ settledAbove' \subseteq 1..nextTicket
        /\ \A m \in settledAbove' : m > committedThrough' + 1
        /\ \A m \in Tickets : IsSettled(m)' <=> (IsSettled(m) \/ m = t)
    BY <2>0, <1>2, AdvanceSettlesOne
  <2>2. /\ failed' \subseteq failed \cup {t}
        /\ committed' \in [Tickets -> 0..MaxRecords]
        /\ dropped' \in [Tickets -> 0..MaxRecords]
        /\ NotedOnce'
    <3> USE BoundsAssumption DEF LedgerInv, LedgerTypeOK, NotedOnce, Tickets
    <3>1. CASE ~voided /\ dropped[t] > 0
      BY <2>0, <3>1 DEF Resolve
    <3>2. CASE ~(~voided /\ dropped[t] > 0)
      <4>1. /\ failed' = failed
            /\ committed' = [committed EXCEPT ![t] = 0]
            /\ dropped' = [dropped EXCEPT ![t] = 0]
        BY <2>0, <3>2 DEF Resolve
      <4>2. \A m \in Tickets : committed'[m] + dropped'[m] <= MaxRecords
        BY <4>1
      <4> QED
        BY <4>1, <4>2
    <3> QED
      BY <3>1, <3>2
  <2>3. outbox' \in [Actors -> SUBSET Watermarks]
    BY <2>0, <2>1, BoundsAssumption DEF LedgerInv, LedgerTypeOK, Watermarks
  <2>4. LedgerTypeOK'
    BY <2>0, <2>1, <2>2, <2>3 DEF LedgerInv, LedgerTypeOK
  <2>5. WatermarkExact'
    BY <2>1 DEF WatermarkExact
  <2>6. PublishedSound'
    <3>1. ASSUME NEW w \in {updates'} \cup UNION {outbox'[b] : b \in Actors}
          PROVE  w.committedThrough <= committedThrough' /\ (w.closed => closed')
      <4>1. CASE w \in {updates} \cup UNION {outbox[b] : b \in Actors}
        <5>1. w \in Watermarks
          BY <4>1 DEF LedgerInv, LedgerTypeOK
        <5> QED
          BY <4>1, <5>1, <2>0, <2>1, BoundsAssumption
          DEF LedgerInv, LedgerTypeOK, PublishedSound, Watermarks
      <4>2. CASE w = [committedThrough |-> committedThrough', closed |-> closed]
        BY <4>2, <2>0, <2>1 DEF LedgerInv, LedgerTypeOK
      <4> QED
        BY <3>1, <4>1, <4>2, <2>0 DEF LedgerInv, LedgerTypeOK
    <3> QED
      BY <3>1 DEF PublishedSound
  <2>7. ASSUME NEW m \in failed' PROVE IsSettled(m)'
    <3>1. m \in failed \cup {t}
      BY <2>2
    <3>2. m \in Tickets
      BY <3>1, BoundsAssumption DEF LedgerInv, LedgerTypeOK, Tickets
    <3>3. IsSettled(m) \/ m = t
      BY <3>1 DEF LedgerInv, FailedIsSettled
    <3> QED
      BY <3>2, <3>3, <2>1
  <2> QED
    BY <2>2, <2>4, <2>5, <2>6, <2>7 DEF LedgerInv, FailedIsSettled
<1> QED
  BY <1>1, <1>2

(* note_committed and note_dropped keep the invariant. *)
LEMMA NoteInv ==
    ASSUME LedgerInv, NEW a \in Actors, NEW t \in 1..nextTicket,
           NEW n \in 1..(MaxRecords - committed[t] - dropped[t]),
           NoteCommitted(a, t, n) \/ NoteDropped(a, t, n)
    PROVE  LedgerInv'
<1>1. /\ nextTicket' = nextTicket /\ settledAbove' = settledAbove
      /\ committedThrough' = committedThrough /\ failed' = failed
      /\ closed' = closed /\ updates' = updates /\ outbox' = outbox
  BY DEF NoteCommitted, NoteDropped
<1>2. WatermarkExact' /\ PublishedSound' /\ FailedIsSettled'
  BY <1>1 DEF LedgerInv, WatermarkExact, PublishedSound, FailedIsSettled, IsSettled
<1>3. /\ committed' \in [Tickets -> 0..MaxRecords]
      /\ dropped' \in [Tickets -> 0..MaxRecords]
      /\ \A m \in Tickets : committed'[m] + dropped'[m] <= MaxRecords
  <2>a. t \in Tickets /\ MaxRecords \in Nat
    BY BoundsAssumption DEF LedgerInv, LedgerTypeOK, Tickets
  <2>b. committed \in [Tickets -> 0..MaxRecords] /\ dropped \in [Tickets -> 0..MaxRecords]
    BY DEF LedgerInv, LedgerTypeOK
  <2>c. \A m \in Tickets : committed[m] + dropped[m] <= MaxRecords
    BY DEF LedgerInv, NotedOnce
  <2>d. committed[t] \in 0..MaxRecords /\ dropped[t] \in 0..MaxRecords
    BY <2>a, <2>b
  <2>e. /\ n \in Nat
        /\ committed[t] + n \in 0..MaxRecords /\ dropped[t] + n \in 0..MaxRecords
        /\ (committed[t] + n) + dropped[t] <= MaxRecords
        /\ committed[t] + (dropped[t] + n) <= MaxRecords
    BY <2>a, <2>d
  <2>1. CASE NoteCommitted(a, t, n)
    <3>1. dropped' = dropped
      BY <2>1 DEF NoteCommitted
    <3>2. committed' = committed \/ committed' = [committed EXCEPT ![t] = committed[t] + n]
      BY <2>1 DEF NoteCommitted
    <3> QED
      BY <3>1, <3>2, <2>a, <2>b, <2>c, <2>e
  <2>2. CASE NoteDropped(a, t, n)
    <3>1. committed' = committed
      BY <2>2 DEF NoteDropped
    <3>2. dropped' = dropped \/ dropped' = [dropped EXCEPT ![t] = dropped[t] + n]
      BY <2>2 DEF NoteDropped
    <3> QED
      BY <3>1, <3>2, <2>a, <2>b, <2>c, <2>e
  <2> QED
    BY <2>1, <2>2
<1>4. LedgerTypeOK' /\ NotedOnce'
  BY <1>1, <1>3 DEF LedgerInv, LedgerTypeOK, NotedOnce
<1> QED
  BY <1>2, <1>4 DEF LedgerInv

(* The locked half of close keeps the invariant. *)
LEMMA CloseInv ==
    ASSUME LedgerInv, NEW a \in Actors, Close(a)
    PROVE  LedgerInv'
<1>1. /\ closed' = TRUE
      /\ outbox' = [outbox EXCEPT ![a] =
           {[committedThrough |-> committedThrough, closed |-> TRUE]}]
      /\ UNCHANGED <<nextTicket, settledAbove, committedThrough, committed, dropped,
                     failed, updates>>
  BY DEF Close
<1>2. outbox' \in [Actors -> SUBSET Watermarks]
  BY <1>1, BoundsAssumption DEF LedgerInv, LedgerTypeOK, Watermarks
<1>3. LedgerTypeOK'
  BY <1>1, <1>2 DEF LedgerInv, LedgerTypeOK
<1>4. PublishedSound'
  <2>1. ASSUME NEW w \in {updates'} \cup UNION {outbox'[b] : b \in Actors}
        PROVE  w.committedThrough <= committedThrough' /\ (w.closed => closed')
    <3>1. CASE w \in {updates} \cup UNION {outbox[b] : b \in Actors}
      BY <3>1, <1>1 DEF LedgerInv, PublishedSound
    <3>2. CASE w = [committedThrough |-> committedThrough, closed |-> TRUE]
      BY <3>2, <1>1 DEF LedgerInv, LedgerTypeOK
    <3> QED
      BY <2>1, <3>1, <3>2, <1>1 DEF LedgerInv, LedgerTypeOK
  <2> QED
    BY <2>1 DEF PublishedSound
<1>5. WatermarkExact' /\ FailedIsSettled' /\ NotedOnce'
  BY <1>1 DEF LedgerInv, WatermarkExact, FailedIsSettled, NotedOnce, IsSettled
<1> QED
  BY <1>3, <1>4, <1>5 DEF LedgerInv

(* Storing a watermark, even a stale one, keeps the invariant. *)
LEMMA PublishInv ==
    ASSUME LedgerInv, NEW a \in Actors, Publish(a)
    PROVE  LedgerInv'
<1>1. /\ updates' \in outbox[a]
      /\ outbox' = [outbox EXCEPT ![a] = {}]
      /\ UNCHANGED <<nextTicket, settledAbove, committedThrough, committed, dropped,
                     failed, closed>>
  BY DEF Publish, innerVars
<1>2. LedgerTypeOK'
  BY <1>1 DEF LedgerInv, LedgerTypeOK
<1>3. {updates'} \cup UNION {outbox'[b] : b \in Actors}
        \subseteq {updates} \cup UNION {outbox[b] : b \in Actors}
  BY <1>1 DEF LedgerInv, LedgerTypeOK
<1>4. PublishedSound'
  BY <1>1, <1>3 DEF LedgerInv, PublishedSound
<1>5. WatermarkExact' /\ FailedIsSettled' /\ NotedOnce'
  BY <1>1 DEF LedgerInv, WatermarkExact, FailedIsSettled, NotedOnce, IsSettled
<1> QED
  BY <1>2, <1>4, <1>5 DEF LedgerInv

(* issue keeps the invariant: the new ticket is not settled. *)
LEMMA IssueInv ==
    ASSUME LedgerInv, NEW a \in Actors, Issue(a)
    PROVE  LedgerInv'
<1>1. /\ nextTicket' = nextTicket + 1 /\ nextTicket < MaxTicket
      /\ UNCHANGED <<settledAbove, committedThrough, committed, dropped, failed,
                     closed, updates, outbox>>
  BY DEF Issue, innerVars
<1>2. LedgerTypeOK'
  <2>1. nextTicket' \in 0..MaxTicket /\ 0..nextTicket \subseteq 0..nextTicket'
        /\ 1..nextTicket \subseteq 1..nextTicket'
    BY <1>1, BoundsAssumption DEF LedgerInv, LedgerTypeOK
  <2> QED
    BY <1>1, <2>1 DEF LedgerInv, LedgerTypeOK
<1>3. WatermarkExact' /\ PublishedSound' /\ FailedIsSettled' /\ NotedOnce'
  BY <1>1 DEF LedgerInv, WatermarkExact, PublishedSound, FailedIsSettled,
    NotedOnce, IsSettled
<1> QED
  BY <1>2, <1>3 DEF LedgerInv

(* Every step of the ledger, or of a client that leaves it alone, keeps    *)
(* the invariant.                                                          *)
THEOREM LedgerStepInv == LedgerInv /\ [LedgerNext]_ledgerVars => LedgerInv'
<1> SUFFICES ASSUME LedgerInv, [LedgerNext]_ledgerVars PROVE LedgerInv'
  OBVIOUS
<1>1. CASE UNCHANGED ledgerVars
  BY <1>1 DEF ledgerVars, innerVars, LedgerInv, LedgerTypeOK, WatermarkExact,
    PublishedSound, FailedIsSettled, NotedOnce, IsSettled
<1>2. CASE LedgerNext
  <2>0. PICK a \in Actors : LedgerCall(a) \/ Publish(a)
    BY <1>2 DEF LedgerNext
  <2>1. CASE Issue(a)
    BY <2>1, IssueInv
  <2>2. ASSUME NEW t \in 1..nextTicket,
               NEW n \in 1..(MaxRecords - committed[t] - dropped[t]),
               NoteCommitted(a, t, n) \/ NoteDropped(a, t, n)
        PROVE  LedgerInv'
    BY <2>2, NoteInv
  <2>3. ASSUME NEW t \in 1..nextTicket, Complete(a, t) \/ Void(a, t)
        PROVE  LedgerInv'
    BY <2>3, SettleInv DEF Complete, Void
  <2>4. CASE Close(a)
    BY <2>4, CloseInv
  <2>5. CASE Publish(a)
    BY <2>5, PublishInv
  <2> QED
    BY <2>0, <2>1, <2>2, <2>3, <2>4, <2>5 DEF LedgerCall
<1> QED
  BY <1>1, <1>2

(* The types, and the exactness of the contiguous watermark, for every     *)
(* behaviour of the ledger.                                                *)
THEOREM LedgerCorrect == LedgerSpec => [](LedgerTypeOK /\ WatermarkExact)
<1>1. LedgerInv => LedgerTypeOK /\ WatermarkExact
  BY DEF LedgerInv
<1> QED
  BY <1>1, LedgerInitInv, LedgerStepInv, PTL DEF LedgerSpec

(* What a waiter can borrow from the watch channel, or will find there     *)
(* once a thread has stored what it computed, is never ahead of the        *)
(* ledger.                                                                 *)
THEOREM PublicationsAreSound == LedgerSpec => []PublishedSound
<1>1. LedgerInv => PublishedSound
  BY DEF LedgerInv
<1> QED
  BY <1>1, LedgerInitInv, LedgerStepInv, PTL DEF LedgerSpec

(* Counter, watermark and closed flag only move forward. *)
LEMMA LedgerMonotone ==
    ASSUME LedgerInv, [LedgerNext]_ledgerVars
    PROVE  /\ nextTicket \in 0..nextTicket'
           /\ committedThrough \in 0..committedThrough'
           /\ closed => closed'
<1> DEFINE Forward == /\ nextTicket \in 0..nextTicket'
                      /\ committedThrough \in 0..committedThrough'
                      /\ closed => closed'
<1> SUFFICES Forward
  OBVIOUS
<1>0. nextTicket \in Nat /\ committedThrough \in Nat
  BY BoundsAssumption DEF LedgerInv, LedgerTypeOK
<1>1. CASE UNCHANGED ledgerVars
  BY <1>0, <1>1 DEF ledgerVars, innerVars
<1>2. CASE LedgerNext
  <2>0. PICK a \in Actors : LedgerCall(a) \/ Publish(a)
    BY <1>2 DEF LedgerNext
  <2>1. CASE Issue(a) \/ Close(a) \/ Publish(a)
    <3>1. /\ committedThrough' = committedThrough /\ (closed => closed')
          /\ nextTicket' \in {nextTicket, nextTicket + 1}
      BY <2>1 DEF Issue, Close, Publish, innerVars
    <3> QED
      BY <1>0, <3>1
  <2>2. ASSUME NEW t \in 1..nextTicket, NEW n,
               NoteCommitted(a, t, n) \/ NoteDropped(a, t, n)
        PROVE  Forward
    BY <1>0, <2>2 DEF NoteCommitted, NoteDropped
  <2>3. ASSUME NEW t \in 1..nextTicket, NEW voided \in BOOLEAN, Settle(a, t, voided)
        PROVE  Forward
    <3>1. CASE IsSettled(t)
      BY <1>0, <2>3, <3>1 DEF Settle, innerVars
    <3>2. CASE ~IsSettled(t)
      <4>1. Advance(t) /\ UNCHANGED <<nextTicket, closed>>
        BY <2>3, <3>2 DEF Settle
      <4>2. committedThrough' \in committedThrough..nextTicket
        BY <4>1, <3>2, AdvanceSettlesOne
      <4> QED
        BY <1>0, <4>1, <4>2
    <3> QED
      BY <3>1, <3>2
  <2> HIDE DEF Forward
  <2> QED
    BY <2>0, <2>1, <2>2, <2>3 DEF LedgerCall, Complete, Void
<1> QED
  BY <1>1, <1>2

(* One step leaves the state of every settled ticket as it was. *)
LEMMA SettledStepFinal ==
    ASSUME LedgerInv, [LedgerNext]_ledgerVars, NEW t \in Tickets, IsSettled(t)
    PROVE  IsSettled(t)' /\ State(t)' = State(t)
<1> USE DEF IsSettled, State
<1>1. CASE UNCHANGED ledgerVars
  BY <1>1 DEF ledgerVars, innerVars
<1>2. CASE LedgerNext
  <2>0. PICK a \in Actors : LedgerCall(a) \/ Publish(a)
    BY <1>2 DEF LedgerNext
  <2>1. CASE Issue(a) \/ Close(a) \/ Publish(a)
    BY <2>1 DEF Issue, Close, Publish, innerVars
  <2>2. ASSUME NEW m \in 1..nextTicket,
               NEW n \in 1..(MaxRecords - committed[m] - dropped[m]),
               NoteCommitted(a, m, n) \/ NoteDropped(a, m, n)
        PROVE  IsSettled(t)' /\ State(t)' = State(t)
    <3>1. UNCHANGED <<settledAbove, committedThrough, failed>>
      BY <2>2 DEF NoteCommitted, NoteDropped
    <3>2. committed'[t] = committed[t] /\ dropped'[t] = dropped[t]
      BY <2>2 DEF NoteCommitted, NoteDropped, LedgerInv, LedgerTypeOK
    <3> QED
      BY <3>1, <3>2
  <2>3. ASSUME NEW m \in 1..nextTicket, NEW voided \in BOOLEAN, Settle(a, m, voided)
        PROVE  IsSettled(t)' /\ State(t)' = State(t)
    <3>1. CASE IsSettled(m)
      BY <2>3, <3>1 DEF Settle, innerVars
    <3>2. CASE ~IsSettled(m)
      <4>1. Advance(m) /\ Resolve(m, voided)
        BY <2>3, <3>2 DEF Settle
      <4>2. IsSettled(t)'
        BY <4>1, <3>2, AdvanceSettlesOne
      <4>3. t # m
        BY <3>2
      <4>4. /\ committed'[t] = committed[t] /\ dropped'[t] = dropped[t]
            /\ t \in failed' <=> t \in failed
        BY <4>1, <4>3 DEF Resolve, LedgerInv, LedgerTypeOK
      <4> QED
        BY <4>2, <4>4
    <3> QED
      BY <3>1, <3>2
  <2> QED
    BY <2>0, <2>1, <2>2, <2>3 DEF LedgerCall, Complete, Void
<1> QED
  BY <1>1, <1>2

(* A settled ticket never changes its state again. *)
THEOREM SettledTicketsAreFinal == LedgerSpec => SettledIsFinal
<1>1. LedgerInv /\ [LedgerNext]_ledgerVars =>
        [\A t \in Tickets : IsSettled(t) => (State(t)' = State(t))]_ledgerVars
  BY SettledStepFinal
<1> QED
  BY <1>1, LedgerInitInv, LedgerStepInv, PTL DEF LedgerSpec, SettledIsFinal

(* In every state of the ledger the watermark is the end of the longest    *)
(* settled prefix.                                                         *)
LEMMA PrefixEnd ==
    LedgerInv => Book!IsPrefixEnd(committedThrough, [m \in Tickets |-> Outcome(m)])
<1> SUFFICES ASSUME LedgerInv
             PROVE  Book!IsPrefixEnd(committedThrough, [m \in Tickets |-> Outcome(m)])
  OBVIOUS
<1>1. committedThrough \in 0..MaxTicket
  BY BoundsAssumption DEF LedgerInv, LedgerTypeOK
<1>2. \A m \in 1..committedThrough : m \in Tickets /\ Outcome(m) # "open"
  BY <1>1, BoundsAssumption DEF Outcome, IsSettled, Tickets
<1>3. ~IsSettled(committedThrough + 1)
  BY <1>1 DEF LedgerInv, WatermarkExact, IsSettled
<1>4. Outcome(committedThrough + 1) = "open"
  BY <1>3 DEF LedgerInv, FailedIsSettled, Outcome
<1> QED
  BY <1>1, <1>2, <1>4 DEF Book!IsPrefixEnd, Book!BookTickets, Tickets

(* The same in the next state. *)
LEMMA PrefixEndPrimed ==
    LedgerInv' => Book!IsPrefixEnd(committedThrough, [m \in Tickets |-> Outcome(m)])'
BY PrefixEnd, PTL

(* The refinement, step by step.  A settlement maps to SettleTicket, a     *)
(* publication to Announce, a note to a stutter.                           *)
LEMMA SettleRefines ==
    ASSUME LedgerInv, LedgerInv', NEW a \in Actors, NEW t \in 1..nextTicket,
           NEW voided \in BOOLEAN, Settle(a, t, voided)
    PROVE  [Book!BookNext]_Book!bookVars
<1>1. CASE IsSettled(t)
  BY <1>1 DEF Settle, innerVars, Book!bookVars, Outcome, IsSettled
<1>2. CASE ~IsSettled(t)
  <2>0. /\ Resolve(t, voided) /\ Advance(t)
        /\ closed' = closed /\ updates' = updates /\ nextTicket' = nextTicket
    BY <1>2 DEF Settle
  <2>1. /\ committedThrough' \in committedThrough..nextTicket
        /\ \A m \in settledAbove' : m > committedThrough' + 1
        /\ \A m \in Tickets : IsSettled(m)' <=> (IsSettled(m) \/ m = t)
    BY <2>0, <1>2, AdvanceSettlesOne
  <2>2. t \in Tickets /\ t <= nextTicket
    BY BoundsAssumption DEF LedgerInv, LedgerTypeOK, Tickets
  <2>3. t \notin failed
    BY <1>2 DEF LedgerInv, FailedIsSettled
  <2>4. Outcome(t) = "open"
    BY <1>2, <2>3 DEF Outcome
  <2>5. PICK o \in {"completed", "failed"} : Outcome(t)' = o
    BY <2>1, <2>2 DEF Outcome
  <2>6. \A m \in Tickets : m # t => Outcome(m)' = Outcome(m)
    BY <2>0, <2>1 DEF Outcome, Resolve
  <2>7. [m \in Tickets |-> Outcome(m)]' = [[m \in Tickets |-> Outcome(m)] EXCEPT ![t] = o]
    BY <2>2, <2>5, <2>6
  <2>9. Book!IsPrefixEnd(committedThrough, [m \in Tickets |-> Outcome(m)])'
    BY PrefixEndPrimed
  <2>10. Book!SettleTicket(t, o)
    BY <2>0, <2>2, <2>4, <2>7, <2>9 DEF Book!SettleTicket
  <2> QED
    BY <2>2, <2>10 DEF Book!BookNext, Book!BookTickets, Tickets
<1> QED
  BY <1>1, <1>2

(* Publish is the announcement of the book. *)
LEMMA PublishRefines ==
    ASSUME LedgerInv, NEW a \in Actors, Publish(a)
    PROVE  Book!Announce
<1>1. updates' \in outbox[a] /\ UNCHANGED <<nextTicket, innerVars>>
  BY DEF Publish
<1>2. updates' \in Watermarks
  BY <1>1 DEF LedgerInv, LedgerTypeOK
<1>3. updates'.committedThrough <= committedThrough /\ (updates'.closed => closed)
  BY <1>1 DEF LedgerInv, PublishedSound
<1>4. updates'.committedThrough \in 0..committedThrough /\ updates'.closed \in BOOLEAN
  BY <1>2, <1>3 DEF Watermarks, LedgerInv, LedgerTypeOK
<1>5. UNCHANGED [m \in Tickets |-> Outcome(m)]
  BY <1>1 DEF innerVars, Outcome, IsSettled
<1> QED
  BY <1>1, <1>3, <1>4, <1>5 DEF Book!Announce, innerVars

(* Every behaviour of the ledger is one of the ticket book: parking and    *)
(* draining are invisible.                                                 *)
THEOREM LedgerImplementsBook == LedgerSpec => ImplementsBook
<1>1. LedgerInit => Book!BookInit
  BY BoundsAssumption
  DEF LedgerInit, Book!BookInit, Book!BookTickets, Tickets, Outcome, IsSettled
<1>2. LedgerInv /\ LedgerInv' /\ [LedgerNext]_ledgerVars => [Book!BookNext]_Book!bookVars
  <2> SUFFICES ASSUME LedgerInv, LedgerInv', [LedgerNext]_ledgerVars
               PROVE  [Book!BookNext]_Book!bookVars
    OBVIOUS
  <2>1. CASE UNCHANGED ledgerVars
    BY <2>1 DEF ledgerVars, innerVars, Book!bookVars, Outcome, IsSettled
  <2>2. CASE LedgerNext
    <3>0. PICK a \in Actors : LedgerCall(a) \/ Publish(a)
      BY <2>2 DEF LedgerNext
    <3>1. CASE Issue(a)
      BY <3>1 DEF Issue, innerVars, Book!BookNext, Book!IssueTicket, Outcome, IsSettled
    <3>2. ASSUME NEW t \in 1..nextTicket,
                 NEW n \in 1..(MaxRecords - committed[t] - dropped[t]),
                 NoteCommitted(a, t, n) \/ NoteDropped(a, t, n)
          PROVE  [Book!BookNext]_Book!bookVars
      BY <3>2 DEF NoteCommitted, NoteDropped, Book!bookVars, Outcome, IsSettled
    <3>3. ASSUME NEW t \in 1..nextTicket, Complete(a, t) \/ Void(a, t)
          PROVE  [Book!BookNext]_Book!bookVars
      BY <3>3, SettleRefines DEF Complete, Void
    <3>4. CASE Close(a)
      BY <3>4 DEF Close, Book!BookNext, Book!ShutBook, Outcome, IsSettled
    <3>5. CASE Publish(a)
      BY <3>5, PublishRefines DEF Book!BookNext
    <3> QED
      BY <3>0, <3>1, <3>2, <3>3, <3>4, <3>5 DEF LedgerCall
  <2> QED
    BY <2>1, <2>2
<1> QED
  BY <1>1, <1>2, LedgerInitInv, LedgerStepInv, PTL
  DEF LedgerSpec, ImplementsBook, Book!BookSpec
===============================================================================
