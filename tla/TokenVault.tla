----------------------------- MODULE TokenVault -----------------------------
(***************************************************************************)
(* The bearer-token file's cache (otel-sqlite-ingress/src/auth.rs): a set  *)
(* of tokens read at startup, re-read when older than reload_interval by a *)
(* background thread or, without one, by the requests themselves, with     *)
(* single-flight reads done outside the lock.                              *)
(*                                                                         *)
(* A file holding tokens is its version; version 0 is the empty set.  Time *)
(* is counted in ticks; ages stop at what the rules tell apart.            *)
(***************************************************************************)
EXTENDS Integers

CONSTANTS Callers,     \* threads that may call refresh
          Background,  \* BOOLEAN: the one caller is the background reloader
          Interval,    \* reload_interval, in ticks
          MaxStale,    \* max_stale_age, in ticks
          MaxRead,     \* bound: ticks a read of the file may take
          MaxVersion   \* bound: versions of the file

VaultAssumption ==
    /\ Background \in BOOLEAN
    /\ {Interval, MaxStale, MaxVersion} \subseteq Nat \ {0} /\ MaxRead \in Nat

VARIABLES file,       \* what the file holds
          version,    \* the newest version written
          cached,     \* CachedTokens
          reloading,  \* the single-flight claim
          pc, got,    \* per caller: where it is, what its read produced
          spent,      \* per caller: ticks since its last step
          good,       \* ticks since a reload last published tokens or a removal
          last        \* what the last published reload saw

vars == <<file, version, cached, reloading, pc, got, spent, good, last>>

Kinds == {"tokens", "empty", "missing", "unreadable", "invalid"}
Files == [kind: Kinds, v: 0..MaxVersion]
None  == -1
Unread == [kind |-> "missing", v |-> 0]

\* The longest a set may be served without a good reload.  It is more than
\* MAX_STALE_TOKEN_AGE, which is MaxStale, "since the last good reload": an
\* empty file is kept once, a failing reload starts the grace period, and the
\* first reload after it finds it over.
Grace == MaxStale + 3 * (Interval + MaxRead)

\* Ages grow to the largest value a rule tells apart.
Older(a, cap) == IF a = None \/ a = cap THEN a ELSE a + 1

\* TokenFileVault::open refuses everything but a file with a token.
Init ==
    /\ version = 1 /\ file = [kind |-> "tokens", v |-> 1]
    /\ cached = [v |-> 1, age |-> 0, since |-> None, empties |-> 0]
    /\ reloading = FALSE
    /\ pc = [c \in Callers |-> "idle"]
    /\ got = [c \in Callers |-> Unread] /\ spent = [c \in Callers |-> 0]
    /\ good = 0 /\ last = "tokens"

IsStale == cached.age >= Interval

Goto(c, l) == pc' = [pc EXCEPT ![c] = l] /\ spent' = [spent EXCEPT ![c] = 0]

-----------------------------------------------------------------------------
(* refresh *)

\* The reloader slept an interval; a request found the set stale.
Due(c) ==
    /\ pc[c] = "idle"
    /\ IF Background THEN spent[c] >= Interval ELSE IsStale
    /\ Goto(c, "due")
    /\ UNCHANGED <<file, version, cached, reloading, got, good, last>>

\* Mutant of Claim: no single flight.
ClaimAlways(c) ==
    /\ pc[c] = "due"
    /\ reloading' = TRUE /\ Goto(c, "read")
    /\ UNCHANGED <<file, version, cached, got, good, last>>

\* compare_exchange: a caller that loses serves the current set.
Claim(c) ==
    /\ pc[c] = "due"
    /\ IF reloading
       THEN Goto(c, "idle") /\ UNCHANGED reloading
       ELSE Goto(c, "read") /\ reloading' = TRUE
    /\ UNCHANGED <<file, version, cached, got, good, last>>

Read(c) ==
    /\ pc[c] = "read"
    /\ got' = [got EXCEPT ![c] = file] /\ Goto(c, "publish")
    /\ UNCHANGED <<file, version, cached, reloading, good, last>>

\* Mutant of Published: an empty file is taken at its word.
PublishedEmptyAtOnce(seen) ==
    CASE seen.kind = "tokens" ->
           [v |-> seen.v, age |-> 0, since |-> None, empties |-> 0]
      [] seen.kind \in {"missing", "empty"} ->
           [v |-> 0, age |-> 0, since |-> None, empties |-> 0]
      [] OTHER -> [cached EXCEPT !.age = 0]

\* Mutant of Published: every failing reload restarts the grace period.
PublishedGraceRestarts(seen) ==
    CASE seen.kind = "tokens" ->
           [v |-> seen.v, age |-> 0, since |-> None, empties |-> 0]
      [] seen.kind = "missing" ->
           [v |-> 0, age |-> 0, since |-> None, empties |-> 0]
      [] OTHER ->
           [cached EXCEPT !.since = 0, !.age = 0]

\* What a due reload makes of the cache.
Published(seen) ==
    CASE seen.kind = "tokens" ->
           [v |-> seen.v, age |-> 0, since |-> None, empties |-> 0]
      [] seen.kind = "empty" ->
           IF cached.empties = 0
           THEN [cached EXCEPT !.empties = 1, !.age = 0]  \* 2: twice or more
           ELSE [v |-> 0, age |-> 0, since |-> None, empties |-> 2]
      [] seen.kind = "missing" ->
           [v |-> 0, age |-> 0, since |-> None, empties |-> 0]
      [] seen.kind \in {"unreadable", "invalid"} ->
           LET since == IF cached.since = None THEN 0 ELSE cached.since
           IN  [cached EXCEPT !.since = since, !.age = 0,
                              !.v = IF since >= MaxStale THEN 0 ELSE @]

\* Under the write lock, if the set is still due; else the read is dropped.
Publish(c) ==
    /\ pc[c] = "publish"
    /\ IF IsStale
       THEN /\ cached' = Published(got[c])
            /\ good' = IF got[c].kind \in {"tokens", "missing"} THEN 0 ELSE good
            /\ last' = got[c].kind
       ELSE UNCHANGED <<cached, good, last>>
    /\ Goto(c, "release")
    /\ UNCHANGED <<file, version, reloading, got>>

\* Mutant of Release: the claim is not given back.
ReleaseKeepingClaim(c) ==
    /\ pc[c] = "release"
    /\ Goto(c, "idle") /\ got' = [got EXCEPT ![c] = Unread]
    /\ UNCHANGED <<file, version, cached, reloading, good, last>>

\* ReloadClaim is dropped.
Release(c) ==
    /\ pc[c] = "release"
    /\ reloading' = FALSE /\ Goto(c, "idle")
    /\ got' = [got EXCEPT ![c] = Unread]
    /\ UNCHANGED <<file, version, cached, good, last>>

Refresh(c) == Due(c) \/ Claim(c) \/ Read(c) \/ Publish(c) \/ Release(c)

-----------------------------------------------------------------------------
(* The operator, and time *)

Rewrite ==
    /\ version < MaxVersion
    /\ version' = version + 1 /\ file' = [kind |-> "tokens", v |-> version']
    /\ UNCHANGED <<cached, reloading, pc, got, spent, good, last>>

\* A version of the file is disturbed, then put back: truncated while it is
\* rewritten, removed, unreadable or over a limit.
Disturb ==
    /\ file.kind = "tokens"
    /\ \E k \in Kinds \ {"tokens"} : file' = [file EXCEPT !.kind = k]
    /\ UNCHANGED <<version, cached, reloading, pc, got, spent, good, last>>

Repair ==
    /\ file.kind # "tokens"
    /\ file' = [file EXCEPT !.kind = "tokens"]
    /\ UNCHANGED <<version, cached, reloading, pc, got, spent, good, last>>

\* A thread in refresh takes at most MaxRead ticks for the file and none for
\* the rest; the background reloader sleeps for its interval and no more.
MayWait(c) ==
    CASE pc[c] = "read"                 -> spent[c] < MaxRead
      [] pc[c] = "idle" /\ Background   -> spent[c] < Interval
      [] pc[c] = "idle" /\ ~Background  -> TRUE
      [] OTHER                          -> ~Background

Tick ==
    /\ \A c \in Callers : MayWait(c)
    /\ cached' = [cached EXCEPT !.age = Older(@, Interval), !.since = Older(@, MaxStale)]
    /\ good' = Older(good, Grace + 1)
    /\ spent' = [c \in Callers |-> IF pc[c] = "read" \/ Background
                                   THEN Older(spent[c], Interval + MaxRead) ELSE 0]
    /\ UNCHANGED <<file, version, reloading, pc, got, last>>

Next == (\E c \in Callers : Refresh(c)) \/ Rewrite \/ Disturb \/ Repair \/ Tick

Spec == Init /\ [][Next]_vars

\* Threads run and time passes; the file changes as it likes.
Fairness == /\ \A c \in Callers : WF_vars(Refresh(c))
            /\ WF_vars(Tick)

-----------------------------------------------------------------------------
(* Properties *)

VaultTypeOK ==
    /\ file \in Files /\ version \in 1..MaxVersion
    /\ cached \in [v: 0..MaxVersion, age: 0..Interval, since: {None} \cup 0..MaxStale,
                   empties: 0..2]
    /\ reloading \in BOOLEAN
    /\ pc \in [Callers -> {"idle", "due", "read", "publish", "release"}]
    /\ got \in [Callers -> Files] /\ spent \in [Callers -> 0..(Interval + MaxRead)]
    /\ good \in 0..(Grace + 1) /\ last \in Kinds

\* A slow reader never puts an older version back over a newer one: the claim
\* keeps a second read from overtaking the first.
NotRolledBack == cached'.v # 0 => cached'.v >= cached.v

\* One bad read, whatever it is, does not take the tokens away: the set is
\* cleared by a removed file, or when the reload before saw no tokens either.
BadReadKeeps == cached.v # 0 /\ cached'.v = 0 => last' = "missing" \/ last # "tokens"

\* While the background reloader's reads return, no set outlives its file by
\* more than Grace: the first failing reload starts the clock, not the last
\* good one, and an empty file may be kept once before it.
StaleExpires == Background /\ good > Grace => cached.v = 0

\* A file that stays as it is, with tokens, is eventually the one in use.
RotationTakesEffect ==
    \A n \in 1..MaxVersion :
        <>[](file = [kind |-> "tokens", v |-> n]) => <>[](cached.v = n)
====
