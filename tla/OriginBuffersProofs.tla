------------------------- MODULE OriginBuffersProofs --------------------------
(***************************************************************************)
(* The invariants of the per-origin buffers, for every set of origins,     *)
(* batch size, batch age and sequence of pushes and flushes.               *)
(***************************************************************************)
EXTENDS OriginBuffers, BatchingProofs

Rec == Nat \X Nat \X Nat
Buf == Buffer(Origins, Rec)
Sub == [origin : Origins, records : Seq(Rec), segments : PieceSeq]

(* The records of a chunk carry its ticket, their number and its size. *)
IsChunk(chunk, t) ==
    \E n \in Nat \ {0} : chunk[t] = [i \in 1..n |-> <<t, i, n>>]

LEMMA ChunkFacts ==
    ASSUME NEW chunk, NEW t \in Nat, IsChunk(chunk, t)
    PROVE  /\ chunk[t] \in Seq(Rec) /\ Len(chunk[t]) \in Nat /\ Len(chunk[t]) > 0
           /\ \A i \in 1..Len(chunk[t]) : chunk[t][i] = <<t, i, Len(chunk[t])>>
<1>1. PICK n \in Nat \ {0} : chunk[t] = [i \in 1..n |-> <<t, i, n>>]
  BY DEF IsChunk
<1> DEFINE c == [i \in 1..n |-> <<t, i, n>>]
<1>2. \A i \in 1..n : i \in Nat /\ <<t, i, n>> \in Rec
  BY DEF Rec
<1>3. c \in [1..n -> Rec]
  BY <1>2
<1>4. c \in Seq(Rec) /\ Len(c) = n
  BY <1>3
<1>5. \A i \in 1..n : c[i] = <<t, i, n>>
  OBVIOUS
<1> QED
  BY <1>1, <1>4, <1>5
-------------------------------------------------------------------------------
(* Lists of buffers or submissions, by origin. *)
Parts(s, o) == [k \in DOMAIN s |-> IF s[k].origin = o THEN s[k].records ELSE <<>>]

LEMMA PartsType ==
    ASSUME NEW S, \A x \in S : x.records \in Seq(Rec), NEW s \in Seq(S), NEW o
    PROVE  /\ Parts(s, o) \in Seq(Seq(Rec)) /\ Len(Parts(s, o)) = Len(s)
           /\ RecordsOf(s, o) = Flatten(Parts(s, o)) /\ RecordsOf(s, o) \in Seq(Rec)
<1>1. Len(s) \in Nat /\ DOMAIN s = 1..Len(s) /\ \A k \in 1..Len(s) : s[k] \in S
  OBVIOUS
<1>2. \A k \in 1..Len(s) : (IF s[k].origin = o THEN s[k].records ELSE <<>>) \in Seq(Rec)
  BY <1>1
<1>3. Parts(s, o) \in [1..Len(s) -> Seq(Rec)]
  BY <1>1, <1>2 DEF Parts
<1>4. Parts(s, o) \in Seq(Seq(Rec)) /\ Len(Parts(s, o)) = Len(s)
  BY <1>1, <1>3
<1>5. RecordsOf(s, o) = Flatten(Parts(s, o))
  BY DEF RecordsOf, Parts
<1> QED
  BY <1>4, <1>5, FlattenType

LEMMA ConcatSecond ==
    ASSUME NEW T, NEW a \in Seq(T), NEW b \in Seq(T),
           NEW k \in 1..(Len(a) + Len(b)), ~(k <= Len(a))
    PROVE  (a \o b)[k] = b[k - Len(a)]
OBVIOUS

RecordsJoin(s, t, o) == RecordsOf(s \o t, o) = RecordsOf(s, o) \o RecordsOf(t, o)

LEMMA RecordsConcat ==
    ASSUME NEW S, \A x \in S : x.records \in Seq(Rec), NEW s \in Seq(S), NEW t \in Seq(S), NEW o
    PROVE  RecordsJoin(s, t, o)
<1>1. s \o t \in Seq(S)
  OBVIOUS
<1>2. /\ Parts(s, o) \in Seq(Seq(Rec)) /\ RecordsOf(s, o) = Flatten(Parts(s, o))
      /\ Parts(t, o) \in Seq(Seq(Rec)) /\ RecordsOf(t, o) = Flatten(Parts(t, o))
      /\ Parts(s \o t, o) \in Seq(Seq(Rec)) /\ RecordsOf(s \o t, o) = Flatten(Parts(s \o t, o))
      /\ Len(Parts(s, o)) = Len(s) /\ Len(Parts(t, o)) = Len(t)
      /\ Len(Parts(s \o t, o)) = Len(s \o t)
  BY <1>1, PartsType
<1>3. Parts(s \o t, o) = Parts(s, o) \o Parts(t, o)
  <2> DEFINE a == Parts(s, o)
             b == Parts(t, o)
             c == Parts(s \o t, o)
  <2>1. /\ \A k \in 1..Len(s) : a[k] = IF s[k].origin = o THEN s[k].records ELSE <<>>
        /\ \A k \in 1..Len(t) : b[k] = IF t[k].origin = o THEN t[k].records ELSE <<>>
        /\ \A k \in 1..Len(s \o t) : c[k] = IF (s \o t)[k].origin = o
                                            THEN (s \o t)[k].records ELSE <<>>
    BY <1>1 DEF Parts
  <2>2. /\ Len(s \o t) = Len(s) + Len(t) /\ Len(s) \in Nat /\ Len(t) \in Nat
        /\ \A k \in 1..Len(s) : (s \o t)[k] = s[k]
        /\ \A k \in 1..Len(t) : (s \o t)[Len(s) + k] = t[k]
    OBVIOUS
  <2>3. a \in Seq(Seq(Rec)) /\ b \in Seq(Seq(Rec)) /\ c \in Seq(Seq(Rec))
        /\ Len(a) = Len(s) /\ Len(b) = Len(t) /\ Len(c) = Len(s) + Len(t)
    BY <1>2, <2>2
  <2> HIDE DEF a, b, c
  <2>4. ASSUME NEW k \in 1..(Len(s) + Len(t)) PROVE c[k] = (a \o b)[k]
    <3>1. CASE k \in 1..Len(s)
      <4>1. (a \o b)[k] = a[k]
        BY <2>3, <3>1
      <4>2. k \in 1..Len(s \o t)
        BY <2>2
      <4> QED
        BY <2>1, <2>2, <3>1, <4>1, <4>2
    <3>2. CASE k \notin 1..Len(s)
      <4>1. k - Len(s) \in 1..Len(t) /\ Len(s) + (k - Len(s)) = k
        BY <2>2, <3>2
      <4>2. (a \o b)[k] = b[k - Len(s)]
        <5>1. k \in 1..(Len(a) + Len(b)) /\ ~(k <= Len(a)) /\ Len(a) = Len(s)
          BY <2>2, <2>3, <3>2
        <5>2. (a \o b)[k] = b[k - Len(a)]
          BY <2>3, <5>1, ConcatSecond
        <5> QED
          BY <5>1, <5>2
      <4>3. (s \o t)[k] = t[k - Len(s)]
        BY <2>2, <4>1
      <4>4. k \in 1..Len(s \o t)
        BY <2>2
      <4> QED
        BY <2>1, <4>1, <4>2, <4>3, <4>4
    <3> QED
      BY <3>1, <3>2
  <2>5. a \o b \in Seq(Seq(Rec)) /\ Len(a \o b) = Len(s) + Len(t)
    BY <2>3
  <2>6. c = a \o b
    <3>1. Len(c) = Len(a \o b) /\ \A k \in 1..Len(c) : c[k] = (a \o b)[k]
      BY <2>3, <2>4, <2>5
    <3> QED
      BY <2>3, <2>5, <3>1, SeqEqual
  <2> QED
    BY <2>6 DEF a, b, c
<1>4. Flatten(Parts(s, o) \o Parts(t, o))
        = Flatten(Parts(s, o)) \o Flatten(Parts(t, o))
  BY <1>2, FlattenConcat
<1>5. RecordsOf(s \o t, o) = RecordsOf(s, o) \o RecordsOf(t, o)
  BY <1>2, <1>3, <1>4, Zenon
<1> QED
  BY <1>5 DEF RecordsJoin

(* With one element per origin, an origin's records are those of its       *)
(* element.                                                                *)
LEMMA RecordsOne ==
    ASSUME NEW S, \A x \in S : x.records \in Seq(Rec), NEW s \in Seq(S), OneEach(s), NEW o
    PROVE  /\ \A b \in Range(s) : b.origin = o => RecordsOf(s, o) = b.records
           /\ (\A b \in Range(s) : b.origin # o) => RecordsOf(s, o) = <<>>
<1>1. /\ Parts(s, o) \in Seq(Seq(Rec)) /\ Len(Parts(s, o)) = Len(s)
      /\ RecordsOf(s, o) = Flatten(Parts(s, o))
  BY PartsType
<1>2. /\ Len(s) \in Nat /\ DOMAIN s = 1..Len(s) /\ \A k \in 1..Len(s) : s[k] \in S
      /\ \A b : b \in Range(s) <=> \E k \in 1..Len(s) : s[k] = b
  BY DEF Range
<1>3. \A k \in 1..Len(s) : Parts(s, o)[k] = IF s[k].origin = o THEN s[k].records ELSE <<>>
  BY <1>2 DEF Parts
<1>4. ASSUME NEW b \in Range(s), b.origin = o
      PROVE  RecordsOf(s, o) = b.records
  <2>1. PICK k \in 1..Len(s) : s[k] = b
    BY <1>2
  <2>2. k \in Nat /\ k \in 1..Len(Parts(s, o))
    BY <1>1, <1>2
  <2>3. Parts(s, o)[k] = b.records /\ b.records \in Seq(Rec)
    BY <1>2, <1>3, <1>4, <2>1
  <2>4. \A i \in 1..Len(Parts(s, o)) : i # k => Parts(s, o)[i] = <<>>
    <3> SUFFICES ASSUME NEW i \in 1..Len(s), i # k PROVE Parts(s, o)[i] = <<>>
      BY <1>1
    <3>1. s[i].origin # o
      BY <1>2, <1>4, <2>1 DEF OneEach
    <3> QED
      BY <1>3, <3>1
  <2>5. Flatten(Parts(s, o)) = b.records
    BY <1>1, <2>2, <2>3, <2>4, FlattenOnly
  <2> QED
    BY <1>1, <2>5
<1>5. ASSUME \A b \in Range(s) : b.origin # o
      PROVE  RecordsOf(s, o) = <<>>
  <2>1. \A i \in 1..Len(Parts(s, o)) : Parts(s, o)[i] = <<>>
    BY <1>1, <1>2, <1>3, <1>5
  <2>2. 0 \in Nat /\ 0 \notin 1..Len(Parts(s, o)) /\ <<>> \in Seq(Rec)
    BY <1>1, <1>2
  <2>3. Flatten(Parts(s, o)) = <<>>
    BY <1>1, <2>1, <2>2, FlattenOnly
  <2> QED
    BY <1>1, <2>3
<1> QED
  BY <1>4, <1>5
-------------------------------------------------------------------------------
(* Every buffered record belongs to a segment, and carries its ticket. *)
LEMMA BufferedTicket ==
    ASSUME NEW chunk, NEW records \in Seq(Rec), NEW segments, Buffered(records, segments, chunk),
           \A t \in TicketsIn(segments) : IsChunk(chunk, t),
           NEW p \in 1..Len(records)
    PROVE  \E k \in 1..Len(segments) :
             /\ SegmentEnds(segments)[k - 1] < p /\ p <= SegmentEnds(segments)[k]
             /\ records[p][1] = segments[k].commitSeq
             /\ segments[k].commitSeq \in TicketsIn(segments)
<1> DEFINE e == SegmentEnds(segments)
           f == [k \in DOMAIN segments |-> segments[k].left]
           n == Len(segments)
<1>1. segments \in SegmentSeq /\ e[n] = Len(records)
  BY DEF Buffered
<1>2. /\ n \in Nat /\ DOMAIN segments = 1..n /\ e \in [0..n -> Nat]
      /\ \A k \in 1..n : /\ segments[k].left \in Nat /\ segments[k].commitSeq \in Nat
                         /\ e[k] = e[k - 1] + segments[k].left
  BY <1>1, SegmentEndsFacts
<1>3. e = Ends(f) /\ Len(f) = n /\ \A k \in 1..n : f[k] \in Nat
  BY <1>2 DEF SegmentEnds
<1> HIDE DEF e, f, n
<1>4. PICK k \in 1..n : e[k - 1] < p /\ p <= e[k]
  <2>1. p \in 1..Ends(f)[n]
    BY <1>1, <1>3
  <2>2. \E k \in 1..n : Ends(f)[k - 1] < p /\ p <= Ends(f)[k]
    BY <1>2, <1>3, <2>1, EndsLocate
  <2> QED
    BY <1>3, <2>2
<1> DEFINE t == segments[k].commitSeq
           all == chunk[t]
           i == Len(all) - (e[k] - p)
<1>5. t \in Nat /\ t \in TicketsIn(segments)
  BY <1>2 DEF TicketsIn
<1>6. IsChunk(chunk, t)
  BY <1>5
<1> HIDE DEF t
<1>7. Len(all) \in Nat /\ \A j \in 1..Len(all) : all[j] = <<t, j, Len(all)>>
  BY <1>5, <1>6, ChunkFacts
<1>8. segments[k].left <= Len(all) /\ records[p] = all[i]
  BY <1>4 DEF Buffered, e, n, t
<1>9. i \in 1..Len(all)
  <2>1. e[k] \in Nat /\ e[k - 1] \in Nat /\ e[k] = e[k - 1] + segments[k].left
        /\ segments[k].left \in Nat /\ p \in Nat
    <3>1. k \in 0..n /\ k - 1 \in 0..n
      BY <1>2
    <3> QED
      BY <1>2, <3>1
  <2> DEFINE a == e[k]
             b == e[k - 1]
             l == segments[k].left
             m == Len(all)
  <2>2. a \in Nat /\ b \in Nat /\ l \in Nat /\ m \in Nat /\ a = b + l /\ b < p /\ p <= a
        /\ l <= m
    BY <1>4, <1>7, <1>8, <2>1
  <2> HIDE DEF a, b, l, m
  <2>3. m - (a - p) \in 1..m
    BY <2>1, <2>2
  <2> QED
    BY <2>3 DEF a, m
<1> HIDE DEF i, all
<1>10. records[p] = <<t, i, Len(all)>>
  BY <1>7, <1>8, <1>9
<1>11. records[p][1] = t
  BY <1>10
<1> QED
  BY <1>4, <1>5, <1>11 DEF e, n, t

(* The segments of a buffer spell the tickets of its records. *)
LEMMA SpelledBuffer ==
    ASSUME NEW chunk, NEW records \in Seq(Rec), NEW segments, Buffered(records, segments, chunk),
           \A t \in TicketsIn(segments) : IsChunk(chunk, t)
    PROVE  Spelled(segments, LAMBDA s : s.left) = TicketsOf(records)
<1> DEFINE e == SegmentEnds(segments)
           n == Len(segments)
           run == [k \in DOMAIN segments |-> [i \in 1..segments[k].left |-> segments[k].commitSeq]]
           flat == Flatten(run)
<1>1. Spelled(segments, LAMBDA s : s.left) = flat
  BY DEF Spelled
<1>2. segments \in SegmentSeq /\ e[n] = Len(records)
  BY DEF Buffered
<1>3. /\ n \in Nat /\ DOMAIN segments = 1..n /\ e \in [0..n -> Nat] /\ e[0] = 0
      /\ \A k \in 1..n : /\ segments[k].left \in Nat /\ segments[k].commitSeq \in Nat
                         /\ e[k] = e[k - 1] + segments[k].left
      /\ \A j, k \in 0..n : j <= k => e[j] <= e[k]
  BY <1>2, SegmentEndsFacts
<1>4. \A k \in 1..n : /\ run[k] \in Seq(Nat) /\ Len(run[k]) = segments[k].left
                      /\ \A i \in 1..segments[k].left : run[k][i] = segments[k].commitSeq
  <2> SUFFICES ASSUME NEW k \in 1..n
               PROVE  /\ run[k] \in Seq(Nat) /\ Len(run[k]) = segments[k].left
                      /\ \A i \in 1..segments[k].left : run[k][i] = segments[k].commitSeq
    OBVIOUS
  <2> DEFINE l == segments[k].left
             t == segments[k].commitSeq
  <2>1. l \in Nat /\ t \in Nat /\ run[k] = [i \in 1..l |-> t]
    BY <1>3
  <2> HIDE DEF l, t, run
  <2>2. run[k] \in [1..l -> Nat]
    BY <2>1
  <2>3. run[k] \in Seq(Nat) /\ Len(run[k]) = l
    BY <2>1, <2>2
  <2> QED
    BY <2>1, <2>3 DEF l, t
<1>5. run \in Seq(Seq(Nat)) /\ Len(run) = n
  <2>1. DOMAIN run = 1..n
    BY <1>3
  <2> QED
    BY <1>3, <1>4, <2>1
<1> HIDE DEF run, flat, e, n
<1>6. LaidOut(run, e)
  BY <1>3, <1>4, <1>5 DEF LaidOut
<1>7. /\ flat \in Seq(Nat) /\ Len(flat) = e[n]
      /\ \A k \in 1..n : \A i \in 1..Len(run[k]) : flat[e[k - 1] + i] = run[k][i]
  <2>1. FlatRuns(Flatten(run), run, e, Nat)
    BY <1>5, <1>6, FlattenRuns
  <2> QED
    BY <1>5, <2>1 DEF flat, FlatRuns
<1>8. ASSUME NEW p \in 1..Len(records) PROVE flat[p] = records[p][1]
  <2>1. PICK k \in 1..n : e[k - 1] < p /\ p <= e[k] /\ records[p][1] = segments[k].commitSeq
    BY BufferedTicket DEF e, n
  <2>2. e[k - 1] \in Nat /\ e[k] \in Nat /\ segments[k].left \in Nat
        /\ e[k] = e[k - 1] + segments[k].left /\ p \in Nat
    <3>1. k \in 0..n /\ k - 1 \in 0..n
      BY <1>3
    <3> QED
      BY <1>3, <3>1
  <2>3. p - e[k - 1] \in 1..segments[k].left /\ e[k - 1] + (p - e[k - 1]) = p
    <3> DEFINE a == e[k]
               b == e[k - 1]
               l == segments[k].left
    <3>1. a \in Nat /\ b \in Nat /\ l \in Nat /\ a = b + l /\ b < p /\ p <= a /\ p \in Nat
      BY <2>1, <2>2
    <3> HIDE DEF a, b, l
    <3>2. p - b \in 1..l /\ b + (p - b) = p
      BY <3>1
    <3> QED
      BY <3>2 DEF b, l
  <2>4. flat[p] = run[k][p - e[k - 1]]
    BY <1>4, <1>7, <2>3
  <2> QED
    BY <1>4, <2>1, <2>3, <2>4
<1>9. TicketsOf(records) = [i \in 1..Len(records) |-> records[i][1]]
  BY DEF TicketsOf
<1>10. flat = [i \in 1..Len(flat) |-> flat[i]]
  BY <1>7
<1>11. flat = TicketsOf(records)
  BY <1>2, <1>7, <1>8, <1>9, <1>10
<1> QED
  BY <1>1, <1>11
-------------------------------------------------------------------------------
(* The pieces of a batch end one after the other. *)
LEMMA PieceEndsFacts ==
    ASSUME NEW pieces \in PieceSeq
    PROVE  LET d == PieceEnds(pieces)
               n == Len(pieces)
           IN  /\ n \in Nat /\ DOMAIN pieces = 1..n /\ d \in [0..n -> Nat] /\ d[0] = 0
               /\ \A j \in 1..n : /\ pieces[j].records \in Nat /\ pieces[j].records > 0
                                  /\ pieces[j].commitSeq \in Nat
                                  /\ d[j] = d[j - 1] + pieces[j].records
               /\ \A i, j \in 0..n : i <= j => d[i] <= d[j]
               /\ \A p \in 1..d[n] : \E j \in 1..n : d[j - 1] < p /\ p <= d[j]
<1> DEFINE n == Len(pieces)
           f == [j \in DOMAIN pieces |-> pieces[j].records]
<1>1. n \in Nat /\ DOMAIN pieces = 1..n
  BY DEF PieceSeq
<1>2. \A j \in 1..n : pieces[j] \in Pieces
  BY <1>1 DEF PieceSeq
<1>3. \A j \in 1..n : pieces[j].records \in Nat /\ pieces[j].records > 0
                      /\ pieces[j].commitSeq \in Nat
  BY <1>2 DEF Pieces
<1>4. Len(f) = n /\ \A j \in 1..n : f[j] \in Nat /\ f[j] = pieces[j].records
  BY <1>1, <1>3
<1>5. PieceEnds(pieces) = Ends(f)
  BY DEF PieceEnds
<1> HIDE DEF f, n
<1>6. /\ Ends(f) \in [0..n -> Nat]
      /\ Ends(f)[0] = 0
      /\ \A k \in 1..n : Ends(f)[k] = Ends(f)[k - 1] + f[k]
      /\ \A j, k \in 0..n : j <= k => Ends(f)[j] <= Ends(f)[k]
  BY <1>1, <1>4, EndsFacts
<1>7. \A p \in 1..Ends(f)[n] : \E k \in 1..n : Ends(f)[k - 1] < p /\ p <= Ends(f)[k]
  BY <1>1, <1>4, EndsLocate
<1> QED
  BY <1>1, <1>3, <1>4, <1>5, <1>6, <1>7 DEF n

(* A record of a batch is in one of its pieces. *)
InPiece(records, pieces, chunk, p, j, last) ==
    LET d == PieceEnds(pieces)
        t == pieces[j].commitSeq
    IN  /\ d[j - 1] < p /\ p <= d[j]
        /\ RunUpTo(records, pieces, chunk, j, last)
        /\ records[p] = <<t, last - (d[j] - p), Len(chunk[t])>>

LEMMA PieceRecord ==
    ASSUME NEW chunk, NEW records \in Seq(Rec), NEW pieces, Batched(records, pieces, chunk),
           \A t \in TicketsIn(pieces) : IsChunk(chunk, t),
           NEW p \in 1..Len(records), NEW j \in 1..Len(pieces), NEW last \in Nat,
           RunUpTo(records, pieces, chunk, j, last),
           PieceEnds(pieces)[j - 1] < p, p <= PieceEnds(pieces)[j]
    PROVE  InPiece(records, pieces, chunk, p, j, last)
<1> DEFINE d == PieceEnds(pieces)
           n == Len(pieces)
           t == pieces[j].commitSeq
           all == chunk[t]
           i == last - (d[j] - p)
<1>1. pieces \in PieceSeq
  BY DEF Batched
<1>2. /\ n \in Nat /\ DOMAIN pieces = 1..n /\ d \in [0..n -> Nat]
      /\ pieces[j].records \in Nat /\ t \in Nat /\ d[j] = d[j - 1] + pieces[j].records
  BY <1>1, PieceEndsFacts
<1>3. t \in TicketsIn(pieces)
  BY <1>2 DEF TicketsIn
<1>4. IsChunk(chunk, t)
  BY <1>3
<1> HIDE DEF t
<1>5. Len(all) \in Nat /\ \A k \in 1..Len(all) : all[k] = <<t, k, Len(all)>>
  BY <1>2, <1>4, ChunkFacts
<1>6. /\ last \in 1..Len(all) /\ pieces[j].records <= last
      /\ records[p] = all[i]
  BY DEF RunUpTo, t
<1>7. i \in 1..Len(all)
  <2>1. j \in 0..n /\ j - 1 \in 0..n
    BY <1>2
  <2> DEFINE a == d[j]
             b == d[j - 1]
             l == pieces[j].records
             m == Len(all)
  <2>2. /\ a \in Nat /\ b \in Nat /\ l \in Nat /\ m \in Nat /\ p \in Nat
        /\ a = b + l /\ b < p /\ p <= a /\ l <= last /\ last <= m
    <3>1. a \in Nat /\ b \in Nat
      BY <1>2, <2>1
    <3>2. l \in Nat /\ m \in Nat /\ a = b + l
      BY <1>2, <1>5
    <3>3. b < p /\ p <= a /\ p \in Nat
      OBVIOUS
    <3>4. l <= last /\ last <= m
      BY <1>5, <1>6
    <3> QED
      BY <3>1, <3>2, <3>3, <3>4
  <2> HIDE DEF a, b, l, m
  <2>3. last - (a - p) \in 1..m
    BY <2>2
  <2> QED
    BY <2>3 DEF a, m
<1> HIDE DEF i, all
<1>8. records[p] = <<t, i, Len(all)>>
  BY <1>5, <1>6, <1>7
<1> QED
  BY <1>8 DEF InPiece, t, i, all

LEMMA BatchedTicket ==
    ASSUME NEW chunk, NEW records \in Seq(Rec), NEW pieces, Batched(records, pieces, chunk),
           \A t \in TicketsIn(pieces) : IsChunk(chunk, t),
           NEW p \in 1..Len(records)
    PROVE  \E j \in 1..Len(pieces), last \in Nat : InPiece(records, pieces, chunk, p, j, last)
<1>1. pieces \in PieceSeq /\ p \in 1..PieceEnds(pieces)[Len(pieces)]
  BY DEF Batched
<1>2. PICK j \in 1..Len(pieces) : PieceEnds(pieces)[j - 1] < p /\ p <= PieceEnds(pieces)[j]
  BY <1>1, PieceEndsFacts
<1>3. PICK last \in Nat : RunUpTo(records, pieces, chunk, j, last)
  BY DEF Batched
<1>4. InPiece(records, pieces, chunk, p, j, last)
  BY <1>2, <1>3, PieceRecord
<1> QED
  BY <1>4

(* The segments of a batch spell the tickets of its records. *)
LEMMA SpelledBatch ==
    ASSUME NEW chunk, NEW records \in Seq(Rec), NEW pieces, Batched(records, pieces, chunk),
           \A t \in TicketsIn(pieces) : IsChunk(chunk, t)
    PROVE  Spelled(pieces, LAMBDA s : s.records) = TicketsOf(records)
<1> DEFINE e == PieceEnds(pieces)
           n == Len(pieces)
           run == [k \in DOMAIN pieces |-> [i \in 1..pieces[k].records |-> pieces[k].commitSeq]]
           flat == Flatten(run)
<1>1. Spelled(pieces, LAMBDA s : s.records) = flat
  BY DEF Spelled
<1>2. pieces \in PieceSeq /\ e[n] = Len(records)
  BY DEF Batched
<1>3. /\ n \in Nat /\ DOMAIN pieces = 1..n /\ e \in [0..n -> Nat] /\ e[0] = 0
      /\ \A k \in 1..n : /\ pieces[k].records \in Nat /\ pieces[k].commitSeq \in Nat
                         /\ e[k] = e[k - 1] + pieces[k].records
      /\ \A j, k \in 0..n : j <= k => e[j] <= e[k]
  BY <1>2, PieceEndsFacts
<1>4. \A k \in 1..n : /\ run[k] \in Seq(Nat) /\ Len(run[k]) = pieces[k].records
                      /\ \A i \in 1..pieces[k].records : run[k][i] = pieces[k].commitSeq
  <2> SUFFICES ASSUME NEW k \in 1..n
               PROVE  /\ run[k] \in Seq(Nat) /\ Len(run[k]) = pieces[k].records
                      /\ \A i \in 1..pieces[k].records : run[k][i] = pieces[k].commitSeq
    OBVIOUS
  <2> DEFINE l == pieces[k].records
             t == pieces[k].commitSeq
  <2>1. l \in Nat /\ t \in Nat /\ run[k] = [i \in 1..l |-> t]
    BY <1>3
  <2> HIDE DEF l, t, run
  <2>2. run[k] \in [1..l -> Nat]
    BY <2>1
  <2>3. run[k] \in Seq(Nat) /\ Len(run[k]) = l
    BY <2>1, <2>2
  <2> QED
    BY <2>1, <2>3 DEF l, t
<1>5. run \in Seq(Seq(Nat)) /\ Len(run) = n
  <2>1. DOMAIN run = 1..n
    BY <1>3
  <2> QED
    BY <1>3, <1>4, <2>1
<1> HIDE DEF run, flat, e, n
<1>6. LaidOut(run, e)
  BY <1>3, <1>4, <1>5 DEF LaidOut
<1>7. /\ flat \in Seq(Nat) /\ Len(flat) = e[n]
      /\ \A k \in 1..n : \A i \in 1..Len(run[k]) : flat[e[k - 1] + i] = run[k][i]
  <2>1. FlatRuns(Flatten(run), run, e, Nat)
    BY <1>5, <1>6, FlattenRuns
  <2> QED
    BY <1>5, <2>1 DEF flat, FlatRuns
<1>8. ASSUME NEW p \in 1..Len(records) PROVE flat[p] = records[p][1]
  <2>1. PICK k \in 1..n, last \in Nat : InPiece(records, pieces, chunk, p, k, last)
    BY BatchedTicket DEF n
  <2>2. e[k - 1] < p /\ p <= e[k] /\ records[p][1] = pieces[k].commitSeq
    BY <2>1 DEF InPiece, e
  <2>3. e[k - 1] \in Nat /\ e[k] \in Nat /\ pieces[k].records \in Nat
        /\ e[k] = e[k - 1] + pieces[k].records /\ p \in Nat
    <3>1. k \in 0..n /\ k - 1 \in 0..n
      BY <1>3
    <3> QED
      BY <1>3, <3>1
  <2>4. p - e[k - 1] \in 1..pieces[k].records /\ e[k - 1] + (p - e[k - 1]) = p
    <3> DEFINE a == e[k]
               b == e[k - 1]
               l == pieces[k].records
    <3>1. a \in Nat /\ b \in Nat /\ l \in Nat /\ a = b + l /\ b < p /\ p <= a /\ p \in Nat
      BY <2>2, <2>3
    <3> HIDE DEF a, b, l
    <3>2. p - b \in 1..l /\ b + (p - b) = p
      BY <3>1
    <3> QED
      BY <3>2 DEF b, l
  <2>5. flat[p] = run[k][p - e[k - 1]]
    BY <1>4, <1>7, <2>4
  <2> QED
    BY <1>4, <2>2, <2>4, <2>5
<1>9. TicketsOf(records) = [i \in 1..Len(records) |-> records[i][1]]
  BY DEF TicketsOf
<1>10. flat = [i \in 1..Len(flat) |-> flat[i]]
  BY <1>7
<1>11. flat = TicketsOf(records)
  BY <1>2, <1>7, <1>8, <1>9, <1>10
<1> QED
  BY <1>1, <1>11

(* A segment of a batch is complete when the batch has the last record of  *)
(* its chunk, and only then.                                               *)
LEMMA CompleteBatch ==
    ASSUME NEW chunk, NEW records \in Seq(Rec), NEW pieces, Batched(records, pieces, chunk),
           \A t \in TicketsIn(pieces) : IsChunk(chunk, t), Distinct(pieces),
           NEW j \in 1..Len(pieces)
    PROVE  pieces[j].complete <=>
             \E r \in Range(records) : r[1] = pieces[j].commitSeq /\ r[2] = r[3]
<1> DEFINE d == PieceEnds(pieces)
           n == Len(pieces)
           t == pieces[j].commitSeq
           all == chunk[t]
<1>1. pieces \in PieceSeq /\ d[n] = Len(records)
  BY DEF Batched
<1>2. /\ n \in Nat /\ DOMAIN pieces = 1..n /\ d \in [0..n -> Nat]
      /\ \A k \in 1..n : /\ pieces[k].records \in Nat /\ pieces[k].records > 0
                         /\ d[k] = d[k - 1] + pieces[k].records
      /\ \A i, k \in 0..n : i <= k => d[i] <= d[k]
  BY <1>1, PieceEndsFacts
<1>3. PICK last \in Nat : RunUpTo(records, pieces, chunk, j, last)
  BY DEF Batched
<1>4. last \in 1..Len(all) /\ (pieces[j].complete <=> last = Len(all))
  BY <1>3 DEF RunUpTo
<1>5. \A r : r \in Range(records) <=> \E p \in 1..Len(records) : r = records[p]
  BY DEF Range
<1> HIDE DEF t, all, d, n
<1>6. ASSUME last = Len(all)
      PROVE  \E r \in Range(records) : r[1] = t /\ r[2] = r[3]
  <2>1. d[j] \in Nat /\ d[j] \in 1..Len(records) /\ d[j - 1] < d[j]
    <3>1. j \in 0..n /\ j - 1 \in 0..n /\ n \in 0..n /\ j <= n /\ j \in 1..n
      BY <1>2 DEF n
    <3> DEFINE a == d[j]
               b == d[j - 1]
               l == pieces[j].records
               m == d[n]
    <3>2. a \in Nat /\ b \in Nat /\ l \in Nat /\ l > 0 /\ m \in Nat /\ a = b + l /\ a <= m
      BY <1>2, <3>1
    <3>3. m = Len(records)
      BY <1>1 DEF d, n
    <3> HIDE DEF a, b, l, m
    <3>4. a \in 1..m /\ b < a
      BY <3>2
    <3> QED
      BY <3>2, <3>3, <3>4 DEF a, b
  <2>2. InPiece(records, pieces, chunk, d[j], j, last)
    <3>1. d[j - 1] < d[j] /\ d[j] <= d[j]
      BY <2>1
    <3> QED
      BY <1>3, <2>1, <3>1, PieceRecord DEF d
  <2>3. records[d[j]] = <<t, last - (d[j] - d[j]), Len(all)>>
    BY <2>2 DEF InPiece, d, t, all
  <2>4. last - (d[j] - d[j]) = last
    BY <2>1
  <2> QED
    BY <1>5, <1>6, <2>1, <2>3, <2>4
<1>7. ASSUME NEW r \in Range(records), r[1] = t, r[2] = r[3]
      PROVE  last = Len(all)
  <2>1. PICK p \in 1..Len(records) : r = records[p]
    BY <1>5
  <2>2. PICK k \in 1..n, up \in Nat : InPiece(records, pieces, chunk, p, k, up)
    BY BatchedTicket DEF n
  <2>3. /\ d[k - 1] < p /\ p <= d[k] /\ RunUpTo(records, pieces, chunk, k, up)
        /\ records[p] = <<pieces[k].commitSeq, up - (d[k] - p),
                          Len(chunk[pieces[k].commitSeq])>>
    BY <2>2 DEF InPiece, d
  <2>4. k = j
    <3>1. pieces[k].commitSeq = pieces[j].commitSeq
      BY <1>7, <2>1, <2>3 DEF t
    <3> QED
      BY <1>2, <3>1 DEF Distinct, n
  <2>5. InPiece(records, pieces, chunk, p, j, last)
    BY <1>3, <2>3, <2>4, PieceRecord DEF d
  <2>6. records[p] = <<t, last - (d[j] - p), Len(all)>>
    BY <2>5 DEF InPiece, d, t, all
  <2>7. last - (d[j] - p) = Len(all)
    BY <1>7, <2>1, <2>6
  <2>8. d[j] \in Nat /\ p <= d[j]
    <3>1. j \in 0..n
      BY <1>2 DEF n
    <3> QED
      BY <1>2, <2>3, <2>4, <3>1
  <2> DEFINE a == d[j]
             m == Len(all)
  <2>9. a \in Nat /\ p <= a /\ last - (a - p) = m /\ last \in 1..m
    BY <1>4, <2>7, <2>8
  <2> HIDE DEF a, m
  <2>10. last = m
    BY <2>9
  <2> QED
    BY <2>10 DEF m
<1> QED
  BY <1>4, <1>6, <1>7 DEF t
-------------------------------------------------------------------------------
(* The inductive invariant.  chunk gives the records of every ticket; what *)
(* a buffer or a submission holds is tied to it segment by segment, which  *)
(* the four properties of the records alone would not carry through a      *)
(* split of a chunk over several batches.                                  *)
TypeInv ==
    /\ now \in Nat
    /\ arrivedAt \in Seq(Nat)
    /\ arrived \in [Origins -> Seq(Rec)]
    /\ buffers \in Seq(Buf) /\ OneEach(buffers)
    /\ emitted \in Seq(Sub)

ChunksOK(chunk, at) ==
    chunk \in [Nat -> Seq(Rec)] /\ \A t \in 1..Len(at) : IsChunk(chunk, t)

BufferOK(b, chunk, at) ==
    /\ Len(b.records) \in 1..(MaxBatchRecords - 1)
    /\ Buffered(b.records, b.segments, chunk)
    /\ Distinct(b.segments)
    /\ TicketsIn(b.segments) \subseteq 1..Len(at)
    /\ b.deadline = at[b.records[1][1]] + MaxBatchAge

EmittedOK(s, chunk, at) ==
    /\ Batched(s.records, s.segments, chunk)
    /\ Distinct(s.segments)
    /\ TicketsIn(s.segments) \subseteq 1..Len(at)

Contents(chunk, bufs, subs, at) ==
    /\ ChunksOK(chunk, at)
    /\ \A b \in Range(bufs) : BufferOK(b, chunk, at)
    /\ \A s \in Range(subs) : EmittedOK(s, chunk, at)

BufferInv ==
    /\ TypeInv
    /\ \E chunk : Contents(chunk, buffers, emitted, arrivedAt)
    /\ FifoPerOrigin

(* The buffers and submissions have records. *)
LEMMA HaveRecords ==
    /\ \A x \in Buf : x.records \in Seq(Rec) /\ x.origin \in Origins
    /\ \A x \in Sub : x.records \in Seq(Rec) /\ x.origin \in Origins
BY DEF Buf, Buffer, Sub

LEMMA OneOfEach ==
    ASSUME NEW T, NEW s \in Seq(T), OneEach(s), NEW b \in Range(s), NEW c \in Range(s),
           b.origin = c.origin
    PROVE  b = c
BY DEF OneEach, Range

LEMMA ConcatMembers ==
    ASSUME NEW T, NEW s \in Seq(T), NEW t \in Seq(T)
    PROVE  s \o t \in Seq(T) /\ \A x : x \in Range(s \o t) <=> x \in Range(s) \/ x \in Range(t)
<1>1. /\ s \o t \in Seq(T) /\ Len(s \o t) = Len(s) + Len(t) /\ Len(s) \in Nat /\ Len(t) \in Nat
      /\ \A i \in 1..Len(s) : (s \o t)[i] = s[i]
      /\ \A i \in 1..Len(t) : (s \o t)[Len(s) + i] = t[i]
  OBVIOUS
<1>2. /\ \A x : x \in Range(s) <=> \E i \in 1..Len(s) : x = s[i]
      /\ \A x : x \in Range(t) <=> \E i \in 1..Len(t) : x = t[i]
      /\ \A x : x \in Range(s \o t) <=> \E i \in 1..(Len(s) + Len(t)) : x = (s \o t)[i]
  BY <1>1 DEF Range
<1>3. ASSUME NEW i \in 1..(Len(s) + Len(t))
      PROVE  i \in 1..Len(s) \/ \E k \in 1..Len(t) : i = Len(s) + k
  <2>1. CASE i \notin 1..Len(s)
    <3>1. i - Len(s) \in 1..Len(t) /\ i = Len(s) + (i - Len(s))
      BY <1>1, <2>1
    <3> QED
      BY <3>1
  <2> QED
    BY <2>1
<1>4. /\ \A i \in 1..Len(s) : i \in 1..(Len(s) + Len(t))
      /\ \A i \in 1..Len(t) : Len(s) + i \in 1..(Len(s) + Len(t))
  BY <1>1
<1>5. ASSUME NEW x PROVE x \in Range(s \o t) <=> x \in Range(s) \/ x \in Range(t)
  <2>1. x \in Range(s \o t) => x \in Range(s) \/ x \in Range(t)
    BY <1>1, <1>2, <1>3
  <2>2. x \in Range(s) => x \in Range(s \o t)
    BY <1>1, <1>2, <1>4
  <2>3. x \in Range(t) => x \in Range(s \o t)
    BY <1>1, <1>2, <1>4
  <2> QED
    BY <2>1, <2>2, <2>3
<1> QED
  BY <1>1, <1>5

(* A partial batch that is flushed is a submission like any other. *)
LEMMA FlushedOK ==
    ASSUME NEW chunk, NEW at, ChunksOK(chunk, at), NEW picked \in Seq(Buf), OneEach(picked),
           \A b \in Range(picked) : BufferOK(b, chunk, at)
    PROVE  LET out == Flushed(picked)
           IN  /\ out \in Seq(Sub) /\ OneEach(out) /\ Len(out) = Len(picked)
               /\ \A s \in Range(out) : EmittedOK(s, chunk, at)
               /\ \A k \in 1..Len(picked) : /\ out[k].origin = picked[k].origin
                                            /\ out[k].records = picked[k].records
<1> DEFINE out == Flushed(picked)
           n == Len(picked)
<1>1. n \in Nat /\ DOMAIN picked = 1..n /\ \A k \in 1..n : picked[k] \in Buf
  OBVIOUS
<1>2. /\ DOMAIN out = 1..n
      /\ \A k \in 1..n : out[k] = Submission(picked[k].origin, picked[k].records,
                                             picked[k].segments, 0, Len(picked[k].records))
  BY <1>1 DEF Flushed
<1> HIDE DEF out, n
<1>3. ASSUME NEW k \in 1..n
      PROVE  /\ out[k] \in Sub /\ EmittedOK(out[k], chunk, at)
             /\ out[k].origin = picked[k].origin
             /\ out[k].records = picked[k].records
  <2> DEFINE b == picked[k]
             l == Len(b.records)
  <2>1. b \in Buf /\ b \in Range(picked)
    BY <1>1 DEF Range
  <2>2. BufferOK(b, chunk, at) /\ b.records \in Seq(Rec) /\ b.origin \in Origins
    BY <2>1, HaveRecords
  <2>3. out[k] = Submission(b.origin, b.records, b.segments, 0, l)
    BY <1>2
  <2> HIDE DEF b
  <2>4. l \in Nat /\ 0 < l /\ l <= Len(b.records) /\ 0 \in Nat
    BY <2>2 DEF BufferOK
  <2> HIDE DEF l
  <2>5. Buffered(b.records, b.segments, chunk) /\ Distinct(b.segments)
        /\ TicketsIn(b.segments) \subseteq 1..Len(at) /\ chunk \in [Nat -> Seq(Rec)]
    BY <2>2 DEF BufferOK, ChunksOK
  <2>6. Submitted(b.origin, b.records, b.segments, chunk, Rec, 0, l)
    BY <2>2, <2>4, <2>5, SubmissionFacts
  <2>7. /\ out[k].origin = b.origin
        /\ out[k].records = SubSeq(b.records, 0 + 1, l) /\ out[k].records \in Seq(Rec)
        /\ Batched(out[k].records, out[k].segments, chunk)
        /\ Distinct(out[k].segments)
        /\ TicketsIn(out[k].segments) \subseteq TicketsIn(b.segments)
    BY <2>3, <2>5, <2>6 DEF Submitted
  <2>8. out[k].records = b.records
    <3>1. SubSeq(b.records, 1, Len(b.records)) = b.records
      BY <2>2
    <3>2. 0 + 1 = 1
      OBVIOUS
    <3> QED
      BY <2>7, <3>1, <3>2 DEF l
  <2>9. EmittedOK(out[k], chunk, at)
    BY <2>5, <2>7 DEF EmittedOK
  <2>10. out[k] \in Sub
    <3>1. out[k].segments \in PieceSeq
      BY <2>7 DEF Batched
    <3>2. out[k] = [origin |-> out[k].origin, records |-> out[k].records,
                    segments |-> out[k].segments]
      BY <2>3 DEF Submission
    <3> QED
      BY <2>2, <2>7, <3>1, <3>2 DEF Sub
  <2> QED
    BY <2>7, <2>8, <2>9, <2>10 DEF b
<1>4. out \in Seq(Sub) /\ Len(out) = n
  <2>1. out = [k \in 1..n |-> out[k]]
    BY <1>1, <1>2 DEF out, Flushed
  <2>2. out \in [1..n -> Sub]
    BY <1>3, <2>1
  <2> QED
    BY <1>1, <2>2
<1>5. OneEach(out)
  BY <1>1, <1>2, <1>3 DEF OneEach
<1>6. \A s \in Range(out) : EmittedOK(s, chunk, at)
  BY <1>2, <1>3 DEF Range
<1> QED
  BY <1>3, <1>4, <1>5, <1>6 DEF out, n

(* flush_with keeps the invariant, whichever buffers are due. *)
LEMMA FlushKeeps ==
    ASSUME BufferInv, NEW due,
           buffers' = FlushWith(buffers, due).buffers,
           emitted' = emitted \o FlushWith(buffers, due).out,
           UNCHANGED <<now, arrived, arrivedAt>>
    PROVE  BufferInv'
<1> DEFINE picked == Filter(buffers, due)
           out == Flushed(picked)
<1>1. PICK chunk : Contents(chunk, buffers, emitted, arrivedAt)
  BY DEF BufferInv
<1>2. buffers \in Seq(Buf) /\ OneEach(buffers) /\ emitted \in Seq(Sub)
  BY DEF BufferInv, TypeInv
<1>3. /\ buffers' \in Seq(Buf) /\ OneEach(buffers')
      /\ \A b : b \in Range(buffers') <=> b \in Range(buffers) /\ b \notin due
      /\ emitted' = emitted \o out
      /\ picked \in Seq(Buf) /\ OneEach(picked)
      /\ \A b : b \in Range(picked) <=> b \in Range(buffers) /\ b \in due
  BY <1>2, FlushFacts DEF Buf
<1> HIDE DEF picked
<1>4. /\ ChunksOK(chunk, arrivedAt)
      /\ \A b \in Range(buffers) : BufferOK(b, chunk, arrivedAt)
      /\ \A s \in Range(emitted) : EmittedOK(s, chunk, arrivedAt)
  BY <1>1 DEF Contents
<1>5. \A b \in Range(picked) : BufferOK(b, chunk, arrivedAt)
  BY <1>3, <1>4
<1>6. /\ out \in Seq(Sub) /\ OneEach(out) /\ Len(out) = Len(picked)
      /\ \A s \in Range(out) : EmittedOK(s, chunk, arrivedAt)
      /\ \A k \in 1..Len(picked) : out[k].origin = picked[k].origin
                                   /\ out[k].records = picked[k].records
  BY <1>3, <1>4, <1>5, FlushedOK
<1> HIDE DEF out
<1>7. emitted' \in Seq(Sub) /\ \A s : s \in Range(emitted') <=> s \in Range(emitted) \/ s \in Range(out)
  BY <1>2, <1>3, <1>6, ConcatMembers
<1>8. TypeInv'
  BY <1>3, <1>7 DEF BufferInv, TypeInv
<1>9. Contents(chunk, buffers', emitted', arrivedAt')
  BY <1>3, <1>4, <1>6, <1>7 DEF Contents
<1>10. ASSUME NEW o \in Origins
       PROVE  arrived[o] = RecordsOf(emitted', o) \o RecordsOf(buffers', o)
  <2>1. arrived[o] = RecordsOf(emitted, o) \o RecordsOf(buffers, o)
    BY DEF BufferInv, FifoPerOrigin
  <2>2. RecordsOf(emitted', o) = RecordsOf(emitted, o) \o RecordsOf(out, o)
    <3>1. \A x \in Sub : x.records \in Seq(Rec)
      BY HaveRecords
    <3>2. RecordsOf(emitted \o out, o) = RecordsOf(emitted, o) \o RecordsOf(out, o)
      <4>1. RecordsJoin(emitted, out, o)
        BY <1>2, <1>6, <3>1, RecordsConcat
      <4> QED
        BY <4>1 DEF RecordsJoin
    <3> QED
      BY <1>3, <3>2
  <2>3. RecordsOf(emitted, o) \in Seq(Rec)
    BY <1>2, PartsType, HaveRecords
  <2>4. /\ \A b \in Range(buffers) : b.origin = o => RecordsOf(buffers, o) = b.records
        /\ (\A b \in Range(buffers) : b.origin # o) => RecordsOf(buffers, o) = <<>>
    BY <1>2, RecordsOne, HaveRecords
  <2>5. /\ \A b \in Range(buffers') : b.origin = o => RecordsOf(buffers', o) = b.records
        /\ (\A b \in Range(buffers') : b.origin # o) => RecordsOf(buffers', o) = <<>>
    BY <1>3, RecordsOne, HaveRecords
  <2>6. /\ \A b \in Range(out) : b.origin = o => RecordsOf(out, o) = b.records
        /\ (\A b \in Range(out) : b.origin # o) => RecordsOf(out, o) = <<>>
    BY <1>6, RecordsOne, HaveRecords
  <2>7. /\ \A b \in Range(picked) : \E s \in Range(out) : s.origin = b.origin /\ s.records = b.records
        /\ \A s \in Range(out) : \E b \in Range(picked) : s.origin = b.origin /\ s.records = b.records
    <3>1. /\ DOMAIN out = 1..Len(picked) /\ DOMAIN picked = 1..Len(picked)
      BY <1>3, <1>6
    <3> QED
      BY <1>6, <3>1 DEF Range
  <2>8. CASE \A b \in Range(buffers) : b.origin # o
    <3>1. RecordsOf(buffers, o) = <<>> /\ RecordsOf(buffers', o) = <<>> /\ RecordsOf(out, o) = <<>>
      <4>1. \A b \in Range(buffers') : b.origin # o
        BY <1>3, <2>8
      <4>2. \A b \in Range(out) : b.origin # o
        BY <1>3, <2>7, <2>8
      <4> QED
        BY <2>4, <2>5, <2>6, <2>8, <4>1, <4>2
    <3>2. RecordsOf(emitted', o) = RecordsOf(emitted, o)
      BY <2>2, <2>3, <3>1, ConcatNothing
    <3> QED
      BY <2>1, <3>1, <3>2
  <2>9. ASSUME NEW b \in Range(buffers), b.origin = o, b \in due
        PROVE  arrived[o] = RecordsOf(emitted', o) \o RecordsOf(buffers', o)
    <3>1. RecordsOf(buffers, o) = b.records /\ RecordsOf(out, o) = b.records
      BY <1>3, <2>4, <2>6, <2>7, <2>9
    <3>2. \A c \in Range(buffers') : c.origin # o
      BY <1>2, <1>3, <2>9, OneOfEach
    <3>3. RecordsOf(buffers', o) = <<>>
      BY <2>5, <3>2
    <3>4. RecordsOf(emitted, o) \o b.records \in Seq(Rec)
      <4>1. b.records \in Seq(Rec)
        BY <1>2, <2>9, HaveRecords DEF Range
      <4> QED
        BY <2>3, <4>1
    <3> QED
      BY <2>1, <2>2, <3>1, <3>3, <3>4, ConcatNothing
  <2>10. ASSUME NEW b \in Range(buffers), b.origin = o, b \notin due
         PROVE  arrived[o] = RecordsOf(emitted', o) \o RecordsOf(buffers', o)
    <3>1. RecordsOf(buffers, o) = b.records /\ RecordsOf(buffers', o) = b.records
      BY <1>3, <2>4, <2>5, <2>10
    <3>2. \A s \in Range(out) : s.origin # o
      <4>1. \A c \in Range(picked) : c.origin # o
        BY <1>2, <1>3, <2>10, OneOfEach
      <4> QED
        BY <2>7, <4>1
    <3>3. RecordsOf(emitted', o) = RecordsOf(emitted, o)
      BY <2>2, <2>3, <2>6, <3>2, ConcatNothing
    <3> QED
      BY <2>1, <3>1, <3>3
  <2> QED
    BY <2>8, <2>9, <2>10
<1> QED
  BY <1>8, <1>9, <1>10 DEF BufferInv, FifoPerOrigin

LEMMA SubSeqFirst ==
    ASSUME NEW T, NEW s \in Seq(T), NEW i \in 1..Len(s)
    PROVE  SubSeq(s, i, Len(s))[1] = s[i]
OBVIOUS

(* The oldest record of what a push leaves in a buffer, and its deadline:  *)
(* it was the oldest before, or it is one of the records that arrived and  *)
(* the deadline is armed for it.                                           *)
Oldest(old, incoming, due, left) ==
    \/ /\ old.records # <<>> /\ left[1] = old.records[1]
       /\ Rearmed(old, incoming, due) = old.deadline
    \/ /\ \E i \in 1..Len(incoming) : left[1] = incoming[i]
       /\ Rearmed(old, incoming, due) = due

LEMMA OldestRecord ==
    ASSUME NEW old, old.records \in Seq(Rec), NEW incoming \in Seq(Rec), NEW due,
           Len(old.records) < MaxBatchRecords,
           NEW all, all = old.records \o incoming,
           NEW left, left = SubSeq(all, FullUpTo(Len(all)) + 1, Len(all)),
           FullUpTo(Len(all)) < Len(all)
    PROVE  Oldest(old, incoming, due, left)
<1> DEFINE M == MaxBatchRecords
           up == FullUpTo(Len(all))
           a == Len(old.records)
           b == Len(incoming)
<1>1. /\ a \in Nat /\ b \in Nat /\ Len(all) = a + b /\ all \in Seq(Rec)
      /\ \A i \in 1..a : all[i] = old.records[i]
      /\ \A i \in 1..b : all[a + i] = incoming[i]
  OBVIOUS
<1>2. M \in Nat /\ M > 0
  BY BatchAssumption
<1>3. /\ up \in Nat /\ (a + b < M => up = 0) /\ (M <= a + b => M <= up)
  <2>1. a + b \in Nat
    BY <1>1
  <2> QED
    BY <1>1, <2>1, Windows
<1>4. Rearmed(old, incoming, due) =
        IF old.records # <<>> /\ a + b < M THEN old.deadline ELSE due
  BY DEF Rearmed
<1>5. old.records # <<>> <=> a > 0
  BY <1>1
<1>6. up < a + b
  BY <1>1
<1>7. left[1] = all[up + 1]
  <2>1. up + 1 \in 1..Len(all)
    BY <1>1, <1>3, <1>6
  <2> HIDE DEF up
  <2>2. SubSeq(all, up + 1, Len(all))[1] = all[up + 1]
    BY <1>1, <2>1, SubSeqFirst
  <2> QED
    BY <2>2 DEF up
<1> HIDE DEF M, up, a, b
<1>8. CASE a > 0 /\ a + b < M
  <2>1. up + 1 = 1 /\ 1 \in 1..a
    BY <1>1, <1>3, <1>8
  <2>2. left[1] = old.records[1]
    BY <1>1, <1>7, <2>1
  <2> QED
    BY <1>4, <1>5, <1>8, <2>2 DEF Oldest
<1>9. CASE ~(a > 0 /\ a + b < M)
  <2>1. (up + 1) - a \in 1..b /\ a + ((up + 1) - a) = up + 1
    <3>1. a < M
      BY DEF a, M
    <3> QED
      BY <1>1, <1>2, <1>3, <1>6, <1>9, <3>1
  <2>2. left[1] = incoming[(up + 1) - a]
    BY <1>1, <1>7, <2>1
  <2> QED
    BY <1>4, <1>5, <1>9, <2>1, <2>2 DEF b, Oldest
<1> QED
  BY <1>8, <1>9

(* The records of an origin in the full batches of a push. *)
BatchesHold(origin, all, segments, o) ==
    RecordsOf(FullBatches(origin, all, segments), o)
      = IF o = origin THEN SubSeq(all, 1, FullUpTo(Len(all))) ELSE <<>>

LEMMA FullBatchesRecords ==
    ASSUME NEW origin, NEW all \in Seq(Rec), NEW segments, NEW o, NEW chunk \in [Nat -> Seq(Rec)],
           Buffered(all, segments, chunk)
    PROVE  BatchesHold(origin, all, segments, o)
<1> DEFINE out == FullBatches(origin, all, segments)
           M == MaxBatchRecords
           q == Len(all) \div M
           W == [k \in 1..q |-> SubSeq(all, (k - 1) * M + 1, k * M)]
<1>1. /\ Len(out) = q /\ q \in Nat /\ DOMAIN out = 1..q
      /\ \A k \in 1..q : /\ out[k].origin = origin
                         /\ out[k].records = SubSeq(all, (k - 1) * M + 1, k * M)
                         /\ out[k].records \in Seq(Rec)
  <2>1. FullySubmitted(origin, all, segments, chunk, Rec)
    BY FullBatchesFacts
  <2> QED
    BY <2>1 DEF FullySubmitted
<1>2. RecordsOf(out, o) = Flatten([k \in DOMAIN out |-> IF out[k].origin = o
                                                           THEN out[k].records ELSE <<>>])
  BY DEF RecordsOf
<1> HIDE DEF out, q, M
<1>3. CASE o = origin
  <2>1. [k \in DOMAIN out |-> IF out[k].origin = o THEN out[k].records ELSE <<>>] = W
    BY <1>1, <1>3
  <2>2. Flatten(W) = SubSeq(all, 1, FullUpTo(Len(all)))
    BY FullBatchesFlat DEF q, M
  <2> QED
    BY <1>2, <1>3, <2>1, <2>2 DEF out, BatchesHold
<1>4. CASE o # origin
  <2> DEFINE N == [k \in 1..q |-> <<>>]
  <2>1. [k \in DOMAIN out |-> IF out[k].origin = o THEN out[k].records ELSE <<>>] = N
    BY <1>1, <1>4
  <2>2. N \in Seq(Seq(Rec)) /\ Len(N) = q /\ \A i \in 1..Len(N) : N[i] = <<>>
    BY <1>1
  <2>3. 0 \in Nat /\ 0 \notin 1..Len(N) /\ <<>> \in Seq(Rec)
    BY <1>1, <2>2
  <2> HIDE DEF N
  <2>4. Flatten(N) = <<>>
    BY <2>2, <2>3, FlattenOnly
  <2> QED
    BY <1>2, <1>4, <2>1, <2>4 DEF out, BatchesHold
<1> QED
  BY <1>3, <1>4

LEMMA SplitAt ==
    ASSUME NEW T, NEW s \in Seq(T), NEW i \in Nat, i <= Len(s)
    PROVE  /\ SubSeq(s, 1, i) \in Seq(T) /\ SubSeq(s, i + 1, Len(s)) \in Seq(T)
           /\ s = SubSeq(s, 1, i) \o SubSeq(s, i + 1, Len(s))
<1> DEFINE a == SubSeq(s, 1, i)
           b == SubSeq(s, i + 1, Len(s))
<1>1. a \in Seq(T) /\ Len(a) = i /\ \A k \in 1..i : a[k] = s[k]
  OBVIOUS
<1>2. b \in Seq(T)
  OBVIOUS
<1>3. Len(b) = Len(s) - i
  OBVIOUS
<1>4. \A k \in 1..(Len(s) - i) : b[k] = s[i + k]
  OBVIOUS
<1> HIDE DEF a, b
<1>5. a \o b \in Seq(T) /\ Len(a \o b) = Len(s)
  BY <1>1, <1>2, <1>3
<1>6. ASSUME NEW k \in 1..Len(s) PROVE s[k] = (a \o b)[k]
  <2>1. CASE k <= i
    BY <1>1, <1>2, <2>1
  <2>2. CASE ~(k <= i)
    <3>1. k \in 1..(Len(a) + Len(b)) /\ ~(k <= Len(a))
      BY <1>1, <1>3, <2>2
    <3>2. (a \o b)[k] = b[k - Len(a)]
      BY <1>1, <1>2, <3>1, ConcatSecond
    <3>3. k - i \in 1..(Len(s) - i) /\ i + (k - i) = k
      BY <2>2
    <3> QED
      BY <1>1, <1>4, <3>2, <3>3
  <2> QED
    BY <2>1, <2>2
<1>7. s = a \o b
  BY <1>5, <1>6, SeqEqual
<1> QED
  BY <1>1, <1>2, <1>7 DEF a, b

Joins(a, b, c, d) == (a \o b) \o c = a \o d

LEMMA JoinThree ==
    ASSUME NEW T, NEW a \in Seq(T), NEW b \in Seq(T), NEW c \in Seq(T), NEW d, d = b \o c
    PROVE  Joins(a, b, c, d)
BY DEF Joins

(* A chunk is pushed: its records join the buffer of the origin, behind    *)
(* those of the chunks that are there, and every full batch leaves.        *)
LEMMA PushKeeps ==
    ASSUME BufferInv, NEW o \in Origins, NEW n \in 1..MaxChunk, PushChunk(o, n)
    PROVE  BufferInv'
<1> DEFINE t == Len(arrivedAt) + 1
           incoming == [i \in 1..n |-> <<t, i, n>>]
           due == now + MaxBatchAge
           at == Append(arrivedAt, now)
           old == OldBuffer(buffers, o, due)
           all == Joined(old, incoming)
           segments == Queued(old, incoming, t)
           new == NewBuffer(old, o, incoming, t, due)
           out == FullBatches(o, all, segments)
           done == Push(buffers, o, incoming, t, due)
<1>1. /\ buffers' = done.buffers /\ emitted' = emitted \o done.out
      /\ arrived' = [arrived EXCEPT ![o] = @ \o incoming]
      /\ arrivedAt' = at /\ now' = now
  BY DEF PushChunk
<1>2. /\ now \in Nat /\ arrivedAt \in Seq(Nat) /\ arrived \in [Origins -> Seq(Rec)]
      /\ buffers \in Seq(Buf) /\ OneEach(buffers) /\ emitted \in Seq(Sub)
  BY DEF BufferInv, TypeInv
<1>3. PICK chunk : Contents(chunk, buffers, emitted, arrivedAt)
  BY DEF BufferInv
<1>4. /\ chunk \in [Nat -> Seq(Rec)] /\ \A u \in 1..Len(arrivedAt) : IsChunk(chunk, u)
      /\ \A b \in Range(buffers) : BufferOK(b, chunk, arrivedAt)
      /\ \A s \in Range(emitted) : EmittedOK(s, chunk, arrivedAt)
  BY <1>3 DEF Contents, ChunksOK
<1>5. /\ t \in Nat /\ t \notin 1..Len(arrivedAt) /\ due \in Nat /\ n \in Nat /\ n > 0
      /\ at \in Seq(Nat) /\ Len(at) = t /\ at[t] = now
      /\ \A u \in 1..Len(arrivedAt) : at[u] = arrivedAt[u]
      /\ \A u \in 1..t : u \in 1..Len(arrivedAt) \/ u = t
      /\ 1..Len(arrivedAt) \subseteq 1..t /\ t \in 1..t
  <2>1. t \in Nat /\ t \notin 1..Len(arrivedAt) /\ n \in Nat /\ n > 0
    BY <1>2, OriginAssumption
  <2>2. due \in Nat
    BY <1>2, OriginAssumption
  <2>3. /\ at \in Seq(Nat) /\ Len(at) = t /\ at[t] = now
        /\ \A u \in 1..Len(arrivedAt) : at[u] = arrivedAt[u]
    BY <1>2
  <2>4. /\ \A u \in 1..t : u \in 1..Len(arrivedAt) \/ u = t
        /\ 1..Len(arrivedAt) \subseteq 1..t /\ t \in 1..t
    BY <1>2
  <2> QED
    BY <2>1, <2>2, <2>3, <2>4
<1> HIDE DEF t, due, at
<1> DEFINE ck == [u \in Nat |-> IF u = t THEN incoming ELSE chunk[u]]
<1>6. incoming \in Seq(Rec) /\ Len(incoming) = n /\ \A i \in 1..n : incoming[i] = <<t, i, n>>
  <2>1. \A i \in 1..n : <<t, i, n>> \in Rec
    BY <1>5 DEF Rec
  <2>2. incoming \in [1..n -> Rec]
    BY <2>1
  <2> QED
    BY <1>5, <2>2
<1>7. /\ ck \in [Nat -> Seq(Rec)] /\ ck[t] = incoming
      /\ \A u \in 1..Len(arrivedAt) : ck[u] = chunk[u]
      /\ \A u \in 1..t : IsChunk(ck, u)
  <2> HIDE DEF incoming
  <2>1. ck \in [Nat -> Seq(Rec)]
    BY <1>4, <1>6
  <2>2. ck[t] = incoming /\ \A u \in 1..Len(arrivedAt) : ck[u] = chunk[u]
    BY <1>5
  <2>3. IsChunk(ck, t)
    BY <1>5, <2>2 DEF IsChunk, incoming
  <2>4. \A u \in 1..Len(arrivedAt) : IsChunk(ck, u)
    BY <1>4, <2>2 DEF IsChunk
  <2> QED
    BY <1>5, <2>1, <2>2, <2>3, <2>4
<1> HIDE DEF incoming, ck
<1>8. ASSUME NEW records, NEW segs, Buffered(records, segs, chunk),
             TicketsIn(segs) \subseteq 1..Len(arrivedAt)
      PROVE  Buffered(records, segs, ck)
  <2>1. segs \in SegmentSeq
    BY <1>8 DEF Buffered
  <2>2. \A k \in 1..Len(segs) : segs[k].commitSeq \in TicketsIn(segs)
    BY <2>1, SegmentEndsFacts DEF TicketsIn
  <2>3. \A k \in 1..Len(segs) : ck[segs[k].commitSeq] = chunk[segs[k].commitSeq]
    BY <1>7, <1>8, <2>2
  <2> QED
    BY <1>8, <2>3, BufferedSame
<1>9. ASSUME NEW s \in Range(emitted) PROVE EmittedOK(s, ck, at)
  <2>1. /\ Batched(s.records, s.segments, chunk) /\ Distinct(s.segments)
        /\ TicketsIn(s.segments) \subseteq 1..Len(arrivedAt)
    BY <1>4 DEF EmittedOK
  <2>2. s.segments \in PieceSeq
    BY <2>1 DEF Batched
  <2>3. \A k \in 1..Len(s.segments) : s.segments[k].commitSeq \in TicketsIn(s.segments)
    BY <2>2, PieceEndsFacts DEF TicketsIn
  <2>4. \A k \in 1..Len(s.segments) : ck[s.segments[k].commitSeq] = chunk[s.segments[k].commitSeq]
    BY <1>7, <2>1, <2>3
  <2>5. Batched(s.records, s.segments, ck)
    BY <2>1, <2>4, BatchedSame
  <2> QED
    BY <1>5, <2>1, <2>5 DEF EmittedOK
<1>10. ASSUME NEW b \in Range(buffers)
       PROVE  /\ b \in Buf /\ b.records \in Seq(Rec) /\ b.records # <<>>
              /\ b.records[1][1] \in 1..Len(arrivedAt)
              /\ BufferOK(b, ck, at)
  <2>1. b \in Buf /\ b.records \in Seq(Rec)
    BY <1>2, HaveRecords DEF Range
  <2>2. /\ Len(b.records) \in 1..(MaxBatchRecords - 1) /\ Buffered(b.records, b.segments, chunk)
        /\ Distinct(b.segments) /\ TicketsIn(b.segments) \subseteq 1..Len(arrivedAt)
        /\ b.deadline = arrivedAt[b.records[1][1]] + MaxBatchAge
    BY <1>4 DEF BufferOK
  <2>3. 1 \in 1..Len(b.records) /\ b.records # <<>>
    BY <2>1, <2>2, BatchAssumption
  <2>4. \A u \in TicketsIn(b.segments) : IsChunk(chunk, u)
    BY <1>4, <2>2
  <2>5. b.records[1][1] \in TicketsIn(b.segments)
    BY <2>1, <2>2, <2>3, <2>4, BufferedTicket
  <2>6. at[b.records[1][1]] = arrivedAt[b.records[1][1]]
    BY <1>5, <2>2, <2>5
  <2>7. Buffered(b.records, b.segments, ck)
    BY <1>8, <2>2
  <2>8. TicketsIn(b.segments) \subseteq 1..Len(at)
    BY <1>5, <2>2
  <2>9. BufferOK(b, ck, at)
    BY <2>2, <2>6, <2>7, <2>8 DEF BufferOK
  <2> QED
    BY <2>1, <2>2, <2>3, <2>5, <2>9
<1>11. \/ old \in Range(buffers) /\ old.origin = o
       \/ /\ \A b \in Range(buffers) : b.origin # o
          /\ old = [origin |-> o, records |-> <<>>, segments |-> <<>>, deadline |-> due]
  BY <1>2, OldBufferFacts
<1> HIDE DEF old
<1>12. /\ old.records \in Seq(Rec) /\ old.deadline \in Nat
       /\ Len(old.records) < MaxBatchRecords
       /\ Buffered(old.records, old.segments, ck) /\ Distinct(old.segments)
       /\ TicketsIn(old.segments) \subseteq 1..Len(arrivedAt)
       /\ old.records # <<>> => /\ old.deadline = at[old.records[1][1]] + MaxBatchAge
                                /\ old.records[1][1] \in 1..Len(arrivedAt)
  <2>1. CASE old \in Range(buffers) /\ old.origin = o
    <3>1. old \in Buf /\ old.records \in Seq(Rec) /\ BufferOK(old, ck, at)
          /\ old.records[1][1] \in 1..Len(arrivedAt)
      BY <1>10, <2>1
    <3>2. old.deadline \in Nat
      BY <3>1 DEF Buf, Buffer
    <3>3. Len(old.records) < MaxBatchRecords
      BY <3>1, BatchAssumption DEF BufferOK
    <3>4. TicketsIn(old.segments) \subseteq 1..Len(arrivedAt)
      BY <1>4, <2>1 DEF BufferOK
    <3> QED
      BY <3>1, <3>2, <3>3, <3>4 DEF BufferOK
  <2>2. CASE old = [origin |-> o, records |-> <<>>, segments |-> <<>>, deadline |-> due]
    <3>1. old.records = <<>> /\ old.segments = <<>> /\ old.deadline = due
      BY <2>2
    <3>2. <<>> \in Seq(Rec) /\ Len(<<>>) = 0 /\ 0 < MaxBatchRecords
      BY BatchAssumption
    <3>3. Buffered(<<>>, <<>>, ck) /\ Distinct(<<>>) /\ TicketsIn(<<>>) = {}
      BY EmptyBuffered
    <3> QED
      BY <1>5, <3>1, <3>2, <3>3
  <2> QED
    BY <1>11, <2>1, <2>2
<1>13. Refilled(old, o, ck, t, due, Origins, Rec)
  <2>1. Len(ck[t]) > 0
    BY <1>5, <1>6, <1>7
  <2> QED
    BY <1>5, <1>7, <1>12, <2>1, NewBufferFacts
<1>14. /\ all \in Seq(Rec) /\ all = old.records \o incoming
       /\ Buffered(all, segments, ck) /\ Distinct(segments)
       /\ TicketsIn(segments) \subseteq 1..Len(at)
       /\ new \in Buf /\ new.origin = o
       /\ new.records = SubSeq(all, FullUpTo(Len(all)) + 1, Len(all))
       /\ new.deadline = Rearmed(old, incoming, due)
       /\ Len(new.records) = Len(all) - FullUpTo(Len(all))
       /\ Len(new.records) < MaxBatchRecords
       /\ Buffered(new.records, new.segments, ck)
       /\ Distinct(new.segments)
       /\ TicketsIn(new.segments) \subseteq 1..Len(at)
  <2>1. t \notin TicketsIn(old.segments) /\ TicketsIn(old.segments) \cup {t} \subseteq 1..Len(at)
    BY <1>5, <1>12
  <2>2. ck[t] = incoming
    BY <1>7
  <2>3. all = old.records \o incoming
    BY DEF Joined
  <2> QED
    BY <1>12, <1>13, <2>1, <2>2, <2>3 DEF Refilled, Buf
<1> HIDE DEF all, segments, new
<1>15. /\ buffers' \in Seq(Buf) /\ OneEach(buffers')
       /\ \A b : b \in Range(buffers') <=>
            \/ b \in Range(buffers) /\ b.origin # o
            \/ b = new /\ new.records # <<>>
       /\ emitted' = emitted \o out
  <2>1. PushLeaves(buffers, o, incoming, t, due, Buf)
    BY <1>2, <1>14, PushFacts DEF old, new
  <2> QED
    BY <1>1, <2>1 DEF PushLeaves, old, new, all, segments
<1>16. /\ Len(all) \in Nat /\ FullUpTo(Len(all)) \in Nat /\ FullUpTo(Len(all)) <= Len(all)
  <2>1. Len(all) \in Nat
    BY <1>14
  <2> QED
    BY <2>1, Windows
<1>17. ASSUME new.records # <<>> PROVE BufferOK(new, ck, at)
  <2>1. Len(new.records) \in 1..(MaxBatchRecords - 1) /\ FullUpTo(Len(all)) < Len(all)
    <3>1. Len(new.records) \in Nat /\ Len(new.records) # 0
      <4>1. new.records \in Seq(Rec)
        BY <1>14, HaveRecords
      <4> QED
        BY <1>17, <4>1
    <3> QED
      BY <1>14, <1>16, <3>1, BatchAssumption
  <2>2. Oldest(old, incoming, due, new.records)
    BY <1>6, <1>12, <1>14, <2>1, OldestRecord
  <2>3. new.deadline = at[new.records[1][1]] + MaxBatchAge
    <3>1. CASE /\ old.records # <<>> /\ new.records[1] = old.records[1]
               /\ Rearmed(old, incoming, due) = old.deadline
      BY <1>12, <1>14, <3>1
    <3>2. CASE /\ \E i \in 1..Len(incoming) : new.records[1] = incoming[i]
               /\ Rearmed(old, incoming, due) = due
      <4>1. new.records[1][1] = t
        BY <1>6, <3>2
      <4> QED
        BY <1>5, <1>14, <3>2, <4>1 DEF due
    <3> QED
      BY <2>2, <3>1, <3>2 DEF Oldest
  <2> QED
    BY <1>14, <2>1, <2>3 DEF BufferOK
<1>18. /\ out \in Seq(Sub)
       /\ \A s \in Range(out) : EmittedOK(s, ck, at)
  <2>1. FullySubmitted(o, all, segments, ck, Rec)
    BY <1>7, <1>14, FullBatchesFacts
  <2>2. /\ Len(out) \in Nat /\ DOMAIN out = 1..Len(out)
        /\ \A k \in 1..Len(out) :
             /\ out[k] = Submission(o, all, segments, (k - 1) * MaxBatchRecords,
                                    k * MaxBatchRecords)
             /\ out[k].origin = o
             /\ out[k].records \in Seq(Rec)
             /\ Batched(out[k].records, out[k].segments, ck)
             /\ Distinct(segments) => Distinct(out[k].segments)
             /\ TicketsIn(out[k].segments) \subseteq TicketsIn(segments)
    BY <2>1 DEF FullySubmitted
  <2>a. ASSUME NEW k \in 1..Len(out)
        PROVE  out[k] = [origin |-> out[k].origin, records |-> out[k].records,
                         segments |-> out[k].segments]
    <3> DEFINE from == (k - 1) * MaxBatchRecords
               to == k * MaxBatchRecords
    <3>1. out[k] = Submission(o, all, segments, from, to)
      BY <2>2
    <3> HIDE DEF from, to, out
    <3> QED
      BY <3>1 DEF Submission
  <2>3. out = [k \in 1..Len(out) |-> out[k]]
    BY <2>2 DEF FullBatches
  <2> HIDE DEF out
  <2>4. ASSUME NEW k \in 1..Len(out) PROVE out[k] \in Sub /\ EmittedOK(out[k], ck, at)
    <3>1. out[k].segments \in PieceSeq
      BY <2>2 DEF Batched
    <3>2. out[k] \in Sub
      BY <2>2, <2>a, <3>1 DEF Sub
    <3>3. EmittedOK(out[k], ck, at)
      BY <1>14, <2>2 DEF EmittedOK
    <3> QED
      BY <3>2, <3>3
  <2>5. out \in [1..Len(out) -> Sub]
    BY <2>3, <2>4
  <2>6. out \in Seq(Sub)
    BY <2>2, <2>5
  <2> QED
    BY <2>2, <2>4, <2>6 DEF Range
<1>19. emitted' \in Seq(Sub) /\ \A s : s \in Range(emitted') <=> s \in Range(emitted) \/ s \in Range(out)
  <2> HIDE DEF out
  <2> QED
    BY <1>2, <1>15, <1>18, ConcatMembers
<1>20. TypeInv'
  <2>1. arrived' \in [Origins -> Seq(Rec)]
    BY <1>1, <1>2, <1>6
  <2> QED
    BY <1>1, <1>2, <1>5, <1>15, <1>19, <2>1 DEF TypeInv
<1>21. Contents(ck, buffers', emitted', arrivedAt')
  <2>1. ChunksOK(ck, at)
    BY <1>5, <1>7 DEF ChunksOK
  <2>2. \A b \in Range(buffers') : BufferOK(b, ck, at)
    BY <1>10, <1>15, <1>17
  <2>3. \A s \in Range(emitted') : EmittedOK(s, ck, at)
    BY <1>9, <1>18, <1>19
  <2> QED
    BY <1>1, <2>1, <2>2, <2>3 DEF Contents
<1>22. ASSUME NEW x \in Origins
       PROVE  arrived'[x] = RecordsOf(emitted', x) \o RecordsOf(buffers', x)
  <2> DEFINE up == FullUpTo(Len(all))
  <2>1. arrived[x] = RecordsOf(emitted, x) \o RecordsOf(buffers, x)
    BY DEF BufferInv, FifoPerOrigin
  <2>2. RecordsOf(emitted', x) = RecordsOf(emitted, x) \o RecordsOf(out, x)
    <3>1. \A y \in Sub : y.records \in Seq(Rec)
      BY HaveRecords
    <3> HIDE DEF out
    <3>2. RecordsOf(emitted \o out, x) = RecordsOf(emitted, x) \o RecordsOf(out, x)
      <4>1. emitted \in Seq(Sub) /\ out \in Seq(Sub)
        BY <1>2, <1>18
      <4>2. RecordsJoin(emitted, out, x)
        BY <3>1, <4>1, RecordsConcat
      <4> QED
        BY <4>2 DEF RecordsJoin
    <3> QED
      BY <1>15, <3>2
  <2>3. RecordsOf(emitted, x) \in Seq(Rec)
    BY <1>2, PartsType, HaveRecords
  <2>4. /\ \A b \in Range(buffers) : b.origin = x => RecordsOf(buffers, x) = b.records
        /\ (\A b \in Range(buffers) : b.origin # x) => RecordsOf(buffers, x) = <<>>
    BY <1>2, RecordsOne, HaveRecords
  <2>5. /\ \A b \in Range(buffers') : b.origin = x => RecordsOf(buffers', x) = b.records
        /\ (\A b \in Range(buffers') : b.origin # x) => RecordsOf(buffers', x) = <<>>
    BY <1>15, RecordsOne, HaveRecords
  <2>6. RecordsOf(out, x) = IF x = o THEN SubSeq(all, 1, up) ELSE <<>>
    <3>1. ck \in [Nat -> Seq(Rec)] /\ all \in Seq(Rec) /\ Buffered(all, segments, ck)
      BY <1>7, <1>14
    <3>2. BatchesHold(o, all, segments, x)
      BY <3>1, FullBatchesRecords
    <3> QED
      BY <3>2 DEF BatchesHold
  <2> HIDE DEF out
  <2>7. CASE x # o
    <3>1. RecordsOf(emitted', x) = RecordsOf(emitted, x)
      BY <2>2, <2>3, <2>6, <2>7, ConcatNothing
    <3>2. \A b : b.origin = x => (b \in Range(buffers') <=> b \in Range(buffers))
      BY <1>14, <1>15, <2>7
    <3>3. RecordsOf(buffers', x) = RecordsOf(buffers, x)
      <4>1. CASE \A b \in Range(buffers) : b.origin # x
        BY <2>4, <2>5, <3>2, <4>1
      <4>2. CASE \E b \in Range(buffers) : b.origin = x
        BY <2>4, <2>5, <3>2, <4>2
      <4> QED
        BY <4>1, <4>2
    <3>4. arrived'[x] = arrived[x]
      BY <1>1, <1>2, <2>7
    <3> QED
      BY <2>1, <3>1, <3>3, <3>4
  <2>8. CASE x = o
    <3>1. RecordsOf(buffers, x) = old.records
      <4>1. CASE old \in Range(buffers) /\ old.origin = o
        BY <2>4, <2>8, <4>1
      <4>2. CASE /\ \A b \in Range(buffers) : b.origin # o
                 /\ old = [origin |-> o, records |-> <<>>, segments |-> <<>>, deadline |-> due]
        BY <2>4, <2>8, <4>2
      <4> QED
        BY <1>11, <4>1, <4>2
    <3>2. RecordsOf(buffers', x) = new.records
      <4>1. CASE new.records # <<>>
        BY <1>14, <1>15, <2>5, <2>8, <4>1
      <4>2. CASE new.records = <<>>
        BY <1>15, <2>5, <2>8, <4>2
      <4> QED
        BY <4>1, <4>2
    <3>3. arrived'[x] = arrived[x] \o incoming
      BY <1>1, <1>2, <2>8
    <3>4. SubSeq(all, 1, up) \in Seq(Rec) /\ new.records \in Seq(Rec)
          /\ all = SubSeq(all, 1, up) \o new.records
      <4>1. all \in Seq(Rec) /\ up \in Nat /\ up <= Len(all)
            /\ new.records = SubSeq(all, up + 1, Len(all))
        BY <1>14, <1>16
      <4> HIDE DEF up
      <4>2. /\ SubSeq(all, 1, up) \in Seq(Rec) /\ SubSeq(all, up + 1, Len(all)) \in Seq(Rec)
            /\ all = SubSeq(all, 1, up) \o SubSeq(all, up + 1, Len(all))
        BY <4>1, SplitAt, Zenon
      <4> QED
        BY <4>1, <4>2, Zenon
    <3> DEFINE head == SubSeq(all, 1, up)
               done1 == RecordsOf(emitted, x)
    <3>5. RecordsOf(emitted', x) = done1 \o head
      BY <2>2, <2>6, <2>8
    <3>6. arrived[x] = done1 \o old.records
      BY <2>1, <3>1
    <3> HIDE DEF head, done1
    <3>7. (done1 \o old.records) \o incoming = done1 \o all
      <4>1. done1 \in Seq(Rec) /\ old.records \in Seq(Rec) /\ incoming \in Seq(Rec)
            /\ all = old.records \o incoming
        BY <1>6, <1>12, <1>14, <2>3 DEF done1
      <4>2. Joins(done1, old.records, incoming, all)
        BY <4>1, JoinThree
      <4> QED
        BY <4>2 DEF Joins
    <3>8. (done1 \o head) \o new.records = done1 \o all
      <4>1. done1 \in Seq(Rec) /\ head \in Seq(Rec) /\ new.records \in Seq(Rec)
            /\ all = head \o new.records
        BY <2>3, <3>4 DEF done1, head
      <4>2. Joins(done1, head, new.records, all)
        BY <4>1, JoinThree
      <4> QED
        BY <4>2 DEF Joins
    <3> QED
      BY <3>2, <3>3, <3>5, <3>6, <3>7, <3>8
  <2> QED
    BY <2>7, <2>8
<1> QED
  BY <1>20, <1>21, <1>22 DEF BufferInv, FifoPerOrigin
-------------------------------------------------------------------------------
LEMMA BufferInvInit == BufferInit => BufferInv
<1> SUFFICES ASSUME BufferInit PROVE BufferInv
  OBVIOUS
<1>1. /\ buffers = <<>> /\ now = 0 /\ arrived = [o \in Origins |-> <<>>]
      /\ arrivedAt = <<>> /\ emitted = <<>>
  BY DEF BufferInit
<1>2. TypeInv
  BY <1>1 DEF TypeInv, OneEach
<1>3. Contents([u \in Nat |-> <<>>], buffers, emitted, arrivedAt)
  <2>1. Range(buffers) = {} /\ Range(emitted) = {}
    BY <1>1 DEF Range
  <2>2. [u \in Nat |-> <<>>] \in [Nat -> Seq(Rec)] /\ 1..Len(arrivedAt) = {}
    BY <1>1
  <2> QED
    BY <2>1, <2>2 DEF Contents, ChunksOK
<1>4. FifoPerOrigin
  <2>1. \A o \in Origins : RecordsOf(<<>>, o) = <<>>
    <3>1. \A o : [k \in DOMAIN <<>> |-> IF <<>>[k].origin = o THEN <<>>[k].records ELSE <<>>] = <<>>
      OBVIOUS
    <3> QED
      BY <3>1, FlattenEmpty DEF RecordsOf
  <2>2. <<>> \o <<>> = <<>>
    OBVIOUS
  <2> QED
    BY <1>1, <2>1, <2>2 DEF FifoPerOrigin
<1> QED
  BY <1>2, <1>3, <1>4 DEF BufferInv

LEMMA BufferInvStep == BufferInv /\ [BufferNext]_bufferVars => BufferInv'
<1> SUFFICES ASSUME BufferInv, [BufferNext]_bufferVars PROVE BufferInv'
  OBVIOUS
<1>1. ASSUME NEW o \in Origins, NEW n \in 1..MaxChunk, PushChunk(o, n) PROVE BufferInv'
  BY <1>1, PushKeeps
<1>2. CASE TimerFlush
  BY <1>2, FlushKeeps DEF TimerFlush, FlushExpired
<1>3. CASE BarrierFlush
  BY <1>3, FlushKeeps DEF BarrierFlush, FlushAll
<1>4. CASE Tick
  <2>1. UNCHANGED <<buffers, arrived, arrivedAt, emitted>> /\ now' \in Nat
    BY <1>4 DEF Tick, BufferInv, TypeInv
  <2> QED
    BY <2>1 DEF BufferInv, TypeInv, FifoPerOrigin
<1>5. CASE UNCHANGED bufferVars
  BY <1>5 DEF bufferVars, BufferInv, TypeInv, FifoPerOrigin
<1> QED
  BY <1>1, <1>2, <1>3, <1>4, <1>5 DEF BufferNext

LEMMA BufferInvHolds == BufferSpec => []BufferInv
BY BufferInvInit, BufferInvStep, PTL DEF BufferSpec

(* OriginBuffers never holds two buffers of one origin, an empty one, or   *)
(* one with a full batch in it.                                            *)
THEOREM BufferTypesHold == BufferSpec => []BufferTypeOK
<1>1. BufferInv => BufferTypeOK
  <2> SUFFICES ASSUME BufferInv PROVE BufferTypeOK
    OBVIOUS
  <2>1. PICK chunk : Contents(chunk, buffers, emitted, arrivedAt)
    BY DEF BufferInv
  <2>2. buffers \in Seq(Buf) /\ OneEach(buffers)
    BY DEF BufferInv, TypeInv
  <2>3. ASSUME NEW b \in Range(buffers)
        PROVE  b.origin \in Origins /\ Len(b.records) \in 1..(MaxBatchRecords - 1)
               /\ b.deadline \in Nat
    <3>1. b \in Buf
      BY <2>2 DEF Range
    <3>2. b.origin \in Origins /\ b.deadline \in Nat
      BY <3>1 DEF Buf, Buffer
    <3> QED
      BY <2>1, <3>2 DEF Contents, BufferOK
  <2> QED
    BY <2>2, <2>3 DEF BufferTypeOK, OneEach
<1> QED
  BY <1>1, BufferInvHolds, PTL

(* However chunks are split over batches by OriginBuffer::consume, the     *)
(* segments of every buffer and of every submission name, in order, the    *)
(* ticket of each of their records.                                        *)
THEOREM SegmentsStayExact == BufferSpec => []SegmentsMatchRecords
<1>1. BufferInv => SegmentsMatchRecords
  <2> SUFFICES ASSUME BufferInv PROVE SegmentsMatchRecords
    OBVIOUS
  <2>1. PICK chunk : Contents(chunk, buffers, emitted, arrivedAt)
    BY DEF BufferInv
  <2>2. buffers \in Seq(Buf) /\ emitted \in Seq(Sub)
    BY DEF BufferInv, TypeInv
  <2>3. ASSUME NEW b \in Range(buffers)
        PROVE  Spelled(b.segments, LAMBDA s : s.left) = TicketsOf(b.records)
    <3>1. b.records \in Seq(Rec)
      BY <2>2, HaveRecords DEF Range
    <3>2. /\ Buffered(b.records, b.segments, chunk)
          /\ \A t \in TicketsIn(b.segments) : IsChunk(chunk, t)
      BY <2>1 DEF Contents, BufferOK, ChunksOK
    <3> QED
      BY <3>1, <3>2, SpelledBuffer
  <2>4. ASSUME NEW e \in Range(emitted)
        PROVE  Spelled(e.segments, LAMBDA s : s.records) = TicketsOf(e.records)
    <3>1. e.records \in Seq(Rec)
      BY <2>2, HaveRecords DEF Range
    <3>2. /\ Batched(e.records, e.segments, chunk)
          /\ \A t \in TicketsIn(e.segments) : IsChunk(chunk, t)
      BY <2>1 DEF Contents, EmittedOK, ChunksOK
    <3> QED
      BY <3>1, <3>2, SpelledBatch
  <2> QED
    BY <2>3, <2>4 DEF SegmentsMatchRecords
<1> QED
  BY <1>1, BufferInvHolds, PTL

(* A submission marks a segment complete exactly when it carries the last  *)
(* record of the segment's chunk: what the writer may settle a ticket on.  *)
THEOREM CompletionIsExact == BufferSpec => []CompleteMarksLastRecord
<1>1. BufferInv => CompleteMarksLastRecord
  <2> SUFFICES ASSUME BufferInv, NEW e \in Range(emitted), NEW s \in Range(e.segments)
               PROVE  s.complete <=> \E r \in Range(e.records) : r[1] = s.commitSeq /\ r[2] = r[3]
    BY DEF CompleteMarksLastRecord
  <2>1. PICK chunk : Contents(chunk, buffers, emitted, arrivedAt)
    BY DEF BufferInv
  <2>2. emitted \in Seq(Sub)
    BY DEF BufferInv, TypeInv
  <2>3. e.records \in Seq(Rec)
    BY <2>2, HaveRecords DEF Range
  <2>4. /\ Batched(e.records, e.segments, chunk) /\ Distinct(e.segments)
        /\ \A t \in TicketsIn(e.segments) : IsChunk(chunk, t)
    BY <2>1 DEF Contents, EmittedOK, ChunksOK
  <2>5. e.segments \in PieceSeq
    BY <2>4 DEF Batched
  <2>6. PICK j \in 1..Len(e.segments) : s = e.segments[j]
    BY <2>5, PieceEndsFacts DEF Range
  <2> QED
    BY <2>3, <2>4, <2>6, CompleteBatch
<1> QED
  BY <1>1, BufferInvHolds, PTL

(* Per origin, what was emitted and then what is buffered are all the      *)
(* records that were pushed, in the order they were pushed.                *)
THEOREM BuffersAreFifo == BufferSpec => []FifoPerOrigin
<1>1. BufferInv => FifoPerOrigin
  BY DEF BufferInv
<1> QED
  BY <1>1, BufferInvHolds, PTL

(* The deadline of a buffer is max_batch_age after the arrival of the      *)
(* oldest record in it: pushes that join a partial batch never move it.    *)
THEOREM DeadlinesAreOfTheOldest == BufferSpec => []DeadlineOfOldest
<1>1. BufferInv => DeadlineOfOldest
  BY DEF BufferInv, Contents, BufferOK, DeadlineOfOldest
<1> QED
  BY <1>1, BufferInvHolds, PTL
===============================================================================
