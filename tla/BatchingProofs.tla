---------------------------- MODULE BatchingProofs ----------------------------
(***************************************************************************)
(* Lemmas about the operators of InsertBatching, for every batch size and  *)
(* every content of the buffers.  Induction over data is by the least      *)
(* counterexample.                                                         *)
(***************************************************************************)
EXTENDS InsertBatching, FiniteSetTheorems, SequenceTheorems, TLAPS

(* Every non-empty set of naturals has a least element. *)
LEMMA LeastNatural ==
    ASSUME NEW S, S \subseteq Nat, S # {}
    PROVE  \E m \in S : \A n \in S : m <= n
<1>1. PICK m \in S : \A n \in S : ~(<<n, m>> \in OpToRel(<, Nat))
  BY NatLessThanWellFounded, WFMin, Zenon
<1>2. \A n \in S : ~(n < m)
  BY <1>1, Zenon DEF OpToRel
<1> QED
  BY <1>2
-------------------------------------------------------------------------------
(* Induction up to n, for a set of numbers. *)
LEMMA UpTo ==
    ASSUME NEW n \in Nat, NEW G, 0 \in G, \A i \in 1..n : i - 1 \in G => i \in G
    PROVE  \A i \in 0..n : i \in G
<1> DEFINE Bad == {i \in Nat : i <= n /\ i \notin G}
<1> SUFFICES ASSUME Bad # {} PROVE FALSE
  OBVIOUS
<1>1. PICK i \in Bad : \A j \in Bad : i <= j
  BY LeastNatural, Zenon
<1>2. i \in 1..n /\ i - 1 \in Nat /\ i - 1 <= n /\ i - 1 \notin Bad
  BY <1>1
<1> QED
  BY <1>2

(* Where runs end: the recursive function of Ends. *)
IsEnds(e, n, f) == e = [k \in 0..n |-> IF k = 0 THEN 0 ELSE e[k - 1] + f[k]]

LEMMA EndsExist ==
    ASSUME NEW n \in Nat, NEW f
    PROVE  \E e : IsEnds(e, n, f)
<1> DEFINE Bad == {m \in Nat : ~\E e : IsEnds(e, m, f)}
<1> SUFFICES ASSUME Bad # {} PROVE FALSE
  OBVIOUS
<1>1. PICK m \in Bad : \A j \in Bad : m <= j
  BY LeastNatural, Zenon
<1>2. m # 0
  <2>1. IsEnds([k \in 0..0 |-> 0], 0, f)
    BY DEF IsEnds
  <2> QED
    BY <2>1
<1>3. m \in Nat /\ m - 1 \in Nat /\ m - 1 \notin Bad
  BY <1>1, <1>2
<1>4. PICK e : IsEnds(e, m - 1, f)
  BY <1>3
<1> DEFINE g == [k \in 0..m |-> IF k = m THEN e[m - 1] + f[m] ELSE e[k]]
<1>5. IsEnds(g, m, f)
  <2>1. ASSUME NEW k \in 0..m, k # 0 PROVE g[k] = g[k - 1] + f[k]
    <3>1. k - 1 \in 0..(m - 1) /\ k - 1 \in 0..m /\ k - 1 # m
      BY <1>3, <2>1
    <3>2. g[k - 1] = e[k - 1]
      BY <3>1
    <3>3. CASE k = m
      BY <3>2, <3>3
    <3>4. CASE k # m
      BY <1>3, <1>4, <2>1, <3>2, <3>4 DEF IsEnds
    <3> QED
      BY <3>3, <3>4
  <2>2. g[0] = 0
    BY <1>2, <1>3, <1>4 DEF IsEnds
  <2>3. g = [k \in 0..m |-> IF k = 0 THEN 0 ELSE g[k - 1] + f[k]]
    <3>1. g = [k \in 0..m |-> g[k]]
      OBVIOUS
    <3> HIDE DEF g
    <3> QED
      BY <2>1, <2>2, <3>1, Zenon
  <2> HIDE DEF g
  <2> QED
    BY <2>3 DEF IsEnds
<1> QED
  BY <1>5

(* Two functions that satisfy the recursion of Ends are equal. *)
LEMMA EndsUnique ==
    ASSUME NEW n \in Nat, NEW f, NEW d, NEW e, IsEnds(d, n, f), IsEnds(e, n, f)
    PROVE  d = e
<1> DEFINE Bad == {m \in Nat : m <= n /\ d[m] # e[m]}
<1>1. Bad = {}
  <2> SUFFICES ASSUME Bad # {} PROVE FALSE
    OBVIOUS
  <2>1. PICK m \in Bad : \A j \in Bad : m <= j
    BY LeastNatural, Zenon
  <2>2. m # 0
    BY DEF IsEnds
  <2>3. m - 1 \in 0..n /\ m - 1 \notin Bad
    BY <2>1, <2>2
  <2>4. d[m] = d[m - 1] + f[m] /\ e[m] = e[m - 1] + f[m]
    BY <2>2 DEF IsEnds
  <2> QED
    BY <2>3, <2>4
<1>2. \A k \in 0..n : d[k] = e[k]
  BY <1>1
<1>3. d = [k \in 0..n |-> d[k]] /\ e = [k \in 0..n |-> e[k]]
  BY DEF IsEnds
<1> QED
  BY <1>2, <1>3, Zenon

(* Ends satisfies its recursion. *)
LEMMA EndsAreEnds ==
    ASSUME NEW n \in Nat, NEW f, Len(f) = n
    PROVE  IsEnds(Ends(f), n, f)
BY EndsExist, Zenon DEF Ends, IsEnds

(* Facts about the ends of runs of given lengths. *)
LEMMA EndsFacts ==
    ASSUME NEW n \in Nat, NEW f, Len(f) = n, \A k \in 1..n : f[k] \in Nat
    PROVE  /\ Ends(f) \in [0..n -> Nat]
           /\ Ends(f)[0] = 0
           /\ \A k \in 1..n : Ends(f)[k] = Ends(f)[k - 1] + f[k]
           /\ \A j, k \in 0..n : j <= k => Ends(f)[j] <= Ends(f)[k]
<1> DEFINE e == Ends(f)
<1>1. IsEnds(e, n, f)
  BY EndsAreEnds
<1> HIDE DEF e
<1>2. DOMAIN e = 0..n /\ e[0] = 0 /\ \A k \in 1..n : e[k] = e[k - 1] + f[k]
  BY <1>1 DEF IsEnds
<1>3. ASSUME NEW k \in 0..n PROVE e[k] \in Nat
  <2> DEFINE Bad == {m \in Nat : m <= n /\ e[m] \notin Nat}
  <2> SUFFICES ASSUME Bad # {} PROVE FALSE
    OBVIOUS
  <2>1. PICK m \in Bad : \A j \in Bad : m <= j
    BY LeastNatural, Zenon
  <2>2. m # 0
    BY <1>2
  <2>3. m - 1 \in 0..n /\ m - 1 \notin Bad
    BY <2>1, <2>2
  <2> QED
    BY <1>2, <2>2, <2>3
<1>4. ASSUME NEW j \in 0..n, NEW k \in 0..n, j <= k PROVE e[j] <= e[k]
  <2> DEFINE Bad == {m \in Nat : m <= n /\ j <= m /\ ~(e[j] <= e[m])}
  <2> SUFFICES ASSUME Bad # {} PROVE FALSE
    BY <1>4
  <2>1. PICK m \in Bad : \A i \in Bad : m <= i
    BY LeastNatural, Zenon
  <2>2. m # j
    BY <1>3
  <2>3. m - 1 \in 0..n /\ m - 1 \notin Bad /\ j <= m - 1 /\ m \in 1..n
    BY <2>1, <2>2
  <2> QED
    BY <1>2, <1>3, <2>3
<1>5. e \in [0..n -> Nat]
  <2>1. e = [k \in 0..n |-> e[k]]
    BY <1>1 DEF IsEnds
  <2> QED
    BY <1>3, <2>1
<1> QED
  BY <1>2, <1>4, <1>5 DEF e

(* Runs of the same lengths end at the same places. *)
AreLengths(f) == Len(f) \in Nat /\ \A k \in 1..Len(f) : f[k] \in Nat
SameUpTo(d, e, i) == \A k \in 0..i : d[k] = e[k]

LEMMA EndsAgree ==
    ASSUME NEW f, AreLengths(f), NEW g, AreLengths(g),
           NEW i \in 0..Len(f), i \in 0..Len(g), \A k \in 1..i : f[k] = g[k]
    PROVE  SameUpTo(Ends(f), Ends(g), i)
<1> DEFINE m == Len(f)
           n == Len(g)
<1>0. m \in Nat /\ n \in Nat /\ i \in Nat /\ i <= m /\ i <= n
  BY DEF AreLengths
<1>1. Ends(f)[0] = 0 /\ \A k \in 1..m : Ends(f)[k] = Ends(f)[k - 1] + f[k]
  BY EndsFacts DEF AreLengths
<1>2. Ends(g)[0] = 0 /\ \A k \in 1..n : Ends(g)[k] = Ends(g)[k - 1] + g[k]
  BY EndsFacts DEF AreLengths
<1> HIDE DEF m, n
<1> DEFINE Bad == {k \in Nat : k <= i /\ Ends(f)[k] # Ends(g)[k]}
<1>3. Bad = {}
  <2> SUFFICES ASSUME Bad # {} PROVE FALSE
    OBVIOUS
  <2>1. PICK k \in Bad : \A j \in Bad : k <= j
    BY LeastNatural, Zenon
  <2>2. k # 0 /\ k \in 1..i
    BY <1>0, <1>1, <1>2
  <2>3. k - 1 \in Nat /\ k - 1 \notin Bad /\ k - 1 <= i
    BY <1>0, <2>1, <2>2
  <2>4. Ends(f)[k - 1] = Ends(g)[k - 1]
    BY <2>3
  <2>5. k \in 1..m /\ k \in 1..n
    BY <1>0, <2>2
  <2>6. Ends(f)[k] = Ends(f)[k - 1] + f[k] /\ Ends(g)[k] = Ends(g)[k - 1] + g[k] /\ f[k] = g[k]
    BY <1>1, <1>2, <2>2, <2>5
  <2> QED
    BY <2>4, <2>6
<1> QED
  BY <1>0, <1>3 DEF SameUpTo

(* Every position up to the last end is in exactly one run. *)
LEMMA EndsLocate ==
    ASSUME NEW n \in Nat, NEW f, Len(f) = n, \A k \in 1..n : f[k] \in Nat,
           NEW p \in 1..Ends(f)[n]
    PROVE  \E k \in 1..n : Ends(f)[k - 1] < p /\ p <= Ends(f)[k]
<1> DEFINE e == Ends(f)
           Reached == {k \in Nat : k <= n /\ p <= e[k]}
<1>1. /\ e \in [0..n -> Nat] /\ e[0] = 0
      /\ \A k \in 1..n : e[k] = e[k - 1] + f[k]
  BY EndsFacts, Zenon
<1> HIDE DEF e
<1>2. n \in Reached
  BY <1>1 DEF e
<1>3. PICK k \in Reached : \A j \in Reached : k <= j
  BY <1>2, LeastNatural, Zenon
<1>4. k \in 1..n
  BY <1>1, <1>3 DEF e
<1>5. k - 1 \notin Reached /\ k - 1 \in 0..n
  BY <1>3, <1>4
<1> QED
  BY <1>1, <1>3, <1>4, <1>5 DEF e
-------------------------------------------------------------------------------
(* The ascending list of a finite set of numbers. *)
IsAscending(s, S) ==
    /\ s \in [1..Cardinality(S) -> S]
    /\ \A i, j \in 1..Cardinality(S) : i < j => s[i] < s[j]

LEMMA AscendingExists ==
    ASSUME NEW S, S \subseteq Nat, IsFiniteSet(S)
    PROVE  \E s : IsAscending(s, S)
<1> DEFINE Unlisted(n) == {T \in SUBSET Nat : /\ IsFiniteSet(T) /\ Cardinality(T) = n
                                              /\ ~\E s : IsAscending(s, T)}
           Bad == {n \in Nat : Unlisted(n) # {}}
<1>1. Bad = {}
  <2> SUFFICES ASSUME Bad # {} PROVE FALSE
    OBVIOUS
  <2>1. PICK n \in Bad : \A j \in Bad : n <= j
    BY LeastNatural, Zenon
  <2>2. PICK T \in Unlisted(n) : TRUE
    OBVIOUS
  <2>3. /\ T \subseteq Nat /\ IsFiniteSet(T) /\ Cardinality(T) = n /\ n \in Nat
        /\ ~\E s : IsAscending(s, T)
    OBVIOUS
  <2>4. n # 0
    <3> SUFFICES ASSUME n = 0 PROVE FALSE
      OBVIOUS
    <3>1. IsAscending([i \in 1..0 |-> 0], T)
      BY <2>3 DEF IsAscending
    <3> QED
      BY <2>3, <3>1
  <2>5. T # {}
    BY <2>3, <2>4, FS_EmptySet
  <2>6. PICK x \in T : \A y \in T : x <= y
    BY <2>3, <2>5, LeastNatural, Zenon
  <2> DEFINE U == T \ {x}
  <2>7. IsFiniteSet(U) /\ Cardinality(U) = n - 1 /\ U \subseteq Nat
    BY <2>3, FS_RemoveElement
  <2>8. n - 1 \notin Bad /\ n - 1 \in Nat
    BY <2>1, <2>4
  <2>9. PICK t : IsAscending(t, U)
    BY <2>7, <2>8, Zenon
  <2> DEFINE s == [i \in 1..n |-> IF i = 1 THEN x ELSE t[i - 1]]
  <2>10. ASSUME NEW i \in 1..n PROVE s[i] \in T /\ (i # 1 => s[i] \in U /\ s[i] = t[i - 1])
    <3>1. i # 1 => i - 1 \in 1..(n - 1)
      BY <2>3
    <3>2. i # 1 => t[i - 1] \in U
      BY <2>7, <2>9, <3>1, Zenon DEF IsAscending
    <3> QED
      BY <3>2
  <2>11. ASSUME NEW i \in 1..n, NEW j \in 1..n, i < j PROVE s[i] < s[j]
    <3>1. CASE i = 1
      <4>1. s[i] = x /\ s[j] \in T /\ s[j] # x
        BY <2>3, <2>10, <2>11, <3>1
      <4>2. x \in Nat /\ s[j] \in Nat /\ x <= s[j]
        BY <2>3, <2>6, <4>1, Zenon
      <4> HIDE DEF s, Bad, Unlisted
      <4> QED
        BY <4>1, <4>2
    <3>2. CASE i # 1
      <4>1. i - 1 \in 1..(n - 1) /\ j - 1 \in 1..(n - 1) /\ i - 1 < j - 1
        BY <2>11, <3>2
      <4>2. t[i - 1] < t[j - 1]
        BY <2>7, <2>9, <4>1, Zenon DEF IsAscending
      <4> QED
        BY <2>10, <2>11, <3>2, <4>2
    <3> QED
      BY <3>1, <3>2
  <2>12. IsAscending(s, T)
    <3>1. s \in [1..n -> T]
      BY <2>10
    <3> HIDE DEF s
    <3> QED
      BY <2>3, <2>11, <3>1 DEF IsAscending
  <2> QED
    BY <2>3, <2>12
<1>2. Cardinality(S) \in Nat
  BY FS_CardinalityType
<1> QED
  BY <1>1, <1>2, Zenon

(* sort_unstable and dedup list exactly the numbers of the set, strictly   *)
(* ascending.                                                              *)
LEMMA AscendingFacts ==
    ASSUME NEW S, S \subseteq Nat, IsFiniteSet(S)
    PROVE  /\ Cardinality(S) \in Nat
           /\ Ascending(S) \in [1..Cardinality(S) -> S]
           /\ \A i, j \in 1..Cardinality(S) : i < j => Ascending(S)[i] < Ascending(S)[j]
           /\ \A x \in S : \E i \in 1..Cardinality(S) : Ascending(S)[i] = x
<1> DEFINE s == Ascending(S)
           D == 1..Cardinality(S)
<1>0. Cardinality(S) \in Nat
  BY FS_CardinalityType
<1>1. IsAscending(s, S)
  BY AscendingExists, Zenon DEF IsAscending, Ascending
<1> HIDE DEF s
<1>2. s \in Injection(D, S)
  <2>1. ASSUME NEW i \in D, NEW j \in D, s[i] = s[j] PROVE i = j
    <3>1. ~(i < j) /\ ~(j < i)
      <4>1. (i < j => s[i] < s[j]) /\ (j < i => s[j] < s[i]) /\ s[i] \in Nat
        BY <1>1, <2>1, Zenon DEF IsAscending
      <4> QED
        BY <2>1, <4>1
    <3> QED
      BY <1>0, <3>1
  <2> QED
    BY <1>1, <2>1 DEF IsAscending, Injection, IsInjective
<1>3. IsFiniteSet(D) /\ Cardinality(D) = Cardinality(S)
  BY <1>0, FS_Interval
<1>4. s \in Surjection(D, S)
  <2> HIDE DEF D
  <2> QED
    BY <1>2, <1>3, FS_Injection
<1>5. \A x \in S : \E i \in D : s[i] = x
  BY <1>4 DEF Surjection
<1> QED
  BY <1>0, <1>1, <1>5 DEF IsAscending, s

(* A set of positions is a finite set of numbers. *)
LEMMA Positions ==
    ASSUME NEW n \in Nat, NEW I, I \subseteq 1..n
    PROVE  I \subseteq Nat /\ IsFiniteSet(I) /\ Cardinality(I) \in Nat
<1>1. IsFiniteSet(1..n)
  BY FS_Interval
<1>2. IsFiniteSet(I)
  BY <1>1, FS_Subset, Zenon
<1> QED
  BY <1>2, FS_CardinalityType

(* retain keeps the elements of the set, all of them, and their order. *)
LEMMA FilterFacts ==
    ASSUME NEW T, NEW s \in Seq(T), NEW S
    PROVE  /\ Filter(s, S) \in Seq(T)
           /\ \A x : (\E k \in 1..Len(Filter(s, S)) : Filter(s, S)[k] = x)
                    <=> (x \in S /\ \E i \in 1..Len(s) : s[i] = x)
           /\ \A j, k \in 1..Len(Filter(s, S)) : j < k =>
                 \E p, q \in 1..Len(s) :
                   p < q /\ Filter(s, S)[j] = s[p] /\ Filter(s, S)[k] = s[q]
<1> DEFINE I == {i \in DOMAIN s : s[i] \in S}
           at == Ascending(I)
           m == Cardinality(I)
           F == Filter(s, S)
<1>1. DOMAIN s = 1..Len(s) /\ Len(s) \in Nat
  OBVIOUS
<1>2. I \subseteq Nat /\ IsFiniteSet(I)
  <2>1. I \subseteq 1..Len(s)
    BY <1>1
  <2> HIDE DEF I
  <2> QED
    BY <1>1, <2>1, Positions, Zenon
<1>3. /\ m \in Nat /\ at \in [1..m -> I]
      /\ \A i, j \in 1..m : i < j => at[i] < at[j]
      /\ \A x \in I : \E i \in 1..m : at[i] = x
  <2> HIDE DEF I
  <2> QED
    BY <1>2, AscendingFacts, Zenon
<1>4. F = [k \in 1..m |-> s[at[k]]]
  BY <1>3 DEF Filter
<1> HIDE DEF F, at, m
<1>5. \A k \in 1..m : at[k] \in 1..Len(s) /\ s[at[k]] \in T /\ s[at[k]] \in S
  BY <1>1, <1>3
<1>6. F \in Seq(T) /\ Len(F) = m
  BY <1>3, <1>4, <1>5
<1>7. ASSUME NEW x
      PROVE  (\E k \in 1..m : F[k] = x) <=> (x \in S /\ \E i \in 1..Len(s) : s[i] = x)
  <2>1. ASSUME NEW k \in 1..m, F[k] = x PROVE x \in S /\ \E i \in 1..Len(s) : s[i] = x
    BY <1>4, <1>5, <2>1
  <2>2. ASSUME x \in S, NEW i \in 1..Len(s), s[i] = x PROVE \E k \in 1..m : F[k] = x
    <3>1. i \in I
      BY <1>1, <2>2
    <3>2. PICK k \in 1..m : at[k] = i
      BY <1>3, <3>1
    <3> QED
      BY <1>4, <2>2, <3>2
  <2> QED
    BY <2>1, <2>2
<1>8. ASSUME NEW j \in 1..m, NEW k \in 1..m, j < k
      PROVE  \E p, q \in 1..Len(s) : p < q /\ F[j] = s[p] /\ F[k] = s[q]
  BY <1>3, <1>4, <1>5, <1>8, Zenon
<1> QED
  BY <1>6, <1>7, <1>8, Zenon DEF F
-------------------------------------------------------------------------------
(* Flatten lays sequences end to end: the recursive function it uses.      *)
IsFlat(f, n, seqs) == f = [i \in 0..n |-> IF i = 0 THEN <<>> ELSE f[i - 1] \o seqs[i]]

LEMMA FlatExists ==
    ASSUME NEW n \in Nat, NEW seqs
    PROVE  \E f : IsFlat(f, n, seqs)
<1> DEFINE Bad == {m \in Nat : ~\E f : IsFlat(f, m, seqs)}
<1> SUFFICES ASSUME Bad # {} PROVE FALSE
  OBVIOUS
<1>1. PICK m \in Bad : \A j \in Bad : m <= j
  BY LeastNatural, Zenon
<1>2. m # 0
  <2> DEFINE g == [i \in 0..0 |-> <<>>]
  <2>1. g = [i \in 0..0 |-> IF i = 0 THEN <<>> ELSE g[i - 1] \o seqs[i]]
    OBVIOUS
  <2> HIDE DEF g
  <2>2. IsFlat(g, 0, seqs)
    BY <2>1 DEF IsFlat
  <2> QED
    BY <2>2
<1>3. m \in Nat /\ m - 1 \in Nat /\ m - 1 \notin Bad
  BY <1>1, <1>2
<1>4. PICK f : IsFlat(f, m - 1, seqs)
  BY <1>3
<1> DEFINE g == [i \in 0..m |-> IF i = m THEN f[m - 1] \o seqs[m] ELSE f[i]]
<1>5. ASSUME NEW i \in 0..m PROVE g[i] = IF i = 0 THEN <<>> ELSE g[i - 1] \o seqs[i]
  <2>1. CASE i = m
    <3>1. i # 0 /\ i - 1 \in 0..m /\ i - 1 # m
      BY <1>2, <1>3, <2>1
    <3> QED
      BY <2>1, <3>1, Zenon
  <2>2. CASE i # m
    <3>1. i \in 0..(m - 1)
      BY <1>3, <2>2
    <3>2. f[i] = IF i = 0 THEN <<>> ELSE f[i - 1] \o seqs[i]
      BY <1>4, <3>1, Zenon DEF IsFlat
    <3>3. i # 0 => i - 1 \in 0..m /\ i - 1 # m
      BY <1>3, <3>1
    <3> QED
      BY <2>2, <3>2, <3>3
  <2> QED
    BY <2>1, <2>2
<1>6. g = [i \in 0..m |-> g[i]]
  OBVIOUS
<1> HIDE DEF g
<1>7. IsFlat(g, m, seqs)
  BY <1>5, <1>6, Zenon DEF IsFlat
<1> QED
  BY <1>7

LEMMA FlatUnique ==
    ASSUME NEW n \in Nat, NEW seqs, NEW f, NEW g, IsFlat(f, n, seqs), IsFlat(g, n, seqs)
    PROVE  f = g
<1> DEFINE Bad == {m \in Nat : m <= n /\ f[m] # g[m]}
<1>0. /\ \A i \in 0..n : f[i] = IF i = 0 THEN <<>> ELSE f[i - 1] \o seqs[i]
      /\ \A i \in 0..n : g[i] = IF i = 0 THEN <<>> ELSE g[i - 1] \o seqs[i]
      /\ f = [i \in 0..n |-> f[i]] /\ g = [i \in 0..n |-> g[i]]
  BY Zenon DEF IsFlat
<1>1. Bad = {}
  <2> SUFFICES ASSUME Bad # {} PROVE FALSE
    OBVIOUS
  <2>1. PICK m \in Bad : \A j \in Bad : m <= j
    BY LeastNatural, Zenon
  <2>2. m \in 0..n
    OBVIOUS
  <2>3. m # 0
    BY <1>0, <2>2, Zenon
  <2>4. m - 1 \in Nat /\ m - 1 \notin Bad /\ m - 1 <= n
    BY <2>1, <2>2, <2>3
  <2>5. f[m - 1] = g[m - 1]
    BY <2>4
  <2>6. f[m] = f[m - 1] \o seqs[m] /\ g[m] = g[m - 1] \o seqs[m]
    BY <1>0, <2>2, <2>3, Zenon
  <2> QED
    BY <2>5, <2>6, Zenon
<1>2. \A i \in 0..n : f[i] = g[i]
  BY <1>1
<1> QED
  BY <1>0, <1>2, Zenon

LEMMA FlattenIsFlat ==
    ASSUME NEW n \in Nat, NEW seqs, Len(seqs) = n
    PROVE  \E f : IsFlat(f, n, seqs) /\ Flatten(seqs) = f[n]
<1> DEFINE f == CHOOSE g : IsFlat(g, n, seqs)
<1>1. IsFlat(f, n, seqs)
  <2>1. \E g : IsFlat(g, n, seqs)
    BY FlatExists
  <2> QED
    BY <2>1, Zenon
<1>2. Flatten(seqs) = f[n]
  BY Zenon DEF Flatten, IsFlat
<1> QED
  BY <1>1, <1>2, Zenon

(* The flattening of a longer list extends that of the list. *)
LEMMA FlattenEmpty == Flatten(<<>>) = <<>>
<1>1. PICK f : IsFlat(f, 0, <<>>) /\ Flatten(<<>>) = f[0]
  BY FlattenIsFlat
<1>2. f[0] = <<>>
  BY <1>1 DEF IsFlat
<1> QED
  BY <1>1, <1>2

LEMMA FlattenAppend ==
    ASSUME NEW T, NEW seqs \in Seq(Seq(T)), NEW s \in Seq(T)
    PROVE  Flatten(Append(seqs, s)) = Flatten(seqs) \o s
<1> DEFINE n == Len(seqs)
           more == Append(seqs, s)
           m == n + 1
<1>1. n \in Nat /\ Len(more) = m /\ more[m] = s /\ \A i \in 1..n : more[i] = seqs[i]
  OBVIOUS
<1> HIDE DEF n, more
<1>2. m \in Nat /\ m \in 0..m /\ m # 0 /\ m - 1 = n
  <2>1. n \in Nat
    BY <1>1
  <2> QED
    BY <2>1
<1> HIDE DEF m
<1>3. PICK g : IsFlat(g, m, more) /\ Flatten(more) = g[m]
  BY <1>1, <1>2, FlattenIsFlat
<1>4. PICK f : IsFlat(f, n, seqs) /\ Flatten(seqs) = f[n]
  BY <1>1, FlattenIsFlat DEF n
<1> DEFINE h == [i \in 0..n |-> g[i]]
<1>5. \A i \in 0..m : g[i] = IF i = 0 THEN <<>> ELSE g[i - 1] \o more[i]
  BY <1>3, Zenon DEF IsFlat
<1>6. ASSUME NEW i \in 0..n PROVE h[i] = IF i = 0 THEN <<>> ELSE h[i - 1] \o seqs[i]
  <2>1. i \in 0..m /\ h[i] = g[i] /\ (i # 0 => more[i] = seqs[i])
    BY <1>1 DEF m
  <2>2. i # 0 => h[i - 1] = g[i - 1]
    BY <1>1
  <2> HIDE DEF h
  <2> QED
    BY <1>5, <2>1, <2>2, Zenon
<1>7. IsFlat(h, n, seqs)
  <2>1. h = [i \in 0..n |-> h[i]]
    OBVIOUS
  <2> HIDE DEF h
  <2> QED
    BY <1>6, <2>1, Zenon DEF IsFlat
<1>8. h = f
  BY <1>1, <1>4, <1>7, FlatUnique
<1>9. g[n] = f[n]
  BY <1>1, <1>8
<1>10. g[m] = g[n] \o s
  BY <1>1, <1>2, <1>5, Zenon
<1> QED
  BY <1>3, <1>4, <1>9, <1>10 DEF more

(* Prefixes grow by one element at a time. *)
Prefix(s, i) == SubSeq(s, 1, i)

LEMMA PrefixStep ==
    ASSUME NEW T, NEW s \in Seq(T), NEW i \in 1..Len(s)
    PROVE  /\ Prefix(s, i) = Append(Prefix(s, i - 1), s[i])
           /\ Prefix(s, i - 1) \in Seq(T) /\ s[i] \in T
<1>1. i - 1 \in 0..Len(s) /\ i \in 0..Len(s) /\ Len(s) \in Nat /\ i \in Nat
  OBVIOUS
<1>2. /\ Prefix(s, i - 1) \in Seq(T) /\ Prefix(s, i) \in Seq(T)
      /\ Len(Prefix(s, i - 1)) = i - 1 /\ Len(Prefix(s, i)) = i
      /\ \A k \in 1..(i - 1) : Prefix(s, i - 1)[k] = s[k]
      /\ \A k \in 1..i : Prefix(s, i)[k] = s[k]
  BY <1>1 DEF Prefix
<1> DEFINE a == Append(Prefix(s, i - 1), s[i])
<1>3. a \in Seq(T) /\ Len(a) = i /\ \A k \in 1..i : a[k] = s[k]
  BY <1>1, <1>2
<1> HIDE DEF a
<1>4. a = Prefix(s, i)
  BY <1>2, <1>3
<1> QED
  BY <1>2, <1>4 DEF a

LEMMA PrefixEnds ==
    ASSUME NEW T, NEW s \in Seq(T)
    PROVE  Prefix(s, 0) = <<>> /\ Prefix(s, Len(s)) = s
BY DEF Prefix

(* The flattening of sequences over T is a sequence over T. *)
LEMMA FlattenType ==
    ASSUME NEW T, NEW seqs \in Seq(Seq(T))
    PROVE  Flatten(seqs) \in Seq(T)
<1> DEFINE n == Len(seqs)
           G == {i \in Nat : Flatten(Prefix(seqs, i)) \in Seq(T)}
<1>1. n \in Nat /\ Prefix(seqs, 0) = <<>> /\ Prefix(seqs, n) = seqs
  BY PrefixEnds
<1>2. 0 \in G
  <2>1. Flatten(Prefix(seqs, 0)) = <<>>
    BY <1>1, FlattenEmpty, Zenon
  <2>2. <<>> \in Seq(T) /\ 0 \in Nat
    OBVIOUS
  <2> QED
    BY <2>1, <2>2, Zenon
<1>3. ASSUME NEW i \in 1..n, i - 1 \in G PROVE i \in G
  <2> DEFINE u == Prefix(seqs, i - 1)
  <2>1. Flatten(u) \in Seq(T) /\ i \in Nat
    BY <1>1, <1>3
  <2>2. Prefix(seqs, i) = Append(u, seqs[i]) /\ u \in Seq(Seq(T)) /\ seqs[i] \in Seq(T)
    BY PrefixStep
  <2> HIDE DEF u
  <2>3. Flatten(Prefix(seqs, i)) = Flatten(u) \o seqs[i]
    BY <2>1, <2>2, FlattenAppend, Zenon
  <2>4. Flatten(u) \o seqs[i] \in Seq(T)
    BY <2>1, <2>2
  <2> QED
    BY <2>1, <2>3, <2>4, Zenon
<1>4. n \in G
  <2>1. n \in Nat /\ n \in 0..n
    BY <1>1
  <2> HIDE DEF G, n
  <2> QED
    BY <1>2, <1>3, <2>1, UpTo, Zenon
<1> QED
  BY <1>1, <1>4

LEMMA ConcatNothing ==
    ASSUME NEW T, NEW s \in Seq(T)
    PROVE  s \o <<>> = s /\ <<>> \o s = s
OBVIOUS

Associates(a, b, x) == (a \o b) \o x = a \o (b \o x)

LEMMA ConcatAssociates ==
    ASSUME NEW T, NEW a \in Seq(T), NEW b \in Seq(T), NEW x \in Seq(T)
    PROVE  Associates(a, b, x)
BY DEF Associates

(* Flattening distributes over concatenation. *)
LEMMA FlattenConcat ==
    ASSUME NEW T, NEW s \in Seq(Seq(T)), NEW t \in Seq(Seq(T))
    PROVE  Flatten(s \o t) = Flatten(s) \o Flatten(t)
<1> DEFINE n == Len(t)
           G == {i \in Nat : Flatten(s \o Prefix(t, i))
                              = Flatten(s) \o Flatten(Prefix(t, i))}
<1>1. n \in Nat /\ Prefix(t, 0) = <<>> /\ Prefix(t, n) = t /\ Flatten(s) \in Seq(T)
  BY PrefixEnds, FlattenType
<1>2. 0 \in G
  <2>1. s \o Prefix(t, 0) = s
    BY <1>1, ConcatNothing
  <2>2. Flatten(s) \o Flatten(Prefix(t, 0)) = Flatten(s)
    BY <1>1, FlattenEmpty, ConcatNothing
  <2> QED
    BY <2>1, <2>2, Zenon
<1>3. ASSUME NEW i \in 1..n, i - 1 \in G PROVE i \in G
  <2> DEFINE u == Prefix(t, i - 1)
  <2>1. Flatten(s \o u) = Flatten(s) \o Flatten(u) /\ i \in Nat
    BY <1>1, <1>3
  <2>2. Prefix(t, i) = Append(u, t[i]) /\ u \in Seq(Seq(T)) /\ t[i] \in Seq(T)
    BY PrefixStep
  <2> DEFINE ST == Seq(T)
             x == t[i]
             a == Flatten(s)
             b == Flatten(u)
  <2> HIDE DEF u, x, ST
  <2>3. s \in Seq(ST) /\ u \in Seq(ST) /\ x \in ST /\ Prefix(t, i) = Append(u, x)
    BY <2>2 DEF ST, x
  <2>4. s \o Append(u, x) = Append(s \o u, x) /\ s \o u \in Seq(ST)
    <3>1. s \o Append(u, x) = Append(s \o u, x)
      BY <2>3
    <3>2. s \o u \in Seq(ST)
      BY <2>3, ConcatProperties, Zenon
    <3> QED
      BY <3>1, <3>2
  <2>5. a \in Seq(T) /\ b \in Seq(T) /\ Flatten(s \o u) \in Seq(T) /\ x \in Seq(T)
    BY <1>1, <2>3, <2>4, FlattenType, Zenon DEF ST
  <2>6. Flatten(Append(s \o u, x)) = Flatten(s \o u) \o x
    BY <2>4, <2>5, FlattenAppend, Zenon DEF ST
  <2>7. Flatten(Append(u, x)) = b \o x
    BY <2>3, <2>5, FlattenAppend, Zenon DEF ST
  <2> HIDE DEF a, b
  <2>8. (a \o b) \o x = a \o (b \o x)
    <3>1. Associates(a, b, x)
      BY <2>5, ConcatAssociates, Zenon
    <3> QED
      BY <3>1 DEF Associates
  <2> USE DEF a, b
  <2> QED
    BY <2>1, <2>3, <2>4, <2>6, <2>7, <2>8, Zenon
<1>4. n \in G
  <2>1. n \in Nat /\ n \in 0..n
    BY <1>1
  <2> HIDE DEF G, n
  <2> QED
    BY <1>2, <1>3, <2>1, UpTo, Zenon
<1> QED
  BY <1>1, <1>4, Zenon

(* When at most one of the sequences is not empty, the flattening is it. *)
LEMMA FlattenOnly ==
    ASSUME NEW T, NEW seqs \in Seq(Seq(T)), NEW k \in Nat, NEW only \in Seq(T),
           k \in 1..Len(seqs) => seqs[k] = only,
           k \notin 1..Len(seqs) => only = <<>>,
           \A i \in 1..Len(seqs) : i # k => seqs[i] = <<>>
    PROVE  Flatten(seqs) = only
<1> DEFINE n == Len(seqs)
           Want(i) == IF k <= i /\ k # 0 THEN only ELSE <<>>
           Bad == {i \in Nat : i <= n /\ Flatten(Prefix(seqs, i)) # Want(i)}
<1>1. n \in Nat /\ Prefix(seqs, 0) = <<>> /\ Prefix(seqs, n) = seqs
  BY PrefixEnds
<1>2. Bad = {}
  <2> SUFFICES ASSUME Bad # {} PROVE FALSE
    OBVIOUS
  <2>1. PICK i \in Bad : \A j \in Bad : i <= j
    BY LeastNatural, Zenon
  <2>2. i # 0
    BY <1>1, FlattenEmpty
  <2>3. i \in 1..n /\ i - 1 \in Nat /\ i - 1 \notin Bad /\ i - 1 <= n
    BY <1>1, <2>1, <2>2
  <2>4. Flatten(Prefix(seqs, i - 1)) = Want(i - 1)
    BY <2>3
  <2>5. /\ Prefix(seqs, i) = Append(Prefix(seqs, i - 1), seqs[i])
        /\ Prefix(seqs, i - 1) \in Seq(Seq(T)) /\ seqs[i] \in Seq(T)
    BY <2>3, PrefixStep
  <2>6. Flatten(Prefix(seqs, i - 1)) \in Seq(T)
    BY <2>5, FlattenType
  <2>7. Flatten(Prefix(seqs, i)) = Want(i - 1) \o seqs[i] /\ Want(i - 1) \in Seq(T)
    BY <2>4, <2>5, <2>6, FlattenAppend, Zenon
  <2>8. CASE i = k
    <3>1. Want(i - 1) = <<>> /\ Want(i) = only /\ seqs[i] = only
      BY <2>3, <2>8
    <3> QED
      BY <2>7, <3>1, ConcatNothing, Zenon
  <2>9. CASE i # k
    <3>1. Want(i) = Want(i - 1)
      BY <2>3, <2>9
    <3>2. seqs[i] = <<>>
      BY <2>3, <2>9
    <3> HIDE DEF Want
    <3> QED
      BY <2>7, <3>1, <3>2, ConcatNothing
  <2> QED
    BY <2>8, <2>9
<1>3. Flatten(seqs) = Want(n)
  BY <1>1, <1>2
<1>4. CASE k \in 1..n
  BY <1>1, <1>3, <1>4
<1>5. CASE k \notin 1..n
  BY <1>1, <1>3, <1>5
<1> QED
  BY <1>4, <1>5

(* Where the elements of each sequence are in the flattening. *)
LaidOut(seqs, e) ==
    /\ e \in [0..Len(seqs) -> Nat] /\ e[0] = 0
    /\ \A k \in 1..Len(seqs) : e[k] = e[k - 1] + Len(seqs[k])
    /\ \A j, k \in 0..Len(seqs) : j <= k => e[j] <= e[k]

FlatRuns(flat, seqs, e, T) ==
    /\ flat \in Seq(T) /\ Len(flat) = e[Len(seqs)]
    /\ \A k \in 1..Len(seqs) : \A p \in 1..Len(seqs[k]) : flat[e[k - 1] + p] = seqs[k][p]

LEMMA FlattenRuns ==
    ASSUME NEW T, NEW seqs \in Seq(Seq(T)), NEW e, LaidOut(seqs, e)
    PROVE  FlatRuns(Flatten(seqs), seqs, e, T)
<1> DEFINE n == Len(seqs)
           F(i) == Flatten(Prefix(seqs, i))
           Runs(f, i) == /\ Len(f) = e[i]
                         /\ \A k \in 1..i : \A p \in 1..Len(seqs[k]) :
                              f[e[k - 1] + p] = seqs[k][p]
           G == {i \in Nat : i <= n => Runs(F(i), i)}
<1>1. n \in Nat /\ Prefix(seqs, 0) = <<>> /\ Prefix(seqs, n) = seqs
  BY PrefixEnds
<1>a. /\ e[0] = 0 /\ (\A k \in 0..n : e[k] \in Nat)
      /\ \A k \in 1..n : e[k] = e[k - 1] + Len(seqs[k])
      /\ \A j, k \in 0..n : j <= k => e[j] <= e[k]
  BY DEF LaidOut
<1>b. \A k \in 1..n : Len(seqs[k]) \in Nat
  OBVIOUS
<1>2. 0 \in G
  <2>1. F(0) = <<>>
    BY <1>1, FlattenEmpty, Zenon
  <2>2. Len(<<>>) = e[0] /\ 1..0 = {} /\ 0 \in Nat
    BY <1>a
  <2>3. Runs(<<>>, 0)
    BY <2>2
  <2> HIDE DEF F, Runs
  <2> QED
    BY <2>1, <2>2, <2>3
<1>3. ASSUME NEW i \in 1..n, i - 1 \in G PROVE i \in G
  <2> DEFINE u == Prefix(seqs, i - 1)
             f == Flatten(u)
             x == seqs[i]
  <2>1. i \in Nat /\ i - 1 \in Nat /\ i - 1 <= n /\ i - 1 \in 0..n /\ i \in 0..n
    BY <1>1
  <2>2. Prefix(seqs, i) = Append(u, x) /\ u \in Seq(Seq(T)) /\ x \in Seq(T)
    BY PrefixStep
  <2>3. f \in Seq(T)
    BY <2>2, FlattenType
  <2>4. F(i) = f \o x
    BY <2>2, <2>3, FlattenAppend, Zenon
  <2>5. Len(f) = e[i - 1] /\ \A k \in 1..(i - 1) : \A p \in 1..Len(seqs[k]) :
                              f[e[k - 1] + p] = seqs[k][p]
    BY <1>3, <2>1, SMTT(20)
  <2>6. e[i] = e[i - 1] + Len(x) /\ e[i - 1] \in Nat /\ Len(x) \in Nat
    <3> HIDE DEF n
    <3> QED
      BY <1>a, <1>b, <2>1
  <2> HIDE DEF u, f, F, n
  <2> DEFINE g == f \o x
  <2>7. /\ Len(g) = e[i]
        /\ \A q \in 1..Len(f) : g[q] = f[q]
        /\ \A q \in 1..Len(x) : g[e[i - 1] + q] = x[q]
    <3>1. Len(g) = Len(f) + Len(x) /\ (\A q \in 1..Len(f) : g[q] = f[q])
          /\ \A q \in 1..Len(x) : g[Len(f) + q] = x[q]
      <4> HIDE DEF x
      <4> QED
        BY <2>2, <2>3
    <3> HIDE DEF g, x
    <3> QED
      BY <2>5, <2>6, <3>1
  <2> HIDE DEF g
  <2>8. ASSUME NEW k \in 1..i, NEW p \in 1..Len(seqs[k])
        PROVE  g[e[k - 1] + p] = seqs[k][p]
    <3>1. CASE k = i
      BY <2>7, <3>1
    <3>2. CASE k # i
      <4>1. k \in 1..(i - 1) /\ k \in 1..n /\ k \in 0..n /\ k - 1 \in 0..n /\ k <= i - 1
        BY <1>1, <2>1, <3>2
      <4>2. f[e[k - 1] + p] = seqs[k][p]
        BY <2>5, <4>1
      <4>3. e[k] = e[k - 1] + Len(seqs[k]) /\ e[k] <= e[i - 1] /\ e[k - 1] \in Nat
            /\ e[k] \in Nat /\ Len(seqs[k]) \in Nat
        BY <1>a, <1>b, <2>1, <4>1
      <4>5. p \in Nat /\ 1 <= p /\ p <= Len(seqs[k]) /\ Len(f) = e[i - 1]
        BY <2>5, <4>3
      <4>4. e[k - 1] + p \in 1..Len(f)
        <5> DEFINE a == e[k - 1]
                   b == e[k]
                   c == e[i - 1]
                   l == Len(seqs[k])
        <5>1. /\ a \in Nat /\ b \in Nat /\ c \in Nat /\ l \in Nat /\ p \in Nat
              /\ 1 <= p /\ p <= l /\ b = a + l /\ b <= c /\ Len(f) = c
          BY <2>6, <4>3, <4>5
        <5> HIDE DEF a, b, c, l
        <5>2. a + p \in 1..c
          BY <5>1
        <5> QED
          BY <5>1, <5>2 DEF a
      <4> QED
        BY <2>7, <4>2, <4>4
    <3> QED
      BY <3>1, <3>2
  <2>9. Runs(g, i)
    BY <2>7, <2>8
  <2> HIDE DEF Runs
  <2> QED
    BY <2>1, <2>4, <2>9, Zenon DEF g
<1>4. n \in G
  <2>1. n \in Nat /\ n \in 0..n
    BY <1>1
  <2> HIDE DEF G, n
  <2> QED
    BY <1>2, <1>3, <2>1, UpTo, Zenon
<1>5. Runs(F(n), n)
  <2> HIDE DEF Runs, F, n
  <2> QED
    BY <1>1, <1>4
<1>6. F(n) = Flatten(seqs)
  BY <1>1, Zenon
<1>7. Flatten(seqs) \in Seq(T)
  BY FlattenType
<1>8. Runs(Flatten(seqs), n)
  BY <1>5, <1>6, Zenon
<1> QED
  BY <1>7, <1>8 DEF FlatRuns
-------------------------------------------------------------------------------
(* Queues of segments, and the segments of a batch: no segment is empty.   *)
Segments == [commitSeq : Nat, left : Nat \ {0}]
Pieces == [commitSeq : Nat, records : Nat \ {0}, complete : BOOLEAN]
SegmentSeq == Seq(Segments)
PieceSeq == Seq(Pieces)

PieceEnds(pieces) == Ends([j \in DOMAIN pieces |-> pieces[j].records])

LEMMA PieceIsPiece ==
    ASSUME NEW c \in Nat, NEW r \in Nat \ {0}, NEW b \in BOOLEAN
    PROVE  [commitSeq |-> c, records |-> r, complete |-> b] \in Pieces
BY DEF Pieces

(* Segments end one after the other. *)
LEMMA SegmentEndsFacts ==
    ASSUME NEW segments \in SegmentSeq
    PROVE  /\ Len(segments) \in Nat /\ DOMAIN segments = 1..Len(segments)
           /\ SegmentEnds(segments) \in [0..Len(segments) -> Nat]
           /\ SegmentEnds(segments)[0] = 0
           /\ \A k \in 1..Len(segments) :
                /\ segments[k].left \in Nat /\ segments[k].left > 0
                /\ segments[k].commitSeq \in Nat
                /\ SegmentEnds(segments)[k] = SegmentEnds(segments)[k - 1] + segments[k].left
           /\ \A j, k \in 0..Len(segments) :
                /\ j <= k => SegmentEnds(segments)[j] <= SegmentEnds(segments)[k]
                /\ j < k => SegmentEnds(segments)[j] < SegmentEnds(segments)[k]
<1> DEFINE n == Len(segments)
           f == [k \in DOMAIN segments |-> segments[k].left]
           e == SegmentEnds(segments)
<1>1. n \in Nat /\ DOMAIN segments = 1..n
  BY DEF SegmentSeq
<1>2. \A k \in 1..n : segments[k] \in Segments
  BY DEF SegmentSeq
<1>3. \A k \in 1..n : segments[k].left \in Nat /\ segments[k].left > 0
                          /\ segments[k].commitSeq \in Nat
  BY <1>2 DEF Segments
<1>4. f = [k \in 1..n |-> segments[k].left] /\ f \in Seq(Nat) /\ Len(f) = n
  BY <1>1, <1>3
<1>5. \A k \in 1..n : f[k] = segments[k].left /\ f[k] \in Nat
  BY <1>1, <1>3
<1>6. e = Ends(f)
  BY DEF SegmentEnds
<1> HIDE DEF n, f, e
<1>7. /\ e \in [0..n -> Nat] /\ e[0] = 0
      /\ \A k \in 1..n : e[k] = e[k - 1] + f[k]
      /\ \A j, k \in 0..n : j <= k => e[j] <= e[k]
  BY <1>1, <1>4, <1>5, <1>6, EndsFacts, Zenon
<1>8. ASSUME NEW j \in 0..n, NEW k \in 0..n, j < k PROVE e[j] < e[k]
  <2>1. k \in 1..n /\ k - 1 \in 0..n /\ j <= k - 1
    BY <1>1, <1>8
  <2>2. e[j] <= e[k - 1] /\ e[k] = e[k - 1] + f[k] /\ f[k] \in Nat /\ f[k] > 0
    BY <1>3, <1>5, <1>7, <2>1
  <2>3. e[j] \in Nat /\ e[k - 1] \in Nat /\ e[k] \in Nat
    BY <1>7, <2>1
  <2> QED
    BY <2>2, <2>3
<1> QED
  BY <1>1, <1>3, <1>5, <1>7, <1>8 DEF n, e

Earlier(a, b) == IF a < b THEN a ELSE b
Later(a, b) == IF a > b THEN a ELSE b

(* Piece j of the batch of the records from + 1 .. to is cut from segment  *)
(* k: they share the records that are in the batch and in the segment.     *)
CutFrom(segments, from, to, j, k) ==
    LET e == SegmentEnds(segments)
        d == PieceEnds(Consume(segments, from, to))
    IN  /\ e[k] > from /\ e[k - 1] < to
        /\ Consume(segments, from, to)[j] = Piece(segments[k], e[k - 1], e[k], from, to)
        /\ d[j - 1] + from = Later(e[k - 1], from)
        /\ d[j] + from = Earlier(e[k], to)

(* The pieces that consume returns for the records from + 1 .. to: laid    *)
(* end to end they cover exactly those records, and there is one for every *)
(* segment that has some of them.                                          *)
LEMMA ConsumeFacts ==
    ASSUME NEW segments \in SegmentSeq, NEW from \in Nat, NEW to \in Nat, from < to,
           to <= SegmentEnds(segments)[Len(segments)]
    PROVE  LET e == SegmentEnds(segments)
               out == Consume(segments, from, to)
               d == PieceEnds(out)
           IN  /\ out \in PieceSeq
               /\ d \in [0..Len(out) -> Nat] /\ d[0] = 0 /\ d[Len(out)] = to - from
               /\ \A j \in 1..Len(out) : d[j - 1] < d[j]
               /\ \A j \in 1..Len(out) : \E k \in 1..Len(segments) :
                    CutFrom(segments, from, to, j, k)
               /\ \A k \in 1..Len(segments) : e[k] > from /\ e[k - 1] < to =>
                    \E j \in 1..Len(out) : CutFrom(segments, from, to, j, k)
<1> DEFINE n == Len(segments)
           e == SegmentEnds(segments)
           A == {k \in DOMAIN segments : e[k] > from /\ e[k - 1] < to}
           at == Ascending(A)
           m == Cardinality(A)
           out == Consume(segments, from, to)
           Hi(k) == Earlier(e[k], to)
           Lo(k) == Later(e[k - 1], from)
<1>1. /\ n \in Nat /\ DOMAIN segments = 1..n
      /\ e \in [0..n -> Nat] /\ e[0] = 0
      /\ \A k \in 1..n : segments[k].commitSeq \in Nat
      /\ \A j, k \in 0..n : (j <= k => e[j] <= e[k]) /\ (j < k => e[j] < e[k])
  BY SegmentEndsFacts, Zenon
<1>2. A \subseteq 1..n
  BY <1>1
<1>3. /\ m \in Nat /\ at \in [1..m -> A]
      /\ \A i, j \in 1..m : i < j => at[i] < at[j]
      /\ \A x \in A : \E i \in 1..m : at[i] = x
  <2> HIDE DEF A
  <2>1. A \subseteq Nat /\ IsFiniteSet(A)
    BY <1>1, <1>2, Positions
  <2> QED
    BY <2>1, AscendingFacts, Zenon
<1>4. out = [j \in 1..m |-> Piece(segments[at[j]], e[at[j] - 1], e[at[j]], from, to)]
  BY <1>3 DEF Consume
<1>5. to <= e[n]
  OBVIOUS
<1> HIDE DEF e, n, at, m, out
<1>6. \A k \in A : k \in 1..n /\ k - 1 \in 0..n /\ e[k] \in Nat /\ e[k - 1] \in Nat
                     /\ e[k] > from /\ e[k - 1] < to /\ e[k - 1] < e[k]
  BY <1>1, <1>2
<1>a. \A k \in 1..n : e[k] > from /\ e[k - 1] < to => k \in A
  BY <1>1
<1> HIDE DEF A
<1>b. n \in Nat /\ m \in Nat
  BY <1>1, <1>3
<1> USE <1>b
<1>7. \A j \in 1..m : at[j] \in A
  BY <1>3
<1>c. \A k \in A : k \in Nat
  BY <1>6
\* at lists a run of neighbours
<1>8. ASSUME NEW j \in 1..m, j - 1 \in 1..m PROVE at[j] - 1 = at[j - 1]
  <2> SUFFICES ASSUME at[j] - 1 # at[j - 1] PROVE FALSE
    OBVIOUS
  <2> DEFINE k == at[j] - 1
  <2>1. at[j - 1] < at[j] /\ at[j] \in A /\ at[j - 1] \in A
    BY <1>3, <1>8
  <2>2. /\ at[j - 1] < k /\ k \in 1..n /\ k - 1 \in 0..n /\ at[j - 1] \in 0..n /\ k \in 0..n
        /\ at[j] \in Nat /\ e[k] < to /\ from < e[at[j - 1]]
    <3>1. at[j] \in 1..n /\ at[j - 1] \in 1..n /\ e[k] < to /\ from < e[at[j - 1]]
      BY <1>6, <2>1
    <3>2. at[j] \in Nat /\ at[j - 1] \in Nat
      BY <3>1
    <3>3. at[j - 1] < at[j] - 1
      BY <2>1, <3>2
    <3> QED
      BY <3>1, <3>2, <3>3
  <2>0. k < at[j]
    BY <2>2
  <2> HIDE DEF k
  <2>3. e[at[j - 1]] <= e[k] /\ e[k - 1] <= e[k]
    BY <1>1, <2>2
  <2>4. e[k] \in Nat /\ e[k - 1] \in Nat /\ e[at[j - 1]] \in Nat
    BY <1>1, <2>2
  <2>5. k \in A
    <3> DEFINE u == e[at[j - 1]]
               v == e[k]
               w == e[k - 1]
    <3>1. v < to /\ from < u /\ u <= v /\ w <= v
      BY <2>2, <2>3, Zenon
    <3>2. u \in Nat /\ v \in Nat /\ w \in Nat
      BY <2>4, Zenon
    <3> HIDE DEF u, v, w
    <3>3. v > from /\ w < to
      BY <3>1, <3>2
    <3> QED
      BY <1>a, <2>2, <3>3 DEF v, w
  <2>6. PICK l \in 1..m : at[l] = k
    BY <1>3, <2>5
  <2>7. at[j - 1] < at[l] /\ at[l] < at[j] /\ at[l] \in Nat
    BY <2>0, <2>2, <2>6
  <2>8. at[j] \in Nat /\ at[j - 1] \in Nat
    BY <1>c, <2>1
  <2>9. l # j /\ l # j - 1 /\ ~(l < j - 1) /\ ~(j < l)
    BY <1>3, <1>8, <2>7, <2>8
  <2> QED
    BY <2>9
\* at starts at the first record of the batch and ends with the last
<1>10. m # 0 /\ e[at[1] - 1] <= from
  <2> DEFINE R == {k \in Nat : k <= n /\ e[k] > from}
  <2>1. n \in R
    BY <1>1, <1>5
  <2>2. PICK k \in R : \A j \in R : k <= j
    BY <2>1, LeastNatural, Zenon
  <2>3. k \in 1..n
    BY <1>1, <2>2
  <2>4. k - 1 \notin R /\ k - 1 \in 0..n /\ e[k - 1] \in Nat
    BY <1>1, <2>2, <2>3
  <2>5. k \in A /\ e[k - 1] <= from
    BY <1>a, <2>2, <2>3, <2>4
  <2>6. PICK i \in 1..m : at[i] = k
    BY <1>3, <2>5
  <2>7. at[1] \in A /\ 1 \in 1..m /\ at[1] <= at[i] /\ at[1] \in R
    <3>1. 1 \in 1..m /\ (i = 1 \/ 1 < i)
      OBVIOUS
    <3>2. at[1] \in A /\ at[1] \in R /\ at[i] \in Nat /\ at[1] \in Nat
      BY <1>6, <1>7, <3>1
    <3> QED
      BY <1>3, <3>1, <3>2
  <2>8. at[1] = k
    BY <2>2, <2>3, <2>6, <2>7, <1>6
  <2> QED
    BY <2>5, <2>7, <2>8
<1>11. e[at[m]] >= to
  <2> DEFINE R == {k \in Nat : k <= n /\ e[k] >= to}
  <2>1. n \in R
    BY <1>1, <1>5
  <2>2. PICK k \in R : \A j \in R : k <= j
    BY <2>1, LeastNatural, Zenon
  <2>3. k \in 1..n
    BY <1>1, <2>2
  <2>4. k - 1 \notin R /\ k - 1 \in 0..n /\ e[k - 1] \in Nat /\ e[k] \in Nat
    BY <1>1, <2>2, <2>3
  <2>5. k \in A
    BY <1>a, <2>2, <2>3, <2>4
  <2>6. PICK i \in 1..m : at[i] = k
    BY <1>3, <2>5
  <2>7. m \in 1..m /\ (i = m \/ i < m)
    OBVIOUS
  <2>8. at[m] \in 1..n /\ at[m] \in 0..n
    BY <1>6, <1>7, <2>7
  <2>9. k <= at[m]
    BY <1>3, <2>3, <2>6, <2>7, <2>8
  <2>10. e[k] <= e[at[m]] /\ e[at[m]] \in Nat
    BY <1>1, <2>3, <2>8, <2>9
  <2> QED
    BY <2>2, <2>4, <2>10
\* where each piece starts and ends, counted from the batch's first record
<1>d. \A k \in A : /\ Hi(k) \in Nat /\ Lo(k) \in Nat /\ from < Hi(k) /\ from <= Lo(k)
                    /\ Lo(k) < Hi(k)
  BY <1>6 DEF Earlier, Later
<1> DEFINE d == [j \in 0..m |-> IF j = 0 THEN 0 ELSE Hi(at[j]) - from]
<1>e. d[0] = 0 /\ \A j \in 1..m : d[j] = Hi(at[j]) - from
  OBVIOUS
<1>f. d = [j \in 0..m |-> d[j]]
  OBVIOUS
<1> HIDE DEF d
<1>g. ASSUME NEW j \in 1..m PROVE d[j - 1] = Lo(at[j]) - from
  <2>1. at[j] \in A /\ e[at[j] - 1] \in Nat
    BY <1>6, <1>7
  <2>2. CASE j = 1
    <3>1. Lo(at[j]) = from
      BY <1>10, <2>1, <2>2 DEF Later
    <3> QED
      BY <1>e, <2>2, <3>1
  <2>3. CASE j # 1
    <3>1. j - 1 \in 1..m
      BY <2>3
    <3>2. at[j] - 1 = at[j - 1]
      BY <1>8, <3>1
    <3>3. e[at[j - 1]] > from /\ e[at[j - 1]] \in Nat /\ e[at[j - 1]] < to
      BY <1>6, <1>7, <2>1, <3>1, <3>2
    <3>4. Lo(at[j]) = e[at[j - 1]] /\ Hi(at[j - 1]) = e[at[j - 1]]
      BY <3>2, <3>3 DEF Earlier, Later
    <3> QED
      BY <1>e, <3>1, <3>4
  <2> QED
    BY <2>2, <2>3
<1>12. ASSUME NEW j \in 1..m
       PROVE  /\ d[j] \in Nat /\ d[j - 1] \in Nat /\ d[j - 1] < d[j]
              /\ d[j] + from = Hi(at[j]) /\ d[j - 1] + from = Lo(at[j])
              /\ d[j] - d[j - 1] = Hi(at[j]) - Lo(at[j])
  <2> HIDE DEF Hi, Lo
  <2>1. d[j] = Hi(at[j]) - from /\ d[j - 1] = Lo(at[j]) - from
    BY <1>e, <1>g
  <2>2. /\ Hi(at[j]) \in Nat /\ Lo(at[j]) \in Nat /\ from < Hi(at[j]) /\ from <= Lo(at[j])
        /\ Lo(at[j]) < Hi(at[j])
    BY <1>7, <1>d
  <2> QED
    BY <2>1, <2>2, SMTT(20)
<1>13. \A j \in 1..m :
         /\ out[j] = Piece(segments[at[j]], e[at[j] - 1], e[at[j]], from, to)
         /\ out[j] = [commitSeq |-> segments[at[j]].commitSeq, records |-> out[j].records,
                      complete |-> e[at[j]] <= to]
         /\ out[j].records = Hi(at[j]) - Lo(at[j])
  BY <1>4 DEF Piece, Earlier, Later
<1>14. \A j \in 1..m : out[j].records = d[j] - d[j - 1] /\ out[j].records \in Nat \ {0}
  <2> HIDE DEF Hi, Lo
  <2> SUFFICES ASSUME NEW j \in 1..m
               PROVE  out[j].records = d[j] - d[j - 1] /\ out[j].records \in Nat \ {0}
    OBVIOUS
  <2>1. out[j].records = d[j] - d[j - 1]
    BY <1>12, <1>13, Zenon
  <2>2. d[j] \in Nat /\ d[j - 1] \in Nat /\ d[j - 1] < d[j]
    BY <1>12
  <2> QED
    BY <2>1, <2>2
<1> HIDE DEF Hi, Lo
<1>15. out \in PieceSeq /\ Len(out) = m /\ DOMAIN out = 1..m
  <2>1. \A j \in 1..m : out[j] \in Pieces
    <3> SUFFICES ASSUME NEW j \in 1..m PROVE out[j] \in Pieces
      OBVIOUS
    <3>1. segments[at[j]].commitSeq \in Nat
      BY <1>1, <1>6, <1>7
    <3>2. out[j].records \in Nat \ {0}
      BY <1>14
    <3>3. (e[at[j]] <= to) \in BOOLEAN
      BY <1>6, <1>7
    <3> QED
      BY <1>13, <3>1, <3>2, <3>3, PieceIsPiece, Zenon
  <2>2. out = [j \in 1..m |-> out[j]]
    BY <1>4
  <2> QED
    BY <2>1, <2>2 DEF PieceSeq
<1> DEFINE r == [j \in DOMAIN out |-> out[j].records]
<1>16. Len(r) = m /\ \A j \in 1..m : r[j] = out[j].records
  BY <1>15
<1>h. PieceEnds(out) = Ends(r)
  BY DEF PieceEnds
<1> HIDE DEF r
<1>17. PieceEnds(out) = d
  <2>1. \A j \in 0..m : d[j] = IF j = 0 THEN 0 ELSE d[j - 1] + r[j]
    <3> SUFFICES ASSUME NEW j \in 0..m, j # 0 PROVE d[j] = d[j - 1] + r[j]
      BY <1>e
    <3>1. j \in 1..m
      OBVIOUS
    <3>2. r[j] = d[j] - d[j - 1] /\ d[j] \in Nat /\ d[j - 1] \in Nat
      BY <1>12, <1>14, <1>16, <3>1, Zenon
    <3> QED
      BY <3>2
  <2>3. IsEnds(d, m, r)
    BY <1>f, <2>1, Zenon DEF IsEnds
  <2>4. IsEnds(Ends(r), m, r)
    BY <1>16, EndsAreEnds
  <2>5. d = Ends(r)
    BY <2>3, <2>4, EndsUnique
  <2> QED
    BY <1>h, <2>5
<1>18. d \in [0..m -> Nat]
  <2>1. \A j \in 0..m : d[j] \in Nat
    BY <1>e, <1>12
  <2> QED
    BY <1>f, <2>1
<1>19. d[m] = to - from
  <2>1. m \in 1..m /\ e[at[m]] \in Nat
    BY <1>6, <1>7, <1>10
  <2>2. Hi(at[m]) = to
    BY <1>11, <2>1 DEF Hi, Earlier
  <2> QED
    BY <1>e, <2>1, <2>2
<1>20. ASSUME NEW j \in 1..m
       PROVE  CutFrom(segments, from, to, j, at[j])
  <2>1. at[j] \in 1..n /\ e[at[j]] > from /\ e[at[j] - 1] < to
    BY <1>6, <1>7
  <2>2. /\ e[at[j]] > from /\ e[at[j] - 1] < to
        /\ out[j] = Piece(segments[at[j]], e[at[j] - 1], e[at[j]], from, to)
        /\ PieceEnds(out)[j - 1] + from = Lo(at[j]) /\ PieceEnds(out)[j] + from = Hi(at[j])
    BY <1>12, <1>13, <1>17, <2>1, Zenon
  <2> QED
    BY <2>2 DEF CutFrom, out, e, Hi, Lo
<1>21. ASSUME NEW k \in 1..n, e[k] > from, e[k - 1] < to
       PROVE  \E j \in 1..m : CutFrom(segments, from, to, j, k)
  <2>1. k \in A
    BY <1>a, <1>21
  <2>2. PICK j \in 1..m : at[j] = k
    BY <1>3, <2>1
  <2> QED
    BY <1>20, <2>2
<1>22. \A j \in 1..m : at[j] \in 1..n
  BY <1>6, <1>7
<1> QED
  BY <1>e, <1>12, <1>15, <1>17, <1>18, <1>19, <1>20, <1>21, <1>22, Zenon DEF out, e, n

(* Segment j of the queue is what is left of segment k of an earlier queue *)
(* once count records are gone.                                            *)
LeftOf(segments, count, j, k) ==
    LET e == SegmentEnds(segments)
        d == SegmentEnds(Unconsumed(segments, count))
    IN  /\ e[k] > count
        /\ Unconsumed(segments, count)[j].commitSeq = segments[k].commitSeq
        /\ d[j - 1] + count = Later(e[k - 1], count)
        /\ d[j] + count = e[k]

(* The segments that stay in the queue cover the records that stay. *)
LEMMA UnconsumedFacts ==
    ASSUME NEW segments \in SegmentSeq, NEW count \in Nat,
           count <= SegmentEnds(segments)[Len(segments)]
    PROVE  LET e == SegmentEnds(segments)
               rest == Unconsumed(segments, count)
               d == SegmentEnds(rest)
           IN  /\ rest \in SegmentSeq
               /\ d[Len(rest)] = e[Len(segments)] - count
               /\ \A j \in 1..Len(rest) : \E k \in 1..Len(segments) :
                    LeftOf(segments, count, j, k)
               /\ \A k \in 1..Len(segments) : e[k] > count =>
                    \E j \in 1..Len(rest) : LeftOf(segments, count, j, k)
<1> DEFINE n == Len(segments)
           e == SegmentEnds(segments)
           A == {k \in DOMAIN segments : e[k] > count}
           B == {k \in DOMAIN segments : e[k] > count /\ e[k - 1] < e[n]}
           at == Ascending(A)
           rest == Unconsumed(segments, count)
           out == Consume(segments, count, e[n])
<1>1. /\ n \in Nat /\ DOMAIN segments = 1..n
      /\ e \in [0..n -> Nat] /\ e[0] = 0
      /\ \A j, k \in 0..n : (j <= k => e[j] <= e[k]) /\ (j < k => e[j] < e[k])
  BY SegmentEndsFacts
<1>2. e[n] \in Nat /\ count <= e[n]
  BY <1>1
<1>3. A = B
  <2> HIDE DEF n, e
  <2>1. ASSUME NEW k \in 1..n PROVE e[k - 1] < e[n]
    BY <1>1
  <2> QED
    BY <1>1, <2>1
<1>4. rest = [j \in DOMAIN at |->
                [commitSeq |-> segments[at[j]].commitSeq,
                 left |-> e[at[j]] - (IF e[at[j] - 1] > count THEN e[at[j] - 1] ELSE count)]]
  BY DEF Unconsumed
<1>5. out = [j \in DOMAIN at |->
                Piece(segments[at[j]], e[at[j] - 1], e[at[j]], count, e[n])]
  BY <1>3, Zenon DEF Consume
<1>6. at \in [1..Cardinality(A) -> A] /\ Cardinality(A) \in Nat
  <2>1. A \subseteq 1..n
    BY <1>1
  <2> HIDE DEF A
  <2>2. A \subseteq Nat /\ IsFiniteSet(A)
    BY <1>1, <2>1, Positions
  <2> QED
    BY <2>2, AscendingFacts, Zenon
<1>7. \A j \in DOMAIN at : at[j] \in 1..n /\ e[at[j]] > count
  <2>1. \A j \in DOMAIN at : at[j] \in A
    <3> HIDE DEF A, at
    <3> QED
      BY <1>6
  <2> HIDE DEF n, e, at
  <2> QED
    BY <1>1, <2>1
<1> HIDE DEF n, e, at, rest, out
<1>8. CASE count = e[n]
  <2>1. A = {}
    <3>1. ASSUME NEW k \in 1..n PROVE e[k] <= e[n] /\ e[k] \in Nat
      BY <1>1
    <3> QED
      BY <1>1, <1>2, <1>8, <3>1
  <2>2. DOMAIN at = 1..0
    BY <1>6, <2>1, FS_EmptySet, Zenon
  <2>3. rest = << >>
    BY <1>4, <2>2
  <2>4. rest \in SegmentSeq /\ Len(rest) = 0
    BY <2>3 DEF SegmentSeq
  <2>5. SegmentEnds(rest)[0] = 0
    BY <2>4, SegmentEndsFacts
  <2>6. \A k \in 1..n : ~(e[k] > count)
    BY <1>1, <2>1
  <2> QED
    BY <1>2, <1>8, <2>4, <2>5, <2>6 DEF n, e, rest
<1>9. CASE count < e[n]
  <2> DEFINE d == PieceEnds(out)
  <2>1. /\ out \in PieceSeq
        /\ d \in [0..Len(out) -> Nat] /\ d[0] = 0 /\ d[Len(out)] = e[n] - count
        /\ \A j \in 1..Len(out) : \E k \in 1..n : CutFrom(segments, count, e[n], j, k)
        /\ \A k \in 1..n : e[k] > count /\ e[k - 1] < e[n] =>
             \E j \in 1..Len(out) : CutFrom(segments, count, e[n], j, k)
    BY <1>2, <1>9, ConsumeFacts DEF out, e, n
  <2>2. Len(out) \in Nat /\ DOMAIN out = 1..Len(out) /\ \A j \in 1..Len(out) : out[j] \in Pieces
    BY <2>1 DEF PieceSeq
  <2>3. DOMAIN out = DOMAIN at /\ DOMAIN rest = DOMAIN at
    BY <1>4, <1>5
  <2>4. ASSUME NEW j \in DOMAIN at
        PROVE  rest[j] = [commitSeq |-> out[j].commitSeq, left |-> out[j].records]
               /\ out[j].commitSeq = segments[at[j]].commitSeq
    <3>1. at[j] \in 1..n /\ e[at[j]] \in Nat /\ e[at[j]] <= e[n]
      BY <1>1, <1>7
    <3>2. (IF e[at[j]] < e[n] THEN e[at[j]] ELSE e[n]) = e[at[j]]
      BY <1>2, <3>1
    <3> QED
      BY <1>4, <1>5, <3>2 DEF Piece
  <2>5. rest \in SegmentSeq /\ Len(rest) = Len(out)
    <3>1. ASSUME NEW j \in 1..Len(out) PROVE rest[j] \in Segments
      BY <2>2, <2>3, <2>4, <3>1 DEF Segments, Pieces
    <3>2. rest = [j \in 1..Len(out) |-> rest[j]]
      BY <1>4, <2>2, <2>3
    <3> QED
      BY <2>2, <3>1, <3>2 DEF SegmentSeq
  <2>6. SegmentEnds(rest) = d
    <3>1. ASSUME NEW j \in DOMAIN at PROVE rest[j].left = out[j].records
      <4>1. rest[j] = [commitSeq |-> out[j].commitSeq, left |-> out[j].records]
        BY <2>4
      <4> QED
        BY <4>1
    <3>2. [k \in DOMAIN rest |-> rest[k].left] = [j \in DOMAIN out |-> out[j].records]
      BY <2>3, <3>1
    <3> QED
      BY <3>2 DEF SegmentEnds, PieceEnds
  <2>7. ASSUME NEW j \in 1..Len(out), NEW k \in 1..n, CutFrom(segments, count, e[n], j, k)
        PROVE  LeftOf(segments, count, j, k)
    <3>1. /\ e[k] > count
          /\ out[j] = Piece(segments[k], e[k - 1], e[k], count, e[n])
          /\ d[j - 1] + count = Later(e[k - 1], count)
          /\ d[j] + count = Earlier(e[k], e[n])
      BY <2>7 DEF CutFrom, e, out
    <3>2. out[j].commitSeq = segments[k].commitSeq
      BY <3>1 DEF Piece
    <3>3. rest[j].commitSeq = segments[k].commitSeq
      BY <2>2, <2>3, <2>4, <3>2
    <3>4. e[k] \in Nat /\ e[k] <= e[n]
      BY <1>1
    <3>5. d[j] + count = e[k]
      BY <1>2, <3>1, <3>4 DEF Earlier
    <3> QED
      BY <2>6, <3>1, <3>3, <3>5 DEF LeftOf, e, rest
  <2>8. \A k \in 1..n : e[k - 1] < e[n]
    BY <1>1
  <2> HIDE DEF d
  <2> QED
    BY <2>1, <2>5, <2>6, <2>7, <2>8 DEF rest, e, n
<1> QED
  BY <1>2, <1>8, <1>9
-------------------------------------------------------------------------------
(* chunk[t] stands for the records of ticket t, in order.  The records of  *)
(* a buffer are, segment by segment, the last ones of their chunks.        *)
Buffered(records, segments, chunk) ==
    LET e == SegmentEnds(segments)
    IN  /\ segments \in SegmentSeq
        /\ e[Len(segments)] = Len(records)
        /\ \A k \in 1..Len(segments) :
             LET all == chunk[segments[k].commitSeq]
             IN  /\ segments[k].left <= Len(all)
                 /\ \A p \in 1..Len(records) : e[k - 1] < p /\ p <= e[k] =>
                      records[p] = all[Len(all) - (e[k] - p)]

(* Piece j of a batch is a run of the records of its ticket up to number   *)
(* last, and it is complete when that is the last record of the chunk.     *)
RunUpTo(records, pieces, chunk, j, last) ==
    LET d == PieceEnds(pieces)
        all == chunk[pieces[j].commitSeq]
    IN  /\ last \in 1..Len(all) /\ pieces[j].records <= last
        /\ pieces[j].complete <=> last = Len(all)
        /\ \A p \in 1..Len(records) : d[j - 1] < p /\ p <= d[j] =>
             records[p] = all[last - (d[j] - p)]

Batched(records, pieces, chunk) ==
    /\ pieces \in PieceSeq
    /\ PieceEnds(pieces)[Len(pieces)] = Len(records)
    /\ \A j \in 1..Len(pieces) : \E last \in Nat : RunUpTo(records, pieces, chunk, j, last)

(* The overlap of a batch from + 1 .. to with a segment at start + 1 .. end *)
(* that holds the last records of a chunk of the given size.               *)
IsOverlap(start, end, size, from, to) ==
    LET hi == Earlier(end, to)
        lo == Later(start, from)
        last == size - (end - hi)
    IN  /\ last \in 1..size /\ hi - lo <= last /\ ((end <= to) <=> last = size)
        /\ \A p, d, b \in Nat : d + from = hi /\ b + from = lo /\ b < p /\ p <= d =>
             /\ start < from + p /\ from + p <= end /\ from + p <= to
             /\ last - (d - p) = size - (end - (from + p))

LEMMA Overlap ==
    ASSUME NEW start \in Nat, NEW end \in Nat, NEW size \in Nat, NEW from \in Nat,
           NEW to \in Nat, start < end, from < end, start < to, from < to,
           end - start <= size
    PROVE  IsOverlap(start, end, size, from, to)
BY DEF IsOverlap, Earlier, Later

(* What a batch of a buffer's records from + 1 .. to has of a chunk. *)
LEMMA CutRecords ==
    ASSUME NEW R, NEW records \in Seq(R), NEW segments, NEW chunk,
           Buffered(records, segments, chunk),
           NEW from \in Nat, NEW to \in Nat, from < to, to <= Len(records),
           NEW k \in 1..Len(segments), Len(chunk[segments[k].commitSeq]) \in Nat,
           NEW j \in 1..Len(Consume(segments, from, to)),
           CutFrom(segments, from, to, j, k)
    PROVE  LET e == SegmentEnds(segments)
               out == Consume(segments, from, to)
               hi == Earlier(e[k], to)
           IN  /\ out[j].commitSeq = segments[k].commitSeq
               /\ RunUpTo(SubSeq(records, from + 1, to), out, chunk, j,
                          Len(chunk[segments[k].commitSeq]) - (e[k] - hi))
<1> DEFINE n == Len(segments)
           e == SegmentEnds(segments)
           out == Consume(segments, from, to)
           d == PieceEnds(out)
           t == segments[k].commitSeq
           size == Len(chunk[t])
           hi == Earlier(e[k], to)
           lo == Later(e[k - 1], from)
           last == size - (e[k] - hi)
           part == SubSeq(records, from + 1, to)
<1>1. /\ segments \in SegmentSeq /\ e[n] = Len(records)
      /\ segments[k].left <= size
      /\ \A p \in 1..Len(records) : e[k - 1] < p /\ p <= e[k] =>
           records[p] = chunk[t][size - (e[k] - p)]
  BY DEF Buffered
<1>2. /\ e[k] \in Nat /\ e[k - 1] \in Nat /\ e[k] = e[k - 1] + segments[k].left
      /\ segments[k].left \in Nat /\ segments[k].left > 0 /\ e[k] <= e[n]
  <2>1. k \in 0..n /\ k - 1 \in 0..n /\ n \in 0..n /\ k <= n
    BY <1>1, SegmentEndsFacts
  <2> QED
    BY <1>1, <2>1, SegmentEndsFacts, Zenon
<1>3. Len(records) \in Nat /\ size \in Nat
  OBVIOUS
<1>4. /\ e[k] > from /\ e[k - 1] < to
      /\ out[j] = Piece(segments[k], e[k - 1], e[k], from, to)
      /\ d[j - 1] + from = lo /\ d[j] + from = hi
  BY DEF CutFrom
<1>5. out[j].commitSeq = t /\ out[j].complete = (e[k] <= to) /\ out[j].records = hi - lo
  BY <1>4 DEF Piece, Earlier, Later
<1>6. d[j] \in Nat /\ d[j - 1] \in Nat
  <2>1. /\ out \in PieceSeq /\ d \in [0..Len(out) -> Nat]
    BY <1>1, ConsumeFacts
  <2>2. j \in 0..Len(out) /\ j - 1 \in 0..Len(out)
    BY <2>1 DEF PieceSeq
  <2> HIDE DEF out, d
  <2> QED
    BY <2>1, <2>2, SMTT(20)
<1>7. \A p \in 1..(to - from) : part[p] = records[from + p]
  BY <1>3
<1>8. Len(part) = to - from
  BY <1>3
<1> HIDE DEF n, e, out, d, t, size, part
<1>9. /\ last \in 1..size /\ hi - lo <= last /\ ((e[k] <= to) <=> last = size)
      /\ \A p, x, y \in Nat : x + from = hi /\ y + from = lo /\ y < p /\ p <= x =>
           /\ e[k - 1] < from + p /\ from + p <= e[k] /\ from + p <= to
           /\ last - (x - p) = size - (e[k] - (from + p))
  <2>1. e[k - 1] < e[k]
    BY <1>2
  <2>2. e[k] - e[k - 1] <= size
    BY <1>1, <1>2, SMTT(20)
  <2>3. e[k] \in Nat /\ e[k - 1] \in Nat /\ from < e[k] /\ e[k - 1] < to
    BY <1>2, <1>4
  <2>4. IsOverlap(e[k - 1], e[k], size, from, to)
    BY <1>3, <2>1, <2>2, <2>3, Overlap, Zenon
  <2> QED
    BY <2>4, Zenon DEF IsOverlap
<1>b. d[j - 1] + from = lo /\ d[j] + from = hi
  BY <1>4
<1> HIDE DEF hi, lo, last
<1>10. ASSUME NEW p \in 1..Len(part), d[j - 1] < p, p <= d[j]
       PROVE  part[p] = chunk[t][last - (d[j] - p)]
  <2>0. p \in Nat
    BY <1>8
  <2>1. /\ e[k - 1] < from + p /\ from + p <= e[k] /\ from + p <= to
        /\ last - (d[j] - p) = size - (e[k] - (from + p))
    BY <1>6, <1>9, <1>10, <1>b, <2>0, Zenon
  <2>4. from + p \in 1..Len(records)
    BY <1>3, <1>8, <2>1
  <2>2. part[p] = records[from + p]
    BY <1>7, <1>8
  <2>3. records[from + p] = chunk[t][size - (e[k] - (from + p))]
    BY <1>1, <2>1, <2>4, Zenon
  <2> QED
    BY <2>1, <2>2, <2>3
<1>11. RunUpTo(part, out, chunk, j, last)
  BY <1>5, <1>9, <1>10, Zenon DEF RunUpTo, d, size
<1> QED
  BY <1>5, <1>11 DEF e, out, t, part, size, hi, last

(* A submission carries what its segments say. *)
LEMMA SubmissionBatched ==
    ASSUME NEW R, NEW records \in Seq(R), NEW segments, NEW chunk,
           Buffered(records, segments, chunk),
           \A k \in 1..Len(segments) : Len(chunk[segments[k].commitSeq]) \in Nat,
           NEW from \in Nat, NEW to \in Nat, from < to, to <= Len(records)
    PROVE  Batched(SubSeq(records, from + 1, to), Consume(segments, from, to), chunk)
<1> DEFINE n == Len(segments)
           e == SegmentEnds(segments)
           out == Consume(segments, from, to)
           part == SubSeq(records, from + 1, to)
<1>1. segments \in SegmentSeq /\ e[n] = Len(records)
  BY DEF Buffered
<1>2. /\ out \in PieceSeq /\ PieceEnds(out)[Len(out)] = to - from
      /\ \A j \in 1..Len(out) : \E k \in 1..n : CutFrom(segments, from, to, j, k)
  BY <1>1, ConsumeFacts
<1>3. Len(part) = to - from
  OBVIOUS
<1>4. ASSUME NEW j \in 1..Len(out) PROVE \E last \in Nat : RunUpTo(part, out, chunk, j, last)
  <2>1. PICK k \in 1..n : CutFrom(segments, from, to, j, k)
    BY <1>2
  <2> DEFINE hi == Earlier(e[k], to)
             last == Len(chunk[segments[k].commitSeq]) - (e[k] - hi)
  <2>2. RunUpTo(part, out, chunk, j, last) /\ out[j].commitSeq = segments[k].commitSeq
    BY <2>1, CutRecords
  <2>3. last \in 1..Len(chunk[segments[k].commitSeq])
    BY <2>2 DEF RunUpTo
  <2>4. last \in Nat
    <3> HIDE DEF last
    <3> QED
      BY <2>3
  <2> HIDE DEF last, part, out
  <2> QED
    BY <2>2, <2>4
<1> QED
  BY <1>2, <1>3, <1>4 DEF Batched

(* What stays of a segment at start + 1 .. end when count records are gone: *)
(* it is at b + 1 .. d now.                                                *)
IsRest(start, end, size, count, b, d) ==
    /\ d - b <= size
    /\ \A p \in Nat : b < p /\ p <= d =>
         start < count + p /\ count + p <= end /\ end - (count + p) = d - p

LEMMA Rest ==
    ASSUME NEW start \in Nat, NEW end \in Nat, NEW size \in Nat, NEW count \in Nat,
           NEW b \in Nat, NEW d \in Nat,
           b + count = Later(start, count), d + count = end, end - start <= size
    PROVE  IsRest(start, end, size, count, b, d)
BY DEF IsRest, Later

(* The records that stay in a buffer are what its segments say. *)
LEMMA RemainderBuffered ==
    ASSUME NEW R, NEW records \in Seq(R), NEW segments, NEW chunk,
           Buffered(records, segments, chunk),
           \A k \in 1..Len(segments) : Len(chunk[segments[k].commitSeq]) \in Nat,
           NEW count \in Nat, count <= Len(records)
    PROVE  Buffered(SubSeq(records, count + 1, Len(records)), Unconsumed(segments, count), chunk)
<1> DEFINE n == Len(segments)
           e == SegmentEnds(segments)
           rest == Unconsumed(segments, count)
           d == SegmentEnds(rest)
           part == SubSeq(records, count + 1, Len(records))
<1>1. segments \in SegmentSeq /\ e[n] = Len(records) /\ Len(records) \in Nat
  BY DEF Buffered
<1>2. /\ rest \in SegmentSeq /\ d[Len(rest)] = e[n] - count
      /\ \A j \in 1..Len(rest) : \E k \in 1..n : LeftOf(segments, count, j, k)
  BY <1>1, UnconsumedFacts
<1>3. Len(part) = Len(records) - count /\ \A p \in 1..Len(part) : part[p] = records[count + p]
  BY <1>1
<1>4. d[Len(rest)] = Len(part)
  BY <1>1, <1>2, <1>3
<1>5. ASSUME NEW j \in 1..Len(rest)
      PROVE  LET all == chunk[rest[j].commitSeq]
             IN  /\ rest[j].left <= Len(all)
                 /\ \A p \in 1..Len(part) : d[j - 1] < p /\ p <= d[j] =>
                      part[p] = all[Len(all) - (d[j] - p)]
  <2>1. PICK k \in 1..n : LeftOf(segments, count, j, k)
    BY <1>2
  <2> DEFINE t == segments[k].commitSeq
             size == Len(chunk[t])
  <2>2. /\ e[k] > count /\ rest[j].commitSeq = t
        /\ d[j - 1] + count = Later(e[k - 1], count) /\ d[j] + count = e[k]
    BY <2>1 DEF LeftOf
  <2>3. /\ e[k] \in Nat /\ e[k - 1] \in Nat /\ e[k] = e[k - 1] + segments[k].left
        /\ segments[k].left \in Nat
    <3>1. k \in 0..n /\ k - 1 \in 0..n
      BY <1>1, SegmentEndsFacts
    <3> QED
      BY <1>1, <3>1, SegmentEndsFacts, Zenon
  <2>4. /\ d[j] \in Nat /\ d[j - 1] \in Nat /\ d[j] = d[j - 1] + rest[j].left
        /\ rest[j].left \in Nat
    <3>1. j \in 0..Len(rest) /\ j - 1 \in 0..Len(rest)
      BY <1>2, SegmentEndsFacts
    <3> HIDE DEF rest
    <3> QED
      BY <1>2, <3>1, SegmentEndsFacts, SMTT(20)
  <2>5. /\ segments[k].left <= size
        /\ \A p \in 1..Len(records) : e[k - 1] < p /\ p <= e[k] =>
             records[p] = chunk[t][size - (e[k] - p)]
    BY DEF Buffered
  <2>6. size \in Nat
    OBVIOUS
  <2> HIDE DEF n, e, rest, d, part, t, size
  <2>9. IsRest(e[k - 1], e[k], size, count, d[j - 1], d[j])
    <3>0. segments[k].left <= size
      BY <2>5
    <3>1. e[k] - e[k - 1] <= size
      BY <2>3, <2>6, <3>0
    <3> QED
      BY <2>2, <2>3, <2>4, <2>6, <3>1, Rest, Zenon
  <2>7. rest[j].left <= size
    <3>1. d[j] - d[j - 1] <= size
      BY <2>9 DEF IsRest
    <3> QED
      BY <2>4, <2>6, <3>1
  <2>8. ASSUME NEW p \in 1..Len(part), d[j - 1] < p, p <= d[j]
        PROVE  part[p] = chunk[t][size - (d[j] - p)]
    <3>1. p \in Nat /\ count + p <= Len(records)
      BY <1>1, <1>3
    <3>2. e[k - 1] < count + p /\ count + p <= e[k] /\ e[k] - (count + p) = d[j] - p
      BY <2>8, <2>9, <3>1 DEF IsRest
    <3>3. count + p \in 1..Len(records)
      BY <1>1, <2>4, <2>8, <3>1
    <3>4. records[count + p] = chunk[t][size - (e[k] - (count + p))]
      BY <2>5, <3>2, <3>3
    <3> QED
      BY <1>3, <3>2, <3>4
  <2> QED
    BY <2>2, <2>7, <2>8 DEF size
<1> HIDE DEF rest, part
<1> QED
  BY <1>2, <1>4, <1>5 DEF Buffered, rest, part

(* The ends of a queue to which a segment is added. *)
LEMMA AppendedEnds ==
    ASSUME NEW segments \in SegmentSeq, NEW x \in Segments
    PROVE  LET more == Append(segments, x)
           IN  /\ more \in SegmentSeq /\ Len(more) = Len(segments) + 1
               /\ \A k \in 1..Len(segments) : more[k] = segments[k]
               /\ more[Len(segments) + 1] = x
               /\ \A k \in 0..Len(segments) : SegmentEnds(more)[k] = SegmentEnds(segments)[k]
               /\ SegmentEnds(more)[Len(segments) + 1]
                    = SegmentEnds(segments)[Len(segments)] + x.left
<1> DEFINE n == Len(segments)
           more == Append(segments, x)
           f == [k \in DOMAIN segments |-> segments[k].left]
           g == [k \in DOMAIN more |-> more[k].left]
<1>1. /\ more \in SegmentSeq /\ Len(more) = n + 1 /\ n \in Nat
      /\ \A k \in 1..n : more[k] = segments[k]
      /\ more[n + 1] = x
      /\ DOMAIN segments = 1..n /\ DOMAIN more = 1..(n + 1)
  BY DEF SegmentSeq
<1>2. /\ Len(f) = n /\ \A k \in 1..n : f[k] \in Nat /\ f[k] = segments[k].left
  BY <1>1, SegmentEndsFacts
<1>3. /\ Len(g) = n + 1 /\ \A k \in 1..(n + 1) : g[k] \in Nat /\ g[k] = more[k].left
  <2> HIDE DEF more
  <2> QED
    BY <1>1, SegmentEndsFacts
<1>4. SegmentEnds(segments) = Ends(f) /\ SegmentEnds(more) = Ends(g)
  BY DEF SegmentEnds
<1> HIDE DEF n, more, f, g
<1>5. \A k \in 1..n : f[k] = g[k]
  BY <1>1, <1>2, <1>3
<1>6. \A k \in 0..n : Ends(f)[k] = Ends(g)[k]
  <2>1. AreLengths(f) /\ AreLengths(g) /\ n \in 0..Len(f) /\ n \in 0..Len(g)
    BY <1>1, <1>2, <1>3 DEF AreLengths
  <2> QED
    BY <1>5, <2>1, EndsAgree DEF SameUpTo
<1>7. SegmentEnds(more)[n + 1] = SegmentEnds(more)[n] + x.left
  <2>1. SegmentEnds(more)[n + 1] = SegmentEnds(more)[n + 1 - 1] + more[n + 1].left
    BY <1>1, SegmentEndsFacts
  <2>2. n + 1 - 1 = n
    BY <1>1
  <2> QED
    BY <1>1, <2>1, <2>2
<1>8. SegmentEnds(more)[n] = SegmentEnds(segments)[n]
  BY <1>1, <1>4, <1>6
<1> QED
  BY <1>1, <1>4, <1>6, <1>7, <1>8 DEF n, more

(* A chunk that arrives joins the buffer whole. *)
LEMMA ArrivalBuffered ==
    ASSUME NEW R, NEW records \in Seq(R), NEW segments, NEW chunk,
           Buffered(records, segments, chunk),
           NEW t \in Nat, chunk[t] \in Seq(R), Len(chunk[t]) > 0
    PROVE  Buffered(records \o chunk[t],
                    Append(segments, [commitSeq |-> t, left |-> Len(chunk[t])]), chunk)
<1> DEFINE n == Len(segments)
           e == SegmentEnds(segments)
           x == [commitSeq |-> t, left |-> Len(chunk[t])]
           more == Append(segments, x)
           d == SegmentEnds(more)
           all == records \o chunk[t]
           size == Len(chunk[t])
<1>1. /\ segments \in SegmentSeq /\ e[n] = Len(records) /\ Len(records) \in Nat
      /\ size \in Nat /\ size > 0 /\ n \in Nat
  BY DEF Buffered, SegmentSeq
<1>2. x \in Segments /\ x.left = size /\ x.commitSeq = t
  BY <1>1 DEF Segments
<1>3. /\ more \in SegmentSeq /\ Len(more) = n + 1
      /\ \A k \in 1..n : more[k] = segments[k]
      /\ more[n + 1] = x
      /\ \A k \in 0..n : d[k] = e[k]
      /\ d[n + 1] = e[n] + x.left
  BY <1>1, <1>2, AppendedEnds, Zenon
<1>4. /\ Len(all) = Len(records) + size
      /\ \A p \in 1..Len(records) : all[p] = records[p]
      /\ \A p \in 1..size : all[Len(records) + p] = chunk[t][p]
  <2> DEFINE c == chunk[t]
  <2>1. c \in Seq(R)
    OBVIOUS
  <2> HIDE DEF c
  <2>2. /\ Len(records \o c) = Len(records) + Len(c)
        /\ \A p \in 1..Len(records) : (records \o c)[p] = records[p]
        /\ \A p \in 1..Len(c) : (records \o c)[Len(records) + p] = c[p]
    BY <2>1
  <2> QED
    BY <2>2, Zenon DEF c
<1>5. ASSUME NEW k \in 1..n
      PROVE  /\ more[k].left <= Len(chunk[more[k].commitSeq])
             /\ \A p \in 1..Len(all) : d[k - 1] < p /\ p <= d[k] =>
                  all[p] = chunk[more[k].commitSeq][Len(chunk[more[k].commitSeq]) - (d[k] - p)]
  <2> DEFINE c == chunk[segments[k].commitSeq]
  <2>1. /\ segments[k].left <= Len(c)
        /\ \A p \in 1..Len(records) : e[k - 1] < p /\ p <= e[k] =>
             records[p] = c[Len(c) - (e[k] - p)]
    BY DEF Buffered
  <2>2. more[k] = segments[k] /\ d[k] = e[k] /\ d[k - 1] = e[k - 1]
    BY <1>1, <1>3
  <2>3. e[k] \in Nat /\ e[k] <= Len(records) /\ e[k - 1] \in Nat
    <3>1. k \in 0..n /\ k - 1 \in 0..n /\ n \in 0..n /\ k <= n
      BY <1>1
    <3>2. /\ e \in [0..n -> Nat]
          /\ \A i, l \in 0..n : i <= l => e[i] <= e[l]
      BY <1>1, SegmentEndsFacts
    <3> HIDE DEF e, n
    <3> QED
      BY <1>1, <3>1, <3>2
  <2> HIDE DEF n, e, more, d, all, c
  <2>4. ASSUME NEW p \in 1..Len(all), d[k - 1] < p, p <= d[k]
        PROVE  all[p] = c[Len(c) - (d[k] - p)]
    <3>1. p \in 1..Len(records)
      BY <1>1, <1>4, <2>2, <2>3, <2>4
    <3> QED
      BY <1>4, <2>1, <2>2, <2>4, <3>1
  <2> QED
    BY <2>1, <2>2, <2>4 DEF c
<1>6. /\ more[n + 1].left <= Len(chunk[more[n + 1].commitSeq])
      /\ \A p \in 1..Len(all) : d[n] < p /\ p <= d[n + 1] =>
           all[p] = chunk[t][size - (d[n + 1] - p)]
  <2> HIDE DEF n, e, more, d, all, size, x
  <2>1. more[n + 1].left <= Len(chunk[more[n + 1].commitSeq])
    BY <1>1, <1>2, <1>3 DEF size
  <2>2. d[n] = Len(records) /\ d[n + 1] = Len(records) + size
    BY <1>1, <1>2, <1>3
  <2>3. ASSUME NEW p \in 1..Len(all), d[n] < p, p <= d[n + 1]
        PROVE  all[p] = chunk[t][size - (d[n + 1] - p)]
    <3> DEFINE q == p - Len(records)
    <3>1. p \in Nat /\ Len(records) < p /\ p <= Len(records) + size
      BY <1>1, <1>4, <2>2, <2>3
    <3>2. q \in 1..size /\ p = Len(records) + q
      BY <1>1, <3>1
    <3>3. size - (d[n + 1] - p) = q
      BY <1>1, <2>2, <3>1
    <3> HIDE DEF q
    <3> QED
      BY <1>4, <3>2, <3>3
  <2> QED
    BY <2>1, <2>3
<1>7. d[n + 1] = Len(all)
  BY <1>1, <1>2, <1>3, <1>4, SMTT(20)
<1> HIDE DEF n, e, x, more, d, all
<1>8. ASSUME NEW k \in 1..(n + 1)
      PROVE  /\ more[k].left <= Len(chunk[more[k].commitSeq])
             /\ \A p \in 1..Len(all) : d[k - 1] < p /\ p <= d[k] =>
                  all[p] = chunk[more[k].commitSeq][Len(chunk[more[k].commitSeq]) - (d[k] - p)]
  <2>1. CASE k \in 1..n
    BY <1>5, <2>1
  <2>2. CASE k = n + 1
    <3>1. k - 1 = n
      BY <1>1, <2>2
    <3> QED
      BY <1>2, <1>3, <1>6, <2>2, <3>1
  <2>3. k \in 1..n \/ k = n + 1
    BY <1>1
  <2> QED
    BY <2>1, <2>2, <2>3
<1>9. Buffered(all, more, chunk)
  BY <1>3, <1>7, <1>8 DEF Buffered, d
<1> QED
  BY <1>9 DEF all, more, x

(* Only the chunks of the tickets at hand matter. *)
LEMMA BufferedSame ==
    ASSUME NEW records, NEW segments, NEW chunk, NEW other, Buffered(records, segments, chunk),
           \A k \in 1..Len(segments) :
             other[segments[k].commitSeq] = chunk[segments[k].commitSeq]
    PROVE  Buffered(records, segments, other)
BY SMTT(20) DEF Buffered

LEMMA BatchedSame ==
    ASSUME NEW records, NEW pieces, NEW chunk, NEW other, Batched(records, pieces, chunk),
           \A j \in 1..Len(pieces) : other[pieces[j].commitSeq] = chunk[pieces[j].commitSeq]
    PROVE  Batched(records, pieces, other)
<1>1. ASSUME NEW j \in 1..Len(pieces), NEW last \in Nat,
             RunUpTo(records, pieces, chunk, j, last)
      PROVE  RunUpTo(records, pieces, other, j, last)
  BY <1>1 DEF RunUpTo
<1> QED
  BY <1>1 DEF Batched
-------------------------------------------------------------------------------
(* The full batches of n records lie end to end from the first record, and *)
(* less than one more is left over.                                        *)
LEMMA Windows ==
    ASSUME NEW n \in Nat
    PROVE  LET M == MaxBatchRecords
           IN  /\ n \div M \in Nat
               /\ FullUpTo(n) \in Nat /\ FullUpTo(n) <= n /\ n < FullUpTo(n) + M
               /\ n < M => n \div M = 0 /\ FullUpTo(n) = 0
               /\ M <= n => M <= FullUpTo(n)
               /\ \A k \in 1..(n \div M) :
                    /\ (k - 1) * M \in Nat /\ k * M \in Nat
                    /\ k * M = (k - 1) * M + M /\ k * M <= FullUpTo(n)
<1> DEFINE M == MaxBatchRecords
           q == n \div M
<1>1. M \in Nat \ {0}
  BY BatchAssumption
<1> HIDE DEF M
<1>2. q \in Nat /\ q * M \in Nat /\ q * M <= n /\ n < q * M + M
  <2>1. q \in Nat
    BY <1>1
  <2>2. q * M <= n
    BY <1>1
  <2>3. n < q * M + M
    BY <1>1
  <2>4. q * M \in Nat
    BY <1>1, <2>1
  <2> QED
    BY <2>1, <2>2, <2>3, <2>4
<1>3. n < M => q = 0 /\ q * M = 0
  <2> SUFFICES ASSUME n < M PROVE q = 0 /\ q * M = 0
    OBVIOUS
  <2>1. q = 0
    BY <1>1
  <2> QED
    BY <1>1, <2>1
<1> HIDE DEF q
<1>4. ASSUME NEW k \in 1..q
      PROVE  /\ (k - 1) * M \in Nat /\ k * M \in Nat
             /\ k * M = (k - 1) * M + M /\ k * M <= q * M
  <2>1. k \in Nat /\ k - 1 \in Nat /\ k <= q /\ M \in Nat
    BY <1>1, <1>2
  <2>2. (k - 1) * M \in Nat /\ k * M \in Nat
    BY <2>1
  <2>3. k * M = (k - 1) * M + M
    BY <2>1
  <2>4. k * M <= q * M
    BY <1>2, <2>1
  <2> QED
    BY <2>2, <2>3, <2>4
<1>5. FullUpTo(n) = q * M
  BY DEF FullUpTo, q, M
<1>6. M <= n => M <= q * M
  <2> SUFFICES ASSUME M <= n PROVE M <= q * M
    OBVIOUS
  <2>1. q # 0
    <3> SUFFICES ASSUME q = 0 PROVE FALSE
      OBVIOUS
    <3>1. q * M = 0
      BY <1>1
    <3> QED
      BY <1>1, <1>2, <3>1
  <2>2. 1 \in 1..q /\ 1 * M = M
    BY <1>1, <1>2, <2>1
  <2>3. 1 * M <= q * M
    BY <1>4, <2>2
  <2> QED
    BY <2>2, <2>3
<1> QED
  BY <1>2, <1>3, <1>4, <1>5, <1>6 DEF q, M
-------------------------------------------------------------------------------
(* Lists of buffers, and at most one of them per origin. *)
Buffer(O, R) == [origin : O, records : Seq(R), segments : SegmentSeq, deadline : Nat]
OneEach(buffers) ==
    \A i, j \in DOMAIN buffers : i # j => buffers[i].origin # buffers[j].origin

(* The buffer that a push finds or makes, and what it leaves of it. *)
OldBuffer(buffers, origin, due) ==
    LET known == Place(buffers, origin)
    IN  IF known = 0
        THEN [origin |-> origin, records |-> <<>>, segments |-> <<>>, deadline |-> due]
        ELSE buffers[known]
Joined(old, incoming) == old.records \o incoming
Queued(old, incoming, commitSeq) ==
    Append(old.segments, [commitSeq |-> commitSeq, left |-> Len(incoming)])
NewBuffer(old, origin, incoming, commitSeq, due) ==
    LET all == Joined(old, incoming)
    IN  [origin |-> origin, records |-> Remainder(all),
         segments |-> Unconsumed(Queued(old, incoming, commitSeq), FullUpTo(Len(all))),
         deadline |-> Rearmed(old, incoming, due)]

(* retain keeps the buffers of distinct origins distinct. *)
LEMMA FilterOneEach ==
    ASSUME NEW T, NEW buffers \in Seq(T), OneEach(buffers), NEW S
    PROVE  /\ Filter(buffers, S) \in Seq(T) /\ OneEach(Filter(buffers, S))
           /\ \A b : b \in Range(Filter(buffers, S)) <=> b \in Range(buffers) /\ b \in S
<1> DEFINE F == Filter(buffers, S)
<1>1. /\ F \in Seq(T)
      /\ \A x : (\E k \in 1..Len(F) : F[k] = x) <=> x \in S /\ \E i \in 1..Len(buffers) : buffers[i] = x
      /\ \A j, k \in 1..Len(F) : j < k =>
           \E p, q \in 1..Len(buffers) : p < q /\ F[j] = buffers[p] /\ F[k] = buffers[q]
  BY FilterFacts
<1>2. Len(F) \in Nat /\ DOMAIN F = 1..Len(F) /\ Len(buffers) \in Nat /\ DOMAIN buffers = 1..Len(buffers)
  <2>1. F \in Seq(T) /\ buffers \in Seq(T)
    BY <1>1, Zenon
  <2> HIDE DEF F
  <2> QED
    BY <2>1
<1> HIDE DEF F
<1>3. OneEach(F)
  <2> SUFFICES ASSUME NEW j \in 1..Len(F), NEW k \in 1..Len(F), j # k
               PROVE  F[j].origin # F[k].origin
    BY <1>2 DEF OneEach
  <2>1. PICK p \in 1..Len(buffers), q \in 1..Len(buffers) :
          p # q /\ F[j] = buffers[p] /\ F[k] = buffers[q]
    <3>1. j < k \/ k < j
      BY <1>2
    <3> QED
      BY <1>1, <1>2, <3>1
  <2> QED
    BY <1>2, <2>1 DEF OneEach
<1>4. \A b : b \in Range(F) <=> b \in Range(buffers) /\ b \in S
  BY <1>1, <1>2, ZenonT(30) DEF Range
<1> QED
  BY <1>1, <1>3, <1>4 DEF F

(* Where a push looks for the buffer of its origin. *)
LEMMA KnownBuffer ==
    ASSUME NEW T, NEW buffers \in Seq(T), NEW origin
    PROVE  LET known == Place(buffers, origin)
           IN  \/ known = 0 /\ \A i \in 1..Len(buffers) : buffers[i].origin # origin
               \/ known \in 1..Len(buffers) /\ buffers[known].origin = origin
<1> DEFINE known == Place(buffers, origin)
           I == {i \in 1..Len(buffers) : buffers[i].origin = origin}
<1>1. known = IF I # {} THEN Min(I) ELSE 0
  <2>1. DOMAIN buffers = 1..Len(buffers)
    OBVIOUS
  <2> QED
    BY <2>1, Zenon DEF Place
<1>2. I # {} => Min(I) \in I
  <2>1. I \subseteq Nat
    OBVIOUS
  <2> HIDE DEF I
  <2> QED
    BY <2>1, LeastNatural, Zenon DEF Min
<1> HIDE DEF known
<1>3. \/ known = 0 /\ \A i \in 1..Len(buffers) : buffers[i].origin # origin
      \/ known \in 1..Len(buffers) /\ buffers[known].origin = origin
  BY <1>1, <1>2
<1> QED
  BY <1>3 DEF known

(* The buffer a push starts from. *)
LEMMA OldBufferFacts ==
    ASSUME NEW T, NEW buffers \in Seq(T), NEW origin, NEW due
    PROVE  LET old == OldBuffer(buffers, origin, due)
           IN  \/ old \in Range(buffers) /\ old.origin = origin
               \/ /\ \A b \in Range(buffers) : b.origin # origin
                  /\ old = [origin |-> origin, records |-> <<>>, segments |-> <<>>,
                            deadline |-> due]
<1> DEFINE known == Place(buffers, origin)
           old == OldBuffer(buffers, origin, due)
<1>1. \/ known = 0 /\ \A i \in 1..Len(buffers) : buffers[i].origin # origin
      \/ known \in 1..Len(buffers) /\ buffers[known].origin = origin
  BY KnownBuffer
<1>2. old = IF known = 0
            THEN [origin |-> origin, records |-> <<>>, segments |-> <<>>, deadline |-> due]
            ELSE buffers[known]
  BY DEF OldBuffer
<1>3. /\ \A b : b \in Range(buffers) <=> \E i \in 1..Len(buffers) : b = buffers[i]
      /\ Len(buffers) \in Nat
  BY DEF Range
<1> HIDE DEF known, old
<1> QED
  BY <1>1, <1>2, <1>3 DEF old

(* What OriginBuffers::push leaves: the buffers of other origins as they   *)
(* were and, unless it was emptied, the buffer of this one.                *)
PushLeaves(buffers, origin, incoming, commitSeq, due, T) ==
    LET old == OldBuffer(buffers, origin, due)
        new == NewBuffer(old, origin, incoming, commitSeq, due)
        done == Push(buffers, origin, incoming, commitSeq, due)
    IN  /\ done.buffers \in Seq(T) /\ OneEach(done.buffers)
        /\ \A b : b \in Range(done.buffers) <=>
             \/ b \in Range(buffers) /\ b.origin # origin
             \/ b = new /\ new.records # <<>>
        /\ done.out = FullBatches(origin, Joined(old, incoming),
                                  Queued(old, incoming, commitSeq))

LEMMA PushFacts ==
    ASSUME NEW T, NEW buffers \in Seq(T), OneEach(buffers),
           NEW origin, NEW incoming, NEW commitSeq, NEW due,
           NewBuffer(OldBuffer(buffers, origin, due), origin, incoming, commitSeq, due) \in T
    PROVE  PushLeaves(buffers, origin, incoming, commitSeq, due, T)
<1> DEFINE known == Place(buffers, origin)
           old == OldBuffer(buffers, origin, due)
           new == NewBuffer(old, origin, incoming, commitSeq, due)
           done == Push(buffers, origin, incoming, commitSeq, due)
           S == {b \in Range(buffers) : b.origin # origin}
<1>1. /\ done.buffers = IF new.records = <<>> THEN Filter(buffers, S)
                         ELSE IF known = 0 THEN Append(buffers, new)
                         ELSE [buffers EXCEPT ![known] = new]
      /\ done.out = FullBatches(origin, Joined(old, incoming), Queued(old, incoming, commitSeq))
  BY Zenon DEF Push, OldBuffer, NewBuffer, Joined, Queued
<1>3. new.origin = origin
  BY DEF NewBuffer
<1>4. Len(buffers) \in Nat /\ DOMAIN buffers = 1..Len(buffers)
  OBVIOUS
<1>5. \/ known = 0 /\ \A i \in 1..Len(buffers) : buffers[i].origin # origin
      \/ known \in 1..Len(buffers) /\ buffers[known].origin = origin
  BY KnownBuffer, SMTT(20)
<1>6. \A b : b \in Range(buffers) <=> \E i \in 1..Len(buffers) : b = buffers[i]
  BY <1>4, SMTT(20) DEF Range
<1> HIDE DEF known, old, new, done
<1>8. CASE new.records = <<>>
  <2>1. done.buffers = Filter(buffers, S)
    BY <1>1, <1>8
  <2>2. /\ Filter(buffers, S) \in Seq(T) /\ OneEach(Filter(buffers, S))
        /\ \A b : b \in Range(Filter(buffers, S)) <=> b \in Range(buffers) /\ b \in S
    BY FilterOneEach, SMTT(20)
  <2> QED
    BY <1>1, <1>8, <2>1, <2>2, SMTT(20) DEF old, new, done, PushLeaves
<1>9. CASE new.records # <<>> /\ known = 0
  <2> DEFINE after == Append(buffers, new)
  <2>1. done.buffers = after
    BY <1>1, <1>9, Zenon
  <2>2. new \in T
    BY DEF new, old
  <2>3. /\ after \in Seq(T) /\ DOMAIN after = 1..(Len(buffers) + 1)
        /\ \A i \in 1..Len(buffers) : after[i] = buffers[i]
        /\ after[Len(buffers) + 1] = new
    BY <2>2
  <2>4. \A i \in 1..Len(buffers) : buffers[i].origin # origin
    BY <1>5, <1>9
  <2> HIDE DEF after
  <2>5. OneEach(after)
    <3> SUFFICES ASSUME NEW i \in 1..(Len(buffers) + 1), NEW j \in 1..(Len(buffers) + 1), i # j
                 PROVE  after[i].origin # after[j].origin
      BY <2>3 DEF OneEach
    <3>1. CASE i \in 1..Len(buffers) /\ j \in 1..Len(buffers)
      BY <1>4, <2>3, <3>1 DEF OneEach
    <3>2. CASE i = Len(buffers) + 1 \/ j = Len(buffers) + 1
      BY <1>3, <1>4, <2>3, <2>4, <3>2
    <3> QED
      BY <1>4, <3>1, <3>2
  <2>6. \A b : b \in Range(after) <=>
             (b \in Range(buffers) /\ b.origin # origin) \/ b = new
    <3>1. \A b : b \in Range(after) <=> \E i \in 1..(Len(buffers) + 1) : b = after[i]
      BY <2>3 DEF Range
    <3>2. Len(buffers) + 1 \in 1..(Len(buffers) + 1)
          /\ \A i \in 1..(Len(buffers) + 1) : i \in 1..Len(buffers) \/ i = Len(buffers) + 1
      BY <1>4
    <3>3. \A i \in 1..Len(buffers) : i \in 1..(Len(buffers) + 1)
      BY <1>4, SMTT(20)
    <3> QED
      BY <1>6, <2>3, <2>4, <3>1, <3>2, <3>3
  <2> QED
    BY <1>1, <1>9, <2>1, <2>3, <2>5, <2>6, Zenon DEF old, new, done, PushLeaves
<1>10. CASE new.records # <<>> /\ known # 0
  <2> DEFINE after == [buffers EXCEPT ![known] = new]
  <2>1. done.buffers = after
    BY <1>1, <1>10, Zenon
  <2>2. new \in T
    BY DEF new, old
  <2>3. known \in 1..Len(buffers) /\ buffers[known].origin = origin
    BY <1>5, <1>10
  <2>4. /\ after \in Seq(T) /\ DOMAIN after = 1..Len(buffers)
        /\ after[known] = new
        /\ \A i \in 1..Len(buffers) : i # known => after[i] = buffers[i]
    BY <2>2, <2>3
  <2> HIDE DEF after
  <2>5. \A i \in 1..Len(buffers) : i # known => buffers[i].origin # origin
    BY <1>4, <2>3 DEF OneEach
  <2>6. OneEach(after)
    <3> SUFFICES ASSUME NEW i \in 1..Len(buffers), NEW j \in 1..Len(buffers), i # j
                 PROVE  after[i].origin # after[j].origin
      BY <2>4 DEF OneEach
    <3>1. CASE i # known /\ j # known
      BY <1>4, <2>4, <3>1 DEF OneEach
    <3>2. CASE i = known \/ j = known
      BY <1>3, <2>4, <2>5, <3>2
    <3> QED
      BY <3>1, <3>2
  <2>7. \A b : b \in Range(after) <=>
             (b \in Range(buffers) /\ b.origin # origin) \/ b = new
    <3>1. \A b : b \in Range(after) <=> \E i \in 1..Len(buffers) : b = after[i]
      BY <2>4 DEF Range
    <3> QED
      BY <1>6, <2>3, <2>4, <2>5, <3>1
  <2> QED
    BY <1>1, <1>10, <2>1, <2>4, <2>6, <2>7, ZenonT(30) DEF old, new, done, PushLeaves
<1> QED
  BY <1>8, <1>9, <1>10, SMTT(20)

(* What flush_with leaves and emits. *)
LEMMA FlushFacts ==
    ASSUME NEW O, NEW R, NEW buffers \in Seq(Buffer(O, R)), OneEach(buffers), NEW due
    PROVE  LET done == FlushWith(buffers, due)
               picked == Filter(buffers, due)
           IN  /\ done.buffers \in Seq(Buffer(O, R)) /\ OneEach(done.buffers)
               /\ \A b : b \in Range(done.buffers) <=> b \in Range(buffers) /\ b \notin due
               /\ done.out = Flushed(picked)
               /\ picked \in Seq(Buffer(O, R)) /\ OneEach(picked)
               /\ \A b : b \in Range(picked) <=> b \in Range(buffers) /\ b \in due
<1>1. /\ FlushWith(buffers, due).buffers = Filter(buffers, Range(buffers) \ due)
      /\ FlushWith(buffers, due).out = Flushed(Filter(buffers, due))
  BY DEF FlushWith
<1>2. /\ Filter(buffers, due) \in Seq(Buffer(O, R)) /\ OneEach(Filter(buffers, due))
      /\ \A b : b \in Range(Filter(buffers, due)) <=> b \in Range(buffers) /\ b \in due
  BY FilterOneEach
<1> DEFINE S == Range(buffers) \ due
<1>3. /\ Filter(buffers, S) \in Seq(Buffer(O, R)) /\ OneEach(Filter(buffers, S))
      /\ \A b : b \in Range(Filter(buffers, S)) <=> b \in Range(buffers) /\ b \in S
  BY FilterOneEach
<1>4. \A b : b \in Range(Filter(buffers, S)) <=> b \in Range(buffers) /\ b \notin due
  BY <1>3, Zenon
<1> QED
  BY <1>1, <1>2, <1>3, <1>4, Zenon
-------------------------------------------------------------------------------
(* No two of the segments are of the same chunk. *)
Distinct(s) == \A i, j \in DOMAIN s : i # j => s[i].commitSeq # s[j].commitSeq
TicketsIn(s) == {s[i].commitSeq : i \in DOMAIN s}

(* A batch takes at most one piece of each segment. *)
LEMMA ConsumeDistinct ==
    ASSUME NEW segments \in SegmentSeq, NEW from \in Nat, NEW to \in Nat, from < to,
           to <= SegmentEnds(segments)[Len(segments)]
    PROVE  /\ Distinct(segments) => Distinct(Consume(segments, from, to))
           /\ TicketsIn(Consume(segments, from, to)) \subseteq TicketsIn(segments)
<1> DEFINE e == SegmentEnds(segments)
           out == Consume(segments, from, to)
           d == PieceEnds(out)
           n == Len(out)
<1>1. /\ out \in PieceSeq
      /\ d \in [0..n -> Nat]
      /\ \A j \in 1..n : d[j - 1] < d[j]
      /\ \A j \in 1..n : \E k \in 1..Len(segments) : CutFrom(segments, from, to, j, k)
  BY ConsumeFacts
<1>2. n \in Nat /\ DOMAIN out = 1..n /\ Len(segments) \in Nat /\ DOMAIN segments = 1..Len(segments)
  BY <1>1 DEF PieceSeq, SegmentSeq
<1>3. ASSUME NEW j \in 1..n, NEW k \in 1..Len(segments), CutFrom(segments, from, to, j, k)
      PROVE  out[j].commitSeq = segments[k].commitSeq /\ d[j] + from = Earlier(e[k], to)
  BY <1>3 DEF CutFrom, Piece
<1>4. \A i, j \in 0..n : i <= j => d[i] <= d[j]
  <2> DEFINE f == [j \in DOMAIN out |-> out[j].records]
  <2>1. Len(f) = n /\ \A j \in 1..n : f[j] \in Nat
    <3> HIDE DEF out
    <3>1. DOMAIN f = 1..n /\ \A j \in 1..n : f[j] = out[j].records
      BY <1>2
    <3>2. \A j \in 1..n : out[j].records \in Nat
      <4>1. \A j \in 1..n : out[j] \in Pieces
        BY <1>1, <1>2 DEF PieceSeq
      <4> QED
        BY <4>1 DEF Pieces
    <3>3. Len(f) = n
      BY <1>2, <3>1
    <3> QED
      BY <3>1, <3>2, <3>3
  <2>2. d = Ends(f)
    BY DEF PieceEnds
  <2> HIDE DEF f, n, d
  <2> QED
    BY <1>2, <2>1, <2>2, EndsFacts
<1> HIDE DEF e, out, d, n
<1>5. ASSUME NEW i \in 1..n, NEW j \in 1..n, i < j
      PROVE  d[i] # d[j]
  <2>1. i \in 0..n /\ j - 1 \in 0..n /\ i <= j - 1 /\ j \in 0..n
    BY <1>2, <1>5
  <2>2. d[i] <= d[j - 1] /\ d[j - 1] < d[j]
    BY <1>1, <1>4, <2>1
  <2>3. d[i] \in Nat /\ d[j - 1] \in Nat /\ d[j] \in Nat
    BY <1>1, <2>1, Zenon
  <2> QED
    BY <2>2, <2>3
<1>6. Distinct(segments) => Distinct(out)
  <2> SUFFICES ASSUME Distinct(segments), NEW i \in 1..n, NEW j \in 1..n, i # j
               PROVE  out[i].commitSeq # out[j].commitSeq
    BY <1>2 DEF Distinct
  <2>1. PICK k \in 1..Len(segments) : CutFrom(segments, from, to, i, k)
    BY <1>1
  <2>2. PICK l \in 1..Len(segments) : CutFrom(segments, from, to, j, l)
    BY <1>1
  <2>3. /\ out[i].commitSeq = segments[k].commitSeq /\ d[i] + from = Earlier(e[k], to)
        /\ out[j].commitSeq = segments[l].commitSeq /\ d[j] + from = Earlier(e[l], to)
    BY <1>3, <2>1, <2>2
  <2>4. d[i] # d[j] /\ d[i] \in Nat /\ d[j] \in Nat
    <3>1. (i < j \/ j < i) /\ i \in 0..n /\ j \in 0..n
      BY <1>2
    <3>2. d[i] \in Nat /\ d[j] \in Nat
      BY <1>1, <3>1
    <3>3. d[i] # d[j]
      BY <1>5, <3>1
    <3> QED
      BY <3>2, <3>3
  <2>5. k # l
    BY <2>3, <2>4
  <2> QED
    BY <1>2, <2>3, <2>5 DEF Distinct
<1>7. TicketsIn(out) \subseteq TicketsIn(segments)
  <2> SUFFICES ASSUME NEW j \in 1..n PROVE out[j].commitSeq \in TicketsIn(segments)
    BY <1>2 DEF TicketsIn
  <2>1. PICK k \in 1..Len(segments) : CutFrom(segments, from, to, j, k)
    BY <1>1
  <2>2. out[j].commitSeq = segments[k].commitSeq
    BY <1>3, <2>1
  <2> QED
    BY <1>2, <2>2 DEF TicketsIn
<1> QED
  BY <1>6, <1>7 DEF out

(* What stays in the queue is of chunks that were in it. *)
LEMMA UnconsumedDistinct ==
    ASSUME NEW segments \in SegmentSeq, NEW count \in Nat,
           count <= SegmentEnds(segments)[Len(segments)]
    PROVE  /\ Distinct(segments) => Distinct(Unconsumed(segments, count))
           /\ TicketsIn(Unconsumed(segments, count)) \subseteq TicketsIn(segments)
<1> DEFINE e == SegmentEnds(segments)
           out == Unconsumed(segments, count)
           d == SegmentEnds(out)
           n == Len(out)
<1>1. /\ out \in SegmentSeq
      /\ \A j \in 1..n : \E k \in 1..Len(segments) : LeftOf(segments, count, j, k)
  BY UnconsumedFacts
<1>2. /\ n \in Nat /\ DOMAIN out = 1..n /\ Len(segments) \in Nat
      /\ DOMAIN segments = 1..Len(segments) /\ d \in [0..n -> Nat]
      /\ \A i, j \in 0..n : i < j => d[i] < d[j]
  <2> HIDE DEF out
  <2> QED
    BY <1>1, SegmentEndsFacts
<1>3. ASSUME NEW j \in 1..n, NEW k \in 1..Len(segments), LeftOf(segments, count, j, k)
      PROVE  out[j].commitSeq = segments[k].commitSeq /\ d[j] + count = e[k]
  BY <1>3 DEF LeftOf
<1> HIDE DEF e, out, d, n
<1>4. Distinct(segments) => Distinct(out)
  <2> SUFFICES ASSUME Distinct(segments), NEW i \in 1..n, NEW j \in 1..n, i # j
               PROVE  out[i].commitSeq # out[j].commitSeq
    BY <1>2 DEF Distinct
  <2>1. PICK k \in 1..Len(segments) : LeftOf(segments, count, i, k)
    BY <1>1
  <2>2. PICK l \in 1..Len(segments) : LeftOf(segments, count, j, l)
    BY <1>1
  <2>3. /\ out[i].commitSeq = segments[k].commitSeq /\ d[i] + count = e[k]
        /\ out[j].commitSeq = segments[l].commitSeq /\ d[j] + count = e[l]
    BY <1>3, <2>1, <2>2
  <2>4. d[i] # d[j] /\ d[i] \in Nat /\ d[j] \in Nat
    <3>1. (i < j \/ j < i) /\ i \in 0..n /\ j \in 0..n
      BY <1>2
    <3>2. d[i] \in Nat /\ d[j] \in Nat
      BY <1>2, <3>1
    <3>3. d[i] < d[j] \/ d[j] < d[i]
      BY <1>2, <3>1
    <3> QED
      BY <3>2, <3>3
  <2>5. k # l
    BY <2>3, <2>4
  <2> QED
    BY <1>2, <2>3, <2>5, Zenon DEF Distinct
<1>5. TicketsIn(out) \subseteq TicketsIn(segments)
  <2>0. DOMAIN out = 1..n
    BY <1>2, Zenon
  <2> SUFFICES ASSUME NEW j \in 1..n PROVE out[j].commitSeq \in TicketsIn(segments)
    BY <2>0, Zenon DEF TicketsIn
  <2>1. PICK k \in 1..Len(segments) : LeftOf(segments, count, j, k)
    BY <1>1
  <2>2. out[j].commitSeq = segments[k].commitSeq
    BY <1>3, <2>1
  <2> QED
    BY <1>2, <2>2, Zenon DEF TicketsIn
<1> QED
  BY <1>4, <1>5 DEF out

(* A chunk that was not in the queue joins it. *)
LEMMA AppendDistinct ==
    ASSUME NEW T, NEW s \in Seq(T), NEW x, x \in T
    PROVE  /\ Distinct(s) /\ x.commitSeq \notin TicketsIn(s) => Distinct(Append(s, x))
           /\ TicketsIn(Append(s, x)) = TicketsIn(s) \cup {x.commitSeq}
<1> DEFINE m == Append(s, x)
           n == Len(s)
<1>1. /\ n \in Nat /\ DOMAIN s = 1..n /\ DOMAIN m = 1..(n + 1)
      /\ \A i \in 1..n : m[i] = s[i]
      /\ m[n + 1] = x
  OBVIOUS
<1> HIDE DEF m, n
<1>2. \A i \in 1..(n + 1) : i \in 1..n \/ i = n + 1
  BY <1>1
<1>3. \A i \in 1..n : i \in 1..(n + 1) /\ i # n + 1
  BY <1>1
<1>4. n + 1 \in 1..(n + 1)
  BY <1>1
<1>5. TicketsIn(m) = TicketsIn(s) \cup {x.commitSeq}
  BY <1>1, <1>2, <1>3, <1>4 DEF TicketsIn
<1>6. ASSUME Distinct(s), x.commitSeq \notin TicketsIn(s)
      PROVE  Distinct(m)
  <2>1. \A i \in 1..n : s[i].commitSeq # x.commitSeq
    BY <1>1, <1>6, SMTT(20) DEF TicketsIn
  <2> QED
    BY <1>1, <1>2, <1>6, <2>1 DEF Distinct
<1> QED
  BY <1>5, <1>6 DEF m
-------------------------------------------------------------------------------
(* The submission of the records from + 1 .. to of a buffer carries what   *)
(* its segments say, and only chunks of the buffer.                        *)
Submitted(origin, all, segments, chunk, R, from, to) ==
    LET s == Submission(origin, all, segments, from, to)
    IN  /\ s.origin = origin
        /\ s.records = SubSeq(all, from + 1, to)
        /\ s.records \in Seq(R) /\ Len(s.records) = to - from
        /\ s.segments = Consume(segments, from, to)
        /\ Batched(s.records, s.segments, chunk)
        /\ Distinct(segments) => Distinct(s.segments)
        /\ TicketsIn(s.segments) \subseteq TicketsIn(segments)

LEMMA SubmissionFacts ==
    ASSUME NEW R, NEW chunk \in [Nat -> Seq(R)], NEW all \in Seq(R), NEW segments,
           Buffered(all, segments, chunk), NEW origin,
           NEW from \in Nat, NEW to \in Nat, from < to, to <= Len(all)
    PROVE  Submitted(origin, all, segments, chunk, R, from, to)
<1> DEFINE s == Submission(origin, all, segments, from, to)
<1>1. /\ s.origin = origin /\ s.records = SubSeq(all, from + 1, to)
      /\ s.segments = Consume(segments, from, to)
  BY DEF Submission
<1>2. SubSeq(all, from + 1, to) \in Seq(R) /\ Len(SubSeq(all, from + 1, to)) = to - from
  <2>1. SubSeq(all, from + 1, to) \in Seq(R)
    OBVIOUS
  <2>2. Len(SubSeq(all, from + 1, to)) = IF from + 1 <= to THEN to - (from + 1) + 1 ELSE 0
    OBVIOUS
  <2>3. (IF from + 1 <= to THEN to - (from + 1) + 1 ELSE 0) = to - from
    OBVIOUS
  <2> QED
    BY <2>1, <2>2, <2>3
<1>3. segments \in SegmentSeq /\ to <= SegmentEnds(segments)[Len(segments)]
  BY DEF Buffered
<1>4. \A k \in 1..Len(segments) : Len(chunk[segments[k].commitSeq]) \in Nat
  <2>1. \A k \in 1..Len(segments) : segments[k].commitSeq \in Nat
    BY <1>3, SegmentEndsFacts, Zenon
  <2>2. \A u \in Nat : Len(chunk[u]) \in Nat
    OBVIOUS
  <2> QED
    BY <2>1, <2>2, Zenon
<1>5. Batched(SubSeq(all, from + 1, to), Consume(segments, from, to), chunk)
  BY <1>4, SubmissionBatched, Zenon
<1>6. /\ Distinct(segments) => Distinct(Consume(segments, from, to))
      /\ TicketsIn(Consume(segments, from, to)) \subseteq TicketsIn(segments)
  BY <1>3, ConsumeDistinct, Zenon
<1> HIDE DEF s
<1> QED
  BY <1>1, <1>2, <1>5, <1>6, Zenon DEF s, Submitted

(* The submissions of a push: full batches, each carrying what it says. *)
FullySubmitted(origin, all, segments, chunk, R) ==
    LET out == FullBatches(origin, all, segments)
        M == MaxBatchRecords
    IN  /\ Len(out) = Len(all) \div M /\ Len(out) \in Nat /\ DOMAIN out = 1..Len(out)
        /\ \A k \in 1..Len(out) :
             /\ out[k] = Submission(origin, all, segments, (k - 1) * M, k * M)
             /\ out[k].origin = origin
             /\ out[k].records = SubSeq(all, (k - 1) * M + 1, k * M)
             /\ out[k].records \in Seq(R) /\ Len(out[k].records) = M
             /\ Batched(out[k].records, out[k].segments, chunk)
             /\ Distinct(segments) => Distinct(out[k].segments)
             /\ TicketsIn(out[k].segments) \subseteq TicketsIn(segments)

LEMMA FullBatchesFacts ==
    ASSUME NEW R, NEW chunk \in [Nat -> Seq(R)], NEW all \in Seq(R), NEW segments,
           Buffered(all, segments, chunk), NEW origin
    PROVE  FullySubmitted(origin, all, segments, chunk, R)
<1> DEFINE out == FullBatches(origin, all, segments)
           M == MaxBatchRecords
           q == Len(all) \div M
<1>1. Len(all) \in Nat /\ q \in Nat /\ M \in Nat /\ M > 0
  <2>1. Len(all) \in Nat
    OBVIOUS
  <2>2. M \in Nat /\ M > 0
    BY BatchAssumption
  <2>3. q \in Nat
    BY <2>1, Windows
  <2> QED
    BY <2>1, <2>2, <2>3
<1>2. /\ DOMAIN out = 1..q
      /\ \A k \in 1..q : out[k] = Submission(origin, all, segments, (k - 1) * M, k * M)
  BY DEF FullBatches
<1>3. Len(out) = q
  <2> HIDE DEF q
  <2>1. out = [k \in 1..q |-> out[k]]
    BY <1>2 DEF FullBatches, q
  <2> HIDE DEF out
  <2> QED
    BY <1>1, <2>1
<1>4. ASSUME NEW k \in 1..q
      PROVE  /\ (k - 1) * M \in Nat /\ k * M \in Nat /\ (k - 1) * M < k * M
             /\ k * M <= Len(all) /\ k * M - (k - 1) * M = M
  <2>1. /\ (k - 1) * M \in Nat /\ k * M \in Nat /\ k * M = (k - 1) * M + M
        /\ k * M <= FullUpTo(Len(all)) /\ FullUpTo(Len(all)) <= Len(all)
        /\ FullUpTo(Len(all)) \in Nat
    BY <1>1, Windows, Zenon
  <2> DEFINE a == (k - 1) * M
             b == k * M
             c == FullUpTo(Len(all))
  <2>2. a \in Nat /\ b \in Nat /\ b = a + M /\ b <= c /\ c <= Len(all) /\ c \in Nat
    BY <2>1
  <2> HIDE DEF a, b, c, M
  <2>3. a < b /\ b <= Len(all) /\ b - a = M
    BY <1>1, <2>2
  <2> QED
    BY <2>2, <2>3 DEF a, b
<1>5. ASSUME NEW k \in 1..q
      PROVE  /\ out[k] = Submission(origin, all, segments, (k - 1) * M, k * M)
             /\ out[k].origin = origin
             /\ out[k].records = SubSeq(all, (k - 1) * M + 1, k * M)
             /\ out[k].records \in Seq(R) /\ Len(out[k].records) = M
             /\ Batched(out[k].records, out[k].segments, chunk)
             /\ Distinct(segments) => Distinct(out[k].segments)
             /\ TicketsIn(out[k].segments) \subseteq TicketsIn(segments)
  <2> DEFINE a == (k - 1) * M
             b == k * M
  <2>1. a \in Nat /\ b \in Nat /\ a < b /\ b <= Len(all) /\ b - a = M
    BY <1>4
  <2>2. out[k] = Submission(origin, all, segments, a, b)
    BY <1>2
  <2> HIDE DEF a, b, out, M, q
  <2>3. Submitted(origin, all, segments, chunk, R, a, b)
    BY <2>1, SubmissionFacts, Zenon
  <2> QED
    BY <2>1, <2>2, <2>3, Zenon DEF a, b, Submitted
<1> HIDE DEF out, M, q
<1> QED
  BY <1>1, <1>2, <1>3, <1>5, Zenon DEF out, M, q, FullySubmitted

(* The full batches, laid end to end, are the first records. *)
LEMMA FullBatchesFlat ==
    ASSUME NEW R, NEW all \in Seq(R)
    PROVE  LET M == MaxBatchRecords
           IN  Flatten([k \in 1..(Len(all) \div M) |-> SubSeq(all, (k - 1) * M + 1, k * M)])
                 = SubSeq(all, 1, FullUpTo(Len(all)))
<1> DEFINE M == MaxBatchRecords
           q == Len(all) \div M
           W(k) == SubSeq(all, (k - 1) * M + 1, k * M)
           F(i) == [k \in 1..i |-> W(k)]
           G == {i \in Nat : i <= q => Flatten(F(i)) = SubSeq(all, 1, i * M)}
<1>1. Len(all) \in Nat /\ q \in Nat /\ M \in Nat /\ M > 0
  <2>1. Len(all) \in Nat
    OBVIOUS
  <2>2. M \in Nat /\ M > 0
    BY BatchAssumption
  <2>3. q \in Nat
    BY <2>1, Windows
  <2> QED
    BY <2>1, <2>2, <2>3
<1>2. ASSUME NEW k \in 1..q
      PROVE  /\ (k - 1) * M \in Nat /\ k * M \in Nat /\ k * M = (k - 1) * M + M
             /\ k * M <= Len(all)
  <2>1. /\ (k - 1) * M \in Nat /\ k * M \in Nat /\ k * M = (k - 1) * M + M
        /\ k * M <= FullUpTo(Len(all)) /\ FullUpTo(Len(all)) <= Len(all)
        /\ FullUpTo(Len(all)) \in Nat
    BY <1>1, Windows, Zenon
  <2> DEFINE b == k * M
             c == FullUpTo(Len(all))
  <2>2. b \in Nat /\ b <= c /\ c <= Len(all) /\ c \in Nat
    BY <2>1
  <2> HIDE DEF b, c
  <2>3. b <= Len(all)
    BY <1>1, <2>2
  <2> QED
    BY <2>1, <2>3 DEF b
<1>3. q * M = FullUpTo(Len(all))
  BY DEF FullUpTo
<1> HIDE DEF M, q
<1>4. ASSUME NEW k \in 1..q PROVE W(k) \in Seq(R)
  <2> DEFINE a == (k - 1) * M
             b == k * M
  <2>1. a \in Nat /\ b \in Nat /\ b <= Len(all)
    BY <1>2
  <2> HIDE DEF a, b
  <2>2. SubSeq(all, a + 1, b) \in Seq(R)
    BY <2>1
  <2> QED
    BY <2>2 DEF a, b
<1>5. 0 \in G
  <2>1. F(0) = <<>>
    OBVIOUS
  <2>2. SubSeq(all, 1, 0 * M) = <<>>
    <3>1. 0 * M = 0
      BY <1>1
    <3> QED
      BY <3>1
  <2> QED
    BY <2>1, <2>2, FlattenEmpty, Zenon
<1>6. ASSUME NEW i \in 1..q, i - 1 \in G
      PROVE  i \in G
  <2>1. i \in Nat /\ i - 1 \in Nat /\ i - 1 <= q /\ i <= q
    BY <1>1
  <2>2. Flatten(F(i - 1)) = SubSeq(all, 1, (i - 1) * M)
    BY <1>6, <2>1
  <2>3. F(i - 1) \in Seq(Seq(R)) /\ W(i) \in Seq(R)
    <3>1. \A k \in 1..(i - 1) : k \in 1..q
      BY <1>1, <2>1
    <3>2. \A k \in 1..(i - 1) : W(k) \in Seq(R)
      BY <1>4, <3>1
    <3> HIDE DEF W
    <3>3. F(i - 1) \in Seq(Seq(R))
      BY <2>1, <3>2
    <3> QED
      BY <1>4, <3>3
  <2>4. F(i) = Append(F(i - 1), W(i))
    <3> HIDE DEF W
    <3>1. Len(F(i - 1)) = i - 1
      BY <2>1
    <3>2. (i - 1) + 1 = i
      BY <2>1
    <3>3. Len(Append(F(i - 1), W(i))) = i
      BY <2>3, <3>1, <3>2
    <3>4. ASSUME NEW k \in 1..i PROVE F(i)[k] = Append(F(i - 1), W(i))[k]
      <4>1. k \in 1..(i - 1) \/ k = i
        BY <2>1
      <4>2. CASE k \in 1..(i - 1)
        BY <2>3, <3>1, <4>2
      <4>3. CASE k = i
        BY <2>1, <2>3, <3>1, <3>2, <4>3
      <4> QED
        BY <4>1, <4>2, <4>3
    <3>5. Append(F(i - 1), W(i)) \in Seq(Seq(R))
      BY <2>3
    <3> QED
      BY <2>1, <3>3, <3>4, <3>5
  <2>5. Flatten(F(i)) = Flatten(F(i - 1)) \o W(i)
    <3>1. Flatten(F(i - 1)) \in Seq(R)
      BY <2>3, FlattenType, Zenon
    <3> HIDE DEF F, W
    <3> QED
      BY <2>3, <2>4, <3>1, FlattenAppend
  <2>6. SubSeq(all, 1, (i - 1) * M) \o W(i) = SubSeq(all, 1, i * M)
    <3> DEFINE a == (i - 1) * M
               b == i * M
    <3>1. a \in Nat /\ b \in Nat /\ b = a + M /\ b <= Len(all)
      BY <1>2
    <3> HIDE DEF a, b
    <3>2. SubSeq(all, 1, a) \o SubSeq(all, a + 1, b) = SubSeq(all, 1, b)
      <4>1. a <= b /\ a <= Len(all)
        BY <1>1, <3>1
      <4> QED
        BY <3>1, <4>1
    <3> QED
      BY <3>2, Zenon DEF a, b
  <2> QED
    BY <2>1, <2>2, <2>5, <2>6, Zenon
<1>7. q \in G
  <2> HIDE DEF G, q
  <2>1. \A i \in 0..q : i \in G
    BY <1>1, <1>5, <1>6, UpTo
  <2> QED
    BY <1>1, <2>1
<1>8. Flatten(F(q)) = SubSeq(all, 1, q * M)
  <2>1. q <= q
    BY <1>1
  <2>2. q <= q => Flatten(F(q)) = SubSeq(all, 1, q * M)
    BY <1>7, ZenonT(30)
  <2> QED
    BY <2>1, <2>2
<1> QED
  BY <1>3, <1>8 DEF M, q

(* The buffer of an origin when chunk t has arrived and the full batches   *)
(* are gone: less than a batch, and what its segments say.                 *)
Refilled(old, origin, chunk, t, due, O, R) ==
    LET all == Joined(old, chunk[t])
        segments == Queued(old, chunk[t], t)
        new == NewBuffer(old, origin, chunk[t], t, due)
    IN  /\ all \in Seq(R) /\ Len(all) = Len(old.records) + Len(chunk[t])
        /\ Buffered(all, segments, chunk)
        /\ TicketsIn(segments) = TicketsIn(old.segments) \cup {t}
        /\ Distinct(old.segments) /\ t \notin TicketsIn(old.segments) => Distinct(segments)
        /\ new \in Buffer(O, R)
        /\ new.origin = origin
        /\ new.records = SubSeq(all, FullUpTo(Len(all)) + 1, Len(all))
        /\ new.segments = Unconsumed(segments, FullUpTo(Len(all)))
        /\ new.deadline = Rearmed(old, chunk[t], due)
        /\ Len(new.records) = Len(all) - FullUpTo(Len(all))
        /\ Len(new.records) < MaxBatchRecords
        /\ Buffered(new.records, new.segments, chunk)
        /\ Distinct(segments) => Distinct(new.segments)
        /\ TicketsIn(new.segments) \subseteq TicketsIn(segments)

LEMMA NewBufferFacts ==
    ASSUME NEW O, NEW R, NEW chunk \in [Nat -> Seq(R)], NEW origin \in O,
           NEW old, old.records \in Seq(R), old.deadline \in Nat,
           Buffered(old.records, old.segments, chunk),
           NEW t \in Nat, Len(chunk[t]) > 0, NEW due \in Nat
    PROVE  Refilled(old, origin, chunk, t, due, O, R)
<1> DEFINE all == Joined(old, chunk[t])
           segments == Queued(old, chunk[t], t)
           new == NewBuffer(old, origin, chunk[t], t, due)
           up == FullUpTo(Len(all))
           x == [commitSeq |-> t, left |-> Len(chunk[t])]
<1>1. chunk[t] \in Seq(R) /\ Len(chunk[t]) \in Nat
  OBVIOUS
<1>2. all \in Seq(R) /\ Len(all) = Len(old.records) + Len(chunk[t])
  BY <1>1 DEF Joined
<1>3. Buffered(all, segments, chunk)
  BY <1>1, ArrivalBuffered, Zenon DEF Joined, Queued
<1>4. old.segments \in SegmentSeq /\ x \in Segments
  BY <1>1 DEF Buffered, Segments
<1>5. /\ TicketsIn(segments) = TicketsIn(old.segments) \cup {t}
      /\ Distinct(old.segments) /\ t \notin TicketsIn(old.segments) => Distinct(segments)
  <2>1. segments = Append(old.segments, x) /\ x.commitSeq = t
    BY DEF Queued
  <2> HIDE DEF x
  <2>2. /\ Distinct(old.segments) /\ x.commitSeq \notin TicketsIn(old.segments)
             => Distinct(Append(old.segments, x))
        /\ TicketsIn(Append(old.segments, x)) = TicketsIn(old.segments) \cup {x.commitSeq}
    BY <1>4, AppendDistinct, ZenonT(30) DEF SegmentSeq
  <2> QED
    BY <2>1, <2>2
<1>6. /\ new.origin = origin
      /\ new.records = SubSeq(all, up + 1, Len(all))
      /\ new.segments = Unconsumed(segments, up)
      /\ new.deadline = Rearmed(old, chunk[t], due)
      /\ new = [origin |-> new.origin, records |-> new.records,
                segments |-> new.segments, deadline |-> new.deadline]
  BY Zenon DEF NewBuffer, Remainder
<1>7. new.deadline \in Nat
  <2>1. Rearmed(old, chunk[t], due) = old.deadline \/ Rearmed(old, chunk[t], due) = due
    BY DEF Rearmed
  <2> QED
    BY <1>6, <2>1, Zenon
<1> HIDE DEF all, segments, new, up
<1>8. Len(all) \in Nat /\ up \in Nat /\ up <= Len(all) /\ Len(all) < up + MaxBatchRecords
      /\ MaxBatchRecords \in Nat
  <2>1. Len(all) \in Nat
    BY <1>2
  <2>2. /\ FullUpTo(Len(all)) \in Nat /\ FullUpTo(Len(all)) <= Len(all)
        /\ Len(all) < FullUpTo(Len(all)) + MaxBatchRecords
    BY <2>1, Windows
  <2> QED
    BY <2>1, <2>2, BatchAssumption DEF up
<1>9. new.records \in Seq(R) /\ Len(new.records) = Len(all) - up
  <2>1. SubSeq(all, up + 1, Len(all)) \in Seq(R)
    <3>1. up + 1 \in Int /\ Len(all) \in Int /\ \A i \in (up + 1)..Len(all) : i \in 1..Len(all)
      BY <1>8
    <3>2. \A i \in 1..Len(all) : all[i] \in R
      BY <1>2, ElementOfSeq, ZenonT(30)
    <3>3. \A i \in (up + 1)..Len(all) : all[i] \in R
      BY <3>1, <3>2
    <3> QED
      BY <3>1, <3>3, SubSeqProperties
  <2>2. Len(SubSeq(all, up + 1, Len(all)))
          = IF up + 1 <= Len(all) THEN Len(all) - (up + 1) + 1 ELSE 0
    BY <1>2, <1>8
  <2>3. (IF up + 1 <= Len(all) THEN Len(all) - (up + 1) + 1 ELSE 0) = Len(all) - up
    BY <1>8
  <2> QED
    BY <1>6, <2>1, <2>2, <2>3
<1>10. Len(new.records) < MaxBatchRecords
  BY <1>8, <1>9
<1>11. segments \in SegmentSeq /\ SegmentEnds(segments)[Len(segments)] = Len(all)
  BY <1>3 DEF Buffered
<1>12. Buffered(new.records, new.segments, chunk)
  <2>1. \A k \in 1..Len(segments) : segments[k].commitSeq \in Nat
    BY <1>11, SegmentEndsFacts, Zenon
  <2>2. \A u \in Nat : Len(chunk[u]) \in Nat
    OBVIOUS
  <2>3. \A k \in 1..Len(segments) : Len(chunk[segments[k].commitSeq]) \in Nat
    BY <2>1, <2>2, Zenon
  <2>4. Buffered(SubSeq(all, up + 1, Len(all)), Unconsumed(segments, up), chunk)
    BY <1>2, <1>3, <1>8, <2>3, RemainderBuffered, Zenon
  <2> QED
    BY <1>6, <2>4
<1>13. new \in Buffer(O, R)
  <2>1. new.segments \in SegmentSeq
    BY <1>12 DEF Buffered
  <2> QED
    BY <1>6, <1>7, <1>9, <2>1, Zenon DEF Buffer
<1>14. /\ Distinct(segments) => Distinct(new.segments)
       /\ TicketsIn(new.segments) \subseteq TicketsIn(segments)
  <2>1. up <= SegmentEnds(segments)[Len(segments)]
    BY <1>8, <1>11
  <2>2. /\ Distinct(segments) => Distinct(Unconsumed(segments, up))
        /\ TicketsIn(Unconsumed(segments, up)) \subseteq TicketsIn(segments)
    BY <1>8, <1>11, <2>1, UnconsumedDistinct, Zenon
  <2> QED
    BY <1>6, <2>2
<1> QED
  BY <1>2, <1>3, <1>5, <1>6, <1>9, <1>10, <1>12, <1>13, <1>14
     DEF all, segments, new, up, Refilled

(* An empty buffer holds what its segments say. *)
LEMMA EmptyBuffered ==
    ASSUME NEW chunk
    PROVE  Buffered(<<>>, <<>>, chunk) /\ Distinct(<<>>) /\ TicketsIn(<<>>) = {}
<1>1. <<>> \in SegmentSeq /\ Len(<<>>) = 0
  BY DEF SegmentSeq
<1>2. SegmentEnds(<<>>)[0] = 0
  BY <1>1, SegmentEndsFacts
<1> QED
  BY <1>1, <1>2 DEF Buffered, Distinct, TicketsIn
===============================================================================
