------------------------------- MODULE Ordered --------------------------------
(***************************************************************************)
(* Ordered data: the ascending list of a set of numbers, the elements of a *)
(* sequence that are kept by a filter, sequences laid end to end, and      *)
(* where runs of given lengths end when they are.                          *)
(***************************************************************************)
EXTENDS Naturals, Sequences, FiniteSets

(* sort_unstable and dedup of numbers. *)
Ascending(S) ==
    CHOOSE s \in [1..Cardinality(S) -> S] :
        \A i, j \in 1..Cardinality(S) : i < j => s[i] < s[j]

(* retain: the elements of s that are in S, in their order. *)
Filter(s, S) ==
    LET at == Ascending({i \in DOMAIN s : s[i] \in S})
    IN  [k \in DOMAIN at |-> s[at[k]]]

(* Ends(lengths)[k] is where the k-th run ends; the first starts after 0.  *)
Ends(lengths) ==
    LET end[k \in 0..Len(lengths)] ==
          IF k = 0 THEN 0 ELSE end[k - 1] + lengths[k]
    IN  end

(* The sequences of seqs, one behind the other. *)
Flatten(seqs) ==
    LET upTo[k \in 0..Len(seqs)] ==
          IF k = 0 THEN <<>> ELSE upTo[k - 1] \o seqs[k]
    IN  upTo[Len(seqs)]
===============================================================================
