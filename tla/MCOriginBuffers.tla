--------------------------- MODULE MCOriginBuffers ----------------------------
(* Instances of OriginBuffers for TLC: origins are interchangeable. *)
EXTENDS OriginBuffers, TLC

OriginSymmetry == Permutations(Origins)
===============================================================================
