------------------------------ MODULE MCAckWait -------------------------------
(* Instances of AckWait for TLC: the threads are interchangeable. *)
EXTENDS AckWait, TLC

ActorSymmetry == Permutations(Actors)
===============================================================================
