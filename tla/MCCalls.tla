------------------------------ MODULE MCCalls -------------------------------
(* Instances of Calls: a listens to both hooks, b to the second only. *)
EXTENDS Calls, TLC

CONSTANTS a, b

MCDeaf == {<<b, 0>>}
MCSymmetry == Permutations(Threads)
=============================================================================
