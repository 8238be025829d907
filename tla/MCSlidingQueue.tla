---------------------------- MODULE MCSlidingQueue ----------------------------
(* SlidingQueue for TLC. *)
EXTENDS SlidingQueue, TLC

Symmetry == Permutations(Threads) \cup Permutations(Elements)
=============================================================================
