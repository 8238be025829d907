------------------------------ MODULE MCGraphJob ------------------------------
(* GraphJob for TLC: one graph with an array per role, and the vectors. *)
EXTENDS GraphJob, TLC

CONSTANTS g1, inIndex, inNeighbors, outIndex, outNeighbors

MCIndexOf == g1 :> [d \in Direction |-> IF d = "in" THEN inIndex ELSE outIndex]
MCNeighborsOf == g1 :> [d \in Direction |-> IF d = "in" THEN inNeighbors ELSE outNeighbors]

Symmetry == Permutations(Vectors) \cup Permutations(Jobs)
=============================================================================
