------------------------------ MODULE MCPVector ------------------------------
(* PVector for TLC. *)
EXTENDS PVector, TLC

CONSTANTS x1, garbage

Symmetry == Permutations(Blocks) \cup Permutations(Descriptors) \cup Permutations(Vectors)
=============================================================================
