------------------------------ MODULE MCCSRGraph ------------------------------
(* CSRGraph for TLC. *)
EXTENDS CSRGraph, TLC

Symmetry == Permutations(Places) \cup Permutations(Descriptors)
=============================================================================
