------------------------------ MODULE MCPickleJob ------------------------------
(* PickleJob for TLC. *)
EXTENDS PickleJob, TLC

(* Descriptors are interchangeable, and so are jobs: no property and no    *)
(* action names one.                                                       *)
Symmetry == Permutations(Arrays) \cup Permutations(Jobs)
=============================================================================
