--------------------------- MODULE MCPrefetchClient ---------------------------
(* PrefetchClient for TLC: one graph, one vector, two jobs and another process. *)
EXTENDS PrefetchClient, TLC

CONSTANTS g1, inIndex, inNeighbors, outIndex, outNeighbors

MCIndexOf == g1 :> [d \in Direction |-> IF d = "in" THEN inIndex ELSE outIndex]
MCNeighborsOf == g1 :> [d \in Direction |-> IF d = "in" THEN inNeighbors ELSE outNeighbors]

MCOtherCommand == {[type |-> "ADD_WATCH_RANGE", length |-> 16, body |-> "range"]}

Symmetry == Permutations(Vectors) \cup Permutations(Jobs)
=============================================================================
