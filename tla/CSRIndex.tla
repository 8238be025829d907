-------------------------------- MODULE CSRIndex --------------------------------
(***************************************************************************)
(* Reading a graph in one direction (src/include/graphs/gapbs/graph.h).    *)
(* A graph g has its number of nodes, whether it is directed, and an index *)
(* array, a function from 0 .. num_nodes to addresses, which are counted   *)
(* in elements of the neighbors array.  CSRGraph has who owns the arrays.  *)
(*                                                                         *)
(* Offsets are 64 bits wide (SGOffset), as differences of pointers are,    *)
(* but the loops count in NodeID_, a 32-bit int.  A graph here has a       *)
(* num_nodes + 1 that fits it, so that the narrowing of offsets.size()     *)
(* changes no value (graph.h:300,311); with more nodes than that, n or     *)
(* length overflows, which is not modelled.                                *)
(***************************************************************************)
EXTENDS Integers

Graph(directed, num_nodes, index) ==
    [directed |-> directed, num_nodes |-> num_nodes, index |-> index]

(* vertices() *)
Vertices(g) == 0 .. g.num_nodes - 1

(* num_edges_: what lies between the ends of the index, or half of it.     *)
NumEdges(g) ==
    LET span == g.index[g.num_nodes] - g.index[0]
    IN  IF g.directed THEN span ELSE span \div 2

NumEdgesDirected(g) == IF g.directed THEN NumEdges(g) ELSE 2 * NumEdges(g)

Degree(g, v) == g.index[v + 1] - g.index[v]

(* Mutant of Neighborhood: the offset is not limited.                      *)
NeighborhoodUnlimited(g, n, offset) ==
    [begin |-> g.index[n] + offset, end |-> g.index[n + 1]]

(* The iterators of a neighborhood: an offset stops at its end.            *)
Neighborhood(g, n, offset) ==
    LET start_offset == IF offset < Degree(g, n) THEN offset ELSE Degree(g, n)
    IN  [begin |-> g.index[n] + start_offset, end |-> g.index[n + 1]]

(* The offsets into the neighbors array, wherever it is.                   *)
VertexOffsets(g) == [n \in 0 .. g.num_nodes |-> g.index[n] - g.index[0]]

(* The index that has these offsets into the array at neighs.  The         *)
(* iterations of its parallel loop write different entries.                *)
GenIndex(offsets, neighs) == [n \in DOMAIN offsets |-> neighs + offsets[n]]
=============================================================================
