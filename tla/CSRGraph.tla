-------------------------------- MODULE CSRGraph --------------------------------
(***************************************************************************)
(* The arrays of a CSRGraph (src/include/graphs/gapbs/graph.h): who frees  *)
(* them when graphs are moved, and what the graph's descriptors say of     *)
(* them.  GraphJob has the relations between the descriptors.              *)
(*                                                                         *)
(* A graph owns an index and a neighbors array in each direction; an       *)
(* undirected graph has the same two under both names, with every edge     *)
(* twice in its neighbors, and a directed graph of a type without          *)
(* MakeInverse has no arrays for the incoming direction.  The arrays are   *)
(* built by a graph builder that is not in the repository: an index array  *)
(* has an entry per node and one more, which run from the beginning to the *)
(* end of the neighbors array.                                             *)
(* A block of memory is a number; new blocks get the lowest that are free, *)
(* since which block an array is in makes no difference.                   *)
(***************************************************************************)
EXTENDS Integers, FiniteSets

CONSTANTS
    Places,         \* where a graph may be constructed
    Descriptors,    \* bound: groups of four descriptors, one per construction
    Null,           \* a null pointer
    MaxNodes,       \* bound: nodes of a graph
    MaxEdges        \* bound: edges of a graph

ASSUME PlacesAssumption == IsFiniteSet(Places) /\ Null \notin Descriptors
ASSUME SizeAssumption == MaxNodes \in Nat /\ MaxEdges \in Nat /\ Null \notin Nat

Array == {"out_index", "out_neighbors", "in_index", "in_neighbors"}
Blocks == 1 .. 4 * Cardinality(Places)

VARIABLES
    alive,      \* the places that hold a constructed graph
    directed,   \* directed[g]: directed_
    num_nodes, num_edges,
    arrays,     \* arrays[g][a]: the block of the array, or Null
    descriptor, \* descriptor[g]: its group of descriptors, or Null
    range,      \* range[d][a]: the block and length in the descriptor of a,
                \* for the groups d that exist
    freed,      \* freed[b]: whether b is free: 1 yes, 0 no, 2 freed twice
    length,     \* length[b]: the number of elements of block b, 0 if free
    make_inverse \* the graphs' template parameter MakeInverse: graphs of
                \* different types are not moved into each other

csrvars == <<alive, directed, num_nodes, num_edges, arrays, descriptor, range, freed, length,
             make_inverse>>
numbers == <<directed, num_nodes, num_edges>>

NoArrays == [a \in Array |-> Null]
NoRanges == [a \in Array |-> [block |-> Null, length |-> 0]]

(* The n lowest free blocks. *)
Fresh(n) ==
    {b \in Blocks : freed[b] = 1 /\ Cardinality({c \in 1 .. b : freed[c] = 1}) =< n}

FreeDescriptors == Descriptors \ DOMAIN range

-----------------------------------------------------------------------------
CInit ==
    /\ alive = {}
    /\ directed = [g \in Places |-> FALSE]
    /\ num_nodes = [g \in Places |-> -1]
    /\ num_edges = [g \in Places |-> -1]
    /\ arrays = [g \in Places |-> NoArrays]
    /\ descriptor = [g \in Places |-> Null]
    /\ range = [d \in {} |-> NoRanges]
    /\ freed = [b \in Blocks |-> 1]
    /\ length = [b \in Blocks |-> 0]
    /\ make_inverse \in BOOLEAN

DefaultConstruct(g) ==
    /\ g \notin alive
    /\ alive' = alive \cup {g}
    /\ UNCHANGED <<numbers, arrays, descriptor, range, freed, length, make_inverse>>

(* What the descriptors of a graph are given: get...AddressRange. *)
Ranges(arr, nodes, edges) ==
    [a \in Array |-> [block  |-> arr[a],
                      length |-> IF a \in {"out_index", "in_index"} THEN nodes + 1 ELSE edges]]

(* A graph of the arrays arr, which have been allocated with lengths len.  *)
(* What descriptors say of a null array begins at address 0.               *)
ConstructFrom(g, dir, nodes, edges, arr, len) ==
    /\ alive' = alive \cup {g}
    /\ directed' = [directed EXCEPT ![g] = dir]
    /\ num_nodes' = [num_nodes EXCEPT ![g] = nodes]
    /\ num_edges' = [num_edges EXCEPT ![g] = edges]
    /\ arrays' = [arrays EXCEPT ![g] = arr]
    /\ freed' = [b \in Blocks |-> IF b \in DOMAIN len THEN 0 ELSE freed[b]]
    /\ length' = [b \in Blocks |-> IF b \in DOMAIN len THEN len[b] ELSE length[b]]
    /\ \E d \in FreeDescriptors :
          /\ descriptor' = [descriptor EXCEPT ![g] = d]
          /\ range' = [e \in DOMAIN range \cup {d} |->
                        IF e = d THEN Ranges(arr, nodes, edges) ELSE range[e]]
    /\ UNCHANGED make_inverse

(* num_edges_ is half of what lies between the ends of the index. *)
ConstructUndirected(g, nodes, m) ==
    /\ g \notin alive
    /\ \E index, neighs \in Fresh(2) :
        /\ index < neighs
        /\ ConstructFrom(g, FALSE, nodes, (2 * m) \div 2,
              [a \in Array |-> IF a \in {"out_index", "in_index"} THEN index ELSE neighs],
              [b \in {index, neighs} |-> IF b = index THEN nodes + 1 ELSE 2 * m])

ConstructDirected(g, nodes, m) ==
    /\ g \notin alive /\ make_inverse
    /\ \E oi, on, ii, in \in Fresh(4) :
        /\ oi < on /\ on < ii /\ ii < in
        /\ ConstructFrom(g, TRUE, nodes, m,
              [out_index |-> oi, out_neighbors |-> on, in_index |-> ii, in_neighbors |-> in],
              [b \in {oi, on, ii, in} |-> IF b \in {oi, ii} THEN nodes + 1 ELSE m])

(* The builder of a graph that does not store its inverse passes null in   *)
(* arrays to the same constructor.                                         *)
ConstructOneWay(g, nodes, m) ==
    /\ g \notin alive /\ ~ make_inverse
    /\ \E index, neighs \in Fresh(2) :
        /\ index < neighs
        /\ ConstructFrom(g, TRUE, nodes, m,
              [NoArrays EXCEPT !["out_index"] = index, !["out_neighbors"] = neighs],
              [b \in {index, neighs} |-> IF b = index THEN nodes + 1 ELSE m])

(* ReleaseResources deletes two arrays, or four if directed_; null         *)
(* pointers it passes over.                                                *)
Released(dir) ==
    IF dir THEN Array ELSE {"out_index", "out_neighbors"}

Delete(g, names) ==
    /\ freed' = [b \in Blocks |->
                    freed[b] + Cardinality({a \in names : arrays[g][a] = b})]
    /\ length' = [b \in Blocks |-> IF freed'[b] = 0 THEN length[b] ELSE 0]

(* Mutant of Release: the arrays are deleted under every name.             *)
ReleaseAll(g) == Delete(g, Array)

Release(g) == Delete(g, Released(directed[g]))

(* Descriptors go with the last pointer to them. *)
Dropped ==
    range' = [d \in {descriptor'[g] : g \in alive'} \ {Null} |-> range[d]]

(* The numbers and arrays of g become those of f, whose counts become -1   *)
(* and whose arrays become null; directed_ stays.                          *)
TakeGraph(g, f) ==
    /\ directed' = [directed EXCEPT ![g] = directed[f]]
    /\ num_nodes' = [num_nodes EXCEPT ![g] = num_nodes[f], ![f] = -1]
    /\ num_edges' = [num_edges EXCEPT ![g] = num_edges[f], ![f] = -1]
    /\ arrays' = [arrays EXCEPT ![g] = arrays[f], ![f] = NoArrays]

(* The move constructor shares the descriptors with the graph moved from.  *)
MoveConstruct(g, f) ==
    /\ g \notin alive /\ f \in alive
    /\ alive' = alive \cup {g}
    /\ TakeGraph(g, f)
    /\ descriptor' = [descriptor EXCEPT ![g] = descriptor[f]]
    /\ UNCHANGED <<range, freed, length, make_inverse>>

(* Mutant of TakeDescriptors: g is left with those it had.                 *)
TakeNoDescriptors(g, f) == descriptor' = [descriptor EXCEPT ![f] = Null]

TakeDescriptors(g, f) ==
    descriptor' = [descriptor EXCEPT ![g] = descriptor[f], ![f] = Null]

MoveAssign(g, f) ==
    /\ g \in alive /\ f \in alive /\ g # f
    /\ Release(g)
    /\ TakeGraph(g, f)
    /\ TakeDescriptors(g, f)
    /\ UNCHANGED <<alive, make_inverse>>
    /\ Dropped

Destroy(g) ==
    /\ g \in alive
    /\ Release(g)
    /\ alive' = alive \ {g}
    /\ directed' = [directed EXCEPT ![g] = FALSE]
    /\ num_nodes' = [num_nodes EXCEPT ![g] = -1]
    /\ num_edges' = [num_edges EXCEPT ![g] = -1]
    /\ arrays' = [arrays EXCEPT ![g] = NoArrays]
    /\ descriptor' = [descriptor EXCEPT ![g] = Null]
    /\ Dropped
    /\ UNCHANGED make_inverse

Next ==
    \/ \E g \in Places : DefaultConstruct(g) \/ Destroy(g)
    \/ \E g \in Places, nodes \in 0 .. MaxNodes, m \in 0 .. MaxEdges :
          \/ ConstructUndirected(g, nodes, m)
          \/ ConstructDirected(g, nodes, m) \/ ConstructOneWay(g, nodes, m)
    \/ \E g, f \in Places : MoveConstruct(g, f) \/ MoveAssign(g, f)

CSpec == CInit /\ [][Next]_csrvars

-----------------------------------------------------------------------------
(* Properties. *)

(* The arrays g will delete. *)
Owns(g) == {arrays[g][a] : a \in Released(directed[g])} \ {Null}

(* Every array that is not free will be deleted by one graph, once, and    *)
(* none by two or twice, however graphs directed and undirected are moved  *)
(* into each other (graph.h:121-136, 198-244).                             *)
ArraysOwnedOnce ==
    /\ \A b \in Blocks : freed[b] \in {0, 1}
    /\ {b \in Blocks : freed[b] = 0} = UNION {Owns(g) : g \in alive}
    /\ \A g, f \in alive : g # f => Owns(g) \cap Owns(f) = {}
    /\ \A g \in alive : {arrays[g][a] : a \in Array} \ {Null} = Owns(g)

(* The array that tells how long the descriptor of a ought to be: a, or,   *)
(* if the graph has no a, the same array of the outgoing direction.        *)
Measured(arr, a) ==
    IF arr[a] # Null THEN arr[a]
    ELSE IF a = "in_index" THEN arr["out_index"] ELSE arr["out_neighbors"]

(* A graph that has arrays has descriptors of these arrays, wherever it    *)
(* was moved: the index arrays whole, and of the neighbors arrays whole if *)
(* it is directed, and the first half if it is not.  The descriptors of    *)
(* arrays a graph without inverse does not have say null, and are as long  *)
(* as those of the arrays it has (graph.h:138-168, 184, 350-365).          *)
OwnedDescribed ==
    \A g \in alive : arrays[g] # NoArrays =>
        /\ descriptor[g] # Null
        /\ \A a \in Array :
              LET r == range[descriptor[g]][a] IN
              /\ r.block = arrays[g][a]
              /\ r.length * (IF directed[g] \/ a \in {"out_index", "in_index"} THEN 1 ELSE 2)
                    = length[Measured(arrays[g], a)]

(* What WriteOutNeigh counts: the neighbors of all nodes. *)
Written(g) == length[arrays[g]["out_neighbors"]]

(* "WriteOutNeigh found wrong number of edges" (graph.h:408-410) is not    *)
(* printed: the neighbors written are as many as the line before them says.*)
WrittenAsAnnounced ==
    \A g \in alive : arrays[g] # NoArrays /\ num_nodes[g] > 0 => Written(g) = num_edges[g]
=============================================================================
