------------------------------- MODULE Benchmark -------------------------------
(***************************************************************************)
(* The helpers of the benchmark kernels (src/include/graphs/gapbs/         *)
(* benchmark.h), called by one thread, over a graph that is read with      *)
(* CSRIndex: SourcePicker draws a vertex to start from, TopK lists the     *)
(* largest of the values a kernel computed.  A graph may be saved as its   *)
(* offsets and neighbors and come back at another address.                 *)
(***************************************************************************)
EXTENDS CSRIndex, Sequences, FiniteSets

CONSTANTS
    NumNodes,       \* bound: the numbers of nodes of the graphs
    Degrees,        \* bound: the degrees of their nodes
    Bases,          \* bound: where the neighbors array may be
    Values,         \* bound: ValT, the values given to TopK
    MaxPairs,       \* bound: how many pairs are given to TopK
    MaxK            \* bound: how many TopK is asked for

ASSUME BenchmarkAssumption ==
    /\ NumNodes \subseteq Nat \ {0} /\ Degrees \subseteq Nat /\ Bases \subseteq Nat
    /\ Values \subseteq Int /\ 0 \in Values
    /\ MaxPairs \in Nat /\ MaxK \in Nat

NoVertex == -1

VARIABLES
    graph,
    given_source,   \* the picker's given source, or NoVertex
    source,         \* PickNext's local, or NoVertex
    pc,             \* "idle", or the loop that runs: "draw" or "topk"
    to_sort, k,     \* TopK's arguments
    i,              \* TopK has read this many pairs
    top_k, min_so_far

picker == <<graph, given_source>>
sorter == <<to_sort, k, i, top_k, min_so_far>>
bvars == <<picker, source, pc, sorter>>

(* External: the index a builder makes of a graph's degrees.               *)
IndexOf(num_nodes, degree, base) ==
    LET at[n \in 0 .. num_nodes] == IF n = 0 THEN base ELSE at[n - 1] + degree[n - 1] IN at

(* External: the graphs a builder makes; every edge of an undirected one   *)
(* is in two neighborhoods.                                                *)
BuiltGraphs ==
    {g \in UNION {{Graph(d, n, IndexOf(n, degree, base)) : degree \in [0 .. n - 1 -> Degrees]} :
                    d \in BOOLEAN, n \in NumNodes, base \in Bases} :
        g.directed \/ (g.index[g.num_nodes] - g.index[0]) % 2 = 0}

BInit ==
    /\ graph \in BuiltGraphs
    /\ given_source \in {NoVertex} \cup Vertices(graph)
    /\ source = NoVertex
    /\ pc = "idle"
    /\ to_sort = <<>> /\ k = 0
    /\ i = 0 /\ top_k = <<>> /\ min_so_far = 0

(* The graph is saved and loaded.                                          *)
Reload(base) ==
    /\ pc = "idle"
    /\ graph' = [graph EXCEPT !.index = GenIndex(VertexOffsets(graph), base)]
    /\ UNCHANGED <<given_source, source, pc, sorter>>

-----------------------------------------------------------------------------
(* SourcePicker::PickNext *)

PickGiven ==
    /\ pc = "idle" /\ given_source # NoVertex
    /\ source' = given_source
    /\ UNCHANGED <<picker, pc, sorter>>

BeginPick ==
    /\ pc = "idle" /\ given_source = NoVertex
    /\ pc' = "draw"
    /\ UNCHANGED <<picker, source, sorter>>

(* Mutant of Draw: the test is reversed.                                   *)
DrawIsolated(v) ==
    /\ pc = "draw"
    /\ source' = v
    /\ pc' = IF Degree(graph, v) = 0 THEN "idle" ELSE "draw"
    /\ UNCHANGED <<picker, sorter>>

(* The generator yields v; the loop ends if v has an edge.                 *)
Draw(v) ==
    /\ pc = "draw"
    /\ source' = v
    /\ pc' = IF Degree(graph, v) = 0 THEN "draw" ELSE "idle"
    /\ UNCHANGED <<picker, sorter>>

-----------------------------------------------------------------------------
(* TopK *)

(* Pairs of a value and a key, the larger first.                           *)
Greater(p, q) == p[1] > q[1] \/ (p[1] = q[1] /\ p[2] > q[2])

CallTopK(pairs, size) ==
    /\ pc = "idle"
    /\ pc' = "topk"
    /\ to_sort' = pairs /\ k' = size
    /\ UNCHANGED <<picker, source, i, top_k, min_so_far>>

(* Mutant of Wanted: once there are k values, larger ones are passed over. *)
WantedWhileRoom(value) == Len(top_k) < k

Wanted(value) == Len(top_k) < k \/ value > min_so_far

(* std::sort, for pairs no two of which are equal: the elements of s, each *)
(* in the one place where it is greater than those behind it.              *)
Sorted(s) ==
    LET from == CHOOSE f \in [DOMAIN s -> DOMAIN s] :
                    \A m, n \in DOMAIN s : m < n => Greater(s[f[m]], s[f[n]])
    IN  [m \in DOMAIN s |-> s[from[m]]]

(* push_back, sort, resize *)
Inserted(pair) ==
    LET sorted == Sorted(Append(top_k, pair))
    IN  IF Len(sorted) > k THEN SubSeq(sorted, 1, k) ELSE sorted

(* top_k.back().first.  For k = 0 the vector is empty and what back()      *)
(* reads is undefined: any value.  Nothing is kept then, whichever it is.  *)
Back(s) == IF s = <<>> THEN Values ELSE {s[Len(s)][1]}

TakePair ==
    /\ pc = "topk" /\ i < Len(to_sort)
    /\ i' = i + 1
    /\ IF Wanted(to_sort[i'])
       THEN /\ top_k' = Inserted(<<to_sort[i'], i'>>)
            /\ min_so_far' \in Back(top_k')
       ELSE UNCHANGED <<top_k, min_so_far>>
    /\ UNCHANGED <<picker, source, pc, to_sort, k>>

ReturnTopK ==
    /\ pc = "topk" /\ i = Len(to_sort)
    /\ pc' = "idle"
    /\ to_sort' = <<>> /\ k' = 0
    /\ i' = 0 /\ top_k' = <<>> /\ min_so_far' = 0
    /\ UNCHANGED <<picker, source>>

BNext ==
    \/ \E base \in Bases : Reload(base)
    \/ PickGiven \/ BeginPick
    \/ \E v \in Vertices(graph) : Draw(v)
    \/ \E n \in 0 .. MaxPairs, size \in 0 .. MaxK : \E pairs \in [1 .. n -> Values] :
          CallTopK(pairs, size)
    \/ TakePair \/ ReturnTopK

(* The generator's period is that of all 32-bit words, so while PickNext   *)
(* draws, every vertex has its turn.                                       *)
BSpec == BInit /\ [][BNext]_bvars
               /\ \A v \in UNION {0 .. n - 1 : n \in NumNodes} :
                      WF_bvars(v \in Vertices(graph) /\ Draw(v))

-----------------------------------------------------------------------------
(* Properties. *)

Cells(h) == h.begin .. h.end - 1

(* Reading a graph reaches every neighbor that num_edges_directed counts,  *)
(* each from one vertex, and none beyond; an offset into a neighborhood    *)
(* skips that many and never runs past its end; all of it wherever the     *)
(* graph was reloaded to (graph.h:258-317).                                *)
NeighborsReached ==
    LET base == graph.index[0]
        rows == [v \in Vertices(graph) |-> Cells(Neighborhood(graph, v, 0))]
    IN  /\ base \in Bases
        /\ UNION {rows[v] : v \in Vertices(graph)} = base .. base + NumEdgesDirected(graph) - 1
        /\ \A v, w \in Vertices(graph) : v # w => rows[v] \cap rows[w] = {}
        /\ \A v \in Vertices(graph), offset \in Degrees \cup {MaxPairs + 1} :
              LET h == Neighborhood(graph, v, offset) IN
              /\ h.begin =< h.end
              /\ Cells(h) = {c \in rows[v] : Cardinality({b \in rows[v] : b < c}) >= offset}

(* "Returns k pairs with largest values" (benchmark.h:76): after each pair *)
(* top_k has the largest so far, in order, each once, and as many as there *)
(* are up to k, for values of any sign, ties, and k = 0 whatever back()    *)
(* reads then.                                                             *)
TopKSoFar ==
    pc = "topk" =>
        LET kept == {top_k[j][2] : j \in DOMAIN top_k} IN
        /\ Len(top_k) = IF i < k THEN i ELSE k
        /\ Cardinality(kept) = Len(top_k) /\ kept \subseteq 1 .. i
        /\ \A j \in DOMAIN top_k : top_k[j][1] = to_sort[top_k[j][2]]
        /\ \A j \in 2 .. Len(top_k) : top_k[j - 1][1] >= top_k[j][1]
        /\ \A j \in DOMAIN top_k, m \in 1 .. i \ kept : top_k[j][1] >= to_sort[m]

Edgeless == \A v \in Vertices(graph) : Degree(graph, v) = 0
Picked == pc = "idle" /\ \E v \in Vertices(graph) : source = v /\ Degree(graph, v) # 0

(* PickNext ends with a vertex that has an edge, unless the graph has no   *)
(* edge at all: then it draws for ever (benchmark.h:66-68).                *)
PickEnds ==
    /\ pc = "draw" ~> Edgeless \/ Picked
    /\ [](pc = "draw" /\ Edgeless => [](pc = "draw"))
=============================================================================
