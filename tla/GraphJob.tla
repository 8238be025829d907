------------------------------- MODULE GraphJob -------------------------------
(***************************************************************************)
(* Jobs built from a graph: createGraphJobUsingIncomingEdges and           *)
(* createGraphJobUsingOutgoingEdges (src/include/graphs/gapbs/wrapper.h)   *)
(* over the descriptors a CSRGraph constructs (graph.h) and those of the   *)
(* application's vectors.                                                  *)
(*                                                                         *)
(* A graph has four descriptors, an index and a neighbors array in each    *)
(* direction, and all its jobs share them: the wrapper points the          *)
(* neighbors array at the consumer of the job it is building, which is     *)
(* seen by every job built before.                                         *)
(***************************************************************************)
EXTENDS PickleJob

CONSTANTS
    Graphs,         \* the CSRGraph objects
    IndexOf,        \* IndexOf[g][dir]: descriptor of the index array
    NeighborsOf,    \* NeighborsOf[g][dir]: descriptor of the neighbors array
    Relatable       \* bound: arrays whose relations the application sets itself

Direction == {"in", "out"}

IndexArrays == {IndexOf[g][d] : g \in Graphs, d \in Direction}
NeighborsArrays == {NeighborsOf[g][d] : g \in Graphs, d \in Direction}
Vectors == Arrays \ (IndexArrays \cup NeighborsArrays)

ASSUME GraphAssumption ==
    /\ IndexOf \in [Graphs -> [Direction -> Arrays]]
    /\ NeighborsOf \in [Graphs -> [Direction -> Arrays]]
    /\ IndexArrays \cap NeighborsArrays = {}
    /\ \A g, f \in Graphs : \A d, e \in Direction :
          \/ g = f /\ d = e
          \/ /\ IndexOf[g][d] # IndexOf[f][e]
             /\ NeighborsOf[g][d] # NeighborsOf[f][e]

VARIABLE built      \* the graphs that have been constructed

gvars == <<heap, jobs, built>>

-----------------------------------------------------------------------------
(* The wrapper, as the calls it makes on the heap and on its local job.    *)

Added(s, a) ==
    LET h == WithId(s.heap, a) IN [heap |-> h, job |-> JobWith(s.job, a, h.id[a])]

Linked(s, d, b) == [s EXCEPT !.heap = IndexedBy(s.heap, d, b)]

(* Mutant of WithSelector: the index array indexes the selector.           *)
WithSelectorReversed(s, index, sel) ==
    IF sel = Null THEN s ELSE Linked(Added(s, sel), index, sel)

(* An edge selector indexes the index array; a null selector is left out.  *)
WithSelector(s, index, sel) ==
    IF sel = Null THEN s ELSE Linked(Added(s, sel), sel, index)

(* Mutants of WithConsumer: the consumer is not added; the consumer is the *)
(* one whose relation is set.                                              *)
WithConsumerNotAdded(s, neighbors, cons) ==
    IF cons = Null THEN s ELSE Linked(s, neighbors, cons)
WithConsumerReversed(s, neighbors, cons) ==
    IF cons = Null THEN s ELSE Linked(Added(s, cons), cons, neighbors)

(* The neighbors array indexes the edge consumer, if there is one.         *)
WithConsumer(s, neighbors, cons) ==
    IF cons = Null THEN s ELSE Linked(Added(s, cons), neighbors, cons)

(* The heap and the job that createGraphJobUsing...Edges leaves.           *)
GraphJobOf(h, index, neighbors, sel, cons) ==
    WithConsumer(
        WithSelector(
            Added(Added([heap |-> h, job |-> EmptyJob], index), neighbors),
            index, sel),
        neighbors, cons)

(* Mutant of GraphHeap: the directions are crossed.                        *)
GraphHeapCrossed(h, g) ==
    IndexedBy(IndexedBy(h, IndexOf[g]["in"], NeighborsOf[g]["out"]),
              IndexOf[g]["out"], NeighborsOf[g]["in"])

(* constructArrayRelations: each index array indexes its neighbors array.  *)
GraphHeap(h, g) ==
    IndexedBy(IndexedBy(h, IndexOf[g]["in"], NeighborsOf[g]["in"]),
              IndexOf[g]["out"], NeighborsOf[g]["out"])

-----------------------------------------------------------------------------
GInit == Init /\ built = {}

ConstructGraph(g) ==
    /\ g \notin built
    /\ built' = built \cup {g}
    /\ heap' = GraphHeap(heap, g)
    /\ UNCHANGED jobs

CreateGraphJob(j, g, d, sel, cons) ==
    /\ g \in built
    /\ LET s == GraphJobOf(heap, IndexOf[g][d], NeighborsOf[g][d], sel, cons)
       IN  /\ heap' = s.heap
           /\ jobs' = [jobs EXCEPT ![j] = s.job]
    /\ UNCHANGED built

(* The arrays of the graphs constructed so far, and the vectors.           *)
Live == Vectors \cup {IndexOf[g][d] : g \in built, d \in Direction}
                \cup {NeighborsOf[g][d] : g \in built, d \in Direction}

(* The selectors and consumers the application can pass: its vectors, or   *)
(* a null pointer.                                                         *)
Optional == Vectors \cup {Null}

(* The application relates arrays itself: its own or, since a graph hands  *)
(* out its descriptors, a graph's.                                         *)
Relate(d, b) ==
    /\ d \in Relatable
    /\ SetIndexedBy(d, b)
    /\ UNCHANGED built

(* The application extends a job the wrapper returned.                     *)
Extend(j, a) ==
    /\ jobs[j] # EmptyJob
    /\ AddArrayDescriptor(j, a)
    /\ UNCHANGED built

GNext ==
    \/ \E g \in Graphs : ConstructGraph(g)
    \/ \E j \in Jobs, g \in Graphs, d \in Direction, sel, cons \in Optional :
          CreateGraphJob(j, g, d, sel, cons)
    \/ \E d, b \in Live : Relate(d, b)
    \/ \E j \in Jobs, a \in Live : Extend(j, a)

GSpec == GInit /\ [][GNext]_gvars

-----------------------------------------------------------------------------
(* Properties. *)

(* An index array is pointed away from its neighbors array by nobody but   *)
(* the application: the wrapper, and the constructors of other graphs,     *)
(* rewrite only other relations (graph.h:170-173, wrapper.h:30,38).        *)
IndexReachesNeighbors ==
    \A g \in built, d \in Direction :
        /\ heap.id[NeighborsOf[g][d]] # Unassigned
        /\ \/ heap.dst[IndexOf[g][d]] = heap.id[NeighborsOf[g][d]]
           \/ IndexOf[g][d] \in Relatable

(* Whether the relation of array a, as it stands in heap h, stays inside   *)
(* the set S of arrays.                                                    *)
StaysIn(h, a, S) == h.dst[a] = NoArray \/ \E b \in S : h.id[b] = h.dst[a]

(* A job fresh from the wrapper has a description exactly when the two     *)
(* relations the wrapper does not set stay inside the job: that of the     *)
(* index array, and that of the last array of the chain: the consumer,     *)
(* unless it is also the selector, or without a consumer the neighbors     *)
(* array, as the graph's previous job left it (wrapper.h:22-39).           *)
FreshJobSendable ==
    \A g \in built, d \in Direction, sel, cons \in Optional :
        LET s == GraphJobOf(heap, IndexOf[g][d], NeighborsOf[g][d], sel, cons)
            inside == {IndexOf[g][d], NeighborsOf[g][d], sel, cons} \ {Null}
            last == IF cons = Null THEN NeighborsOf[g][d] ELSE cons
        IN  JobDescriptor(s.heap, s.job).ok
              <=> /\ StaysIn(heap, IndexOf[g][d], inside)
                  /\ \/ StaysIn(heap, last, inside)
                     \/ cons # Null /\ cons = sel

(* Such a job reads as the chain the kernel walks: row 0 is the index      *)
(* array and leads to row 1, the neighbors, if it did before; they lead to *)
(* the consumer; the selector leads to row 0.  The last of them leads      *)
(* nowhere exactly if it did before: otherwise the chain goes on, to the   *)
(* consumer of an earlier job, or from a vector that was a selector back   *)
(* to row 0 (wrapper.h:22-39).                                             *)
FreshJobIsChain ==
    \A g \in built, d \in Direction, sel, cons \in Optional :
        LET s == GraphJobOf(heap, IndexOf[g][d], NeighborsOf[g][d], sel, cons)
            w == JobDescriptor(s.heap, s.job)
            last == IF cons = Null THEN NeighborsOf[g][d] ELSE cons
        IN  w.ok =>
            /\ w.rows[1].region = IndexOf[g][d]
            /\ heap.dst[IndexOf[g][d]] = heap.id[NeighborsOf[g][d]] => w.rows[1].dst = 1
            /\ w.rows[2].region = NeighborsOf[g][d]
            /\ cons # Null => w.rows[w.rows[2].dst + 1].region = cons
            /\ sel # Null => \E k \in DOMAIN w.rows :
                                w.rows[k].region = sel /\ w.rows[k].dst = 0
            /\ last # sel =>
                  \A k \in DOMAIN w.rows : w.rows[k].region = last =>
                     (w.rows[k].dst = NoArray <=> heap.dst[last] = NoArray)

(* Building a job leaves alone what the device is told about a job that    *)
(* lists neither of the arrays whose relations the wrapper sets: jobs of   *)
(* other graphs, of the other direction, with other selectors.             *)
OtherJobsKept ==
    \A g \in built, d \in Direction, sel, cons \in Optional, i \in Jobs :
        (\A k \in DOMAIN jobs[i].arrays :
            jobs[i].arrays[k] \notin {NeighborsOf[g][d], sel})
        => LET s == GraphJobOf(heap, IndexOf[g][d], NeighborsOf[g][d], sel, cons)
           IN  JobDescriptor(s.heap, jobs[i]) = JobDescriptor(heap, jobs[i])
=============================================================================
