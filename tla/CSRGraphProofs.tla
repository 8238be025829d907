----------------------------- MODULE CSRGraphProofs -----------------------------
(***************************************************************************)
(* Theorems about CSRGraph, for any places, graphs of any size and any     *)
(* number of descriptors: the arrays have one owner, and the descriptors   *)
(* of a graph describe its arrays.                                         *)
(***************************************************************************)
EXTENDS CSRGraph, FiniteSetTheorems, TLAPS

CTypeOK ==
    /\ alive \subseteq Places
    /\ directed \in [Places -> BOOLEAN]
    /\ num_nodes \in [Places -> Int] /\ num_edges \in [Places -> Int]
    /\ arrays \in [Places -> [Array -> Blocks \cup {Null}]]
    /\ descriptor \in [Places -> Descriptors \cup {Null}]
    /\ freed \in [Blocks -> Nat] /\ length \in [Blocks -> Nat]

Outgoing == {"out_index", "out_neighbors"}

(* A graph has its outgoing arrays or none.  A directed one may have two   *)
(* more; one that is not has its two under both names.                     *)
ArraysOf(g) ==
    /\ g \notin alive => arrays[g] = NoArrays /\ descriptor[g] = Null
    /\ arrays[g] = NoArrays \/ \A a \in Outgoing : arrays[g][a] # Null
    /\ \A a, b \in Released(directed[g]) : arrays[g][a] # Null /\ arrays[g][a] = arrays[g][b] => a = b
    /\ ~ directed[g] => /\ arrays[g]["in_index"] = arrays[g]["out_index"]
                        /\ arrays[g]["in_neighbors"] = arrays[g]["out_neighbors"]

(* Who deletes a block: exactly one graph, if it is not free.              *)
OwnedInv ==
    /\ \A g \in Places : ArraysOf(g)
    /\ \A g, f \in Places : g # f => Owns(g) \cap Owns(f) = {}
    /\ \A b \in Blocks : /\ freed[b] \in {0, 1}
                         /\ freed[b] = 0 <=> \E g \in Places : b \in Owns(g)

DescribedInv ==
    /\ \A g \in alive : descriptor[g] # Null => descriptor[g] \in DOMAIN range
    /\ OwnedDescribed

CInv == CTypeOK /\ OwnedInv /\ DescribedInv

(* A graph with arrays measures every descriptor by an array it has.       *)
LEMMA MeasuredFacts ==
    ASSUME NEW arr, NEW a \in Array, \A o \in Outgoing : arr[o] # Null
    PROVE  \E o \in Array : Measured(arr, a) = arr[o] /\ arr[o] # Null
BY DEF Measured, Array, Outgoing

-----------------------------------------------------------------------------
LEMMA BlocksFacts == Blocks \subseteq Nat /\ Null \notin Blocks
<1>1. Cardinality(Places) \in Nat
  BY PlacesAssumption, FS_CardinalityType
<1> QED BY <1>1, SizeAssumption DEF Blocks

(* What a graph owns are the blocks of all its arrays.                     *)
LEMMA OwnsFacts ==
    ASSUME CTypeOK, NEW g \in Places, ArraysOf(g)
    PROVE  /\ \A a \in Array : arrays[g][a] # Null => arrays[g][a] \in Owns(g)
           /\ \A b \in Owns(g) : b \in Blocks /\ b # Null /\ \E a \in Released(directed[g]) : arrays[g][a] = b
           /\ Released(directed[g]) \subseteq Array
           /\ {arrays[g][a] : a \in Array} \ {Null} = Owns(g)
           /\ arrays[g] = NoArrays => Owns(g) = {}
<1>1. Released(directed[g]) \subseteq Array
  BY DEF Released, Array
<1>2. \A a \in Array : arrays[g][a] # Null => arrays[g][a] \in Owns(g)
  BY DEF ArraysOf, Owns, Released, Array
<1>3. \A b \in Owns(g) : b \in Blocks /\ b # Null /\ \E a \in Released(directed[g]) : arrays[g][a] = b
  BY <1>1 DEF Owns, CTypeOK
<1>4. arrays[g] = NoArrays => Owns(g) = {}
  BY <1>1 DEF Owns, NoArrays
<1> QED BY <1>1, <1>2, <1>3, <1>4 DEF Owns

LEMMA InvMeans == CInv => ArraysOwnedOnce /\ OwnedDescribed
<1> SUFFICES ASSUME CInv PROVE ArraysOwnedOnce
  BY DEF CInv, DescribedInv
<1>0. CTypeOK /\ OwnedInv
  BY DEF CInv
<1>1. \A g \in Places : /\ g \notin alive => Owns(g) = {}
                        /\ {arrays[g][a] : a \in Array} \ {Null} = Owns(g)
                        /\ Owns(g) \subseteq Blocks
  BY <1>0, OwnsFacts DEF OwnedInv, ArraysOf
<1>2. alive \subseteq Places
  BY <1>0 DEF CTypeOK
<1>3. {b \in Blocks : freed[b] = 0} = UNION {Owns(g) : g \in alive}
  BY <1>0, <1>1, <1>2 DEF OwnedInv
<1> QED BY <1>0, <1>1, <1>2, <1>3 DEF ArraysOwnedOnce, OwnedInv

LEMMA InitCInv == CInit => CInv
<1> SUFFICES ASSUME CInit PROVE CInv
  OBVIOUS
<1> USE DEF CInit
<1>1. CTypeOK
  BY DEF CTypeOK, NoArrays
<1>2. \A g \in Places : ArraysOf(g) /\ arrays[g] = NoArrays
  BY DEF ArraysOf, NoArrays, Released, Array
<1>3. \A g \in Places : Owns(g) = {}
  BY <1>1, <1>2, OwnsFacts
<1>4. OwnedInv
  BY <1>2, <1>3 DEF OwnedInv
<1>5. DescribedInv
  BY DEF DescribedInv, OwnedDescribed
<1> QED BY <1>1, <1>4, <1>5 DEF CInv

-----------------------------------------------------------------------------
(* Deleting frees what the graph owns, each block once, and nothing else.  *)
LEMMA ReleaseFacts ==
    ASSUME CTypeOK, OwnedInv, NEW g \in Places, Release(g)
    PROVE  /\ freed' \in [Blocks -> Nat] /\ length' \in [Blocks -> Nat]
           /\ \A b \in Owns(g) : freed'[b] = 1
           /\ \A b \in Blocks \ Owns(g) : freed'[b] = freed[b] /\ (freed[b] = 0 => length'[b] = length[b])
<1> DEFINE Names(b) == {a \in Released(directed[g]) : arrays[g][a] = b}
<1>0. ArraysOf(g)
  BY DEF OwnedInv
<1>1. \A b \in Blocks : freed'[b] = freed[b] + Cardinality(Names(b)) /\ freed[b] \in Nat
  BY DEF Release, Delete, CTypeOK
<1>2. \A b \in Owns(g) : freed[b] = 0 /\ b \in Blocks
  BY <1>0, OwnsFacts DEF OwnedInv
<1>3. \A b \in Owns(g) : Cardinality(Names(b)) = 1
  <2> SUFFICES ASSUME NEW b \in Owns(g) PROVE Cardinality(Names(b)) = 1
    OBVIOUS
  <2>1. PICK a \in Released(directed[g]) : arrays[g][a] = b /\ b # Null
    BY <1>0, OwnsFacts
  <2>2. Names(b) = {a}
    BY <1>0, <2>1 DEF ArraysOf
  <2> QED BY <2>2, FS_Singleton
<1>4. \A b \in Blocks \ Owns(g) : Cardinality(Names(b)) = 0
  <2> SUFFICES ASSUME NEW b \in Blocks \ Owns(g) PROVE Names(b) = {}
    BY FS_EmptySet
  <2> QED BY BlocksFacts DEF Owns
<1> HIDE DEF Names
<1>5. /\ \A b \in Owns(g) : freed'[b] = 1
      /\ \A b \in Blocks \ Owns(g) : freed'[b] = freed[b]
  BY <1>1, <1>2, <1>3, <1>4
<1>6. freed' = [b \in Blocks |-> freed'[b]]
  BY DEF Release, Delete
<1>7. freed' \in [Blocks -> Nat]
  BY <1>1, <1>5, <1>6
<1>8. length' = [b \in Blocks |-> IF freed'[b] = 0 THEN length[b] ELSE 0]
  BY DEF Release, Delete
<1> QED BY <1>5, <1>7, <1>8 DEF CTypeOK

LEMMA DefaultConstructInv ==
    ASSUME CInv, NEW g \in Places, DefaultConstruct(g)
    PROVE  CInv'
<1>0. CTypeOK /\ OwnedInv /\ DescribedInv
  BY DEF CInv
<1>1. /\ alive' = alive \cup {g} /\ g \notin alive
      /\ UNCHANGED <<directed, num_nodes, num_edges, arrays, descriptor, range, freed, length>>
  BY DEF DefaultConstruct, numbers
<1>2. CTypeOK'
  BY <1>0, <1>1 DEF CTypeOK
<1>3. \A f \in Places : ArraysOf(f)' /\ Owns(f)' = Owns(f)
  BY <1>0, <1>1 DEF OwnedInv, ArraysOf, Owns
<1>4. OwnedInv'
  BY <1>0, <1>1, <1>3 DEF OwnedInv
<1>5. DescribedInv'
  <2>1. arrays[g] = NoArrays /\ descriptor[g] = Null
    BY <1>0, <1>1 DEF OwnedInv, ArraysOf
  <2> QED BY <1>0, <1>1, <2>1 DEF DescribedInv, OwnedDescribed
<1> QED BY <1>2, <1>4, <1>5 DEF CInv

-----------------------------------------------------------------------------
(* The blocks arr were free, are allocated with the lengths len, and have  *)
(* the layout of a graph of these numbers of nodes and edges.              *)
Fits(dir, nodes, edges, arr, len) ==
    /\ \A a \in Outgoing : arr[a] # Null
    /\ \A b \in DOMAIN len : b \in Blocks /\ freed[b] = 1 /\ len[b] \in Nat
    /\ DOMAIN len = {arr[a] : a \in Array} \ {Null}
    /\ \A a, b \in Released(dir) : arr[a] # Null /\ arr[a] = arr[b] => a = b
    /\ ~ dir => arr["in_index"] = arr["out_index"] /\ arr["in_neighbors"] = arr["out_neighbors"]
    /\ \A a \in Array : Ranges(arr, nodes, edges)[a].length *
          (IF dir \/ a \in {"out_index", "in_index"} THEN 1 ELSE 2) = len[Measured(arr, a)]

LEMMA ConstructFromInv ==
    ASSUME CInv, NEW g \in Places, g \notin alive, NEW dir \in BOOLEAN,
           NEW nodes \in Nat, NEW edges \in Nat, NEW arr \in [Array -> Blocks \cup {Null}], NEW len,
           Fits(dir, nodes, edges, arr, len),
           ConstructFrom(g, dir, nodes, edges, arr, len)
    PROVE  CInv'
<1>0. /\ CTypeOK /\ OwnedInv /\ DescribedInv /\ alive \subseteq Places
  BY DEF CInv, CTypeOK
<1>m. \A a \in Array : Measured(arr, a) \in DOMAIN len
  BY MeasuredFacts DEF Fits
<1> USE DEF Fits
<1>1. /\ alive' = alive \cup {g}
      /\ directed' = [directed EXCEPT ![g] = dir]
      /\ num_nodes' = [num_nodes EXCEPT ![g] = nodes]
      /\ num_edges' = [num_edges EXCEPT ![g] = edges]
      /\ arrays' = [arrays EXCEPT ![g] = arr]
      /\ freed' = [b \in Blocks |-> IF b \in DOMAIN len THEN 0 ELSE freed[b]]
      /\ length' = [b \in Blocks |-> IF b \in DOMAIN len THEN len[b] ELSE length[b]]
  BY DEF ConstructFrom
<1>2. PICK d \in FreeDescriptors :
          /\ descriptor' = [descriptor EXCEPT ![g] = d]
          /\ range' = [e \in DOMAIN range \cup {d} |->
                        IF e = d THEN Ranges(arr, nodes, edges) ELSE range[e]]
  BY DEF ConstructFrom
<1>3. d \in Descriptors /\ d \notin DOMAIN range /\ d # Null
  BY PlacesAssumption DEF FreeDescriptors
<1>4. CTypeOK'
  BY <1>0, <1>1, <1>2, <1>3 DEF CTypeOK
<1>5. /\ arrays'[g] = arr /\ directed'[g] = dir /\ descriptor'[g] = d
      /\ \A f \in Places \ {g} : /\ arrays'[f] = arrays[f] /\ directed'[f] = directed[f]
                                 /\ descriptor'[f] = descriptor[f]
  BY <1>0, <1>1, <1>2 DEF CTypeOK
<1>6. \A f \in Places : ArraysOf(f)'
  <2>1. ArraysOf(g)'
    BY <1>0, <1>1, <1>5 DEF ArraysOf
  <2>2. ASSUME NEW f \in Places \ {g} PROVE ArraysOf(f)'
    <3>1. ArraysOf(f)
      BY <1>0 DEF OwnedInv
    <3> QED BY <1>0, <1>1, <1>5, <3>1 DEF ArraysOf
  <2> QED BY <2>1, <2>2
<1>7. /\ Owns(g)' = DOMAIN len
      /\ \A f \in Places \ {g} : Owns(f)' = Owns(f)
  <2>1. Owns(g)' = {arr[a] : a \in Released(dir)} \ {Null}
    BY <1>5 DEF Owns
  <2>2. {arr[a] : a \in Released(dir)} \ {Null} = {arr[a] : a \in Array} \ {Null}
    BY DEF Released, Array
  <2>3. \A f \in Places \ {g} : Owns(f)' = Owns(f)
    BY <1>5 DEF Owns
  <2> QED BY <2>1, <2>2, <2>3
<1>8. Owns(g) = {} /\ \A f \in Places : \A b \in Owns(f) : b \in Blocks /\ freed[b] = 0 /\ b \notin DOMAIN len
  BY <1>0, OwnsFacts DEF OwnedInv, ArraysOf
<1>9. OwnedInv'
  <2>1. \A h, f \in Places : h # f => Owns(h)' \cap Owns(f)' = {}
    BY <1>0, <1>7, <1>8 DEF OwnedInv
  <2>2. ASSUME NEW b \in Blocks
        PROVE  /\ freed'[b] \in {0, 1}
               /\ freed'[b] = 0 <=> \E f \in Places : b \in Owns(f)'
    <3>1. CASE b \in DOMAIN len
      BY <1>1, <1>7, <3>1
    <3>2. CASE b \notin DOMAIN len
      BY <1>0, <1>1, <1>7, <1>8, <3>2 DEF OwnedInv
    <3> QED BY <3>1, <3>2
  <2> QED BY <1>6, <2>1, <2>2 DEF OwnedInv
<1>10. DescribedInv'
  <2>1. \A f \in alive' : descriptor'[f] # Null => descriptor'[f] \in DOMAIN range'
    BY <1>0, <1>1, <1>2, <1>5 DEF DescribedInv
  <2>2. ASSUME NEW f \in alive', arrays'[f] # NoArrays
        PROVE  /\ descriptor'[f] # Null
               /\ \A a \in Array :
                     /\ range'[descriptor'[f]][a].block = arrays'[f][a]
                     /\ range'[descriptor'[f]][a].length *
                           (IF directed'[f] \/ a \in {"out_index", "in_index"} THEN 1 ELSE 2)
                           = length'[Measured(arrays'[f], a)]
    <3>1. CASE f = g
      <4>1. range'[d] = Ranges(arr, nodes, edges)
        BY <1>2
      <4>2. \A a \in Array : /\ Ranges(arr, nodes, edges)[a].block = arr[a]
                             /\ length'[Measured(arr, a)] = len[Measured(arr, a)]
        BY <1>m, <1>1 DEF Ranges
      <4> QED BY <1>3, <1>5, <3>1, <4>1, <4>2
    <3>2. CASE f # g
      <4>1. f \in alive /\ f \in Places /\ arrays[f] # NoArrays
        BY <1>0, <1>1, <1>5, <2>2, <3>2
      <4>2. /\ descriptor[f] # Null /\ descriptor[f] \in DOMAIN range
            /\ \A a \in Array :
                     /\ range[descriptor[f]][a].block = arrays[f][a]
                     /\ range[descriptor[f]][a].length *
                           (IF directed[f] \/ a \in {"out_index", "in_index"} THEN 1 ELSE 2)
                           = length[Measured(arrays[f], a)]
        BY <1>0, <4>1 DEF DescribedInv, OwnedDescribed
      <4>3. range'[descriptor[f]] = range[descriptor[f]]
        BY <1>2, <1>3, <4>2
      <4>4. \A a \in Array : length'[Measured(arrays[f], a)] = length[Measured(arrays[f], a)]
        <5>1. \A a \in Array : Measured(arrays[f], a) \in Owns(f)
          BY <1>0, <4>1, OwnsFacts, MeasuredFacts DEF OwnedInv, ArraysOf
        <5> QED BY <1>1, <1>8, <4>1, <5>1
      <4>5. arrays'[f] = arrays[f] /\ directed'[f] = directed[f] /\ descriptor'[f] = descriptor[f]
        BY <1>5, <3>2, <4>1
      <4> QED BY <4>2, <4>3, <4>4, <4>5
    <3> QED BY <3>1, <3>2
  <2> QED BY <2>1, <2>2 DEF DescribedInv, OwnedDescribed
<1> QED BY <1>4, <1>9, <1>10 DEF CInv

LEMMA ConstructInv ==
    ASSUME CInv, NEW g \in Places, NEW nodes \in Nat, NEW m \in Nat,
           \/ ConstructUndirected(g, nodes, m)
           \/ ConstructDirected(g, nodes, m) \/ ConstructOneWay(g, nodes, m)
    PROVE  CInv'
<1>1. CASE ConstructUndirected(g, nodes, m)
  <2>1. PICK index \in Fresh(2), neighs \in Fresh(2) :
        /\ index < neighs
        /\ ConstructFrom(g, FALSE, nodes, (2 * m) \div 2,
              [a \in Array |-> IF a \in {"out_index", "in_index"} THEN index ELSE neighs],
              [b \in {index, neighs} |-> IF b = index THEN nodes + 1 ELSE 2 * m])
    BY <1>1 DEF ConstructUndirected
  <2> DEFINE arr == [a \in Array |-> IF a \in {"out_index", "in_index"} THEN index ELSE neighs]
             dir == FALSE
             len == [b \in {index, neighs} |-> IF b = index THEN nodes + 1 ELSE 2 * m]
             edges == (2 * m) \div 2
  <2>2. /\ index \in Blocks /\ freed[index] = 1 /\ neighs \in Blocks /\ freed[neighs] = 1
        /\ index # neighs /\ g \notin alive
    BY <1>1, <2>1, BlocksFacts DEF Fresh, ConstructUndirected
  <2>3. edges = m /\ edges \in Nat
    OBVIOUS
  <2>4. /\ arr \in [Array -> Blocks \cup {Null}] /\ \A a \in Outgoing : arr[a] # Null
        /\ DOMAIN len = {arr[a] : a \in Array} \ {Null}
        /\ \A b \in DOMAIN len : b \in Blocks /\ freed[b] = 1 /\ len[b] \in Nat
    BY <2>2, BlocksFacts DEF Array, Outgoing
  <2>5. /\ \A a, b \in Released(dir) : arr[a] # Null /\ arr[a] = arr[b] => a = b
        /\ arr["in_index"] = arr["out_index"] /\ arr["in_neighbors"] = arr["out_neighbors"]
    BY <2>2 DEF Array, Released
  <2>6. \A a \in Array : Ranges(arr, nodes, edges)[a].length *
              (IF dir \/ a \in {"out_index", "in_index"} THEN 1 ELSE 2) = len[Measured(arr, a)]
    <3>1. len[index] = nodes + 1 /\ len[neighs] = 2 * m
      BY <2>2
    <3>2. \A a \in Array : Measured(arr, a) = arr[a]
      BY <2>2, BlocksFacts DEF Measured
    <3> HIDE DEF len, edges
    <3> QED BY <2>2, <2>3, <3>1, <3>2 DEF Array, Ranges
  <2>7. dir \in BOOLEAN /\ (dir <=> FALSE) /\ ConstructFrom(g, dir, nodes, edges, arr, len)
    BY <2>1
  <2> HIDE DEF arr, len, edges, dir
  <2>8. Fits(dir, nodes, edges, arr, len)
    BY <2>4, <2>5, <2>6, <2>7 DEF Fits
  <2> QED BY <2>2, <2>3, <2>4, <2>7, <2>8, ConstructFromInv
<1>2. CASE ConstructDirected(g, nodes, m)
  <2>1. PICK oi \in Fresh(4), on \in Fresh(4), ii \in Fresh(4), in \in Fresh(4) :
        /\ oi < on /\ on < ii /\ ii < in
        /\ ConstructFrom(g, TRUE, nodes, m,
              [out_index |-> oi, out_neighbors |-> on, in_index |-> ii, in_neighbors |-> in],
              [b \in {oi, on, ii, in} |-> IF b \in {oi, ii} THEN nodes + 1 ELSE m])
    BY <1>2 DEF ConstructDirected
  <2> DEFINE arr == [out_index |-> oi, out_neighbors |-> on, in_index |-> ii, in_neighbors |-> in]
             dir == TRUE
             len == [b \in {oi, on, ii, in} |-> IF b \in {oi, ii} THEN nodes + 1 ELSE m]
  <2>2. /\ \A b \in {oi, on, ii, in} : b \in Blocks /\ freed[b] = 1 /\ b \in Nat
        /\ oi # on /\ oi # ii /\ oi # in /\ on # ii /\ on # in /\ ii # in /\ g \notin alive
    <3>1. \A b \in {oi, on, ii, in} : b \in Blocks /\ freed[b] = 1 /\ b \in Nat
      BY BlocksFacts DEF Fresh
    <3>2. oi < on /\ on < ii /\ ii < in
      BY <2>1
    <3> QED BY <1>2, <3>1, <3>2 DEF ConstructDirected
  <2>4. /\ arr \in [Array -> Blocks \cup {Null}] /\ \A a \in Outgoing : arr[a] # Null
        /\ DOMAIN len = {arr[a] : a \in Array} \ {Null}
        /\ \A b \in DOMAIN len : b \in Blocks /\ freed[b] = 1 /\ len[b] \in Nat
    BY <2>2, BlocksFacts DEF Array, Outgoing
  <2>5. \A a, b \in Released(dir) : arr[a] # Null /\ arr[a] = arr[b] => a = b
    BY <2>2 DEF Array, Released
  <2>6. \A a \in Array : Ranges(arr, nodes, m)[a].length *
              (IF dir \/ a \in {"out_index", "in_index"} THEN 1 ELSE 2) = len[Measured(arr, a)]
    <3>1. len[oi] = nodes + 1 /\ len[ii] = nodes + 1 /\ len[on] = m /\ len[in] = m
      BY <2>2
    <3>2. \A a \in Array : Measured(arr, a) = arr[a]
      BY <2>2, BlocksFacts DEF Measured, Array
    <3> HIDE DEF len
    <3> QED BY <2>2, <3>1, <3>2 DEF Array, Ranges
  <2>7. dir \in BOOLEAN /\ (dir <=> TRUE) /\ ConstructFrom(g, dir, nodes, m, arr, len)
    BY <2>1
  <2> HIDE DEF arr, len, dir
  <2>8. Fits(dir, nodes, m, arr, len)
    BY <2>4, <2>5, <2>6, <2>7 DEF Fits
  <2> QED BY <2>2, <2>4, <2>7, <2>8, ConstructFromInv
<1>3. CASE ConstructOneWay(g, nodes, m)
  <2>1. PICK index \in Fresh(2), neighs \in Fresh(2) :
        /\ index < neighs
        /\ ConstructFrom(g, TRUE, nodes, m,
              [NoArrays EXCEPT !["out_index"] = index, !["out_neighbors"] = neighs],
              [b \in {index, neighs} |-> IF b = index THEN nodes + 1 ELSE m])
    BY <1>3 DEF ConstructOneWay
  <2> DEFINE arr == [NoArrays EXCEPT !["out_index"] = index, !["out_neighbors"] = neighs]
             dir == TRUE
             len == [b \in {index, neighs} |-> IF b = index THEN nodes + 1 ELSE m]
  <2>2. /\ index \in Blocks /\ freed[index] = 1 /\ neighs \in Blocks /\ freed[neighs] = 1
        /\ index # neighs /\ index # Null /\ neighs # Null /\ g \notin alive
    BY <1>3, <2>1, BlocksFacts DEF Fresh, ConstructOneWay
  <2>3. /\ arr["out_index"] = index /\ arr["out_neighbors"] = neighs
        /\ arr["in_index"] = Null /\ arr["in_neighbors"] = Null
        /\ arr \in [Array -> Blocks \cup {Null}]
    BY <2>2 DEF Array, NoArrays
  <2>4. len[index] = nodes + 1 /\ len[neighs] = m /\ DOMAIN len = {index, neighs}
    BY <2>2
  <2>5. dir \in BOOLEAN /\ (dir <=> TRUE) /\ ConstructFrom(g, dir, nodes, m, arr, len)
    BY <2>1
  <2> HIDE DEF arr, len, dir
  <2>6. DOMAIN len = {arr[a] : a \in Array} \ {Null}
    BY <2>2, <2>3, <2>4 DEF Array
  <2>7. \A a, b \in Released(dir) : arr[a] # Null /\ arr[a] = arr[b] => a = b
    BY <2>2, <2>3, <2>5 DEF Array, Released
  <2>8. \A a \in Array : Ranges(arr, nodes, m)[a].length *
              (IF dir \/ a \in {"out_index", "in_index"} THEN 1 ELSE 2) = len[Measured(arr, a)]
    BY <2>2, <2>3, <2>4, <2>5 DEF Array, Ranges, Measured
  <2>9. /\ \A a \in Outgoing : arr[a] # Null
        /\ \A b \in DOMAIN len : b \in Blocks /\ freed[b] = 1 /\ len[b] \in Nat
    BY <2>2, <2>3, <2>4 DEF Outgoing
  <2>10. Fits(dir, nodes, m, arr, len)
    BY <2>5, <2>6, <2>7, <2>8, <2>9 DEF Fits
  <2> QED BY <2>2, <2>3, <2>5, <2>10, ConstructFromInv
<1> QED BY <1>1, <1>2, <1>3

-----------------------------------------------------------------------------
(* A place without arrays. *)
LEMMA EmptyArrays ==
    ASSUME NEW arr, arr = NoArrays
    PROVE  /\ \A a \in Array : arr[a] = Null
           /\ arr["in_index"] = arr["out_index"] /\ arr["in_neighbors"] = arr["out_neighbors"]
           /\ \A dir : \A a \in Released(dir) : arr[a] = Null
BY DEF NoArrays, Released, Array

(* The graph f is moved into g.                                            *)
LEMMA TakeFacts ==
    ASSUME CTypeOK, OwnedInv, NEW g \in Places, NEW f \in Places, g # f, TakeGraph(g, f)
    PROVE  /\ directed' \in [Places -> BOOLEAN] /\ num_nodes' \in [Places -> Int]
           /\ num_edges' \in [Places -> Int] /\ arrays' \in [Places -> [Array -> Blocks \cup {Null}]]
           /\ \A h \in Places \ {g, f} : arrays'[h] = arrays[h] /\ directed'[h] = directed[h]
           /\ arrays'[g] = arrays[f] /\ directed'[g] = directed[f] /\ arrays'[f] = NoArrays
           /\ directed'[f] = directed[f]
           /\ Owns(g)' = Owns(f) /\ Owns(f)' = {} /\ \A h \in Places \ {g, f} : Owns(h)' = Owns(h)
<1>1. /\ directed' \in [Places -> BOOLEAN] /\ num_nodes' \in [Places -> Int]
      /\ num_edges' \in [Places -> Int] /\ arrays' \in [Places -> [Array -> Blocks \cup {Null}]]
      /\ \A h \in Places \ {g, f} : arrays'[h] = arrays[h] /\ directed'[h] = directed[h]
      /\ arrays'[g] = arrays[f] /\ directed'[g] = directed[f] /\ arrays'[f] = NoArrays
      /\ directed'[f] = directed[f]
  BY DEF TakeGraph, CTypeOK, NoArrays
<1>2. Owns(f)' = {}
  BY <1>1, EmptyArrays DEF Owns
<1>3. Owns(g)' = Owns(f)
  BY <1>1 DEF Owns
<1>4. \A h \in Places \ {g, f} : Owns(h)' = Owns(h)
  BY <1>1 DEF Owns
<1> QED BY <1>1, <1>2, <1>3, <1>4

LEMMA MoveConstructInv ==
    ASSUME CInv, NEW g \in Places, NEW f \in Places, MoveConstruct(g, f)
    PROVE  CInv'
<1>0. /\ CTypeOK /\ OwnedInv /\ DescribedInv /\ alive \subseteq Places
      /\ g \notin alive /\ f \in alive /\ g # f /\ alive' = alive \cup {g}
      /\ TakeGraph(g, f) /\ descriptor' = [descriptor EXCEPT ![g] = descriptor[f]]
      /\ UNCHANGED <<range, freed, length>>
  BY DEF CInv, CTypeOK, MoveConstruct
<1>1. CTypeOK'
  BY <1>0, TakeFacts DEF CTypeOK
<1>2. /\ \A h \in Places \ {g} : descriptor'[h] = descriptor[h]
      /\ descriptor'[g] = descriptor[f]
  BY <1>0 DEF CTypeOK
<1>3. /\ \A h \in Places \ {g, f} : arrays'[h] = arrays[h] /\ directed'[h] = directed[h]
      /\ arrays'[g] = arrays[f] /\ directed'[g] = directed[f] /\ arrays'[f] = NoArrays
      /\ Owns(g)' = Owns(f) /\ Owns(f)' = {} /\ \A h \in Places \ {g, f} : Owns(h)' = Owns(h)
  BY <1>0, TakeFacts
<1>4. Owns(g) = {}
  BY <1>0, OwnsFacts DEF OwnedInv, ArraysOf
<1>5. \A h \in Places : ArraysOf(h)'
  <2>1. ArraysOf(g)'
    BY <1>0, <1>3 DEF OwnedInv, ArraysOf
  <2>2. ArraysOf(f)'
    BY <1>0, <1>3, EmptyArrays DEF ArraysOf
  <2>3. \A h \in Places \ {g, f} : ArraysOf(h)'
    BY <1>0, <1>2, <1>3 DEF OwnedInv, ArraysOf
  <2> QED BY <2>1, <2>2, <2>3
<1>6. OwnedInv'
  <2>1. \A h, k \in Places : h # k => Owns(h)' \cap Owns(k)' = {}
    BY <1>0, <1>3, <1>4 DEF OwnedInv
  <2>2. \A b \in Blocks : (\E h \in Places : b \in Owns(h)') <=> \E h \in Places : b \in Owns(h)
    BY <1>0, <1>3, <1>4
  <2> QED BY <1>0, <1>5, <2>1, <2>2 DEF OwnedInv
<1>7. DescribedInv'
  <2>1. \A h \in alive' : descriptor'[h] # Null => descriptor'[h] \in DOMAIN range'
    BY <1>0, <1>2 DEF DescribedInv
  <2>2. \A h \in alive' \ {g, f} : h \in alive /\ h \in Places
    BY <1>0
  <2>3. OwnedDescribed'
    BY <1>0, <1>2, <1>3, <2>2 DEF DescribedInv, OwnedDescribed
  <2> QED BY <2>1, <2>3 DEF DescribedInv
<1> QED BY <1>1, <1>6, <1>7 DEF CInv

(* Blocks and descriptors when g gives up what it has.                     *)
LEMMA GiveUpFacts ==
    ASSUME CInv, NEW g \in Places, g \in alive, Release(g), Dropped, CTypeOK',
           \A h \in Places : ArraysOf(h)',
           \A h \in Places : Owns(h)' = {} \/ \E k \in Places \ {g} :
              /\ k \in alive /\ h \in alive'
              /\ Owns(h)' = Owns(k) /\ arrays'[h] = arrays[k] /\ directed'[h] = directed[k]
              /\ descriptor'[h] = descriptor[k],
           \A h, k \in Places : h # k => Owns(h)' \cap Owns(k)' = {},
           \A k \in Places \ {g} : Owns(k) = {} \/ \E h \in Places : Owns(h)' = Owns(k)
    PROVE  CInv'
<1>0. /\ CTypeOK /\ OwnedInv /\ DescribedInv /\ alive \subseteq Places /\ alive' \subseteq Places
  BY DEF CInv, CTypeOK
<1>1. /\ \A b \in Owns(g) : freed'[b] = 1
      /\ \A b \in Blocks \ Owns(g) : freed'[b] = freed[b] /\ (freed[b] = 0 => length'[b] = length[b])
  BY <1>0, ReleaseFacts
<1>2. ASSUME NEW b \in Blocks
      PROVE  /\ freed'[b] \in {0, 1}
             /\ freed'[b] = 0 <=> \E h \in Places : b \in Owns(h)'
  <2>1. (\E h \in Places : b \in Owns(h)') <=> \E k \in Places \ {g} : b \in Owns(k)
    OBVIOUS
  <2>2. CASE b \in Owns(g)
    BY <1>0, <1>1, <2>1, <2>2 DEF OwnedInv
  <2>3. CASE b \notin Owns(g)
    BY <1>0, <1>1, <2>1, <2>3 DEF OwnedInv
  <2> QED BY <2>2, <2>3
<1>3. OwnedInv'
  BY <1>2 DEF OwnedInv
<1>4. range' = [d \in {descriptor'[h] : h \in alive'} \ {Null} |-> range[d]]
  BY DEF Dropped
<1>5. \A h \in alive' : descriptor'[h] # Null =>
         descriptor'[h] \in DOMAIN range' /\ range'[descriptor'[h]] = range[descriptor'[h]]
  BY <1>4
<1>6. ASSUME NEW h \in alive', arrays'[h] # NoArrays
      PROVE  /\ descriptor'[h] # Null
             /\ \A a \in Array :
                   /\ range'[descriptor'[h]][a].block = arrays'[h][a]
                   /\ range'[descriptor'[h]][a].length *
                         (IF directed'[h] \/ a \in {"out_index", "in_index"} THEN 1 ELSE 2)
                         = length'[Measured(arrays'[h], a)]
  <2>1. Owns(h)' # {}
    <3>1. arrays'[h]["out_index"] # Null
      BY <1>0, <1>6 DEF ArraysOf, Outgoing
    <3> QED BY <3>1 DEF Owns, Released, Array
  <2>2. PICK k \in Places \ {g} :
              /\ k \in alive /\ Owns(h)' = Owns(k) /\ arrays'[h] = arrays[k]
              /\ directed'[h] = directed[k] /\ descriptor'[h] = descriptor[k]
    BY <1>0, <2>1
  <2>3. /\ descriptor[k] # Null
        /\ \A a \in Array :
              /\ range[descriptor[k]][a].block = arrays[k][a]
              /\ range[descriptor[k]][a].length *
                    (IF directed[k] \/ a \in {"out_index", "in_index"} THEN 1 ELSE 2)
                    = length[Measured(arrays[k], a)]
    BY <1>0, <1>6, <2>2 DEF DescribedInv, OwnedDescribed
  <2>4. \A a \in Array : length'[Measured(arrays[k], a)] = length[Measured(arrays[k], a)]
    <3>1. \A a \in Array : Measured(arrays[k], a) \in Owns(k) /\ Measured(arrays[k], a) \in Blocks
      BY <1>0, <1>6, <2>2, OwnsFacts, MeasuredFacts DEF OwnedInv, ArraysOf
    <3>2. \A b \in Owns(k) : b \notin Owns(g)
      BY <1>0, <2>2 DEF OwnedInv
    <3>3. \A b \in Blocks : b \in Owns(k) => freed[b] = 0
      BY <1>0, <2>2 DEF OwnedInv
    <3> QED BY <1>1, <3>1, <3>2, <3>3
  <2> QED BY <1>5, <2>2, <2>3, <2>4
<1>7. DescribedInv'
  BY <1>5, <1>6 DEF DescribedInv, OwnedDescribed
<1> QED BY <1>3, <1>7 DEF CInv

LEMMA MoveAssignInv ==
    ASSUME CInv, NEW g \in Places, NEW f \in Places, MoveAssign(g, f)
    PROVE  CInv'
<1>0. /\ CTypeOK /\ OwnedInv /\ DescribedInv /\ alive \subseteq Places
      /\ g \in alive /\ f \in alive /\ g # f /\ alive' = alive
      /\ Release(g) /\ TakeGraph(g, f) /\ Dropped
      /\ descriptor' = [descriptor EXCEPT ![g] = descriptor[f], ![f] = Null]
  BY DEF CInv, CTypeOK, MoveAssign, TakeDescriptors
<1>1. CTypeOK'
  BY <1>0, TakeFacts, ReleaseFacts DEF CTypeOK
<1>2. /\ \A h \in Places \ {g, f} : descriptor'[h] = descriptor[h]
      /\ descriptor'[g] = descriptor[f]
  BY <1>0 DEF CTypeOK
<1>3. /\ \A h \in Places \ {g, f} : arrays'[h] = arrays[h] /\ directed'[h] = directed[h]
      /\ arrays'[g] = arrays[f] /\ directed'[g] = directed[f] /\ arrays'[f] = NoArrays
      /\ Owns(g)' = Owns(f) /\ Owns(f)' = {} /\ \A h \in Places \ {g, f} : Owns(h)' = Owns(h)
  BY <1>0, TakeFacts
<1>4. \A h \in Places : ArraysOf(h)'
  <2>1. ArraysOf(g)'
    BY <1>0, <1>3 DEF OwnedInv, ArraysOf
  <2>2. ArraysOf(f)'
    BY <1>0, <1>3, EmptyArrays DEF ArraysOf
  <2>3. ASSUME NEW h \in Places \ {g, f} PROVE ArraysOf(h)'
    <3>1. ArraysOf(h)
      BY <1>0 DEF OwnedInv
    <3> QED BY <1>0, <1>2, <1>3, <3>1 DEF ArraysOf
  <2> QED BY <2>1, <2>2, <2>3
<1>5. \A h \in Places : Owns(h)' = {} \/ \E k \in Places \ {g} :
              /\ k \in alive /\ h \in alive'
              /\ Owns(h)' = Owns(k) /\ arrays'[h] = arrays[k] /\ directed'[h] = directed[k]
              /\ descriptor'[h] = descriptor[k]
  <2>1. \A h \in Places \ alive : Owns(h) = {}
    BY <1>0, OwnsFacts DEF OwnedInv, ArraysOf
  <2> QED BY <1>0, <1>2, <1>3, <2>1
<1>6. \A h, k \in Places : h # k => Owns(h)' \cap Owns(k)' = {}
  BY <1>0, <1>3 DEF OwnedInv
<1>7. \A k \in Places \ {g} : Owns(k) = {} \/ \E h \in Places : Owns(h)' = Owns(k)
  BY <1>3
<1> QED BY <1>0, <1>1, <1>4, <1>5, <1>6, <1>7, GiveUpFacts

LEMMA DestroyInv ==
    ASSUME CInv, NEW g \in Places, Destroy(g)
    PROVE  CInv'
<1>0. /\ CTypeOK /\ OwnedInv /\ DescribedInv /\ alive \subseteq Places
      /\ g \in alive /\ alive' = alive \ {g} /\ Release(g) /\ Dropped
      /\ directed' = [directed EXCEPT ![g] = FALSE]
      /\ num_nodes' = [num_nodes EXCEPT ![g] = -1]
      /\ num_edges' = [num_edges EXCEPT ![g] = -1]
      /\ arrays' = [arrays EXCEPT ![g] = NoArrays]
      /\ descriptor' = [descriptor EXCEPT ![g] = Null]
  BY DEF CInv, CTypeOK, Destroy
<1>1. CTypeOK'
  BY <1>0, ReleaseFacts DEF CTypeOK, NoArrays
<1>2. /\ \A h \in Places \ {g} : /\ descriptor'[h] = descriptor[h] /\ arrays'[h] = arrays[h]
                                 /\ directed'[h] = directed[h]
      /\ descriptor'[g] = Null /\ arrays'[g] = NoArrays
  BY <1>0 DEF CTypeOK
<1>3. Owns(g)' = {} /\ \A h \in Places \ {g} : Owns(h)' = Owns(h)
  BY <1>2, EmptyArrays DEF Owns
<1>4. \A h \in Places : ArraysOf(h)'
  <2>1. ArraysOf(g)'
    <3>1. /\ arrays'[g]["in_index"] = arrays'[g]["out_index"]
          /\ arrays'[g]["in_neighbors"] = arrays'[g]["out_neighbors"]
          /\ \A a \in Released(directed'[g]) : arrays'[g][a] = Null
      BY <1>2, EmptyArrays
    <3> QED BY <1>2, <3>1 DEF ArraysOf
  <2>2. \A h \in Places \ {g} : ArraysOf(h)'
    BY <1>0, <1>2 DEF OwnedInv, ArraysOf
  <2> QED BY <2>1, <2>2
<1>5. \A h \in Places : Owns(h)' = {} \/ \E k \in Places \ {g} :
              /\ k \in alive /\ h \in alive'
              /\ Owns(h)' = Owns(k) /\ arrays'[h] = arrays[k] /\ directed'[h] = directed[k]
              /\ descriptor'[h] = descriptor[k]
  <2>1. \A h \in Places \ alive : Owns(h) = {}
    BY <1>0, OwnsFacts DEF OwnedInv, ArraysOf
  <2> QED BY <1>0, <1>2, <1>3, <2>1
<1>6. \A h, k \in Places : h # k => Owns(h)' \cap Owns(k)' = {}
  BY <1>0, <1>3 DEF OwnedInv
<1>7. \A k \in Places \ {g} : Owns(k) = {} \/ \E h \in Places : Owns(h)' = Owns(k)
  BY <1>3
<1> QED BY <1>0, <1>1, <1>4, <1>5, <1>6, <1>7, GiveUpFacts

-----------------------------------------------------------------------------
LEMMA NextCInv == CInv /\ [Next]_csrvars => CInv'
<1> SUFFICES ASSUME CInv, [Next]_csrvars PROVE CInv'
  OBVIOUS
<1>1. ASSUME NEW g \in Places, DefaultConstruct(g) \/ Destroy(g) PROVE CInv'
  BY <1>1, DefaultConstructInv, DestroyInv
<1>2. ASSUME NEW g \in Places, NEW nodes \in 0 .. MaxNodes, NEW m \in 0 .. MaxEdges,
             \/ ConstructUndirected(g, nodes, m)
             \/ ConstructDirected(g, nodes, m) \/ ConstructOneWay(g, nodes, m)
      PROVE  CInv'
  BY <1>2, SizeAssumption, ConstructInv
<1>3. ASSUME NEW g \in Places, NEW f \in Places, MoveConstruct(g, f) \/ MoveAssign(g, f) PROVE CInv'
  BY <1>3, MoveConstructInv, MoveAssignInv
<1>4. CASE UNCHANGED csrvars
  <2>1. CTypeOK' /\ DescribedInv'
    BY <1>4 DEF csrvars, numbers, CInv, CTypeOK, DescribedInv, OwnedDescribed
  <2>2. \A g \in Places : ArraysOf(g)' /\ Owns(g)' = Owns(g)
    BY <1>4 DEF csrvars, numbers, CInv, OwnedInv, ArraysOf, Owns
  <2>3. OwnedInv'
    BY <1>4, <2>2 DEF csrvars, CInv, OwnedInv
  <2> QED BY <2>1, <2>3 DEF CInv
<1> QED BY <1>1, <1>2, <1>3, <1>4 DEF Next

(* However graphs are constructed, moved and destroyed, CInv holds.        *)
THEOREM GraphInvariant == CSpec => []CInv
BY InitCInv, NextCInv, PTL DEF CSpec

(* Each array that is not free is deleted by one graph, once: the two      *)
(* arrays of an undirected graph once though they have two names, and a    *)
(* graph moved from deletes none (graph.h:121-136, 198-244).               *)
THEOREM ArraysOwnedOnceCorrect == CSpec => []ArraysOwnedOnce
BY InvMeans, GraphInvariant, PTL

(* A graph with arrays has the descriptors of these arrays, wherever it    *)
(* was moved, though the move constructor shares them with the graph       *)
(* moved from; without an inverse, the descriptors of the incoming arrays  *)
(* say null (graph.h:138-168, 198-244).                                    *)
THEOREM OwnedDescribedCorrect == CSpec => []OwnedDescribed
BY InvMeans, GraphInvariant, PTL
=============================================================================
