---------------------------- MODULE PVectorProofs ----------------------------
(***************************************************************************)
(* Theorems about PVector, for any vectors, elements and blocks: who owns  *)
(* which block, what a descriptor says of it, and that a vector holds the  *)
(* sequence that VectorContents gives it.                                  *)
(***************************************************************************)
EXTENDS PVector, TLAPS

VInv == VTypeOK /\ OwnedOnce /\ DescriptorFollows

(* What a vector's pointers say when they are sound.                       *)
Sound(v) ==
    IF start[v] = Null THEN size[v] = 0 /\ capacity[v] = 0
    ELSE /\ size[v] =< capacity[v] /\ capacity[v] = Len(memory[start[v]])
         /\ start[v] \notin abandoned

LEMMA VFacts ==
    ASSUME VInv
    PROVE  /\ Null \notin Allocated /\ Null \notin DOMAIN range
           /\ \A v \in alive : /\ v \in Vectors /\ Sound(v)
                               /\ start[v] \in Allocated \cup {Null}
                               /\ descriptor[v] \in DOMAIN range \cup {Null}
                               /\ size[v] \in 0 .. MaxLen /\ capacity[v] \in 0 .. MaxLen
           /\ \A v, w \in alive : start[v] # Null /\ start[v] = start[w] => v = w
           /\ abandoned \subseteq Allocated
           /\ \A b \in Allocated : b \in Blocks /\ memory[b] \in Seq(Values)
BY StorageAssumption DEF VInv, VTypeOK, OwnedOnce, Sound, Allocated

(* The elements of a vector are a sequence.                                *)
LEMMA ContentsFacts ==
    ASSUME VInv, NEW v \in alive
    PROVE  Contents(v) \in Seq(Values) /\ Len(Contents(v)) = size[v] /\ size[v] \in 0 .. MaxLen
<1>1. size[v] \in 0 .. MaxLen /\ size[v] \in Nat
  BY VFacts, StorageAssumption
<1>2. CASE start[v] = Null
  <2>1. size[v] = 0
    BY <1>2, VFacts DEF Sound
  <2> QED BY <1>1, <2>1 DEF Contents
<1>3. CASE start[v] # Null
  <2>1. /\ memory[start[v]] \in Seq(Values) /\ size[v] =< Len(memory[start[v]])
    BY <1>3, VFacts DEF Sound
  <2>2. \A i \in 1 .. size[v] : memory[start[v]][i] \in Values
    BY <1>1, <2>1
  <2> QED BY <1>1, <2>2 DEF Contents
<1> QED BY <1>2, <1>3

LEMMA InitVInv == VInit => VInv
BY StorageAssumption DEF VInit, VInv, VTypeOK, OwnedOnce, DescriptorFollows, Allocated

LEMMA DefaultConstructInv ==
    ASSUME VInv, NEW v \in Vectors, DefaultConstruct(v) PROVE VInv'
<1>0. PICK d \in FreeDescriptors :
         /\ v \notin alive /\ alive' = alive \cup {v}
         /\ start' = [start EXCEPT ![v] = Null] /\ size' = [size EXCEPT ![v] = 0]
         /\ capacity' = [capacity EXCEPT ![v] = 0]
         /\ descriptor' = [descriptor EXCEPT ![v] = d]
         /\ range' = With(range, d, NoRange)
         /\ UNCHANGED <<leaked, memory, drifted, abandoned>>
  BY DEF DefaultConstruct, Points
<1>1. d \in Descriptors /\ d \notin DOMAIN range /\ d # Null
  BY StorageAssumption DEF FreeDescriptors
<1>2. /\ DOMAIN range' = DOMAIN range \cup {d} /\ range'[d] = NoRange
      /\ \A e \in DOMAIN range : range'[e] = range[e]
  BY <1>0, <1>1 DEF With
<1>3. /\ start'[v] = Null /\ size'[v] = 0 /\ capacity'[v] = 0 /\ descriptor'[v] = d
      /\ \A u \in alive : /\ u # v /\ start'[u] = start[u] /\ size'[u] = size[u]
                          /\ capacity'[u] = capacity[u] /\ descriptor'[u] = descriptor[u]
  BY <1>0, VFacts DEF VInv, VTypeOK
<1>4. VTypeOK'
  <2>1. /\ leaked' \subseteq alive' /\ alive' \subseteq Vectors
        /\ start' \in [Vectors -> Blocks \cup {Null}]
        /\ size' \in [Vectors -> 0 .. MaxLen] /\ capacity' \in [Vectors -> 0 .. MaxLen]
        /\ descriptor' \in [Vectors -> Descriptors \cup {Null}]
    BY <1>0, <1>1, StorageAssumption DEF VInv, VTypeOK
  <2>2. DOMAIN range' = {descriptor'[u] : u \in alive'} \ {Null}
    <3>1. {descriptor'[u] : u \in alive'} = {descriptor[u] : u \in alive} \cup {d}
      BY <1>0, <1>3
    <3> QED BY <1>1, <1>2, <3>1 DEF VInv, VTypeOK
  <2>3. \A e \in DOMAIN range' : range'[e] \in [block : Blocks \cup {Null}, length : 0 .. MaxLen]
    BY <1>2, StorageAssumption DEF VInv, VTypeOK, NoRange
  <2> QED BY <1>0, <2>1, <2>2, <2>3 DEF VInv, VTypeOK, Allocated
<1>5. OwnedOnce'
  <2>1. {start'[u] : u \in alive'} \ {Null} = {start[u] : u \in alive} \ {Null}
    BY <1>0, <1>3
  <2> QED BY <1>0, <1>3, <2>1 DEF VInv, OwnedOnce, Allocated
<1>6. DescriptorFollows'
  <2>1. range'[descriptor'[v]] = [block |-> start'[v], length |-> size'[v]]
    BY <1>2, <1>3 DEF NoRange
  <2>2. \A u \in alive \ drifted : descriptor'[u] # Null =>
            range'[descriptor'[u]] = [block |-> start'[u], length |-> size'[u]]
    BY <1>2, <1>3, VFacts DEF VInv, DescriptorFollows
  <2> QED BY <1>0, <2>1, <2>2 DEF DescriptorFollows
<1> QED BY <1>4, <1>5, <1>6 DEF VInv

LEMMA ConstructInv ==
    ASSUME VInv, NEW v \in Vectors, NEW s \in Seq(Values), Len(s) =< MaxLen, Construct(v, s)
    PROVE  VInv'
<1>0. PICK b \in FreeBlocks, d \in FreeDescriptors :
         /\ v \notin alive /\ alive' = alive \cup {v}
         /\ start' = [start EXCEPT ![v] = b] /\ size' = [size EXCEPT ![v] = Len(s)]
         /\ capacity' = [capacity EXCEPT ![v] = Len(s)]
         /\ memory' = With(memory, b, s)
         /\ descriptor' = [descriptor EXCEPT ![v] = d]
         /\ range' = With(range, d, [block |-> b, length |-> Len(s)])
         /\ UNCHANGED <<leaked, drifted, abandoned>>
  BY DEF Construct, Points
<1>1. /\ d \in Descriptors /\ d \notin DOMAIN range /\ d # Null
      /\ b \in Blocks /\ b \notin Allocated /\ b # Null /\ Len(s) \in 0 .. MaxLen
  BY StorageAssumption DEF FreeDescriptors, FreeBlocks
<1>2. /\ DOMAIN range' = DOMAIN range \cup {d} /\ range'[d] = [block |-> b, length |-> Len(s)]
      /\ \A e \in DOMAIN range : range'[e] = range[e]
      /\ Allocated' = Allocated \cup {b} /\ memory'[b] = s
      /\ \A c \in Allocated : memory'[c] = memory[c]
  BY <1>0, <1>1 DEF With, Allocated
<1>3. /\ start'[v] = b /\ size'[v] = Len(s) /\ capacity'[v] = Len(s) /\ descriptor'[v] = d
      /\ \A u \in alive : /\ u # v /\ start'[u] = start[u] /\ size'[u] = size[u]
                          /\ capacity'[u] = capacity[u] /\ descriptor'[u] = descriptor[u]
  BY <1>0, VFacts DEF VInv, VTypeOK
<1>4. VTypeOK'
  <2>1. /\ leaked' \subseteq alive' /\ alive' \subseteq Vectors
        /\ start' \in [Vectors -> Blocks \cup {Null}]
        /\ size' \in [Vectors -> 0 .. MaxLen] /\ capacity' \in [Vectors -> 0 .. MaxLen]
        /\ descriptor' \in [Vectors -> Descriptors \cup {Null}]
    BY <1>0, <1>1 DEF VInv, VTypeOK
  <2>2. DOMAIN range' = {descriptor'[u] : u \in alive'} \ {Null}
    <3>1. {descriptor'[u] : u \in alive'} = {descriptor[u] : u \in alive} \cup {d}
      BY <1>0, <1>3
    <3> QED BY <1>1, <1>2, <3>1 DEF VInv, VTypeOK
  <2>3. \A e \in DOMAIN range' : range'[e] \in [block : Blocks \cup {Null}, length : 0 .. MaxLen]
    <3>1. range'[d] \in [block : Blocks \cup {Null}, length : 0 .. MaxLen]
      BY <1>1, <1>2
    <3>2. \A e \in DOMAIN range : range'[e] \in [block : Blocks \cup {Null}, length : 0 .. MaxLen]
      BY <1>2 DEF VInv, VTypeOK
    <3> QED BY <1>2, <3>1, <3>2
  <2>4. Allocated' \subseteq Blocks /\ \A c \in Allocated' : memory'[c] \in Seq(Values)
    BY <1>1, <1>2 DEF VInv, VTypeOK
  <2> QED BY <1>0, <2>1, <2>2, <2>3, <2>4 DEF VInv, VTypeOK
<1>5. OwnedOnce'
  <2>1. {start'[u] : u \in alive'} \ {Null} = ({start[u] : u \in alive} \ {Null}) \cup {b}
    BY <1>0, <1>1, <1>3
  <2>2. ASSUME NEW u \in alive'
        PROVE  IF start'[u] = Null THEN size'[u] = 0 /\ capacity'[u] = 0
               ELSE /\ size'[u] =< capacity'[u] /\ capacity'[u] = Len(memory'[start'[u]])
                    /\ start'[u] \notin abandoned'
                    /\ \A w \in alive' : start'[w] = start'[u] => w = u
    <3>1. CASE u = v
      <4>1. \A w \in alive : start[w] # b
        BY <1>1, VFacts
      <4> QED BY <1>0, <1>1, <1>2, <1>3, <3>1, <4>1, VFacts
    <3>2. CASE u # v
      BY <1>0, <1>1, <1>2, <1>3, <3>2, VFacts DEF Sound
    <3> QED BY <3>1, <3>2
  <2> QED BY <1>0, <1>2, <2>1, <2>2 DEF VInv, OwnedOnce
<1>6. DescriptorFollows'
  <2>1. range'[descriptor'[v]] = [block |-> start'[v], length |-> size'[v]]
    BY <1>2, <1>3
  <2>2. \A u \in alive \ drifted : descriptor'[u] # Null =>
            range'[descriptor'[u]] = [block |-> start'[u], length |-> size'[u]]
    BY <1>2, <1>3, VFacts DEF VInv, DescriptorFollows
  <2> QED BY <1>0, <2>1, <2>2 DEF DescriptorFollows
<1> QED BY <1>4, <1>5, <1>6 DEF VInv

(* VInv, once its parts are given back.                                    *)
Owned(v) ==
    /\ Sound(v)
    /\ start[v] # Null => \A w \in alive : start[w] = start[v] => w = v
Follows(v) == descriptor[v] # Null =>
    range[descriptor[v]] = [block |-> start[v], length |-> size[v]]

LEMMA MoveConstructInv ==
    ASSUME VInv, NEW v \in Vectors, NEW w \in Vectors, MoveConstruct(v, w) PROVE VInv'
<1>0. /\ v \notin alive /\ w \in alive /\ w \notin leaked /\ v # w /\ alive' = alive \cup {v}
      /\ UNCHANGED <<leaked, memory, range, abandoned>>
  BY DEF MoveConstruct, Usable
<1>p. /\ start' = [start EXCEPT ![v] = start[w], ![w] = Null]
      /\ size' = [size EXCEPT ![v] = size[w], ![w] = 0]
      /\ capacity' = [capacity EXCEPT ![v] = capacity[w], ![w] = 0]
      /\ descriptor' = [descriptor EXCEPT ![v] = descriptor[w]]
  BY DEF MoveConstruct, TakePointers
<1>m. /\ drifted' \subseteq Vectors
      /\ \A u : u \notin drifted' => u # w /\ (u = v => w \notin drifted) /\ (u # v => u \notin drifted)
  BY DEF MoveConstruct, VInv, VTypeOK
<1>1. /\ start'[v] = start[w] /\ size'[v] = size[w] /\ capacity'[v] = capacity[w]
      /\ start'[w] = Null /\ size'[w] = 0 /\ capacity'[w] = 0
      /\ descriptor'[v] = descriptor[w] /\ descriptor'[w] = descriptor[w]
      /\ \A u \in alive \ {w} : /\ u # v /\ start'[u] = start[u] /\ size'[u] = size[u]
                                /\ capacity'[u] = capacity[u] /\ descriptor'[u] = descriptor[u]
  BY <1>0, <1>p DEF VInv, VTypeOK
<1>2. VTypeOK'
  <2>1. /\ leaked' \subseteq alive' /\ alive' \subseteq Vectors /\ drifted' \subseteq Vectors
    BY <1>0, <1>m DEF VInv, VTypeOK
  <2>2. start' \in [Vectors -> Blocks \cup {Null}]
    BY <1>p DEF VInv, VTypeOK
  <2>3. size' \in [Vectors -> 0 .. MaxLen] /\ capacity' \in [Vectors -> 0 .. MaxLen]
    <3>1. 0 \in 0 .. MaxLen
      BY StorageAssumption
    <3>2. size \in [Vectors -> 0 .. MaxLen] /\ capacity \in [Vectors -> 0 .. MaxLen]
      BY DEF VInv, VTypeOK
    <3> QED BY <1>p, <3>1, <3>2
  <2>4. descriptor' \in [Vectors -> Descriptors \cup {Null}]
    BY <1>p DEF VInv, VTypeOK
  <2>5. DOMAIN range' = {descriptor'[u] : u \in alive'} \ {Null}
    <3>1. {descriptor'[u] : u \in alive'} = {descriptor[u] : u \in alive}
      BY <1>0, <1>1
    <3> QED BY <1>0, <3>1 DEF VInv, VTypeOK
  <2> QED BY <1>0, <2>1, <2>2, <2>3, <2>4, <2>5 DEF VInv, VTypeOK, Allocated
<1>3. OwnedOnce'
  <2>1. {start'[u] : u \in alive'} \ {Null} = {start[u] : u \in alive} \ {Null}
    <3>1. ASSUME NEW b, b # Null
          PROVE  (\E u \in alive' : b = start'[u]) <=> (\E u \in alive : b = start[u])
      BY <1>0, <1>1, <3>1
    <3> QED BY <3>1
  <2>2. ASSUME NEW u \in alive' PROVE Owned(u)'
    <3>1. CASE u = v
      BY <1>0, <1>1, <3>1, VFacts DEF Owned, Sound
    <3>2. CASE u = w
      BY <1>1, <3>2 DEF Owned, Sound
    <3>3. CASE u # v /\ u # w
      BY <1>0, <1>1, <3>3, VFacts DEF Owned, Sound
    <3> QED BY <3>1, <3>2, <3>3
  <2> QED BY <1>0, <2>1, <2>2 DEF VInv, OwnedOnce, Owned, Sound, Allocated
<1>4. DescriptorFollows'
  <2>1. \A u \in alive' \ drifted' : Follows(u)'
    <3>1. w \notin drifted => Follows(v)'
      BY <1>0, <1>1 DEF VInv, DescriptorFollows, Follows
    <3>2. \A u \in (alive \ drifted) \ {w} : Follows(u)'
      BY <1>0, <1>1 DEF VInv, DescriptorFollows, Follows
    <3> QED BY <1>0, <1>m, <3>1, <3>2
  <2> QED BY <2>1 DEF DescriptorFollows, Follows
<1> QED BY <1>2, <1>3, <1>4 DEF VInv

(* Freeing v's block, and dropping the descriptors nobody points to.       *)
LEMMA FreedFacts ==
    ASSUME VInv, NEW v \in alive
    PROVE  /\ DOMAIN Freed(v) = Allocated \ {start[v]}
           /\ \A b \in Allocated \ {start[v]} : Freed(v)[b] = memory[b]
           /\ \A u \in alive \ {v} : start[u] # Null => start[u] \in Allocated \ {start[v]}
           /\ start[v] \notin abandoned
<1>1. start[v] = Null => start[v] \notin abandoned
  BY VFacts
<1>2. start[v] # Null => start[v] \notin abandoned
  BY VFacts DEF Sound
<1>3. /\ DOMAIN Freed(v) = Allocated \ {start[v]}
      /\ \A b \in Allocated \ {start[v]} : Freed(v)[b] = memory[b]
  BY DEF Freed, Without, Allocated
<1>4. \A u \in alive \ {v} : start[u] # Null => start[u] \in Allocated \ {start[v]}
  BY VFacts
<1> QED BY <1>1, <1>2, <1>3, <1>4

LEMMA DroppedFacts ==
    ASSUME VInv, Dropped, alive' \subseteq alive,
           \A u \in alive' : descriptor'[u] \in DOMAIN range \cup {Null}
    PROVE  /\ DOMAIN range' = {descriptor'[u] : u \in alive'} \ {Null}
           /\ \A u \in alive' : descriptor'[u] # Null => range'[descriptor'[u]] = range[descriptor'[u]]
           /\ \A e \in DOMAIN range' : range'[e] \in [block : Blocks \cup {Null}, length : 0 .. MaxLen]
<1> DEFINE X == {descriptor'[u] : u \in alive'}
<1>1. range' = [e \in DOMAIN range \ (DOMAIN range \ X) |-> range[e]]
  BY DEF Dropped, Without
<1>2. DOMAIN range' = DOMAIN range \cap X /\ \A e \in DOMAIN range' : range'[e] = range[e]
  BY <1>1
<1>3. DOMAIN range \cap X = X \ {Null}
  BY VFacts
<1>4. \A e \in DOMAIN range' : range'[e] \in [block : Blocks \cup {Null}, length : 0 .. MaxLen]
  BY <1>2 DEF VInv, VTypeOK
<1>5. \A u \in alive' : descriptor'[u] # Null => descriptor'[u] \in DOMAIN range'
  BY <1>2, <1>3
<1> QED BY <1>2, <1>3, <1>4, <1>5

LEMMA MoveAssignInv ==
    ASSUME VInv, NEW v \in Vectors, NEW w \in Vectors, MoveAssign(v, w) PROVE VInv'
<1>0. /\ v \in alive /\ w \in alive /\ w \notin leaked /\ v # w /\ alive' = alive
      /\ memory' = Freed(v) /\ Dropped
      /\ leaked' = leaked \ {v} /\ abandoned' = abandoned
  BY DEF MoveAssign, Usable
<1>p. /\ start' = [start EXCEPT ![v] = start[w], ![w] = Null]
      /\ size' = [size EXCEPT ![v] = size[w], ![w] = 0]
      /\ capacity' = [capacity EXCEPT ![v] = capacity[w], ![w] = 0]
      /\ descriptor' = [descriptor EXCEPT ![v] = descriptor[w], ![w] = Null]
  BY DEF MoveAssign, TakePointers, MoveDescriptor
<1>m. /\ drifted' \subseteq Vectors
      /\ \A u : u \notin drifted' => (u = v => w \notin drifted) /\ (u \notin {v, w} => u \notin drifted)
  BY DEF MoveAssign, VInv, VTypeOK
<1>1. /\ start'[v] = start[w] /\ size'[v] = size[w] /\ capacity'[v] = capacity[w]
      /\ start'[w] = Null /\ size'[w] = 0 /\ capacity'[w] = 0
      /\ descriptor'[v] = descriptor[w] /\ descriptor'[w] = Null
      /\ \A u \in alive \ {v, w} : /\ start'[u] = start[u] /\ size'[u] = size[u]
                                   /\ capacity'[u] = capacity[u] /\ descriptor'[u] = descriptor[u]
  BY <1>0, <1>p DEF VInv, VTypeOK
<1>f. /\ Allocated' = Allocated \ {start[v]}
      /\ \A b \in Allocated \ {start[v]} : memory'[b] = memory[b]
      /\ \A u \in alive \ {v} : start[u] # Null => start[u] \in Allocated \ {start[v]}
      /\ start[v] \notin abandoned
  BY <1>0, FreedFacts DEF Allocated
<1>d. /\ DOMAIN range' = {descriptor'[u] : u \in alive'} \ {Null}
      /\ \A u \in alive' : descriptor'[u] # Null => range'[descriptor'[u]] = range[descriptor'[u]]
      /\ \A e \in DOMAIN range' : range'[e] \in [block : Blocks \cup {Null}, length : 0 .. MaxLen]
  <2>1. \A u \in alive' : descriptor'[u] \in DOMAIN range \cup {Null}
    BY <1>0, <1>1, VFacts
  <2> QED BY <1>0, <2>1, DroppedFacts
<1>2. VTypeOK'
  <2>1. /\ leaked' \subseteq alive' /\ alive' \subseteq Vectors /\ drifted' \subseteq Vectors
    BY <1>0, <1>m DEF VInv, VTypeOK
  <2>2. start' \in [Vectors -> Blocks \cup {Null}]
    BY <1>p DEF VInv, VTypeOK
  <2>3. size' \in [Vectors -> 0 .. MaxLen] /\ capacity' \in [Vectors -> 0 .. MaxLen]
    <3>1. 0 \in 0 .. MaxLen
      BY StorageAssumption
    <3>2. size \in [Vectors -> 0 .. MaxLen] /\ capacity \in [Vectors -> 0 .. MaxLen]
      BY DEF VInv, VTypeOK
    <3> QED BY <1>p, <3>1, <3>2
  <2>4. descriptor' \in [Vectors -> Descriptors \cup {Null}]
    BY <1>p DEF VInv, VTypeOK
  <2>5. Allocated' \subseteq Blocks /\ \A b \in Allocated' : memory'[b] \in Seq(Values)
    BY <1>f DEF VInv, VTypeOK
  <2> QED BY <1>0, <1>d, <2>1, <2>2, <2>3, <2>4, <2>5 DEF VInv, VTypeOK
<1>3. OwnedOnce'
  <2>1. Allocated' = abandoned' \cup ({start'[u] : u \in alive'} \ {Null})
    <3>1. ASSUME NEW b, b # Null
          PROVE  (\E u \in alive' : b = start'[u]) <=> (\E u \in alive \ {v} : b = start[u])
      BY <1>0, <1>1, <3>1
    <3>2. ASSUME NEW b, b # Null
          PROVE  (\E u \in alive \ {v} : b = start[u])
                    <=> ((\E u \in alive : b = start[u]) /\ b # start[v])
      BY <1>0, <3>2, VFacts
    <3>3. \A b : b \in Allocated <=> b \in abandoned \/ (b # Null /\ \E u \in alive : b = start[u])
      BY DEF VInv, OwnedOnce
    <3> QED BY <1>0, <1>f, <3>1, <3>2, <3>3
  <2>2. ASSUME NEW u \in alive' PROVE Owned(u)'
    <3>1. CASE u = v
      <4>1. CASE start[w] = Null
        BY <1>0, <1>1, <3>1, <4>1, VFacts DEF Owned, Sound
      <4>2. CASE start[w] # Null
        <5>1. memory'[start[w]] = memory[start[w]]
          BY <1>0, <1>f, <4>2
        <5> QED BY <1>0, <1>1, <3>1, <4>2, <5>1, VFacts DEF Owned, Sound
      <4> QED BY <4>1, <4>2
    <3>2. CASE u = w
      BY <1>1, <3>2 DEF Owned, Sound
    <3>3. CASE u # v /\ u # w
      BY <1>0, <1>1, <1>f, <3>3, VFacts DEF Owned, Sound
    <3> QED BY <3>1, <3>2, <3>3
  <2> QED BY <2>1, <2>2 DEF OwnedOnce, Owned, Sound
<1>4. DescriptorFollows'
  <2>1. \A u \in alive' \ drifted' : Follows(u)'
    <3>1. w \notin drifted => Follows(v)'
      BY <1>0, <1>1, <1>d DEF VInv, DescriptorFollows, Follows
    <3>2. Follows(w)'
      BY <1>1 DEF Follows
    <3>3. \A u \in (alive \ drifted) \ {v, w} : Follows(u)'
      BY <1>0, <1>1, <1>d DEF VInv, DescriptorFollows, Follows
    <3> QED BY <1>0, <1>m, <3>1, <3>2, <3>3
  <2> QED BY <2>1 DEF DescriptorFollows, Follows
<1> QED BY <1>2, <1>3, <1>4 DEF VInv
LEMMA DestroyInv == ASSUME VInv, NEW v \in Vectors, Destroy(v) PROVE VInv'
<1>0. /\ v \in alive /\ alive' = alive \ {v} /\ memory' = Freed(v) /\ Dropped
      /\ leaked' = leaked \ {v} /\ abandoned' = abandoned /\ drifted' = drifted \ {v}
  BY DEF Destroy
<1>p. /\ start' = [start EXCEPT ![v] = Null] /\ size' = [size EXCEPT ![v] = 0]
      /\ capacity' = [capacity EXCEPT ![v] = 0]
      /\ descriptor' = [descriptor EXCEPT ![v] = Null]
  BY DEF Destroy, Points
<1>1. \A u \in alive' : /\ start'[u] = start[u] /\ size'[u] = size[u]
                        /\ capacity'[u] = capacity[u] /\ descriptor'[u] = descriptor[u]
  BY <1>0, <1>p DEF VInv, VTypeOK
<1>f. /\ Allocated' = Allocated \ {start[v]}
      /\ \A b \in Allocated \ {start[v]} : memory'[b] = memory[b]
      /\ \A u \in alive \ {v} : start[u] # Null => start[u] \in Allocated \ {start[v]}
      /\ start[v] \notin abandoned
  BY <1>0, FreedFacts DEF Allocated
<1>d. /\ DOMAIN range' = {descriptor'[u] : u \in alive'} \ {Null}
      /\ \A u \in alive' : descriptor'[u] # Null => range'[descriptor'[u]] = range[descriptor'[u]]
      /\ \A e \in DOMAIN range' : range'[e] \in [block : Blocks \cup {Null}, length : 0 .. MaxLen]
  <2>1. \A u \in alive' : descriptor'[u] \in DOMAIN range \cup {Null}
    BY <1>0, <1>1, VFacts
  <2> QED BY <1>0, <2>1, DroppedFacts
<1>2. VTypeOK'
  <2>1. leaked' \subseteq alive' /\ alive' \subseteq Vectors /\ drifted' \subseteq Vectors
    BY <1>0 DEF VInv, VTypeOK
  <2>2. /\ start' \in [Vectors -> Blocks \cup {Null}]
        /\ size' \in [Vectors -> 0 .. MaxLen] /\ capacity' \in [Vectors -> 0 .. MaxLen]
        /\ descriptor' \in [Vectors -> Descriptors \cup {Null}]
    BY <1>p, StorageAssumption DEF VInv, VTypeOK
  <2>3. Allocated' \subseteq Blocks /\ \A b \in Allocated' : memory'[b] \in Seq(Values)
    BY <1>f DEF VInv, VTypeOK
  <2> QED BY <1>0, <1>d, <2>1, <2>2, <2>3 DEF VInv, VTypeOK
<1>3. OwnedOnce'
  <2>1. Allocated' = abandoned' \cup ({start'[u] : u \in alive'} \ {Null})
    <3>1. ASSUME NEW b, b # Null
          PROVE  (\E u \in alive' : b = start'[u])
                    <=> ((\E u \in alive : b = start[u]) /\ b # start[v])
      BY <1>0, <1>1, <3>1, VFacts
    <3>2. \A b : b \in Allocated <=> b \in abandoned \/ (b # Null /\ \E u \in alive : b = start[u])
      BY DEF VInv, OwnedOnce
    <3> QED BY <1>0, <1>f, <3>1, <3>2
  <2>2. ASSUME NEW u \in alive' PROVE Owned(u)'
    BY <1>0, <1>1, <1>f, VFacts DEF Owned, Sound
  <2> QED BY <2>1, <2>2 DEF OwnedOnce, Owned, Sound
<1>4. DescriptorFollows'
  BY <1>0, <1>1, <1>d DEF VInv, DescriptorFollows
<1> QED BY <1>2, <1>3, <1>4 DEF VInv

(* Steps that leave the descriptors where they are.                        *)
LEMMA SteadyFollows ==
    ASSUME VInv, UNCHANGED <<alive, descriptor, range>>, drifted \subseteq drifted',
           \A u \in alive \ drifted' : start'[u] = start[u] /\ size'[u] = size[u]
    PROVE  DescriptorFollows'
BY DEF VInv, DescriptorFollows

LEMMA SteadyTypes ==
    ASSUME VInv, UNCHANGED <<alive, descriptor, range>>,
           leaked' \subseteq alive, drifted' \subseteq Vectors, abandoned' \subseteq Blocks,
           start' \in [Vectors -> Blocks \cup {Null}],
           size' \in [Vectors -> 0 .. MaxLen], capacity' \in [Vectors -> 0 .. MaxLen],
           Allocated' \subseteq Blocks, \A b \in Allocated' : memory'[b] \in Seq(Values)
    PROVE  VTypeOK'
<1>1. /\ alive' \subseteq Vectors /\ leaked' \subseteq alive'
      /\ descriptor' \in [Vectors -> Descriptors \cup {Null}]
  BY DEF VInv, VTypeOK
<1>2. /\ DOMAIN range' = {descriptor'[v] : v \in alive'} \ {Null}
      /\ \A d \in DOMAIN range' : range'[d] \in [block : Blocks \cup {Null}, length : 0 .. MaxLen]
  <2>1. {descriptor'[v] : v \in alive'} = {descriptor[v] : v \in alive}
    OBVIOUS
  <2>2. range' = range
    OBVIOUS
  <2>3. DOMAIN range = {descriptor[v] : v \in alive} \ {Null}
    BY DEF VInv, VTypeOK
  <2>4. \A d \in DOMAIN range : range[d] \in [block : Blocks \cup {Null}, length : 0 .. MaxLen]
    BY DEF VInv, VTypeOK
  <2> QED BY <2>1, <2>2, <2>3, <2>4
<1> QED BY <1>1, <1>2 DEF VTypeOK

LEMMA LeakInv == ASSUME VInv, NEW v \in Vectors, Leak(v) PROVE VInv'
<1>0. /\ v \in alive /\ UNCHANGED <<alive, descriptor, range>>
      /\ leaked' = leaked \cup {v} /\ abandoned' = abandoned \cup ({start[v]} \ {Null})
      /\ memory' = [b \in Allocated |-> IF b = start[v] THEN <<>> ELSE memory[b]]
      /\ drifted' = drifted \cup {v}
  BY DEF Leak, Usable
<1>p. /\ start' = [start EXCEPT ![v] = Null] /\ size' = [size EXCEPT ![v] = 0]
      /\ capacity' = [capacity EXCEPT ![v] = 0]
  BY DEF Leak, Points
<1>1. /\ start'[v] = Null /\ size'[v] = 0 /\ capacity'[v] = 0
      /\ \A u \in alive \ {v} : /\ start'[u] = start[u] /\ size'[u] = size[u]
                                /\ capacity'[u] = capacity[u]
  BY <1>0, <1>p DEF VInv, VTypeOK
<1>f. /\ Allocated' = Allocated /\ \A b \in Allocated : memory'[b] \in Seq(Values)
      /\ \A b \in Allocated \ {start[v]} : memory'[b] = memory[b]
  BY <1>0 DEF Allocated, VInv, VTypeOK
<1>2. VTypeOK'
  <2>1. leaked' \subseteq alive /\ drifted' \subseteq Vectors /\ abandoned' \subseteq Blocks
    BY <1>0 DEF VInv, VTypeOK
  <2>2. /\ start' \in [Vectors -> Blocks \cup {Null}]
        /\ size' \in [Vectors -> 0 .. MaxLen] /\ capacity' \in [Vectors -> 0 .. MaxLen]
    BY <1>p, StorageAssumption DEF VInv, VTypeOK
  <2>3. Allocated' \subseteq Blocks
    BY <1>f DEF VInv, VTypeOK
  <2> QED BY <1>0, <1>f, <2>1, <2>2, <2>3, SteadyTypes
<1>3. OwnedOnce'
  <2>1. Allocated' = abandoned' \cup ({start'[u] : u \in alive'} \ {Null})
    <3>1. ASSUME NEW b, b # Null
          PROVE  (\E u \in alive' : b = start'[u])
                    <=> ((\E u \in alive : b = start[u]) /\ b # start[v])
      BY <1>0, <1>1, <3>1, VFacts
    <3>2. \A b : b \in Allocated <=> b \in abandoned \/ (b # Null /\ \E u \in alive : b = start[u])
      BY DEF VInv, OwnedOnce
    <3> QED BY <1>0, <1>f, <3>1, <3>2
  <2>2. ASSUME NEW u \in alive' PROVE Owned(u)'
    <3>1. CASE u = v
      BY <1>1, <3>1 DEF Owned, Sound
    <3>2. CASE u # v
      BY <1>0, <1>1, <1>f, <3>2, VFacts DEF Owned, Sound
    <3> QED BY <3>1, <3>2
  <2> QED BY <2>1, <2>2 DEF OwnedOnce, Owned, Sound
<1>4. DescriptorFollows'
  BY <1>0, <1>1, SteadyFollows
<1> QED BY <1>2, <1>3, <1>4 DEF VInv

LEMMA ClearInv == ASSUME VInv, NEW v \in Vectors, Clear(v) PROVE VInv'
<1>0. /\ v \in alive
      /\ UNCHANGED <<alive, leaked, start, capacity, descriptor, memory, range, abandoned>>
      /\ size' = [size EXCEPT ![v] = 0]
  BY DEF Clear, Usable
<1>m. /\ drifted \subseteq drifted' /\ drifted' \subseteq Vectors
      /\ v \notin drifted' => size[v] = 0
  BY DEF Clear, VInv, VTypeOK
<1>1. /\ size'[v] = 0 /\ \A u \in alive \ {v} : size'[u] = size[u]
      /\ size' \in [Vectors -> 0 .. MaxLen]
  BY <1>0, StorageAssumption DEF VInv, VTypeOK
<1>2. VTypeOK'
  BY <1>0, <1>m, <1>1 DEF VInv, VTypeOK, Allocated
<1>3. OwnedOnce'
  <2>1. ASSUME NEW u \in alive' PROVE Owned(u)'
    <3>1. capacity[u] \in Nat
      BY <1>0, <2>1, VFacts, StorageAssumption
    <3> QED BY <1>0, <1>1, <3>1, VFacts DEF Owned, Sound
  <2> QED BY <1>0, <2>1 DEF VInv, OwnedOnce, Owned, Sound, Allocated
<1>4. DescriptorFollows'
  BY <1>0, <1>m, <1>1, SteadyFollows
<1> QED BY <1>2, <1>3, <1>4 DEF VInv

(* Writing elements moves nothing.                                         *)
LEMMA WriteInv ==
    ASSUME VInv, NEW v \in Vectors, NEW I, NEW x \in Values, Write(v, I, x) PROVE VInv'
<1>0. /\ v \in alive /\ I # {} /\ I \subseteq 1 .. size[v]
      /\ UNCHANGED <<alive, leaked, start, size, capacity, descriptor, range, drifted, abandoned>>
      /\ memory' = [memory EXCEPT ![start[v]] =
                        [i \in DOMAIN memory[start[v]] |->
                            IF i \in I THEN x ELSE memory[start[v]][i]]]
  BY DEF Write, Usable
<1>1. start[v] \in Allocated
  <2>1. start[v] # Null
    BY <1>0, VFacts DEF Sound
  <2> QED BY <1>0, <2>1, VFacts
<1> DEFINE s == memory[start[v]]
           new == [i \in DOMAIN s |-> IF i \in I THEN x ELSE s[i]]
<1>2. new \in Seq(Values) /\ Len(new) = Len(s)
  <2>1. s \in Seq(Values)
    BY <1>1, VFacts
  <2> HIDE DEF s
  <2>2. DOMAIN s = 1 .. Len(s) /\ Len(s) \in Nat /\ \A i \in 1 .. Len(s) : s[i] \in Values
    BY <2>1
  <2>3. new = [i \in 1 .. Len(s) |-> IF i \in I THEN x ELSE s[i]]
    BY <2>2
  <2>4. \A i \in 1 .. Len(s) : (IF i \in I THEN x ELSE s[i]) \in Values
    BY <2>2
  <2> QED BY <2>2, <2>3, <2>4
<1>3. /\ Allocated' = Allocated /\ memory'[start[v]] = new
      /\ \A b \in Allocated \ {start[v]} : memory'[b] = memory[b]
  BY <1>0, <1>1 DEF Allocated
<1> HIDE DEF new
<1>4. \A b \in Allocated : memory'[b] \in Seq(Values) /\ Len(memory'[b]) = Len(memory[b])
  BY <1>2, <1>3, VFacts
<1>5. VTypeOK'
  <2>1. /\ leaked' \subseteq alive /\ drifted' \subseteq Vectors /\ abandoned' \subseteq Blocks
        /\ start' \in [Vectors -> Blocks \cup {Null}]
        /\ size' \in [Vectors -> 0 .. MaxLen] /\ capacity' \in [Vectors -> 0 .. MaxLen]
        /\ Allocated' \subseteq Blocks
    BY <1>0, <1>3 DEF VInv, VTypeOK
  <2> QED BY <1>0, <1>3, <1>4, <2>1, SteadyTypes
<1>6. OwnedOnce'
  <2>1. ASSUME NEW u \in alive' PROVE Owned(u)'
    BY <1>0, <1>4, VFacts DEF Owned, Sound
  <2> QED BY <1>0, <1>3, <2>1 DEF VInv, OwnedOnce, Owned, Sound
<1>7. DescriptorFollows'
  BY <1>0, SteadyFollows
<1> QED BY <1>5, <1>6, <1>7 DEF VInv

LEMMA SwapInv ==
    ASSUME VInv, NEW v \in Vectors, NEW w \in Vectors, Swap(v, w) PROVE VInv'
<1>0. /\ v \in alive /\ w \in alive /\ v # w
      /\ drifted' = drifted \cup {v, w}
      /\ UNCHANGED <<alive, leaked, descriptor, memory, range, abandoned>>
  BY DEF Swap, Usable
<1>p. /\ start' = [start EXCEPT ![v] = start[w], ![w] = start[v]]
      /\ size' = [size EXCEPT ![v] = size[w], ![w] = size[v]]
      /\ capacity' = [capacity EXCEPT ![v] = capacity[w], ![w] = capacity[v]]
  BY DEF Swap
<1>1. /\ start'[v] = start[w] /\ size'[v] = size[w] /\ capacity'[v] = capacity[w]
      /\ start'[w] = start[v] /\ size'[w] = size[v] /\ capacity'[w] = capacity[v]
      /\ \A u \in alive \ {v, w} : /\ start'[u] = start[u] /\ size'[u] = size[u]
                                   /\ capacity'[u] = capacity[u]
  BY <1>0, <1>p DEF VInv, VTypeOK
<1>2. VTypeOK'
  <2>1. start' \in [Vectors -> Blocks \cup {Null}]
    BY <1>p DEF VInv, VTypeOK
  <2>2. size' \in [Vectors -> 0 .. MaxLen]
    BY <1>p DEF VInv, VTypeOK
  <2>3. capacity' \in [Vectors -> 0 .. MaxLen]
    BY <1>p DEF VInv, VTypeOK
  <2>4. leaked' \subseteq alive /\ drifted' \subseteq Vectors /\ abandoned' \subseteq Blocks
    BY <1>0 DEF VInv, VTypeOK
  <2>5. Allocated' \subseteq Blocks /\ \A b \in Allocated' : memory'[b] \in Seq(Values)
    BY <1>0, VFacts DEF Allocated
  <2> QED BY <1>0, <2>1, <2>2, <2>3, <2>4, <2>5, SteadyTypes
<1>3. OwnedOnce'
  <2>1. {start'[u] : u \in alive'} = {start[u] : u \in alive}
    BY <1>0, <1>1
  <2>2. ASSUME NEW u \in alive' PROVE Owned(u)'
    <3>1. CASE u = v
      BY <1>0, <1>1, <3>1, VFacts DEF Owned, Sound
    <3>2. CASE u = w
      BY <1>0, <1>1, <3>2, VFacts DEF Owned, Sound
    <3>3. CASE u # v /\ u # w
      BY <1>0, <1>1, <3>3, VFacts DEF Owned, Sound
    <3> QED BY <3>1, <3>2, <3>3
  <2> QED BY <1>0, <2>1, <2>2 DEF VInv, OwnedOnce, Owned, Sound, Allocated
<1>4. DescriptorFollows'
  BY <1>0, <1>1, SteadyFollows
<1> QED BY <1>2, <1>3, <1>4 DEF VInv

-----------------------------------------------------------------------------
(* Growth.                                                                 *)

LEMMA OverlaidFacts ==
    ASSUME NEW s \in Seq(Values), NEW new, \A i \in DOMAIN new : new[i] \in Values
    PROVE  Overlaid(s, new) \in Seq(Values) /\ Len(Overlaid(s, new)) = Len(s)
<1>1. DOMAIN s = 1 .. Len(s) /\ Len(s) \in Nat /\ \A i \in 1 .. Len(s) : s[i] \in Values
  OBVIOUS
<1>2. Overlaid(s, new) = [i \in 1 .. Len(s) |-> IF i \in DOMAIN new THEN new[i] ELSE s[i]]
  BY <1>1 DEF Overlaid
<1>3. \A i \in 1 .. Len(s) : (IF i \in DOMAIN new THEN new[i] ELSE s[i]) \in Values
  BY <1>1
<1>4. Len(s) \in Nat
  OBVIOUS
<1> QED BY <1>2, <1>3, <1>4

LEMMA BlockFacts ==
    ASSUME NEW s \in Seq(Values), NEW n \in Nat
    PROVE  Block(s, n) \in Seq(Values) /\ Len(Block(s, n)) = n
<1>1. \A i \in 1 .. n : (IF i \in DOMAIN s THEN s[i] ELSE Uninitialized) \in Values
  <2>1. \A i \in DOMAIN s : s[i] \in Values
    OBVIOUS
  <2> QED BY <2>1, StorageAssumption
<1> QED BY <1>1 DEF Block

(* Whatever the storage becomes, reserve leaves one owner to every block.  *)
LEMMA ReservedInv ==
    ASSUME VInv, NEW v \in alive, NEW n \in Nat, NEW m \in Nat,
           m =< n \/ m =< capacity[v],
           NEW new, \A i \in DOMAIN new : new[i] \in Values,
           Reserved(v, n, m, new)
    PROVE  VInv'
<1>0. /\ n =< MaxLen /\ UNCHANGED <<alive, leaked, descriptor, range, abandoned>>
      /\ v \in Vectors /\ capacity[v] \in Nat /\ capacity[v] =< MaxLen /\ size[v] \in Nat
  BY VFacts, StorageAssumption DEF Reserved
<1>m. /\ drifted \subseteq drifted' /\ drifted' \subseteq Vectors
      /\ v \notin drifted' => ~(n > capacity[v]) /\ m = size[v]
  BY <1>0 DEF Reserved, VInv, VTypeOK
<1>t. /\ leaked' \subseteq alive /\ abandoned' \subseteq Blocks
  BY <1>0 DEF VInv, VTypeOK
<1>1. CASE n > capacity[v]
  <2>1. PICK b \in FreeBlocks :
           /\ memory' = [Grown(v, b, n) EXCEPT ![b] = Overlaid(Grown(v, b, n)[b], new)]
           /\ Points(v, b, m, n)
    BY <1>1 DEF Reserved
  <2>2. b \in Blocks /\ b \notin Allocated /\ b # Null /\ b # start[v] /\ m =< n
    BY <1>0, <1>1, <2>1, VFacts, StorageAssumption DEF FreeBlocks
  <2>3. /\ start' = [start EXCEPT ![v] = b] /\ size' = [size EXCEPT ![v] = m]
        /\ capacity' = [capacity EXCEPT ![v] = n]
    BY <2>1 DEF Points
  <2>4. /\ start'[v] = b /\ size'[v] = m /\ capacity'[v] = n
        /\ \A u \in alive \ {v} : /\ start'[u] = start[u] /\ size'[u] = size[u]
                                  /\ capacity'[u] = capacity[u]
    BY <1>0, <2>3 DEF VInv, VTypeOK
  <2>f. /\ DOMAIN Freed(v) = Allocated \ {start[v]}
        /\ \A c \in Allocated \ {start[v]} : Freed(v)[c] = memory[c]
        /\ \A u \in alive \ {v} : start[u] # Null => start[u] \in Allocated \ {start[v]}
        /\ start[v] \notin abandoned
    BY FreedFacts
  <2>5. /\ DOMAIN Grown(v, b, n) = (Allocated \ {start[v]}) \cup {b}
        /\ Grown(v, b, n)[b] = Block(Contents(v), n)
        /\ \A c \in Allocated \ {start[v]} : Grown(v, b, n)[c] = memory[c]
    BY <2>2, <2>f DEF Grown, With
  <2>6. /\ Allocated' = (Allocated \ {start[v]}) \cup {b}
        /\ memory'[b] = Overlaid(Block(Contents(v), n), new)
        /\ \A c \in Allocated \ {start[v]} : memory'[c] = memory[c]
    BY <2>1, <2>2, <2>5 DEF Allocated
  <2>7. memory'[b] \in Seq(Values) /\ Len(memory'[b]) = n
    <3>1. Block(Contents(v), n) \in Seq(Values) /\ Len(Block(Contents(v), n)) = n
      BY ContentsFacts, BlockFacts
    <3> QED BY <2>6, <3>1, OverlaidFacts
  <2>8. VTypeOK'
    <3>1. start' \in [Vectors -> Blocks \cup {Null}]
      BY <2>2, <2>3 DEF VInv, VTypeOK
    <3>2. n \in 0 .. MaxLen /\ m \in 0 .. MaxLen
      BY <1>0, <2>2, StorageAssumption
    <3>3. size' \in [Vectors -> 0 .. MaxLen] /\ capacity' \in [Vectors -> 0 .. MaxLen]
      BY <2>3, <3>2 DEF VInv, VTypeOK
    <3>4. Allocated' \subseteq Blocks /\ \A c \in Allocated' : memory'[c] \in Seq(Values)
      BY <2>2, <2>6, <2>7, VFacts
    <3> QED BY <1>0, <1>m, <1>t, <3>1, <3>3, <3>4, SteadyTypes
  <2>9. OwnedOnce'
    <3>1. Allocated' = abandoned' \cup ({start'[u] : u \in alive'} \ {Null})
      <4>1. ASSUME NEW c, c # Null
            PROVE  (\E u \in alive' : c = start'[u])
                      <=> (c = b \/ ((\E u \in alive : c = start[u]) /\ c # start[v]))
        <5>1. (\E u \in alive' : c = start'[u]) <=> (c = b \/ \E u \in alive \ {v} : c = start[u])
          BY <1>0, <2>4
        <5>2. (\E u \in alive \ {v} : c = start[u])
                <=> ((\E u \in alive : c = start[u]) /\ c # start[v])
          BY <4>1, VFacts
        <5> QED BY <5>1, <5>2
      <4>2. \A c : c \in Allocated <=> c \in abandoned \/ (c # Null /\ \E u \in alive : c = start[u])
        BY DEF VInv, OwnedOnce
      <4> QED BY <1>0, <2>2, <2>f, <2>6, <4>1, <4>2
    <3>2. ASSUME NEW u \in alive' PROVE Owned(u)'
      <4>1. CASE u = v
        <5>1. b \notin abandoned /\ \A w \in alive : start[w] # b
          BY <2>2, VFacts
        <5> QED BY <1>0, <2>2, <2>4, <2>7, <4>1, <5>1 DEF Owned, Sound
      <4>2. CASE u # v
        <5>1. start[u] # Null => memory'[start[u]] = memory[start[u]] /\ start[u] # b
          BY <1>0, <2>2, <2>f, <2>6, <4>2
        <5> QED BY <1>0, <2>4, <4>2, <5>1, VFacts DEF Owned, Sound
      <4> QED BY <4>1, <4>2
    <3> QED BY <3>1, <3>2 DEF OwnedOnce, Owned, Sound
  <2>10. DescriptorFollows'
    BY <1>0, <1>1, <1>m, <2>4, SteadyFollows
  <2> QED BY <2>8, <2>9, <2>10 DEF VInv
<1>2. CASE ~(n > capacity[v])
  <2>1. /\ memory' = [b \in Allocated |->
                         IF b = start[v] THEN Overlaid(memory[b], new) ELSE memory[b]]
        /\ start' = [start EXCEPT ![v] = start[v]] /\ size' = [size EXCEPT ![v] = m]
        /\ capacity' = [capacity EXCEPT ![v] = capacity[v]]
    BY <1>2 DEF Reserved, Points
  <2>2. /\ start' = start /\ capacity' = capacity /\ size'[v] = m
        /\ \A u \in alive \ {v} : size'[u] = size[u]
    BY <1>0, <2>1 DEF VInv, VTypeOK
  <2>3. m =< capacity[v] /\ m \in 0 .. MaxLen
    BY <1>0, <1>2, StorageAssumption
  <2>4. /\ Allocated' = Allocated
        /\ \A b \in Allocated : memory'[b] \in Seq(Values) /\ Len(memory'[b]) = Len(memory[b])
    <3>1. \A b \in Allocated :
             /\ memory[b] \in Seq(Values)
             /\ Overlaid(memory[b], new) \in Seq(Values)
             /\ Len(Overlaid(memory[b], new)) = Len(memory[b])
      BY VFacts, OverlaidFacts
    <3> QED BY <2>1, <3>1 DEF Allocated
  <2>5. VTypeOK'
    <3>1. size' \in [Vectors -> 0 .. MaxLen]
      BY <2>1, <2>3 DEF VInv, VTypeOK
    <3>2. /\ start' \in [Vectors -> Blocks \cup {Null}] /\ capacity' \in [Vectors -> 0 .. MaxLen]
          /\ Allocated' \subseteq Blocks
      BY <2>2, <2>4 DEF VInv, VTypeOK
    <3> QED BY <1>0, <1>m, <1>t, <2>4, <3>1, <3>2, SteadyTypes
  <2>6. OwnedOnce'
    <3>1. {start'[u] : u \in alive'} = {start[u] : u \in alive}
      BY <1>0, <2>2
    <3>2. ASSUME NEW u \in alive' PROVE Owned(u)'
      <4>1. size'[u] =< capacity[u] /\ (start[u] = Null => size'[u] = 0)
        <5>1. CASE u = v
          <6>1. start[v] = Null => capacity[v] = 0
            BY VFacts DEF Sound
          <6> QED BY <1>0, <2>2, <2>3, <5>1, <6>1
        <5>2. CASE u # v
          BY <1>0, <2>2, <5>2, VFacts DEF Sound
        <5> QED BY <5>1, <5>2
      <4>2. u \in alive
        BY <1>0
      <4> QED BY <1>0, <2>2, <2>4, <4>1, <4>2, VFacts DEF Owned, Sound
    <3> QED BY <1>0, <2>4, <3>1, <3>2 DEF VInv, OwnedOnce, Owned, Sound
  <2>7. DescriptorFollows'
    BY <1>0, <1>m, <2>2, SteadyFollows
  <2> QED BY <2>5, <2>6, <2>7 DEF VInv
<1> QED BY <1>1, <1>2

LEMMA GrowthInv ==
    ASSUME VInv, NEW v \in Vectors
    PROVE  /\ \A n \in 0 .. MaxLen : Reserve(v, n) \/ Resize(v, n) => VInv'
           /\ \A x \in Values : PushBack(v, x) => VInv'
<1>1. ASSUME NEW n \in 0 .. MaxLen, Reserve(v, n) PROVE VInv'
  <2>1. v \in alive /\ Reserved(v, n, size[v], <<>>)
    BY <1>1 DEF Reserve, Usable
  <2>2. n \in Nat /\ size[v] \in Nat /\ size[v] =< capacity[v]
    BY <2>1, VFacts, StorageAssumption DEF Sound
  <2> QED BY <2>1, <2>2, ReservedInv
<1>2. ASSUME NEW n \in 0 .. MaxLen, Resize(v, n) PROVE VInv'
  <2>1. v \in alive /\ Reserved(v, n, n, <<>>)
    BY <1>2 DEF Resize, Usable
  <2>2. n \in Nat /\ n =< n
    BY StorageAssumption
  <2> QED BY <2>1, <2>2, ReservedInv
<1>3. ASSUME NEW x \in Values, PushBack(v, x) PROVE VInv'
  <2> DEFINE needed == IF size[v] < capacity[v] THEN capacity[v]
                       ELSE IF capacity[v] = 0 THEN 1 ELSE 2 * capacity[v]
             new == [i \in {size[v] + 1} |-> x]
  <2>1. v \in alive /\ Reserved(v, needed, size[v] + 1, new)
    BY <1>3 DEF PushBack, Usable
  <2>2. /\ size[v] \in Nat /\ capacity[v] \in Nat /\ size[v] =< capacity[v]
    BY <2>1, VFacts, StorageAssumption DEF Sound
  <2>3. needed \in Nat /\ size[v] + 1 =< needed
    BY <2>2
  <2>4. \A i \in DOMAIN new : new[i] \in Values
    OBVIOUS
  <2> HIDE DEF needed, new
  <2> QED BY <2>1, <2>2, <2>3, <2>4, ReservedInv
<1> QED BY <1>1, <1>2, <1>3

LEMMA NextVInv == VInv /\ [Next]_pvars => VInv'
<1> SUFFICES ASSUME VInv, [Next]_pvars PROVE VInv'
  OBVIOUS
<1>1. ASSUME NEW v \in Vectors,
             DefaultConstruct(v) \/ Destroy(v) \/ Leak(v) \/ Clear(v)
      PROVE  VInv'
  BY <1>1, DefaultConstructInv, DestroyInv, LeakInv, ClearInv
<1>2. ASSUME NEW v \in Vectors, NEW n \in 0 .. MaxLen, NEW x \in Values, ConstructSized(v, n, x)
      PROVE  VInv'
  <2>1. n \in Nat /\ n =< MaxLen
    BY StorageAssumption
  <2>2. [i \in 1 .. n |-> x] \in Seq(Values) /\ Len([i \in 1 .. n |-> x]) = n
    BY <2>1
  <2> QED BY <1>2, <2>1, <2>2, ConstructInv DEF ConstructSized
<1>3. ASSUME NEW v \in Vectors, NEW w \in Vectors, ConstructCopy(v, w) PROVE VInv'
  <2>1. w \in alive
    BY <1>3 DEF ConstructCopy, Usable
  <2>2. Contents(w) \in Seq(Values) /\ Len(Contents(w)) =< MaxLen
    BY <2>1, ContentsFacts, StorageAssumption
  <2> QED BY <1>3, <2>2, ConstructInv DEF ConstructCopy
<1>4. ASSUME NEW v \in Vectors, NEW w \in Vectors,
             MoveConstruct(v, w) \/ MoveAssign(v, w) \/ Swap(v, w)
      PROVE  VInv'
  BY <1>4, MoveConstructInv, MoveAssignInv, SwapInv
<1>5. CASE UNCHANGED pvars
  <2>1. UNCHANGED <<alive, leaked, start, size, capacity, descriptor, memory, range,
                    drifted, abandoned>>
    BY <1>5 DEF pvars
  <2>2. VTypeOK'
    <3>1. /\ leaked' \subseteq alive /\ drifted' \subseteq Vectors /\ abandoned' \subseteq Blocks
          /\ start' \in [Vectors -> Blocks \cup {Null}]
          /\ size' \in [Vectors -> 0 .. MaxLen] /\ capacity' \in [Vectors -> 0 .. MaxLen]
      BY <2>1 DEF VInv, VTypeOK
    <3>2. Allocated' \subseteq Blocks /\ \A b \in Allocated' : memory'[b] \in Seq(Values)
      BY <2>1, VFacts DEF Allocated
    <3> QED BY <2>1, <3>1, <3>2, SteadyTypes
  <2>3. OwnedOnce'
    <3>1. {start'[u] : u \in alive'} = {start[u] : u \in alive}
      BY <2>1
    <3> QED BY <2>1, <3>1 DEF VInv, OwnedOnce, Allocated
  <2>4. DescriptorFollows'
    BY <2>1, SteadyFollows
  <2> QED BY <2>2, <2>3, <2>4 DEF VInv
<1>6. ASSUME NEW v \in Vectors, NEW x \in Values, NEW I, Write(v, I, x) PROVE VInv'
  BY <1>6, WriteInv
<1>7. CASE Next
  <2>1. CASE \E v \in Vectors :
               DefaultConstruct(v) \/ Destroy(v) \/ Leak(v) \/ Clear(v)
    BY <1>1, <2>1
  <2>2. CASE \E v \in Vectors, n \in 0 .. MaxLen, x \in Values : ConstructSized(v, n, x)
    BY <1>2, <2>2
  <2>3. CASE \E v \in Vectors, n \in 0 .. MaxLen : Reserve(v, n) \/ Resize(v, n)
    BY <2>3, GrowthInv
  <2>4. CASE \E v \in Vectors, x \in Values : PushBack(v, x)
    BY <2>4, GrowthInv
  <2>5. CASE \E v \in Vectors, x \in Values : \E I : Write(v, I, x)
    BY <1>6, <2>5
  <2>6. CASE \E v, w \in Vectors :
               ConstructCopy(v, w) \/ MoveConstruct(v, w) \/ MoveAssign(v, w) \/ Swap(v, w)
    BY <1>3, <1>4, <2>6
  <2> QED BY <1>7, <2>1, <2>2, <2>3, <2>4, <2>5, <2>6 DEF Next
<1> QED BY <1>5, <1>7

(* VInv holds in every reachable state.                                    *)
THEOREM VectorInvariant == VSpec => []VInv
<1> QED BY InitVInv, NextVInv, PTL DEF VSpec

(* The variables stay in their types, sizes within the bound.              *)
THEOREM VectorTypeCorrect == VSpec => []VTypeOK
<1>1. VInv => VTypeOK
  BY DEF VInv
<1> QED BY <1>1, VectorInvariant, PTL

(* In any order of moves, swaps, growth and leaks no block is owned twice, *)
(* used after it was freed, or lost (pvector.h:67-116).                    *)
THEOREM OwnedOnceCorrect == VSpec => []OwnedOnce
<1>1. VInv => OwnedOnce
  BY DEF VInv
<1> QED BY <1>1, VectorInvariant, PTL

(* The descriptor goes with the storage (pvector.h:44-49, 67-90).          *)
THEOREM DescriptorFollowsCorrect == VSpec => []DescriptorFollows
<1>1. VInv => DescriptorFollows
  BY DEF VInv
<1> QED BY <1>1, VectorInvariant, PTL

-----------------------------------------------------------------------------
(* PVector implements VectorContents: blocks cannot be seen in the         *)
(* elements.                                                               *)

(* What VectorContents sees of the vectors.                                *)
Shown == [v \in Vectors |-> IF Usable(v) THEN Contents(v) ELSE Null]

LEMMA ShownFacts ==
    ASSUME VInv, NEW v \in Vectors
    PROVE  /\ Usable(v) => /\ Shown[v] = Contents(v) /\ Shown[v] # Null
                            /\ size[v] \in 0 .. MaxLen /\ DOMAIN Contents(v) = 1 .. size[v]
                            /\ Contents(v) \in [1 .. size[v] -> Values]
           /\ ~ Usable(v) => Shown[v] = Null
<1>1. ~ Usable(v) => Shown[v] = Null
  BY DEF Shown
<1>2. CASE Usable(v)
  <2>1. Shown[v] = Contents(v)
    BY <1>2 DEF Shown
  <2>2. Contents(v) \in Seq(Values) /\ Len(Contents(v)) = size[v] /\ size[v] \in 0 .. MaxLen
    BY <1>2, ContentsFacts DEF Usable
  <2>3. DOMAIN Contents(v) = 1 .. size[v] /\ Contents(v) \in [1 .. size[v] -> Values]
    BY <2>2
  <2>4. Contents(v) # Null
    BY <2>2, <2>3, NullAssumption
  <2> QED BY <1>2, <2>1, <2>2, <2>3, <2>4
<1> QED BY <1>1, <1>2

(* A vector whose pointers and block stay as they are looks the same.      *)
LEMMA ShownKept ==
    ASSUME NEW u \in Vectors, Usable(u)' <=> Usable(u),
           Usable(u) => /\ start'[u] = start[u] /\ size'[u] = size[u]
                        /\ size[u] # 0 => memory'[start[u]] = memory[start[u]]
    PROVE  Shown'[u] = Shown[u]
<1>1. CASE Usable(u)
  <2>1. Contents(u)' = Contents(u)
    <3>1. CASE size[u] = 0
      BY <1>1, <3>1 DEF Contents
    <3>2. CASE size[u] # 0
      BY <1>1, <3>2 DEF Contents
    <3> QED BY <3>1, <3>2
  <2> QED BY <1>1, <2>1 DEF Shown
<1>2. CASE ~ Usable(u)
  BY <1>2 DEF Shown
<1> QED BY <1>1, <1>2

LEMMA ShownBecomes ==
    ASSUME NEW v \in Vectors, NEW s, Shown'[v] = s,
           \A u \in Vectors \ {v} : Shown'[u] = Shown[u]
    PROVE  Held!Becomes(v, s)
<1>1. Shown' = [Shown EXCEPT ![v] = s]
  BY DEF Shown
<1> QED BY <1>1 DEF Held!Becomes, Shown

LEMMA ConstructHeld ==
    ASSUME VInv, NEW v \in Vectors
    PROVE  /\ DefaultConstruct(v) => Held!Next
           /\ \A n \in 0 .. MaxLen : \A s \in [1 .. n -> Values] : Construct(v, s) => Held!Next
<1>l. leaked \subseteq alive /\ start \in [Vectors -> Blocks \cup {Null}]
      /\ size \in [Vectors -> 0 .. MaxLen]
  BY DEF VInv, VTypeOK
<1>1. ASSUME DefaultConstruct(v) PROVE Held!Next
  <2>1. /\ v \notin alive /\ alive' = alive \cup {v} /\ leaked' = leaked /\ memory' = memory
        /\ start' = [start EXCEPT ![v] = Null] /\ size' = [size EXCEPT ![v] = 0]
    BY <1>1 DEF DefaultConstruct, Points
  <2>2. Shown[v] = Null
    BY <2>1 DEF Shown, Usable
  <2>3. Shown'[v] = <<>>
    BY <1>l, <2>1 DEF Shown, Usable, Contents
  <2>4. ASSUME NEW u \in Vectors \ {v} PROVE Shown'[u] = Shown[u]
    BY <1>l, <2>1, ShownKept DEF Usable
  <2>5. Held!Becomes(v, <<>>)
    BY <2>3, <2>4, ShownBecomes
  <2>6. <<>> \in Held!Strings
    BY StorageAssumption DEF Held!Strings
  <2> QED BY <2>2, <2>5, <2>6 DEF Held!Next, Held!Make, Held!Exists, Shown
<1>2. ASSUME NEW n \in 0 .. MaxLen, NEW s \in [1 .. n -> Values], Construct(v, s)
      PROVE  Held!Next
  <2>n. n \in Nat /\ s \in Seq(Values) /\ Len(s) = n
    BY StorageAssumption
  <2>1. PICK b \in FreeBlocks :
           /\ v \notin alive /\ alive' = alive \cup {v} /\ leaked' = leaked
           /\ memory' = With(memory, b, s)
           /\ start' = [start EXCEPT ![v] = b] /\ size' = [size EXCEPT ![v] = n]
    BY <1>2, <2>n DEF Construct, Points
  <2>2. Shown[v] = Null
    BY <2>1 DEF Shown, Usable
  <2>3. memory'[b] = s /\ \A c \in Allocated : memory'[c] = memory[c]
    BY <2>1 DEF With, Allocated, FreeBlocks
  <2>4. Contents(v)' = s
    BY <1>l, <2>1, <2>3 DEF Contents
  <2>5. Shown'[v] = s
    BY <1>l, <2>1, <2>4 DEF Shown, Usable
  <2>6. ASSUME NEW u \in Vectors \ {v} PROVE Shown'[u] = Shown[u]
    <3>1. Usable(u) /\ size[u] # 0 => start[u] \in Allocated
      BY VFacts DEF Usable, Sound
    <3> QED BY <1>l, <2>1, <2>3, <3>1, ShownKept DEF Usable
  <2>7. Held!Becomes(v, s)
    BY <2>5, <2>6, ShownBecomes
  <2>8. s \in Held!Strings
    BY DEF Held!Strings
  <2> QED BY <2>2, <2>7, <2>8 DEF Held!Next, Held!Make, Held!Exists, Shown
<1> QED BY <1>1, <1>2

(* Both moves hand the block of w to v.                                    *)
LEMMA MoveHeld ==
    ASSUME VInv, NEW v \in Vectors, NEW w \in Vectors, MoveConstruct(v, w) \/ MoveAssign(v, w)
    PROVE  Held!Next
<1>l. leaked \subseteq alive /\ start \in [Vectors -> Blocks \cup {Null}]
      /\ size \in [Vectors -> 0 .. MaxLen]
  BY DEF VInv, VTypeOK
<1>1. /\ Usable(w) /\ v # w /\ alive' = alive \cup {v} /\ leaked' = leaked \ {v}
      /\ start' = [start EXCEPT ![v] = start[w], ![w] = Null]
      /\ size' = [size EXCEPT ![v] = size[w], ![w] = 0]
  <2>1. CASE MoveConstruct(v, w)
    BY <1>l, <2>1 DEF MoveConstruct, TakePointers, Usable
  <2>2. CASE MoveAssign(v, w)
    BY <1>l, <2>2 DEF MoveAssign, TakePointers, Usable
  <2> QED BY <2>1, <2>2
<1>2. \A u \in alive \ {v} : start[u] # Null => memory'[start[u]] = memory[start[u]]
  <2>1. CASE MoveConstruct(v, w)
    BY <2>1 DEF MoveConstruct
  <2>2. CASE MoveAssign(v, w)
    BY <2>2, FreedFacts DEF MoveAssign
  <2> QED BY <2>1, <2>2
<1>3. \A u \in alive : size[u] # 0 => start[u] # Null
  BY VFacts DEF Sound
<1>4. Shown'[w] = <<>>
  BY <1>l, <1>1 DEF Shown, Usable, Contents
<1>5. Shown'[v] = Shown[w]
  <2>1. Contents(v)' = Contents(w)
    <3>1. w \in alive \ {v} /\ start'[v] = start[w] /\ size'[v] = size[w]
      BY <1>l, <1>1 DEF Usable
    <3>2. CASE size[w] = 0
      BY <3>1, <3>2 DEF Contents
    <3>3. CASE size[w] # 0
      BY <1>2, <1>3, <3>1, <3>3 DEF Contents
    <3> QED BY <3>2, <3>3
  <2> QED BY <1>l, <1>1, <2>1 DEF Shown, Usable
<1>6. ASSUME NEW u \in Vectors \ {v, w} PROVE Shown'[u] = Shown[u]
  <2>1. u \in Vectors /\ (Usable(u)' <=> Usable(u))
    BY <1>1 DEF Usable
  <2>2. start'[u] = start[u] /\ size'[u] = size[u]
    BY <1>l, <1>1
  <2>3. Usable(u) /\ size[u] # 0 => memory'[start[u]] = memory[start[u]]
    BY <1>2, <1>3 DEF Usable
  <2> QED BY <2>1, <2>2, <2>3, ShownKept
<1>7. Shown' = [Shown EXCEPT ![v] = Shown[w], ![w] = <<>>]
  BY <1>4, <1>5, <1>6 DEF Shown
<1>8. Shown[w] # Null
  BY <1>1, ShownFacts
<1> QED BY <1>1, <1>7, <1>8 DEF Held!Next, Held!Move, Held!Exists, Shown

LEMMA GoneHeld ==
    ASSUME VInv, NEW v \in Vectors, Destroy(v) \/ Leak(v)
    PROVE  Held!Next
<1>l. leaked \subseteq alive /\ start \in [Vectors -> Blocks \cup {Null}]
      /\ size \in [Vectors -> 0 .. MaxLen]
  BY DEF VInv, VTypeOK
<1>1. /\ v \in alive
      /\ start' = [start EXCEPT ![v] = Null] /\ size' = [size EXCEPT ![v] = 0]
      /\ \A u \in Vectors \ {v} : Usable(u)' <=> Usable(u)
      /\ ~ Usable(v)'
  BY <1>l DEF Destroy, Leak, Points, Usable
<1>2. \A u \in alive \ {v} : start[u] # Null => memory'[start[u]] = memory[start[u]]
  <2>1. CASE Destroy(v)
    BY <1>1, <2>1, FreedFacts DEF Destroy
  <2>2. CASE Leak(v)
    BY <1>1, <2>2, VFacts DEF Leak
  <2> QED BY <2>1, <2>2
<1>3. \A u \in alive : size[u] # 0 => start[u] # Null
  BY VFacts DEF Sound
<1>4. Shown'[v] = Null
  BY <1>1 DEF Shown
<1>5. ASSUME NEW u \in Vectors \ {v} PROVE Shown'[u] = Shown[u]
  <2>1. Usable(u) /\ size[u] # 0 => memory'[start[u]] = memory[start[u]]
    BY <1>2, <1>3 DEF Usable
  <2> QED BY <1>l, <1>1, <2>1, ShownKept
<1>6. Held!Becomes(v, Null)
  BY <1>4, <1>5, ShownBecomes
<1> QED BY <1>6 DEF Held!Next, Held!Destroy

LEMMA ClearHeld ==
    ASSUME VInv, NEW v \in Vectors, Clear(v)
    PROVE  Held!Next
<1>l. size \in [Vectors -> 0 .. MaxLen]
  BY DEF VInv, VTypeOK
<1>1. /\ Usable(v) /\ UNCHANGED <<alive, leaked, start, memory>>
      /\ size' = [size EXCEPT ![v] = 0]
  BY DEF Clear
<1>2. Shown'[v] = <<>>
  BY <1>l, <1>1 DEF Shown, Usable, Contents
<1>3. ASSUME NEW u \in Vectors \ {v} PROVE Shown'[u] = Shown[u]
  BY <1>l, <1>1, ShownKept DEF Usable
<1>4. Held!Becomes(v, <<>>)
  BY <1>2, <1>3, ShownBecomes
<1>5. Shown[v] # Null
  BY <1>1, ShownFacts
<1>6. <<>> \in Held!Strings
  BY StorageAssumption DEF Held!Strings
<1>7. Held!Resize(v, <<>>)
  BY <1>4, <1>5 DEF Held!Resize, Held!Exists, Shown
<1> QED BY <1>6, <1>7 DEF Held!Next

LEMMA SwapHeld ==
    ASSUME VInv, NEW v \in Vectors, NEW w \in Vectors, Swap(v, w)
    PROVE  Held!Next
<1>l. start \in [Vectors -> Blocks \cup {Null}] /\ size \in [Vectors -> 0 .. MaxLen]
  BY DEF VInv, VTypeOK
<1>1. /\ Usable(v) /\ Usable(w) /\ v # w /\ UNCHANGED <<alive, leaked, memory>>
      /\ start' = [start EXCEPT ![v] = start[w], ![w] = start[v]]
      /\ size' = [size EXCEPT ![v] = size[w], ![w] = size[v]]
  BY DEF Swap
<1>2. Contents(v)' = Contents(w) /\ Contents(w)' = Contents(v)
  BY <1>l, <1>1 DEF Contents
<1>3. Shown'[v] = Shown[w] /\ Shown'[w] = Shown[v]
  BY <1>1, <1>2 DEF Shown, Usable
<1>4. ASSUME NEW u \in Vectors \ {v, w} PROVE Shown'[u] = Shown[u]
  BY <1>l, <1>1, ShownKept DEF Usable
<1>5. Shown' = [Shown EXCEPT ![v] = Shown[w], ![w] = Shown[v]]
  BY <1>3, <1>4 DEF Shown
<1>6. Shown[v] # Null /\ Shown[w] # Null
  BY <1>1, ShownFacts
<1> QED BY <1>5, <1>6 DEF Held!Next, Held!Swap, Held!Exists, Shown

(* All elements are written by fill, one by operator[].                    *)
LEMMA WriteHeld ==
    ASSUME VInv, NEW v \in Vectors, NEW x \in Values
    PROVE  /\ Write(v, 1 .. size[v], x) => Held!Next
           /\ \A i \in 1 .. size[v] : Write(v, {i}, x) => Held!Next
<1> DEFINE W(I) == [i \in 1 .. size[v] |-> IF i \in I THEN x ELSE Contents(v)[i]]
<1>1. ASSUME NEW I, Write(v, I, x)
      PROVE  Usable(v) /\ Held!Becomes(v, W(I))
  <2>1. /\ Usable(v) /\ I # {} /\ I \subseteq 1 .. size[v]
        /\ UNCHANGED <<alive, leaked, start, size>>
        /\ memory' = [memory EXCEPT ![start[v]] =
                          [i \in DOMAIN memory[start[v]] |->
                              IF i \in I THEN x ELSE memory[start[v]][i]]]
    BY <1>1 DEF Write
  <2>2. /\ start[v] # Null /\ start[v] \in Allocated /\ size[v] \in Nat
        /\ memory[start[v]] \in Seq(Values) /\ size[v] =< Len(memory[start[v]])
    <3>1. v \in alive /\ size[v] \in Nat
      BY <2>1, VFacts, StorageAssumption DEF Usable
    <3>2. start[v] # Null
      BY <2>1, <3>1, VFacts DEF Sound
    <3> QED BY <3>1, <3>2, VFacts DEF Sound
  <2>3. /\ \A i \in 1 .. size[v] :
               memory'[start[v]][i] = IF i \in I THEN x ELSE memory[start[v]][i]
        /\ \A b \in Allocated \ {start[v]} : memory'[b] = memory[b]
    BY <2>1, <2>2 DEF Allocated
  <2>4. Contents(v)' = W(I)
    BY <2>1, <2>3 DEF Contents
  <2>5. Shown'[v] = W(I)
    BY <2>1, <2>4 DEF Shown, Usable
  <2> HIDE DEF W
  <2>6. ASSUME NEW u \in Vectors \ {v} PROVE Shown'[u] = Shown[u]
    <3>1. Usable(u) /\ size[u] # 0 => start[u] \in Allocated \ {start[v]}
      BY <2>1, <2>2, VFacts DEF Usable, Sound
    <3> QED BY <2>1, <2>3, <3>1, ShownKept DEF Usable
  <2> QED BY <2>1, <2>5, <2>6, ShownBecomes
<1>2. ASSUME Usable(v)
      PROVE  /\ Held!Exists(v) /\ Shown[v] = Contents(v) /\ DOMAIN Contents(v) = 1 .. size[v]
             /\ size[v] \in 0 .. MaxLen
  BY <1>2, ShownFacts DEF Held!Exists, Shown
<1>3. ASSUME Write(v, 1 .. size[v], x) PROVE Held!Next
  <2>1. W(1 .. size[v]) = [i \in DOMAIN Shown[v] |-> x]
    BY <1>1, <1>2, <1>3
  <2> HIDE DEF W
  <2>2. Held!Fill(v, x)
    BY <1>1, <1>2, <1>3, <2>1 DEF Held!Fill, Shown
  <2> QED BY <2>2 DEF Held!Next
<1>4. ASSUME NEW i \in 1 .. size[v], Write(v, {i}, x) PROVE Held!Next
  <2>1. Usable(v) /\ Held!Becomes(v, W({i}))
    BY <1>1, <1>4
  <2>2. W({i}) = [Shown[v] EXCEPT ![i] = x] /\ i \in DOMAIN Shown[v]
    BY <1>2, <2>1, ShownFacts
  <2> HIDE DEF W
  <2>3. Held!Write(v, i, x)
    BY <1>2, <2>1, <2>2 DEF Held!Write, Shown
  <2>4. i \in 1 .. MaxLen
    BY <1>2, <2>1, StorageAssumption
  <2> QED BY <2>3, <2>4 DEF Held!Next
<1> QED BY <1>3, <1>4

(* The elements after reserve: those there were, but where `new` was       *)
(* written, in a larger block or in the same.                              *)
LEMMA ReservedShows ==
    ASSUME VInv, NEW v \in Vectors, Usable(v), NEW n \in Nat, NEW m \in Nat,
           m =< n \/ m =< capacity[v],
           NEW new, \A i \in DOMAIN new : new[i] \in Values,
           Reserved(v, n, m, new)
    PROVE  /\ Usable(v)' /\ Shown'[v] \in [1 .. m -> Values] /\ n =< MaxLen
           /\ \A i \in 1 .. m :
                 /\ i \in DOMAIN new => Shown'[v][i] = new[i]
                 /\ i \notin DOMAIN new /\ i =< size[v] => Shown'[v][i] = Contents(v)[i]
           /\ \A u \in Vectors \ {v} : Shown'[u] = Shown[u]
<1>0. /\ n =< MaxLen /\ UNCHANGED <<alive, leaked>> /\ v \in alive
      /\ capacity[v] \in Nat /\ size[v] \in Nat /\ size[v] =< capacity[v]
  BY VFacts, StorageAssumption DEF Reserved, Usable, Sound
<1>l. /\ start \in [Vectors -> Blocks \cup {Null}] /\ size \in [Vectors -> 0 .. MaxLen]
      /\ capacity \in [Vectors -> 0 .. MaxLen]
  BY DEF VInv, VTypeOK
<1>s. \A u \in alive : size[u] # 0 => start[u] # Null
  BY VFacts DEF Sound
<1>u. Usable(v)' /\ \A u \in Vectors : Usable(u)' <=> Usable(u)
  BY <1>0 DEF Usable
<1>1. CASE n > capacity[v]
  <2>1. PICK b \in FreeBlocks :
           /\ memory' = [Grown(v, b, n) EXCEPT ![b] = Overlaid(Grown(v, b, n)[b], new)]
           /\ start' = [start EXCEPT ![v] = b] /\ size' = [size EXCEPT ![v] = m]
    BY <1>1 DEF Reserved, Points
  <2>2. b \notin Allocated /\ m =< n
    BY <1>0, <1>1, <2>1 DEF FreeBlocks
  <2>3. /\ DOMAIN Freed(v) = Allocated \ {start[v]}
        /\ \A c \in Allocated \ {start[v]} : Freed(v)[c] = memory[c]
        /\ \A u \in alive \ {v} : start[u] # Null => start[u] \in Allocated \ {start[v]}
    BY <1>0, FreedFacts
  <2>4. /\ b \in DOMAIN Grown(v, b, n) /\ Grown(v, b, n)[b] = Block(Contents(v), n)
        /\ \A c \in Allocated \ {start[v]} : Grown(v, b, n)[c] = memory[c]
    BY <2>2, <2>3 DEF Grown, With
  <2>5. PICK t : t = Overlaid(Block(Contents(v), n), new) /\ memory'[b] = t
    BY <2>1, <2>4
  <2>6. \A c \in Allocated \ {start[v]} : memory'[c] = memory[c]
    BY <2>1, <2>2, <2>4
  <2>7. Contents(v)' = [i \in 1 .. m |-> t[i]]
    <3>1. start'[v] = b /\ size'[v] = m
      BY <1>l, <2>1
    <3> QED BY <2>5, <3>1 DEF Contents
  <2>8. /\ Contents(v) \in [1 .. size[v] -> Values]
        /\ \A i \in 1 .. n : Block(Contents(v), n)[i] =
               IF i =< size[v] THEN Contents(v)[i] ELSE Uninitialized
        /\ DOMAIN Block(Contents(v), n) = 1 .. n
    BY <1>0, ShownFacts DEF Block
  <2>9. \A i \in 1 .. m : Contents(v)'[i] =
            IF i \in DOMAIN new THEN new[i]
            ELSE IF i =< size[v] THEN Contents(v)[i] ELSE Uninitialized
    BY <2>2, <2>5, <2>7, <2>8 DEF Overlaid
  <2>10. \A i \in 1 .. m : Contents(v)'[i] \in Values
    BY <1>0, <2>8, <2>9, StorageAssumption
  <2>11. Shown'[v] = Contents(v)' /\ Contents(v)' \in [1 .. m -> Values]
    BY <1>u, <2>7, <2>10 DEF Shown
  <2>12. ASSUME NEW u \in Vectors \ {v} PROVE Shown'[u] = Shown[u]
    <3>1. Usable(u) /\ size[u] # 0 => memory'[start[u]] = memory[start[u]]
      BY <1>s, <2>3, <2>6 DEF Usable
    <3> QED BY <1>u, <1>l, <2>1, <3>1, ShownKept
  <2> QED BY <1>0, <1>u, <2>9, <2>11, <2>12
<1>2. CASE ~ (n > capacity[v])
  <2>1. /\ memory' = [b \in Allocated |->
                         IF b = start[v] THEN Overlaid(memory[b], new) ELSE memory[b]]
        /\ start' = [start EXCEPT ![v] = start[v]] /\ size' = [size EXCEPT ![v] = m]
    BY <1>2 DEF Reserved, Points
  <2>2. m =< capacity[v]
    BY <1>0, <1>2
  <2>3. Contents(v)' = [i \in 1 .. m |-> memory'[start[v]][i]]
    BY <1>0, <1>l, <2>1 DEF Contents
  <2>4. \A i \in 1 .. m : /\ memory[start[v]][i] \in Values
                            /\ memory'[start[v]][i] =
                                  IF i \in DOMAIN new THEN new[i] ELSE memory[start[v]][i]
    <3>1. CASE start[v] = Null
      <4>1. m = 0
        BY <1>0, <2>2, <3>1, VFacts DEF Sound
      <4> QED BY <4>1
    <3>2. CASE start[v] # Null
      <4>1. /\ start[v] \in Allocated /\ memory[start[v]] \in Seq(Values)
            /\ capacity[v] = Len(memory[start[v]])
        BY <1>0, <3>2, VFacts DEF Sound
      <4>2. \A i \in 1 .. m : i \in DOMAIN memory[start[v]] /\ memory[start[v]][i] \in Values
        BY <2>2, <4>1
      <4>3. memory'[start[v]] = Overlaid(memory[start[v]], new)
        BY <2>1, <4>1
      <4> QED BY <4>2, <4>3 DEF Overlaid
    <3> QED BY <3>1, <3>2
  <2>5. \A i \in 1 .. m : Contents(v)'[i] = IF i \in DOMAIN new THEN new[i] ELSE memory[start[v]][i]
    BY <2>3, <2>4
  <2>6. Shown'[v] = Contents(v)' /\ Contents(v)' \in [1 .. m -> Values]
    BY <1>u, <2>3, <2>4, <2>5 DEF Shown
  <2>7. \A i \in 1 .. m : i =< size[v] => Contents(v)[i] = memory[start[v]][i]
    BY <1>0 DEF Contents
  <2>8. ASSUME NEW u \in Vectors \ {v} PROVE Shown'[u] = Shown[u]
    <3>1. Usable(u) /\ size[u] # 0 => memory'[start[u]] = memory[start[u]]
      BY <1>0, <1>s, <2>1, VFacts DEF Usable
    <3> QED BY <1>u, <1>l, <2>1, <3>1, ShownKept
  <2> QED BY <1>0, <1>u, <2>5, <2>6, <2>7, <2>8
<1> QED BY <1>1, <1>2

LEMMA GrowthHeld ==
    ASSUME VInv, NEW v \in Vectors
    PROVE  /\ \A n \in 0 .. MaxLen : Reserve(v, n) => Shown' = Shown
           /\ \A n \in 0 .. MaxLen : Resize(v, n) => Held!Next
           /\ \A x \in Values : PushBack(v, x) => Held!Next
<1>u. ASSUME Usable(v)
      PROVE  /\ size[v] \in Nat /\ capacity[v] \in Nat /\ size[v] =< capacity[v]
             /\ size[v] =< MaxLen /\ Held!Exists(v) /\ Shown[v] = Contents(v)
             /\ Contents(v) \in [1 .. size[v] -> Values]
  <2>1. v \in alive
    BY <1>u DEF Usable
  <2>2. size[v] \in Nat /\ capacity[v] \in Nat /\ size[v] =< capacity[v] /\ size[v] =< MaxLen
    BY <2>1, VFacts, StorageAssumption DEF Sound
  <2> QED BY <1>u, <2>2, ShownFacts DEF Held!Exists, Shown
<1>1. ASSUME NEW n \in 0 .. MaxLen, Reserve(v, n) PROVE Shown' = Shown
  <2>1. Usable(v) /\ Reserved(v, n, size[v], <<>>) /\ n \in Nat
    BY <1>1, StorageAssumption DEF Reserve
  <2>2. /\ Shown'[v] \in [1 .. size[v] -> Values]
        /\ \A i \in 1 .. size[v] : Shown'[v][i] = Contents(v)[i]
        /\ \A u \in Vectors \ {v} : Shown'[u] = Shown[u]
    BY <1>u, <2>1, ReservedShows
  <2>3. Shown'[v] = Shown[v]
    BY <1>u, <2>1, <2>2
  <2> QED BY <2>2, <2>3 DEF Shown
<1>2. ASSUME NEW n \in 0 .. MaxLen, Resize(v, n) PROVE Held!Next
  <2>1. Usable(v) /\ Reserved(v, n, n, <<>>) /\ n \in Nat
    BY <1>2, StorageAssumption DEF Resize
  <2>2. /\ Shown'[v] \in [1 .. n -> Values]
        /\ \A i \in 1 .. n : i =< size[v] => Shown'[v][i] = Contents(v)[i]
        /\ \A u \in Vectors \ {v} : Shown'[u] = Shown[u]
    BY <2>1, ReservedShows
  <2>3. PICK s \in [1 .. n -> Values] : s = Shown'[v]
    BY <2>2
  <2>4. s \in Held!Strings
    BY DEF Held!Strings
  <2>5. \A i \in DOMAIN s \cap DOMAIN Shown[v] : s[i] = Shown[v][i]
    BY <1>u, <2>1, <2>2, <2>3
  <2>6. Held!Becomes(v, s)
    BY <2>2, <2>3, ShownBecomes
  <2>7. Held!Resize(v, s)
    BY <1>u, <2>1, <2>5, <2>6 DEF Held!Resize, Shown
  <2> QED BY <2>4, <2>7 DEF Held!Next
<1>3. ASSUME NEW x \in Values, PushBack(v, x) PROVE Held!Next
  <2> DEFINE needed == IF size[v] < capacity[v] THEN capacity[v]
                       ELSE IF capacity[v] = 0 THEN 1 ELSE 2 * capacity[v]
             new == [i \in {size[v] + 1} |-> x]
  <2>1. Usable(v) /\ Reserved(v, needed, size[v] + 1, new)
    BY <1>3 DEF PushBack
  <2>2. needed \in Nat /\ size[v] + 1 =< needed /\ size[v] + 1 \in Nat
    BY <1>u, <2>1
  <2>3. DOMAIN new = {size[v] + 1} /\ new[size[v] + 1] = x
    OBVIOUS
  <2> HIDE DEF needed, new
  <2>4. \A i \in DOMAIN new : new[i] \in Values
    BY <2>3
  <2>5. /\ Shown'[v] \in [1 .. size[v] + 1 -> Values]
        /\ \A i \in 1 .. size[v] + 1 :
              /\ i \in DOMAIN new => Shown'[v][i] = new[i]
              /\ i \notin DOMAIN new /\ i =< size[v] => Shown'[v][i] = Contents(v)[i]
        /\ \A u \in Vectors \ {v} : Shown'[u] = Shown[u]
    BY <2>1, <2>2, <2>4, ReservedShows
  <2>6. /\ Contents(v) \in Seq(Values) /\ Len(Contents(v)) = size[v]
        /\ size[v] + 1 \in 1 .. size[v] + 1
    BY <1>u, <2>1
  <2>7. Shown'[v] = Append(Contents(v), x)
    BY <1>u, <2>1, <2>3, <2>5, <2>6
  <2>8. Held!Becomes(v, Append(Shown[v], x))
    BY <1>u, <2>1, <2>5, <2>7, ShownBecomes
  <2>9. Held!PushBack(v, x)
    BY <1>u, <2>1, <2>8 DEF Held!PushBack, Shown
  <2> QED BY <2>9 DEF Held!Next
<1> QED BY <1>1, <1>2, <1>3

LEMMA NextHeld == VInv /\ [Next]_pvars => [Held!Next]_Shown
<1> SUFFICES ASSUME VInv, [Next]_pvars PROVE Held!Next \/ Shown' = Shown
  OBVIOUS
<1>1. ASSUME NEW v \in Vectors, NEW n \in 0 .. MaxLen, NEW x \in Values, ConstructSized(v, n, x)
      PROVE  Held!Next
  <2>1. [i \in 1 .. n |-> x] \in [1 .. n -> Values]
    OBVIOUS
  <2> QED BY <1>1, <2>1, ConstructHeld DEF ConstructSized
<1>2. ASSUME NEW v \in Vectors, NEW w \in Vectors, ConstructCopy(v, w) PROVE Held!Next
  BY <1>2, ConstructHeld, ShownFacts DEF ConstructCopy
<1>3. CASE UNCHANGED pvars
  BY <1>3 DEF pvars, Shown, Usable, Contents
<1>4. CASE Next
  <2>1. CASE \E v \in Vectors :
               DefaultConstruct(v) \/ Destroy(v) \/ Leak(v) \/ Clear(v)
    BY <2>1, ConstructHeld, GoneHeld, ClearHeld
  <2>2. CASE \E v \in Vectors, n \in 0 .. MaxLen, x \in Values : ConstructSized(v, n, x)
    BY <1>1, <2>2
  <2>3. CASE \E v \in Vectors, n \in 0 .. MaxLen : Reserve(v, n) \/ Resize(v, n)
    BY <2>3, GrowthHeld
  <2>4. CASE \E v \in Vectors, x \in Values : PushBack(v, x)
    BY <2>4, GrowthHeld
  <2>5. CASE \E v \in Vectors, x \in Values :
               Write(v, 1 .. size[v], x) \/ \E i \in 1 .. size[v] : Write(v, {i}, x)
    BY <2>5, WriteHeld
  <2>6. CASE \E v, w \in Vectors :
               ConstructCopy(v, w) \/ MoveConstruct(v, w) \/ MoveAssign(v, w) \/ Swap(v, w)
    BY <1>2, <2>6, MoveHeld, SwapHeld
  <2> QED BY <1>4, <2>1, <2>2, <2>3, <2>4, <2>5, <2>6 DEF Next
<1> QED BY <1>3, <1>4

(* The elements of a vector are a sequence that only its own operations    *)
(* change, in whatever blocks they are kept (pvector.h:19-231).            *)
THEOREM ImplementsVectorsCorrect == VSpec => ImplementsVectors
<1>1. VInit => Held!Init
  BY DEF VInit, Held!Init, Usable
<1>2. VInv /\ [Next]_pvars => [Held!Next]_[v \in Vectors |-> IF Usable(v) THEN Contents(v) ELSE Null]
  BY NextHeld DEF Shown
<1> QED BY <1>1, <1>2, VectorInvariant, PTL DEF VSpec, ImplementsVectors, Held!Spec
=============================================================================
