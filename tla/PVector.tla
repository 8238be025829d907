-------------------------------- MODULE PVector --------------------------------
(***************************************************************************)
(* pvector (src/include/graphs/gapbs/pvector.h): the storage of a vector   *)
(* and the descriptor that tells the device where it is.                   *)
(*                                                                         *)
(* A vector owns a block of storage.  Its descriptor is a shared object    *)
(* that gets the range of the block from the constructor and is never      *)
(* updated.  Freed blocks may be allocated again, and descriptors nobody   *)
(* points to too.  The loops over elements, parallel or not, are one step: *)
(* "Resizing is not thread-safe".                                          *)
(***************************************************************************)
EXTENDS Integers, Sequences

CONSTANTS
    Vectors,        \* the places where a vector may be constructed
    Values,         \* what a vector's elements can be
    Uninitialized,  \* the value in Values of an element never written
    Blocks,         \* bound: blocks of storage
    Descriptors,    \* bound: PickleArrayDescriptor objects
    Null,           \* a null pointer, no elements
    MaxLen          \* bound: elements of a block

ASSUME StorageAssumption ==
    /\ Null \notin Blocks /\ Null \notin Descriptors
    /\ Uninitialized \in Values
    /\ MaxLen \in Nat

(* A null pointer is not a sequence of elements.                           *)
ASSUME NullAssumption == \A n \in 0 .. MaxLen : Null \notin [1 .. n -> Values]

VARIABLES
    alive,      \* the places that hold a constructed vector
    leaked,     \* the vectors whose start_ was dropped by leak()
    start,      \* start[v]: start_, a block or Null
    size,       \* size[v]: end_size_ - start_
    capacity,   \* capacity[v]: end_capacity_ - start_
    descriptor, \* descriptor[v]: array_descriptor
    memory,     \* memory[b]: the elements of the allocated block b, <<>> if abandoned
    range,      \* range[d]: vaddr_start .. vaddr_end of the existing
                \* descriptor d, a block and a length
    drifted,    \* history: vectors changed since they were last described
    abandoned   \* history: the blocks that leak() took from their vectors

pvars == <<alive, leaked, start, size, capacity, descriptor, memory, range, drifted, abandoned>>

Allocated == DOMAIN memory
NoRange == [block |-> Null, length |-> 0]

(* Blocks and descriptors a new expression may return. *)
FreeBlocks == Blocks \ Allocated
FreeDescriptors == Descriptors \ DOMAIN range

With(f, x, y) == [i \in DOMAIN f \cup {x} |-> IF i = x THEN y ELSE f[i]]
Without(f, S) == [i \in DOMAIN f \ S |-> f[i]]

(* A method call on v; after leak() its size() and capacity() mean nothing. *)
Usable(v) == v \in alive \ leaked

(* The elements of v. *)
Contents(v) == [i \in 1 .. size[v] |-> memory[start[v]][i]]

(* A block of n elements that begins with those of s. *)
Block(s, n) == [i \in 1 .. n |-> IF i \in DOMAIN s THEN s[i] ELSE Uninitialized]

-----------------------------------------------------------------------------
VInit ==
    /\ alive = {} /\ leaked = {}
    /\ start = [v \in Vectors |-> Null]
    /\ size = [v \in Vectors |-> 0]
    /\ capacity = [v \in Vectors |-> 0]
    /\ descriptor = [v \in Vectors |-> Null]
    /\ memory = [b \in {} |-> <<>>]
    /\ range = [d \in {} |-> NoRange]
    /\ drifted = {} /\ abandoned = {}

(* The three pointers of v. *)
Points(v, b, n, cap) ==
    /\ start' = [start EXCEPT ![v] = b]
    /\ size' = [size EXCEPT ![v] = n]
    /\ capacity' = [capacity EXCEPT ![v] = cap]

(* The default constructor: a descriptor without a range. *)
DefaultConstruct(v) ==
    /\ v \notin alive
    /\ alive' = alive \cup {v}
    /\ Points(v, Null, 0, 0)
    /\ \E d \in FreeDescriptors :
          /\ descriptor' = [descriptor EXCEPT ![v] = d]
          /\ range' = With(range, d, NoRange)
    /\ UNCHANGED <<leaked, memory, drifted, abandoned>>

(* The other constructors allocate the elements s and describe them. *)
Construct(v, s) ==
    /\ v \notin alive
    /\ alive' = alive \cup {v}
    /\ \E b \in FreeBlocks, d \in FreeDescriptors :
          /\ Points(v, b, Len(s), Len(s))
          /\ memory' = With(memory, b, s)
          /\ descriptor' = [descriptor EXCEPT ![v] = d]
          /\ range' = With(range, d, [block |-> b, length |-> Len(s)])
    /\ UNCHANGED <<leaked, drifted, abandoned>>

(* pvector(n), pvector(n, x), pvector(w.begin(), w.end()) *)
ConstructSized(v, n, x) == Construct(v, [i \in 1 .. n |-> x])
ConstructCopy(v, w) == Usable(w) /\ Construct(v, Contents(w))

(* Mutant of TakePointers: the source keeps its storage.                   *)
TakePointersShared(v, w) ==
    /\ start' = [start EXCEPT ![v] = start[w]]
    /\ size' = [size EXCEPT ![v] = size[w], ![w] = 0]
    /\ capacity' = [capacity EXCEPT ![v] = capacity[w], ![w] = 0]

(* Both moves take the pointers of w and null them. *)
TakePointers(v, w) ==
    /\ start' = [start EXCEPT ![v] = start[w], ![w] = Null]
    /\ size' = [size EXCEPT ![v] = size[w], ![w] = 0]
    /\ capacity' = [capacity EXCEPT ![v] = capacity[w], ![w] = 0]

(* The move constructor leaves w its descriptor, which is now v's as well. *)
MoveConstruct(v, w) ==
    /\ v \notin alive /\ Usable(w)
    /\ alive' = alive \cup {v}
    /\ TakePointers(v, w)
    /\ descriptor' = [descriptor EXCEPT ![v] = descriptor[w]]
    /\ drifted' = (drifted \ {v}) \cup (IF w \in drifted THEN {v} ELSE {}) \cup {w}
    /\ UNCHANGED <<leaked, memory, range, abandoned>>

(* Mutant of MoveDescriptor: only the storage moves.                       *)
MoveNoDescriptor(v, w) == UNCHANGED descriptor

MoveDescriptor(v, w) ==
    descriptor' = [descriptor EXCEPT ![v] = descriptor[w], ![w] = Null]

(* delete[] start_ *)
Freed(v) == Without(memory, {start[v]})

(* Mutant of Dropped: descriptors stay.                                    *)
DroppedNever == range' = range

(* A descriptor goes with the last pointer to it.                          *)
Dropped == range' = Without(range, DOMAIN range \ {descriptor'[v] : v \in alive'})

(* Move assignment releases v's storage first; a vector moved to itself is *)
(* left alone.                                                             *)
MoveAssign(v, w) ==
    /\ v \in alive /\ Usable(w) /\ v # w
    /\ memory' = Freed(v)
    /\ TakePointers(v, w)
    /\ MoveDescriptor(v, w)
    /\ leaked' = leaked \ {v}
    /\ drifted' = (drifted \ {v, w}) \cup (IF w \in drifted THEN {v} ELSE {})
    /\ UNCHANGED <<alive, abandoned>>
    /\ Dropped

Destroy(v) ==
    /\ v \in alive
    /\ alive' = alive \ {v}
    /\ memory' = Freed(v)
    /\ Points(v, Null, 0, 0)
    /\ descriptor' = [descriptor EXCEPT ![v] = Null]
    /\ leaked' = leaked \ {v}
    /\ drifted' = drifted \ {v}
    /\ UNCHANGED abandoned
    /\ Dropped

(* start_ is dropped, so the storage survives the vector; whoever has it   *)
(* now may put anything in it.                                             *)
Leak(v) ==
    /\ Usable(v)
    /\ leaked' = leaked \cup {v}
    /\ abandoned' = abandoned \cup ({start[v]} \ {Null})
    /\ Points(v, Null, 0, 0)
    /\ memory' = [b \in Allocated |-> IF b = start[v] THEN <<>> ELSE memory[b]]
    /\ drifted' = drifted \cup {v}
    /\ UNCHANGED <<alive, descriptor, range>>

-----------------------------------------------------------------------------
(* Mutant of Grown: the elements are not copied.                           *)
GrownEmpty(v, b, n) == With(Freed(v), b, Block(<<>>, n))

(* The memory after reserve() moved v's elements to block b of n elements. *)
Grown(v, b, n) == With(Freed(v), b, Block(Contents(v), n))

(* The elements s once those at the positions of `new` are written. *)
Overlaid(s, new) == [i \in DOMAIN s |-> IF i \in DOMAIN new THEN new[i] ELSE s[i]]

(* reserve(n), after which v has m elements, of which `new` are written. *)
Reserved(v, n, m, new) ==
    /\ n =< MaxLen
    /\ IF n > capacity[v]
       THEN \E b \in FreeBlocks :
               /\ memory' = [Grown(v, b, n) EXCEPT ![b] = Overlaid(Grown(v, b, n)[b], new)]
               /\ Points(v, b, m, n)
       ELSE /\ memory' = [b \in Allocated |->
                            IF b = start[v] THEN Overlaid(memory[b], new) ELSE memory[b]]
            /\ Points(v, start[v], m, capacity[v])
    /\ drifted' = IF n > capacity[v] \/ m # size[v] THEN drifted \cup {v} ELSE drifted
    /\ UNCHANGED <<alive, leaked, descriptor, range, abandoned>>

Reserve(v, n) == Usable(v) /\ Reserved(v, n, size[v], <<>>)

Resize(v, n) == Usable(v) /\ Reserved(v, n, n, <<>>)

(* push_back doubles a full block. *)
PushBack(v, x) ==
    LET needed == IF size[v] < capacity[v] THEN capacity[v]
                  ELSE IF capacity[v] = 0 THEN 1 ELSE 2 * capacity[v]
    IN  Usable(v) /\ Reserved(v, needed, size[v] + 1, [i \in {size[v] + 1} |-> x])

Clear(v) ==
    /\ Usable(v)
    /\ size' = [size EXCEPT ![v] = 0]
    /\ drifted' = IF size[v] # 0 THEN drifted \cup {v} ELSE drifted
    /\ UNCHANGED <<alive, leaked, start, capacity, descriptor, memory, range, abandoned>>

(* operator[] and fill *)
Write(v, I, x) ==
    /\ Usable(v) /\ I # {} /\ I \subseteq 1 .. size[v]
    /\ memory' = [memory EXCEPT ![start[v]] =
                    [i \in DOMAIN memory[start[v]] |->
                        IF i \in I THEN x ELSE memory[start[v]][i]]]
    /\ UNCHANGED <<alive, leaked, start, size, capacity, descriptor, range, drifted, abandoned>>

(* The descriptors stay where they are. *)
Swap(v, w) ==
    /\ Usable(v) /\ Usable(w) /\ v # w
    /\ start' = [start EXCEPT ![v] = start[w], ![w] = start[v]]
    /\ size' = [size EXCEPT ![v] = size[w], ![w] = size[v]]
    /\ capacity' = [capacity EXCEPT ![v] = capacity[w], ![w] = capacity[v]]
    /\ drifted' = drifted \cup {v, w}
    /\ UNCHANGED <<alive, leaked, descriptor, memory, range, abandoned>>

Next ==
    \/ \E v \in Vectors :
          \/ DefaultConstruct(v) \/ Destroy(v) \/ Leak(v) \/ Clear(v)
          \/ \E n \in 0 .. MaxLen, x \in Values : ConstructSized(v, n, x)
          \/ \E n \in 0 .. MaxLen : Reserve(v, n) \/ Resize(v, n)
          \/ \E x \in Values : PushBack(v, x)
          \/ \E x \in Values : Write(v, 1 .. size[v], x) \/ \E i \in 1 .. size[v] : Write(v, {i}, x)
    \/ \E v, w \in Vectors :
          ConstructCopy(v, w) \/ MoveConstruct(v, w) \/ MoveAssign(v, w) \/ Swap(v, w)

VSpec == VInit /\ [][Next]_pvars

-----------------------------------------------------------------------------
(* Properties. *)

VTypeOK ==
    /\ leaked \subseteq alive /\ alive \subseteq Vectors
    /\ start \in [Vectors -> Blocks \cup {Null}]
    /\ size \in [Vectors -> 0 .. MaxLen] /\ capacity \in [Vectors -> 0 .. MaxLen]
    /\ descriptor \in [Vectors -> Descriptors \cup {Null}]
    /\ Allocated \subseteq Blocks
    /\ \A b \in Allocated : memory[b] \in Seq(Values)
    /\ DOMAIN range = {descriptor[v] : v \in alive} \ {Null}
    /\ \A d \in DOMAIN range :
          range[d] \in [block : Blocks \cup {Null}, length : 0 .. MaxLen]
    /\ drifted \subseteq Vectors /\ abandoned \subseteq Blocks

(* Every block is owned once: by one vector, which sees no more of it than *)
(* there is, or by nobody if leak() gave it up.  So none is freed twice,   *)
(* used after it was freed, or lost, in any order of moves, swaps and      *)
(* growth (pvector.h:67-116).                                              *)
OwnedOnce ==
    /\ Allocated = abandoned \cup ({start[v] : v \in alive} \ {Null})
    /\ \A v \in alive :
          IF start[v] = Null THEN size[v] = 0 /\ capacity[v] = 0
          ELSE /\ size[v] =< capacity[v] /\ capacity[v] = Len(memory[start[v]])
               /\ start[v] \notin abandoned
               /\ \A w \in alive : start[w] = start[v] => w = v

(* The descriptor of a vector that has not been changed or moved from      *)
(* since it was described has the range of its elements, wherever the      *)
(* vector itself was moved: the descriptor goes with the storage.  What    *)
(* changes a vector leaves the descriptor as it is (pvector.h:44-49,       *)
(* 67-90, 103-116, 181-185).                                               *)
DescriptorFollows ==
    \A v \in alive \ drifted : descriptor[v] # Null =>
        range[descriptor[v]] = [block |-> start[v], length |-> size[v]]

Held == INSTANCE VectorContents WITH
    NoVector <- Null,
    contents <- [v \in Vectors |-> IF Usable(v) THEN Contents(v) ELSE Null]

(* The elements of a vector are a sequence that only its own operations    *)
(* change, whichever blocks it is kept in and whoever had them before.     *)
ImplementsVectors == Held!Spec
=============================================================================
