------------------------------- MODULE PickleJob -------------------------------
(***************************************************************************)
(* Array descriptors and prefetch jobs (src/include/pickle_job.h).         *)
(*                                                                         *)
(* The descriptors are shared objects: a job, a graph and a vector hold    *)
(* pointers to the same one.  They form the heap, a record that every      *)
(* operation maps to a new heap, so that a function of the library that    *)
(* makes several calls is the composition of their operators.  The id of   *)
(* an array is assigned on first use from a static counter; a job renames  *)
(* the ids of its arrays for the device.  The memory an array occupies     *)
(* (vaddr_start, vaddr_end, element_size) is represented by the array.     *)
(***************************************************************************)
EXTENDS Integers, Sequences, FiniteSets

CONSTANTS
    Arrays,         \* the array descriptors of the application
    Jobs,           \* the job objects of the application
    Null,           \* a null pointer
    CountModulus,   \* 2^8: the count of arrays is sent as a uint8_t
    MaxArrays,      \* bound: arrays the jobs have together when one is added
    ChangeIds       \* bound: ids the application passes to change...ByArrayId

ASSUME NullAssumption == Null \notin Arrays
ASSUME CountAssumption == CountModulus \in Nat \ {0}
ASSUME BoundAssumption == MaxArrays \in Nat /\ ChangeIds \subseteq Nat

AccessType == {"SingleElement", "Ranged"}
AddressingMode == {"Pointer", "Index"}

Unassigned == 0     \* unassignedID
NoArray == -1       \* -1ULL in dst_indexing_array_id and in the rename map

VARIABLES
    heap,       \* the descriptors and the static counter nextID
    jobs        \* jobs[j]: the PickleJob object j

vars == <<heap, jobs>>

Heap == [nextID     : Nat,
         id         : [Arrays -> Nat],
         dst        : [Arrays -> Int],
         access     : [Arrays -> AccessType],
         addressing : [Arrays -> AddressingMode]]

(* Mutant of InitHeap: the counter starts from the "no array" value.       *)
InitHeapMinusOne == [nextID     |-> NoArray,
                     id         |-> [a \in Arrays |-> Unassigned],
                     dst        |-> [a \in Arrays |-> NoArray],
                     access     |-> [a \in Arrays |-> "SingleElement"],
                     addressing |-> [a \in Arrays |-> "Pointer"]]

InitHeap == [nextID     |-> 1,
             id         |-> [a \in Arrays |-> Unassigned],
             dst        |-> [a \in Arrays |-> NoArray],
             access     |-> [a \in Arrays |-> "SingleElement"],
             addressing |-> [a \in Arrays |-> "Pointer"]]

(* Mutant of EmptyJob: the constructor does not rename -1.                 *)
EmptyJobUnnamed == [arrays |-> <<>>, rename |-> [i \in {} |-> NoArray], renameCount |-> 0]

EmptyJob == [arrays |-> <<>>, rename |-> [i \in {NoArray} |-> NoArray], renameCount |-> 0]

-----------------------------------------------------------------------------
(* The operations on the heap and on one job. *)

(* Mutants of WithId: the counter stays; the id is assigned on every use.  *)
WithIdReusing(h, a) ==
    IF h.id[a] = Unassigned THEN [h EXCEPT !.id[a] = h.nextID] ELSE h
WithIdAlways(h, a) == [h EXCEPT !.id[a] = h.nextID, !.nextID = h.nextID + 1]

(* getArrayId, for its effect: afterwards h.id[a] is what it returns. *)
WithId(h, a) ==
    IF h.id[a] = Unassigned
    THEN [h EXCEPT !.id[a] = h.nextID, !.nextID = h.nextID + 1]
    ELSE h

(* b->indexedBy(d): the elements of d index array b. *)
IndexedBy(h, d, b) ==
    LET g == WithId(h, b) IN [g EXCEPT !.dst[d] = g.id[b]]

(* Mutant of Renamed: insert(), which keeps an entry that is there.        *)
RenamedOnce(m, id, n) ==
    [i \in DOMAIN m \cup {id} |-> IF i \in DOMAIN m THEN m[i] ELSE n]

(* The rename map m after m[id] = n. *)
Renamed(m, id, n) == [i \in DOMAIN m \cup {id} |-> IF i = id THEN n ELSE m[i]]

(* Mutant of JobWith: the count is incremented before it is used.          *)
JobWithFromOne(job, a, id) ==
    [arrays      |-> Append(job.arrays, a),
     rename      |-> Renamed(job.rename, id, job.renameCount + 1),
     renameCount |-> job.renameCount + 1]

(* The job after addArrayDescriptor(a), once a has the id `id`. *)
JobWith(job, a, id) ==
    [arrays      |-> Append(job.arrays, a),
     rename      |-> Renamed(job.rename, id, job.renameCount),
     renameCount |-> job.renameCount + 1]

(* The index of the first array of the job whose id is i; the loops of     *)
(* change...ByArrayId stop at the first.                                   *)
IsFirstWithId(h, s, i, k) ==
    /\ h.id[s[k]] = i
    /\ \A l \in 1 .. k - 1 : h.id[s[l]] # i

(* at() throws out_of_range on an id the job does not rename. *)
Throws(h, job) ==
    \E k \in DOMAIN job.arrays :
        \/ h.id[job.arrays[k]] \notin DOMAIN job.rename
        \/ h.dst[job.arrays[k]] \notin DOMAIN job.rename

WireRow(h, job, a) ==
    [id         |-> job.rename[h.id[a]],
     dst        |-> job.rename[h.dst[a]],
     region     |-> a,
     access     |-> h.access[a],
     addressing |-> h.addressing[a]]

(* getJobDescriptor: the count, narrowed to a byte, and one row per array, *)
(* or the exception.                                                       *)
JobDescriptor(h, job) ==
    IF Throws(h, job)
    THEN [ok |-> FALSE, count |-> 0, rows |-> <<>>]
    ELSE [ok    |-> TRUE,
          count |-> Len(job.arrays) % CountModulus,
          rows  |-> [k \in DOMAIN job.arrays |-> WireRow(h, job, job.arrays[k])]]

-----------------------------------------------------------------------------
(* The application's calls. *)

Init == heap = InitHeap /\ jobs = [j \in Jobs |-> EmptyJob]

NewJob(j) ==
    /\ jobs' = [jobs EXCEPT ![j] = EmptyJob]
    /\ UNCHANGED heap

(* Bound: the arrays of all jobs, counted together. *)
Room == Cardinality(UNION {{j} \X DOMAIN jobs[j].arrays : j \in Jobs}) < MaxArrays

AddArrayDescriptor(j, a) ==
    /\ Room
    /\ heap' = WithId(heap, a)
    /\ jobs' = [jobs EXCEPT ![j] = JobWith(jobs[j], a, heap'.id[a])]

SetIndexedBy(d, b) ==
    /\ heap' = IndexedBy(heap, d, b)
    /\ UNCHANGED jobs

ChangeAccessType(j, i, t) ==
    /\ \E k \in DOMAIN jobs[j].arrays :
          /\ IsFirstWithId(heap, jobs[j].arrays, i, k)
          /\ heap' = [heap EXCEPT !.access[jobs[j].arrays[k]] = t]
    /\ UNCHANGED jobs

ChangeAddressingMode(j, i, m) ==
    /\ \E k \in DOMAIN jobs[j].arrays :
          /\ IsFirstWithId(heap, jobs[j].arrays, i, k)
          /\ heap' = [heap EXCEPT !.addressing[jobs[j].arrays[k]] = m]
    /\ UNCHANGED jobs

Next ==
    \/ \E j \in Jobs : NewJob(j)
    \/ \E j \in Jobs, a \in Arrays : AddArrayDescriptor(j, a)
    \/ \E d, b \in Arrays : SetIndexedBy(d, b)
    \/ \E j \in Jobs, i \in ChangeIds, t \in AccessType : ChangeAccessType(j, i, t)
    \/ \E j \in Jobs, i \in ChangeIds, m \in AddressingMode : ChangeAddressingMode(j, i, m)

Spec == Init /\ [][Next]_vars

-----------------------------------------------------------------------------
(* Invariants. *)

IsJob(job) ==
    /\ job.arrays \in Seq(Arrays)
    /\ job.renameCount \in Nat
    /\ DOMAIN job.rename \subseteq Int
    /\ \A i \in DOMAIN job.rename : job.rename[i] \in Int

(* Types of the heap and of the job objects. *)
TypeOK ==
    /\ heap \in Heap
    /\ jobs = [j \in Jobs |-> jobs[j]]
    /\ \A j \in Jobs : IsJob(jobs[j])

(* The ids in use are those the counter has passed, each used by one array. *)
IdsDistinct(h) ==
    /\ h.nextID > Unassigned
    /\ \A a \in Arrays : h.id[a] < h.nextID
    /\ \A a, b \in Arrays : h.id[a] = h.id[b] /\ h.id[a] # Unassigned => a = b

(* Every dst_indexing_array_id is -1 or the id of some array. *)
DstsExist(h) ==
    \A a \in Arrays : \/ h.dst[a] = NoArray
                      \/ \E b \in Arrays : h.id[b] = h.dst[a] /\ h.dst[a] # Unassigned

(* The rename map of a job has the ids of its arrays and -1 for keys, and  *)
(* sends the id of an array to the array's last position (from 0).         *)
RenamesItsArrays(h, job) ==
    LET s == job.arrays IN
    /\ job.renameCount = Len(s)
    /\ DOMAIN job.rename = {NoArray} \cup {h.id[s[k]] : k \in DOMAIN s}
    /\ job.rename[NoArray] = NoArray
    /\ \A k \in DOMAIN s :
          LET r == job.rename[h.id[s[k]]] IN
          /\ h.id[s[k]] # Unassigned
          /\ r \in k - 1 .. Len(s) - 1
          /\ s[r + 1] = s[k]

(* Ids are never shared, no relation dangles, and every job's rename map   *)
(* agrees with its list of arrays, however the calls are ordered: lazily   *)
(* assigned ids (pickle_job.h:59-64) meet the bookkeeping of               *)
(* addArrayDescriptor (190-199).                                           *)
RenameInv ==
    /\ IdsDistinct(heap)
    /\ DstsExist(heap)
    /\ \A j \in Jobs : RenamesItsArrays(heap, jobs[j])

-----------------------------------------------------------------------------
(* What the device reads. *)

Wire(j) == JobDescriptor(heap, jobs[j])

NoDuplicates(s) == \A k, l \in DOMAIN s : s[k] = s[l] => k = l

(* "The prefetcher assumes contiguous array ids, i.e., 0, 1, 2, etc."      *)
(* (pickle_job.h:192): the rows of a job no array was added to twice carry *)
(* the ids 0, 1, 2 in order, whatever ids the library gave the arrays.     *)
WireIdsContiguous ==
    \A j \in Jobs : Wire(j).ok /\ NoDuplicates(jobs[j].arrays) =>
        \A k \in DOMAIN Wire(j).rows : Wire(j).rows[k].id = k - 1

(* The same, for every job, as the comment has it.                         *)
EveryWireIdContiguous ==
    \A j \in Jobs : Wire(j).ok =>
        \A k \in DOMAIN Wire(j).rows : Wire(j).rows[k].id = k - 1

(* The renamed relation is the application's: the row that a row's dst     *)
(* points to describes the array whose id is in the descriptor's           *)
(* dst_indexing_array_id, and it is inside the job (getJobDescriptor).     *)
WireFollowsIndexing ==
    \A j \in Jobs : Wire(j).ok =>
        \A k \in DOMAIN Wire(j).rows :
            LET rows == Wire(j).rows
                d == heap.dst[rows[k].region]
            IN  IF d = NoArray THEN rows[k].dst = NoArray
                ELSE /\ rows[k].dst \in 0 .. Len(rows) - 1
                     /\ heap.id[rows[rows[k].dst + 1].region] = d

(* getJobDescriptor throws exactly when an array of the job indexes an     *)
(* array that was never added to the job.                                  *)
ThrowsIffDangling ==
    \A j \in Jobs :
        LET s == jobs[j].arrays IN
        ~ Wire(j).ok <=> \E k \in DOMAIN s :
            /\ heap.dst[s[k]] # NoArray
            /\ \A l \in DOMAIN s : heap.id[s[l]] # heap.dst[s[k]]

(* "8 bits for the number of arrays + number_of_arrays * (7 * 64 bits)"    *)
(* (pickle_job.h:202): the count in the first byte is the number of rows   *)
(* that follow, so that the device reads them all.                         *)
CountIsRows == \A j \in Jobs : Wire(j).ok => Wire(j).count = Len(Wire(j).rows)

(* An id once assigned is the array's for good: descriptors and rename     *)
(* maps hold copies of it (dst_indexing_array_id, array_rename_map).       *)
IdsStable ==
    [][\A a \in Arrays : heap.id[a] # Unassigned => heap'.id[a] = heap.id[a]]_vars

-----------------------------------------------------------------------------
(* The refinement of IndexChains: ids disappear. *)

Target ==
    [a \in Arrays |-> IF heap.dst[a] = NoArray THEN Null
                      ELSE CHOOSE b \in Arrays : heap.id[b] = heap.dst[a]]

Members == [j \in Jobs |-> jobs[j].arrays]

View == [j \in Jobs |-> LET w == Wire(j) IN [ok |-> w.ok, rows |-> w.rows]]

Chains == INSTANCE IndexChains WITH
    target <- Target,
    members <- Members,
    access <- heap.access,
    addressing <- heap.addressing,
    view <- View

(* Seen through the device's rows, lazily assigned ids and the rename map  *)
(* are invisible: descriptors relate arrays, jobs list arrays, and a job   *)
(* reads back as the arrays it lists and the relations between them.       *)
ImplementsChains == Chains!Spec
=============================================================================
