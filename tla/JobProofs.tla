------------------------------ MODULE JobProofs ------------------------------
(***************************************************************************)
(* Theorems about jobs: those of PickleJob, for every order of the         *)
(* library's calls, and those of GraphJob, for jobs built from graphs.     *)
(* The inductive invariant of PickleJob is TypeOK /\ RenameInv; what the   *)
(* device reads follows from it, and so does the refinement of             *)
(* IndexChains.  The invariant survives the wrapper, which makes several   *)
(* of the calls in a row, and with it the relations that a graph           *)
(* constructs.                                                             *)
(***************************************************************************)
EXTENDS GraphJob, TLAPS

(* The heap g keeps every id that h has assigned.                          *)
KeepsIds(h, g) == \A a \in Arrays : h.id[a] # Unassigned => g.id[a] = h.id[a]

(* getArrayId yields a heap, gives the array an id, and disturbs neither   *)
(* the ids there are nor the relations (pickle_job.h:59-64).               *)
LEMMA WithIdFacts ==
    ASSUME NEW h \in Heap, NEW a \in Arrays, IdsDistinct(h)
    PROVE  /\ WithId(h, a) \in Heap
           /\ IdsDistinct(WithId(h, a))
           /\ KeepsIds(h, WithId(h, a))
           /\ WithId(h, a).id[a] # Unassigned
           /\ WithId(h, a).dst = h.dst
<1> DEFINE g == WithId(h, a)
<1>1. CASE h.id[a] # Unassigned
  BY <1>1 DEF WithId, KeepsIds
<1>2. CASE h.id[a] = Unassigned
  <2>1. g = [h EXCEPT !.id[a] = h.nextID, !.nextID = h.nextID + 1]
    BY <1>2 DEF WithId
  <2>2. /\ g.id = [h.id EXCEPT ![a] = h.nextID]
        /\ g.nextID = h.nextID + 1
        /\ g.dst = h.dst
        /\ g.access = h.access
        /\ g.addressing = h.addressing
    BY <2>1 DEF Heap
  <2>3. g \in Heap
    <3>1. g = [nextID     |-> h.nextID + 1,
               id         |-> [h.id EXCEPT ![a] = h.nextID],
               dst        |-> h.dst,
               access     |-> h.access,
               addressing |-> h.addressing]
      BY <2>1 DEF Heap
    <3>2. /\ h.nextID + 1 \in Nat
          /\ [h.id EXCEPT ![a] = h.nextID] \in [Arrays -> Nat]
      BY DEF Heap
    <3> QED BY <3>1, <3>2 DEF Heap
  <2>4. /\ g.id[a] = h.nextID
        /\ \A b \in Arrays : b # a => g.id[b] = h.id[b]
    BY <2>2 DEF Heap
  <2>5. h.nextID \in Nat /\ \A b \in Arrays : h.id[b] \in Nat
    BY DEF Heap
  <2>6. IdsDistinct(g)
    <3>1. g.nextID > Unassigned /\ \A b \in Arrays : g.id[b] < g.nextID
      BY <2>2, <2>4, <2>5 DEF IdsDistinct, Unassigned
    <3>2. ASSUME NEW b \in Arrays, NEW c \in Arrays,
                 g.id[b] = g.id[c], g.id[b] # Unassigned
          PROVE  b = c
      BY <3>2, <2>4, <2>5 DEF IdsDistinct
    <3> QED BY <3>1, <3>2 DEF IdsDistinct
  <2>7. KeepsIds(h, g)
    BY <2>4, <1>2 DEF KeepsIds
  <2>8. g.id[a] # Unassigned
    BY <2>4, <2>5 DEF IdsDistinct, Unassigned
  <2> QED BY <2>2, <2>3, <2>6, <2>7, <2>8
<1> QED BY <1>1, <1>2

(* A relation that pointed at an array still does when ids are kept.       *)
LEMMA DstsKept ==
    ASSUME NEW h \in Heap, NEW g, DstsExist(h), KeepsIds(h, g), g.dst = h.dst
    PROVE  DstsExist(g)
BY DEF DstsExist, KeepsIds

(* A job that agrees with its arrays' ids still does when ids are kept.    *)
LEMMA JobKept ==
    ASSUME NEW h, NEW g, NEW job, IsJob(job), KeepsIds(h, g),
           RenamesItsArrays(h, job)
    PROVE  RenamesItsArrays(g, job)
<1> DEFINE s == job.arrays
<1>1. s \in Seq(Arrays) /\ \A k \in DOMAIN s : s[k] \in Arrays
  BY DEF IsJob
<1>2. \A k \in DOMAIN s : h.id[s[k]] # Unassigned
  BY DEF RenamesItsArrays
<1>3. \A k \in DOMAIN s : g.id[s[k]] = h.id[s[k]]
  BY <1>1, <1>2 DEF KeepsIds
<1>4. {h.id[s[k]] : k \in DOMAIN s} = {g.id[s[k]] : k \in DOMAIN s}
  BY <1>3
<1> QED BY <1>3, <1>4 DEF RenamesItsArrays

(* indexedBy yields a heap whose relations point at arrays                 *)
(* (pickle_job.h:100-102).                                                 *)
LEMMA IndexedByFacts ==
    ASSUME NEW h \in Heap, NEW d \in Arrays, NEW b \in Arrays,
           IdsDistinct(h), DstsExist(h)
    PROVE  /\ IndexedBy(h, d, b) \in Heap
           /\ IdsDistinct(IndexedBy(h, d, b))
           /\ KeepsIds(h, IndexedBy(h, d, b))
           /\ DstsExist(IndexedBy(h, d, b))
<1> DEFINE w == WithId(h, b)
           g == IndexedBy(h, d, b)
<1>1. /\ w \in Heap
      /\ IdsDistinct(w)
      /\ KeepsIds(h, w)
      /\ w.id[b] # Unassigned
      /\ w.dst = h.dst
  BY WithIdFacts
<1> HIDE DEF w
<1>2. g = [w EXCEPT !.dst[d] = w.id[b]]
  BY DEF IndexedBy, w
<1>3. /\ g.dst = [w.dst EXCEPT ![d] = w.id[b]]
      /\ g.id = w.id
      /\ g.nextID = w.nextID
  BY <1>1, <1>2 DEF Heap
<1>4. g \in Heap
  <2>1. g = [nextID     |-> w.nextID,
             id         |-> w.id,
             dst        |-> [w.dst EXCEPT ![d] = w.id[b]],
             access     |-> w.access,
             addressing |-> w.addressing]
    BY <1>1, <1>2 DEF Heap
  <2>2. [w.dst EXCEPT ![d] = w.id[b]] \in [Arrays -> Int]
    BY <1>1 DEF Heap
  <2> QED BY <1>1, <2>1, <2>2 DEF Heap
<1> HIDE DEF g
<1>5. IdsDistinct(g) /\ KeepsIds(h, g)
  BY <1>1, <1>3 DEF IdsDistinct, KeepsIds
<1>6. DstsExist(w)
  BY <1>1, DstsKept
<1>7. w.dst \in [Arrays -> Int]
  BY <1>1 DEF Heap
<1>8. DstsExist(g)
  BY <1>1, <1>3, <1>6, <1>7 DEF DstsExist
<1> QED BY <1>4, <1>5, <1>8 DEF g

(* addArrayDescriptor keeps the types and the agreement of a job's rename  *)
(* map with its list, for an array that is new to the job or not           *)
(* (pickle_job.h:190-199).                                                 *)
LEMMA JobWithFacts ==
    ASSUME NEW h \in Heap, NEW a \in Arrays, NEW job,
           IsJob(job), IdsDistinct(h), h.id[a] # Unassigned,
           RenamesItsArrays(h, job)
    PROVE  /\ IsJob(JobWith(job, a, h.id[a]))
           /\ RenamesItsArrays(h, JobWith(job, a, h.id[a]))
<1> DEFINE i == h.id[a]
           new == JobWith(job, a, i)
           s == job.arrays
           t == new.arrays
           n == job.renameCount
<1>1. /\ t = Append(s, a)
      /\ new.rename = Renamed(job.rename, i, n)
      /\ new.renameCount = n + 1
  BY DEF JobWith
<1>2. s \in Seq(Arrays) /\ n = Len(s) /\ n \in Nat
  BY DEF IsJob, RenamesItsArrays
<1>3. /\ t \in Seq(Arrays)
      /\ Len(t) = n + 1
      /\ DOMAIN s = 1 .. n
      /\ DOMAIN t = 1 .. n + 1
      /\ t[n + 1] = a
      /\ \A k \in 1 .. n : t[k] = s[k]
  BY <1>1, <1>2
<1>4. /\ i \in Nat
      /\ \A k \in 1 .. n : s[k] \in Arrays /\ h.id[s[k]] \in Nat
  <2>1. \A b \in Arrays : h.id[b] \in Nat
    BY DEF Heap
  <2>2. \A k \in 1 .. n : s[k] \in Arrays
    BY <1>2, <1>3
  <2> QED BY <2>1, <2>2
<1>5. /\ DOMAIN new.rename = DOMAIN job.rename \cup {i}
      /\ new.rename[i] = n
      /\ \A k \in DOMAIN job.rename : k # i => new.rename[k] = job.rename[k]
  BY <1>1 DEF Renamed
<1> HIDE DEF new, i
<1>6. IsJob(new)
  BY <1>1, <1>2, <1>3, <1>4, <1>5 DEF IsJob
<1>7. DOMAIN new.rename = {NoArray} \cup {h.id[t[k]] : k \in DOMAIN t}
  <2>1. DOMAIN job.rename = {NoArray} \cup {h.id[s[k]] : k \in 1 .. n}
    BY <1>3 DEF RenamesItsArrays
  <2>2. {h.id[t[k]] : k \in 1 .. n + 1} = {h.id[s[k]] : k \in 1 .. n} \cup {i}
    <3>1. \A k \in 1 .. n + 1 : k \in 1 .. n \/ k = n + 1
      BY <1>2
    <3>2. \A k \in 1 .. n : k \in 1 .. n + 1
      BY <1>2
    <3>3. n + 1 \in 1 .. n + 1
      BY <1>2
    <3> QED BY <1>3, <3>1, <3>2, <3>3 DEF i
  <2> QED BY <1>3, <1>5, <2>1, <2>2
<1>8. new.rename[NoArray] = NoArray
  BY <1>4, <1>5 DEF RenamesItsArrays, NoArray
<1>9. ASSUME NEW k \in DOMAIN t
      PROVE  LET r == new.rename[h.id[t[k]]] IN
             /\ h.id[t[k]] # Unassigned
             /\ r \in k - 1 .. Len(t) - 1
             /\ t[r + 1] = t[k]
  <2>1. CASE h.id[t[k]] = i
    <3>1. t[k] \in Arrays
      BY <1>3
    <3>2. t[k] = a
      BY <2>1, <3>1 DEF IdsDistinct, i
    <3>3. new.rename[h.id[t[k]]] = n
      BY <2>1, <1>5
    <3> QED BY <1>2, <1>3, <3>2, <3>3
  <2>2. CASE h.id[t[k]] # i
    <3>1. k # n + 1
      BY <2>2, <1>3 DEF i
    <3>2. k \in 1 .. n
      BY <3>1, <1>2, <1>3
    <3> DEFINE r == job.rename[h.id[s[k]]]
    <3>3. /\ h.id[s[k]] # Unassigned
          /\ r \in k - 1 .. n - 1
          /\ s[r + 1] = s[k]
      BY <3>2, <1>2, <1>3 DEF RenamesItsArrays
    <3>4. h.id[s[k]] \in DOMAIN job.rename
      BY <3>2, <1>3 DEF RenamesItsArrays
    <3>5. new.rename[h.id[t[k]]] = r
      BY <2>2, <3>2, <3>4, <1>3, <1>5
    <3>6. r + 1 \in 1 .. n /\ r \in k - 1 .. Len(t) - 1
      <4>1. r \in Int /\ k - 1 =< r /\ r =< n - 1
        BY <3>2, <3>3, <1>2
      <4> HIDE DEF r
      <4>2. k \in Int /\ 1 =< k /\ n \in Int /\ Len(t) - 1 = n
        BY <3>2, <1>2, <1>3
      <4> QED BY <4>1, <4>2
    <3> QED BY <3>2, <3>3, <3>5, <3>6, <1>3
  <2> QED BY <2>1, <2>2
<1>10. new.renameCount = Len(t)
  BY <1>1, <1>3
<1>11. RenamesItsArrays(h, new)
  BY <1>7, <1>8, <1>9, <1>10 DEF RenamesItsArrays
<1> QED BY <1>6, <1>11 DEF new, i

-----------------------------------------------------------------------------
(* The inductive invariant: the types, without which no heap is typed, and *)
(* RenameInv, which holds for the jobs only because ids are distinct and   *)
(* for the relations only because ids are kept.                            *)

LEMMA InitInv == Init => TypeOK /\ RenameInv
<1> SUFFICES ASSUME Init PROVE TypeOK /\ RenameInv
  OBVIOUS
<1>1. heap = InitHeap /\ jobs = [j \in Jobs |-> EmptyJob]
  BY DEF Init
<1>2. InitHeap \in Heap
  BY DEF InitHeap, Heap, Unassigned, NoArray, AccessType, AddressingMode
<1>3. IsJob(EmptyJob) /\ RenamesItsArrays(heap, EmptyJob)
  BY DEF IsJob, RenamesItsArrays, EmptyJob, NoArray
<1>4. IdsDistinct(heap) /\ DstsExist(heap)
  BY <1>1 DEF InitHeap, IdsDistinct, DstsExist, Unassigned
<1> QED BY <1>1, <1>2, <1>3, <1>4 DEF TypeOK, RenameInv

(* Heap changes that keep ids and relations disturb no job.                *)
LEMMA JobsKept ==
    ASSUME TypeOK, RenameInv, NEW g \in Heap, KeepsIds(heap, g)
    PROVE  \A j \in Jobs : RenamesItsArrays(g, jobs[j])
<1> SUFFICES ASSUME NEW j \in Jobs PROVE RenamesItsArrays(g, jobs[j])
  OBVIOUS
<1> QED BY JobKept DEF TypeOK, RenameInv

(* A job object may be replaced by one that agrees with the heap.          *)
LEMMA JobReplaced ==
    ASSUME TypeOK, RenameInv, NEW j \in Jobs, NEW job,
           jobs' = [jobs EXCEPT ![j] = job], IsJob(job),
           heap' \in Heap, IdsDistinct(heap'), DstsExist(heap'),
           KeepsIds(heap, heap'), RenamesItsArrays(heap', job)
    PROVE  TypeOK' /\ RenameInv'
<1>1. \A i \in Jobs : jobs'[i] = IF i = j THEN job ELSE jobs[i]
  BY DEF TypeOK
<1>2. jobs' = [i \in Jobs |-> jobs'[i]]
  BY DEF TypeOK
<1>3. \A i \in Jobs : RenamesItsArrays(heap', jobs[i])
  BY JobsKept
<1>4. \A i \in Jobs : IsJob(jobs'[i])
  BY <1>1 DEF TypeOK
<1>5. \A i \in Jobs : RenamesItsArrays(heap', jobs'[i])
  BY <1>1, <1>3
<1> QED BY <1>2, <1>4, <1>5 DEF TypeOK, RenameInv

(* The change...ByArrayId calls leave ids and relations alone.             *)
LEMMA ChangeFacts ==
    ASSUME TypeOK, RenameInv, jobs' = jobs, heap' \in Heap,
           heap'.id = heap.id, heap'.nextID = heap.nextID, heap'.dst = heap.dst
    PROVE  TypeOK' /\ RenameInv'
<1>1. KeepsIds(heap, heap')
  BY DEF KeepsIds
<1>2. \A j \in Jobs : RenamesItsArrays(heap', jobs[j])
  BY <1>1, JobsKept
<1>3. IdsDistinct(heap') /\ DstsExist(heap')
  BY DEF RenameInv, IdsDistinct, DstsExist
<1> QED BY <1>2, <1>3 DEF TypeOK, RenameInv

LEMMA NextInv == TypeOK /\ RenameInv /\ [Next]_vars => TypeOK' /\ RenameInv'
<1> SUFFICES ASSUME TypeOK, RenameInv, [Next]_vars PROVE TypeOK' /\ RenameInv'
  OBVIOUS
<1>h. heap \in Heap /\ IdsDistinct(heap) /\ DstsExist(heap)
  BY DEF TypeOK, RenameInv
<1>1. ASSUME NEW j \in Jobs, NewJob(j) PROVE TypeOK' /\ RenameInv'
  <2>1. heap' = heap /\ jobs' = [jobs EXCEPT ![j] = EmptyJob]
    BY <1>1 DEF NewJob
  <2>2. IsJob(EmptyJob) /\ RenamesItsArrays(heap', EmptyJob)
    BY DEF IsJob, RenamesItsArrays, EmptyJob, NoArray
  <2>3. KeepsIds(heap, heap')
    BY <2>1 DEF KeepsIds
  <2> QED BY <1>h, <2>1, <2>2, <2>3, JobReplaced
<1>2. ASSUME NEW j \in Jobs, NEW a \in Arrays, AddArrayDescriptor(j, a)
      PROVE  TypeOK' /\ RenameInv'
  <2> DEFINE g == WithId(heap, a)
  <2>1. heap' = g /\ jobs' = [jobs EXCEPT ![j] = JobWith(jobs[j], a, g.id[a])]
    BY <1>2 DEF AddArrayDescriptor
  <2>2. /\ g \in Heap
        /\ IdsDistinct(g)
        /\ KeepsIds(heap, g)
        /\ g.id[a] # Unassigned
        /\ g.dst = heap.dst
    BY <1>h, WithIdFacts
  <2> HIDE DEF g
  <2>3. DstsExist(g)
    BY <1>h, <2>2, DstsKept
  <2>4. IsJob(jobs[j]) /\ RenamesItsArrays(g, jobs[j])
    BY <2>2, JobsKept DEF TypeOK
  <2>5. /\ IsJob(JobWith(jobs[j], a, g.id[a]))
        /\ RenamesItsArrays(g, JobWith(jobs[j], a, g.id[a]))
    BY <2>2, <2>4, JobWithFacts
  <2> QED BY <2>1, <2>2, <2>3, <2>5, JobReplaced
<1>3. ASSUME NEW d \in Arrays, NEW b \in Arrays, SetIndexedBy(d, b)
      PROVE  TypeOK' /\ RenameInv'
  <2>1. heap' = IndexedBy(heap, d, b) /\ jobs' = jobs
    BY <1>3 DEF SetIndexedBy
  <2>2. /\ heap' \in Heap
        /\ IdsDistinct(heap')
        /\ KeepsIds(heap, heap')
        /\ DstsExist(heap')
    BY <1>h, <2>1, IndexedByFacts
  <2>3. \A j \in Jobs : RenamesItsArrays(heap', jobs[j])
    BY <2>2, JobsKept
  <2> QED BY <2>1, <2>2, <2>3 DEF TypeOK, RenameInv
<1>4. ASSUME NEW j \in Jobs, NEW i \in ChangeIds, NEW t \in AccessType,
             ChangeAccessType(j, i, t)
      PROVE  TypeOK' /\ RenameInv'
  <2>1. jobs' = jobs
    BY <1>4 DEF ChangeAccessType
  <2>2. PICK k \in DOMAIN jobs[j].arrays :
            heap' = [heap EXCEPT !.access[jobs[j].arrays[k]] = t]
    BY <1>4 DEF ChangeAccessType
  <2>3. heap' = [nextID     |-> heap.nextID,
                 id         |-> heap.id,
                 dst        |-> heap.dst,
                 access     |-> [heap.access EXCEPT ![jobs[j].arrays[k]] = t],
                 addressing |-> heap.addressing]
    BY <1>h, <2>2 DEF Heap
  <2>4. [heap.access EXCEPT ![jobs[j].arrays[k]] = t] \in [Arrays -> AccessType]
    BY <1>h DEF Heap
  <2>5. heap' \in Heap
    BY <1>h, <2>3, <2>4 DEF Heap
  <2> QED BY <2>1, <2>3, <2>5, ChangeFacts
<1>5. ASSUME NEW j \in Jobs, NEW i \in ChangeIds, NEW m \in AddressingMode,
             ChangeAddressingMode(j, i, m)
      PROVE  TypeOK' /\ RenameInv'
  <2>1. jobs' = jobs
    BY <1>5 DEF ChangeAddressingMode
  <2>2. PICK k \in DOMAIN jobs[j].arrays :
            heap' = [heap EXCEPT !.addressing[jobs[j].arrays[k]] = m]
    BY <1>5 DEF ChangeAddressingMode
  <2>3. heap' = [nextID     |-> heap.nextID,
                 id         |-> heap.id,
                 dst        |-> heap.dst,
                 access     |-> heap.access,
                 addressing |-> [heap.addressing EXCEPT ![jobs[j].arrays[k]] = m]]
    BY <1>h, <2>2 DEF Heap
  <2>4. [heap.addressing EXCEPT ![jobs[j].arrays[k]] = m]
            \in [Arrays -> AddressingMode]
    BY <1>h DEF Heap
  <2>5. heap' \in Heap
    BY <1>h, <2>3, <2>4 DEF Heap
  <2> QED BY <2>1, <2>3, <2>5, ChangeFacts
<1>6. CASE UNCHANGED vars
  BY <1>6 DEF vars, TypeOK, RenameInv
<1> QED BY <1>1, <1>2, <1>3, <1>4, <1>5, <1>6 DEF Next

(* In every behaviour, the heap and the jobs have their types and every    *)
(* job's rename map agrees with its list of arrays.                        *)
THEOREM JobInvariant == Spec => [](TypeOK /\ RenameInv)
<1>1. Init => TypeOK /\ RenameInv
  BY InitInv
<1>2. TypeOK /\ RenameInv /\ [Next]_vars => TypeOK' /\ RenameInv'
  BY NextInv
<1> QED BY <1>1, <1>2, PTL DEF Spec

(* Type correctness of descriptors and jobs.                               *)
THEOREM TypeCorrect == Spec => []TypeOK
BY JobInvariant, PTL

(* Ids are never shared, no relation dangles, and every job names its      *)
(* arrays by their last positions (pickle_job.h:59-64, 190-199).           *)
THEOREM RenamesCorrect == Spec => []RenameInv
BY JobInvariant, PTL

-----------------------------------------------------------------------------
(* What getJobDescriptor sends, from the invariant. *)

(* A job that has a descriptor has one row per array, in order.            *)
LEMMA WireFacts ==
    ASSUME TypeOK, NEW j \in Jobs, Wire(j).ok
    PROVE  /\ ~ Throws(heap, jobs[j])
           /\ DOMAIN Wire(j).rows = DOMAIN jobs[j].arrays
           /\ Len(Wire(j).rows) = Len(jobs[j].arrays)
           /\ \A k \in DOMAIN jobs[j].arrays :
                 Wire(j).rows[k] = WireRow(heap, jobs[j], jobs[j].arrays[k])
<1>1. ~ Throws(heap, jobs[j])
  BY DEF Wire, JobDescriptor
<1>2. Wire(j).rows = [k \in DOMAIN jobs[j].arrays |->
                        WireRow(heap, jobs[j], jobs[j].arrays[k])]
  BY <1>1 DEF Wire, JobDescriptor
<1>3. /\ DOMAIN jobs[j].arrays = 1 .. Len(jobs[j].arrays)
      /\ Len(jobs[j].arrays) \in Nat
  BY DEF TypeOK, IsJob
<1>4. Len(Wire(j).rows) = Len(jobs[j].arrays)
  BY <1>2, <1>3
<1> QED BY <1>1, <1>2, <1>4

LEMMA ContiguousFromInv == TypeOK /\ RenameInv => WireIdsContiguous
<1> SUFFICES ASSUME TypeOK, RenameInv, NEW j \in Jobs, Wire(j).ok,
                    NoDuplicates(jobs[j].arrays),
                    NEW k \in DOMAIN Wire(j).rows
             PROVE  Wire(j).rows[k].id = k - 1
  BY DEF WireIdsContiguous
<1> DEFINE s == jobs[j].arrays
           r == jobs[j].rename[heap.id[s[k]]]
<1>1. k \in DOMAIN s /\ Wire(j).rows[k].id = r
  <2>1. k \in DOMAIN s
    BY WireFacts
  <2>2. Wire(j).rows[k] = WireRow(heap, jobs[j], s[k])
    BY <2>1, WireFacts
  <2> QED BY <2>1, <2>2 DEF WireRow
<1>2. /\ r \in k - 1 .. Len(s) - 1
      /\ s[r + 1] = s[k]
  BY <1>1 DEF RenameInv, RenamesItsArrays
<1>3. DOMAIN s = 1 .. Len(s) /\ Len(s) \in Nat
  BY DEF TypeOK, IsJob
<1>4. r \in Int /\ r + 1 \in DOMAIN s /\ k \in Int
  <2> HIDE DEF r, s
  <2> QED BY <1>1, <1>2, <1>3
<1>5. r + 1 = k
  BY <1>1, <1>2, <1>4 DEF NoDuplicates
<1> QED BY <1>1, <1>4, <1>5

(* The device sees the ids 0, 1, 2, ... for a job no array was added to    *)
(* twice (pickle_job.h:192-197).                                           *)
THEOREM ContiguousCorrect == Spec => []WireIdsContiguous
<1>1. TypeOK /\ RenameInv => WireIdsContiguous
  BY ContiguousFromInv
<1> QED BY <1>1, JobInvariant, PTL

LEMMA FollowsFromInv == TypeOK /\ RenameInv => WireFollowsIndexing
<1> SUFFICES ASSUME TypeOK, RenameInv, NEW j \in Jobs, Wire(j).ok,
                    NEW k \in DOMAIN Wire(j).rows
             PROVE  LET rows == Wire(j).rows
                        d == heap.dst[rows[k].region]
                    IN  IF d = NoArray THEN rows[k].dst = NoArray
                        ELSE /\ rows[k].dst \in 0 .. Len(rows) - 1
                             /\ heap.id[rows[rows[k].dst + 1].region] = d
  BY DEF WireFollowsIndexing
<1> DEFINE s == jobs[j].arrays
           rows == Wire(j).rows
           d == heap.dst[s[k]]
<1>1. k \in DOMAIN s /\ Len(rows) = Len(s)
  BY WireFacts
<1>2. rows[k] = WireRow(heap, jobs[j], s[k])
  BY <1>1, WireFacts
<1>3. rows[k].region = s[k] /\ rows[k].dst = jobs[j].rename[d]
  BY <1>2 DEF WireRow
<1>4. CASE d = NoArray
  BY <1>3, <1>4 DEF RenameInv, RenamesItsArrays
<1>5. CASE d # NoArray
  <2>1. d \in DOMAIN jobs[j].rename
    BY <1>1, WireFacts DEF Throws
  <2>2. PICK l \in DOMAIN s : heap.id[s[l]] = d
    BY <2>1, <1>5 DEF RenameInv, RenamesItsArrays
  <2> DEFINE r == jobs[j].rename[heap.id[s[l]]]
  <2>3. r \in l - 1 .. Len(s) - 1 /\ s[r + 1] = s[l]
    BY DEF RenameInv, RenamesItsArrays
  <2>4. DOMAIN s = 1 .. Len(s) /\ Len(s) \in Nat
    BY DEF TypeOK, IsJob
  <2>5. r \in 0 .. Len(s) - 1 /\ r + 1 \in DOMAIN s
    <3> HIDE DEF r, s
    <3> QED BY <2>2, <2>3, <2>4
  <2>6. rows[r + 1] = WireRow(heap, jobs[j], s[r + 1])
    BY <2>5, WireFacts
  <2>7. rows[r + 1].region = s[l]
    BY <2>3, <2>6 DEF WireRow
  <2>8. rows[k].dst = r
    BY <1>3, <2>2
  <2> HIDE DEF r, s, rows
  <2> QED BY <1>1, <1>3, <1>5, <2>2, <2>5, <2>7, <2>8 DEF rows, d
<1> QED BY <1>4, <1>5

(* The relation the device reads is the application's: a row's dst is the  *)
(* position of a row for the array that the descriptor's elements index    *)
(* (pickle_job.h:201-223).                                                 *)
THEOREM FollowsCorrect == Spec => []WireFollowsIndexing
<1>1. TypeOK /\ RenameInv => WireFollowsIndexing
  BY FollowsFromInv
<1> QED BY <1>1, JobInvariant, PTL

LEMMA ThrowsFromInv == RenameInv => ThrowsIffDangling
<1> SUFFICES ASSUME RenameInv, NEW j \in Jobs
             PROVE  LET s == jobs[j].arrays IN
                    ~ Wire(j).ok <=> \E k \in DOMAIN s :
                        /\ heap.dst[s[k]] # NoArray
                        /\ \A l \in DOMAIN s : heap.id[s[l]] # heap.dst[s[k]]
  BY DEF ThrowsIffDangling
<1> DEFINE s == jobs[j].arrays
<1>1. ~ Wire(j).ok <=> Throws(heap, jobs[j])
  BY DEF Wire, JobDescriptor
<1>2. DOMAIN jobs[j].rename = {NoArray} \cup {heap.id[s[k]] : k \in DOMAIN s}
  BY DEF RenameInv, RenamesItsArrays
<1>3. \A k \in DOMAIN s : heap.id[s[k]] \in DOMAIN jobs[j].rename
  BY <1>2
<1>4. \A k \in DOMAIN s :
        heap.dst[s[k]] \notin DOMAIN jobs[j].rename <=>
            /\ heap.dst[s[k]] # NoArray
            /\ \A l \in DOMAIN s : heap.id[s[l]] # heap.dst[s[k]]
  BY <1>2
<1> QED BY <1>1, <1>3, <1>4 DEF Throws

(* Sending a job ends in an exception exactly when one of its arrays       *)
(* indexes an array outside the job (pickle_job.h:209-210).                *)
THEOREM ThrowsCorrect == Spec => []ThrowsIffDangling
<1>1. TypeOK /\ RenameInv => ThrowsIffDangling
  BY ThrowsFromInv
<1> QED BY <1>1, JobInvariant, PTL

-----------------------------------------------------------------------------
(* Ids, once assigned, are kept by every call. *)

LEMMA NextKeepsIds == TypeOK /\ RenameInv /\ [Next]_vars => KeepsIds(heap, heap')
<1> SUFFICES ASSUME TypeOK, RenameInv, [Next]_vars PROVE KeepsIds(heap, heap')
  OBVIOUS
<1>h. heap \in Heap /\ IdsDistinct(heap) /\ DstsExist(heap)
  BY DEF TypeOK, RenameInv
<1>s. ASSUME heap'.id = heap.id PROVE KeepsIds(heap, heap')
  BY <1>s DEF KeepsIds
<1>1. ASSUME NEW j \in Jobs, NewJob(j) PROVE KeepsIds(heap, heap')
  BY <1>1, <1>s DEF NewJob
<1>2. ASSUME NEW j \in Jobs, NEW a \in Arrays, AddArrayDescriptor(j, a)
      PROVE  KeepsIds(heap, heap')
  BY <1>h, <1>2, WithIdFacts DEF AddArrayDescriptor
<1>3. ASSUME NEW d \in Arrays, NEW b \in Arrays, SetIndexedBy(d, b)
      PROVE  KeepsIds(heap, heap')
  BY <1>h, <1>3, IndexedByFacts DEF SetIndexedBy
<1>4. ASSUME NEW j \in Jobs, NEW i \in ChangeIds, NEW t \in AccessType,
             ChangeAccessType(j, i, t)
      PROVE  KeepsIds(heap, heap')
  BY <1>h, <1>4, <1>s DEF ChangeAccessType, Heap
<1>5. ASSUME NEW j \in Jobs, NEW i \in ChangeIds, NEW m \in AddressingMode,
             ChangeAddressingMode(j, i, m)
      PROVE  KeepsIds(heap, heap')
  BY <1>h, <1>5, <1>s DEF ChangeAddressingMode, Heap
<1>6. CASE UNCHANGED vars
  BY <1>6, <1>s DEF vars
<1> QED BY <1>1, <1>2, <1>3, <1>4, <1>5, <1>6 DEF Next

(* No call gives an array a second id: the copies of it in relations and   *)
(* rename maps stay good (pickle_job.h:59-64).                             *)
THEOREM IdsStableCorrect == Spec => IdsStable
<1>1. TypeOK /\ RenameInv /\ [Next]_vars =>
        [\A a \in Arrays : heap.id[a] # Unassigned => heap'.id[a] = heap.id[a]]_vars
  BY NextKeepsIds DEF KeepsIds
<1> QED BY <1>1, JobInvariant, PTL DEF Spec, IdsStable

-----------------------------------------------------------------------------
(* PickleJob implements IndexChains, for any arrays and jobs: ids and      *)
(* rename maps cannot be seen in what the device is told.                  *)

JobInv == TypeOK /\ RenameInv

(* Under the invariant a relation is an array or nothing, and which one    *)
(* follows from the ids.                                                   *)
LEMMA TargetFacts ==
    ASSUME JobInv, NEW a \in Arrays
    PROVE  /\ heap.dst[a] = NoArray => Target[a] = Null
           /\ heap.dst[a] # NoArray => /\ Target[a] \in Arrays /\ Target[a] # Null
                                       /\ heap.id[Target[a]] = heap.dst[a]
                                       /\ heap.dst[a] # Unassigned
<1>1. DstsExist(heap)
  BY DEF JobInv, RenameInv
<1>2. heap.dst[a] = NoArray => Target[a] = Null
  BY DEF Target
<1>3. CASE heap.dst[a] # NoArray
  <2>1. PICK b \in Arrays : heap.id[b] = heap.dst[a] /\ heap.dst[a] # Unassigned
    BY <1>1, <1>3 DEF DstsExist
  <2>2. Target[a] = CHOOSE c \in Arrays : heap.id[c] = heap.dst[a]
    BY <1>3 DEF Target
  <2>3. Target[a] \in Arrays /\ heap.id[Target[a]] = heap.dst[a]
    BY <2>1, <2>2
  <2> QED BY <1>3, <2>1, <2>3, NullAssumption
<1> QED BY <1>2, <1>3

(* An array indexes b exactly if its relation holds b's id.                *)
LEMMA TargetIs ==
    ASSUME JobInv, NEW a \in Arrays, NEW b \in Arrays, heap.id[b] # Unassigned
    PROVE  Target[a] = b <=> heap.dst[a] = heap.id[b]
<1>1. IdsDistinct(heap) /\ heap.id[b] \in Nat
  BY DEF JobInv, RenameInv, TypeOK, Heap
<1>2. heap.dst[a] = NoArray => Target[a] # b /\ heap.dst[a] # heap.id[b]
  BY <1>1, TargetFacts, NullAssumption DEF NoArray
<1>3. heap.dst[a] # NoArray => (Target[a] = b <=> heap.dst[a] = heap.id[b])
  BY <1>1, TargetFacts DEF IdsDistinct
<1> QED BY <1>2, <1>3

(* The rename map sends the id of an array to its last position.           *)
LEMMA LastPosFacts ==
    ASSUME JobInv, NEW j \in Jobs, NEW k \in DOMAIN jobs[j].arrays
    PROVE  LET s == jobs[j].arrays IN
           jobs[j].rename[heap.id[s[k]]] = Chains!LastPos(s, s[k]) - 1
<1> DEFINE s == jobs[j].arrays
           r == jobs[j].rename[heap.id[s[k]]]
<1>1. /\ RenamesItsArrays(heap, jobs[j]) /\ s \in Seq(Arrays)
  BY DEF JobInv, RenameInv, TypeOK, IsJob
<1>2. DOMAIN s = 1 .. Len(s) /\ Len(s) \in Nat
  BY <1>1
<1>3. \A l \in DOMAIN s : s[l] = s[k] => r \in l - 1 .. Len(s) - 1
  BY <1>1 DEF RenamesItsArrays
<1>4. s[r + 1] = s[k]
  BY <1>1 DEF RenamesItsArrays
<1> HIDE DEF r, s
<1>5. r + 1 \in DOMAIN s /\ \A l \in DOMAIN s : s[l] = s[k] => l =< r + 1
  BY <1>2, <1>3 DEF s
<1>6. \A p \in DOMAIN s : (s[p] = s[k] /\ \A l \in DOMAIN s : s[l] = s[k] => l =< p) => p = r + 1
  BY <1>2, <1>4, <1>5
<1>7. Chains!LastPos(s, s[k]) = r + 1
  BY <1>4, <1>5, <1>6 DEF Chains!LastPos
<1>8. r \in Int
  BY <1>2, <1>3 DEF s
<1> QED BY <1>7, <1>8 DEF r, s

(* getJobDescriptor throws exactly for the jobs that have no description.  *)
LEMMA ThrowsIfOpen ==
    ASSUME JobInv, NEW j \in Jobs
    PROVE  Throws(heap, jobs[j]) <=> ~ Chains!Closed(Target, jobs[j].arrays)
<1> DEFINE s == jobs[j].arrays
<1>1. RenamesItsArrays(heap, jobs[j]) /\ \A k \in DOMAIN s : s[k] \in Arrays
  BY DEF JobInv, RenameInv, TypeOK, IsJob
<1>2. Throws(heap, jobs[j]) <=> \E k \in DOMAIN s :
          heap.dst[s[k]] # NoArray /\ \A l \in DOMAIN s : heap.id[s[l]] # heap.dst[s[k]]
  BY <1>1 DEF Throws, RenamesItsArrays
<1>3. ASSUME NEW k \in DOMAIN s
      PROVE  (heap.dst[s[k]] # NoArray /\ \A l \in DOMAIN s : heap.id[s[l]] # heap.dst[s[k]])
              <=> ~ (Target[s[k]] = Null \/ Target[s[k]] \in Chains!Elements(s))
  <2>1. \A l \in DOMAIN s : heap.id[s[l]] # Unassigned
    BY <1>1 DEF RenamesItsArrays
  <2>2. \A l \in DOMAIN s : Target[s[k]] = s[l] <=> heap.dst[s[k]] = heap.id[s[l]]
    BY <1>1, <2>1, TargetIs
  <2>3. Target[s[k]] = Null <=> heap.dst[s[k]] = NoArray
    BY <1>1, TargetFacts
  <2> QED BY <2>2, <2>3 DEF Chains!Elements
<1> QED BY <1>2, <1>3 DEF Chains!Closed

(* The rows are those of the description.                                  *)
LEMMA RowIs ==
    ASSUME JobInv, NEW j \in Jobs, NEW k \in DOMAIN jobs[j].arrays, ~ Throws(heap, jobs[j])
    PROVE  WireRow(heap, jobs[j], jobs[j].arrays[k])
            = Chains!Row(Target, jobs[j].arrays, jobs[j].arrays[k], heap.access, heap.addressing)
<1> DEFINE s == jobs[j].arrays
           a == s[k]
           rename == jobs[j].rename
<1>1. RenamesItsArrays(heap, jobs[j]) /\ \A l \in DOMAIN s : s[l] \in Arrays
  BY DEF JobInv, RenameInv, TypeOK, IsJob
<1>2. rename[heap.id[a]] = Chains!LastPos(s, a) - 1
  BY LastPosFacts
<1>3. rename[heap.dst[a]] = IF Target[a] = Null THEN -1 ELSE Chains!LastPos(s, Target[a]) - 1
  <2>1. CASE heap.dst[a] = NoArray
    BY <1>1, <2>1, TargetFacts DEF RenamesItsArrays, NoArray
  <2>2. CASE heap.dst[a] # NoArray
    <3>1. Target[a] # Null /\ Target[a] \in Chains!Elements(s)
      BY <1>1, <2>2, TargetFacts, ThrowsIfOpen DEF Chains!Closed
    <3>2. PICK l \in DOMAIN s : s[l] = Target[a]
      BY <3>1 DEF Chains!Elements
    <3>3. heap.dst[a] = heap.id[s[l]]
      BY <1>1, <2>2, <3>2, TargetFacts
    <3> QED BY <3>1, <3>2, <3>3, LastPosFacts
  <2> QED BY <2>1, <2>2
<1> QED BY <1>2, <1>3 DEF WireRow, Chains!Row

(* What the device is told follows from arrays and relations alone.        *)
Viewed == View = [j \in Jobs |-> Chains!Describe(Target, Members[j], heap.access, heap.addressing)]

LEMMA ViewedFromInv == JobInv => Viewed
<1> SUFFICES ASSUME JobInv, NEW j \in Jobs
             PROVE  View[j] = Chains!Describe(Target, Members[j], heap.access, heap.addressing)
  BY DEF Viewed, View
<1> DEFINE s == jobs[j].arrays
           w == Wire(j)
<1>1. View[j] = [ok |-> w.ok, rows |-> w.rows] /\ Members[j] = s
  BY DEF View, Members
<1>2. CASE Throws(heap, jobs[j])
  BY <1>1, <1>2, ThrowsIfOpen DEF Wire, JobDescriptor, Chains!Describe
<1>3. CASE ~ Throws(heap, jobs[j])
  <2>1. w.ok = TRUE /\ w.rows = [k \in DOMAIN s |-> WireRow(heap, jobs[j], s[k])]
    BY <1>3 DEF Wire, JobDescriptor
  <2>2. [k \in DOMAIN s |-> WireRow(heap, jobs[j], s[k])]
         = [k \in DOMAIN s |-> Chains!Row(Target, s, s[k], heap.access, heap.addressing)]
    BY <1>3, RowIs
  <2>3. Chains!Closed(Target, s)
    BY <1>3, ThrowsIfOpen
  <2> HIDE DEF w
  <2> QED BY <1>1, <2>1, <2>2, <2>3 DEF Chains!Describe
<1> QED BY <1>2, <1>3

-----------------------------------------------------------------------------
(* Every call is one step of IndexChains, or none.                         *)

LEMMA InitChains == Init => Chains!Init
<1> SUFFICES ASSUME Init PROVE Chains!Init
  OBVIOUS
<1>1. JobInv
  BY InitInv DEF JobInv
<1>2. Target = [a \in Arrays |-> Null]
  BY DEF Init, InitHeap, Target
<1>3. Members = [j \in Jobs |-> <<>>]
  BY DEF Init, EmptyJob, Members
<1>4. /\ heap.access = [a \in Arrays |-> "SingleElement"]
      /\ heap.addressing = [a \in Arrays |-> "Pointer"]
  BY DEF Init, InitHeap
<1> QED BY <1>1, <1>2, <1>3, <1>4, ViewedFromInv DEF Chains!Init, Viewed

(* getArrayId changes no relation between arrays.                          *)
LEMMA TargetKept ==
    ASSUME JobInv, JobInv', KeepsIds(heap, heap'), NEW a \in Arrays, heap'.dst[a] = heap.dst[a]
    PROVE  Target'[a] = Target[a]
<1>1. CASE heap.dst[a] = NoArray
  BY <1>1 DEF Target
<1>2. CASE heap.dst[a] # NoArray
  <2>1. Target[a] \in Arrays /\ heap.id[Target[a]] = heap.dst[a] /\ heap.dst[a] # Unassigned
    BY <1>2, TargetFacts
  <2>2. heap'.id[Target[a]] = heap'.dst[a]
    BY <2>1 DEF KeepsIds
  <2>3. Target'[a] = CHOOSE c \in Arrays : heap'.id[c] = heap'.dst[a]
    BY <1>2 DEF Target
  <2>4. \A c \in Arrays : heap'.id[c] = heap'.dst[a] => c = Target[a]
    BY <2>1, <2>2 DEF JobInv, RenameInv, IdsDistinct
  <2> QED BY <2>1, <2>2, <2>3, <2>4
<1> QED BY <1>1, <1>2

LEMMA NextChains ==
    ASSUME JobInv, JobInv', Viewed', [Next]_vars
    PROVE  [Chains!Next]_(Chains!avars)
<1>h. heap \in Heap /\ IdsDistinct(heap) /\ DstsExist(heap) /\ jobs = [j \in Jobs |-> jobs[j]]
  BY DEF JobInv, TypeOK, RenameInv
<1>v. Chains!Viewed
  BY DEF Viewed, Chains!Viewed
<1>k. KeepsIds(heap, heap')
  BY NextKeepsIds DEF JobInv
<1>t. heap'.dst = heap.dst => Target' = Target
  BY <1>k, TargetKept DEF Target
<1>m. \A j \in Jobs : Members[j] = jobs[j].arrays
  BY DEF Members
<1>1. ASSUME NEW j \in Jobs, NewJob(j) PROVE Chains!Next
  <2>1. Members' = [Members EXCEPT ![j] = <<>>]
    BY <1>1, <1>h DEF NewJob, Members, EmptyJob
  <2>2. heap' = heap
    BY <1>1 DEF NewJob
  <2> QED BY <1>v, <1>t, <2>1, <2>2 DEF Chains!Next, Chains!New
<1>2. ASSUME NEW j \in Jobs, NEW a \in Arrays, AddArrayDescriptor(j, a) PROVE Chains!Next
  <2>1. jobs' = [jobs EXCEPT ![j] = JobWith(jobs[j], a, heap'.id[a])]
    BY <1>2 DEF AddArrayDescriptor
  <2>2. JobWith(jobs[j], a, heap'.id[a]).arrays = Append(jobs[j].arrays, a)
    BY DEF JobWith
  <2> HIDE DEF JobWith
  <2>3. Members' = [Members EXCEPT ![j] = Append(Members[j], a)]
    BY <1>h, <2>1, <2>2 DEF Members
  <2>4. heap'.dst = heap.dst
    BY <1>h, <1>2, WithIdFacts DEF AddArrayDescriptor
  <2>5. heap'.access = heap.access /\ heap'.addressing = heap.addressing
    BY <1>h, <1>2 DEF AddArrayDescriptor, WithId, Heap
  <2> QED BY <1>v, <1>t, <2>3, <2>4, <2>5 DEF Chains!Next, Chains!Add
<1>3. ASSUME NEW d \in Arrays, NEW b \in Arrays, SetIndexedBy(d, b) PROVE Chains!Next
  <2> DEFINE w == WithId(heap, b)
  <2>1. /\ w \in Heap /\ w.id[b] # Unassigned /\ w.dst = heap.dst
    BY <1>h, WithIdFacts
  <2>2. w.access = heap.access /\ w.addressing = heap.addressing
    BY <1>h DEF WithId, Heap
  <2>3. heap' = [w EXCEPT !.dst[d] = w.id[b]]
    BY <1>3 DEF SetIndexedBy, IndexedBy
  <2> HIDE DEF w
  <2>4. /\ heap'.dst = [heap.dst EXCEPT ![d] = w.id[b]] /\ heap'.id = w.id
        /\ heap'.access = heap.access /\ heap'.addressing = heap.addressing
    BY <2>1, <2>2, <2>3 DEF Heap
  <2>5. heap.dst \in [Arrays -> Int]
    BY <1>h DEF Heap
  <2>6. heap'.dst[d] = heap'.id[b] /\ heap'.id[b] # Unassigned
    BY <2>1, <2>4, <2>5
  <2>7. Target'[d] = b
    <3>1. /\ heap'.id[b] \in Nat
          /\ \A c \in Arrays : heap'.id[c] = heap'.dst[d] => c = b
      BY <2>6 DEF JobInv, RenameInv, IdsDistinct, TypeOK, Heap
    <3>2. Target'[d] = CHOOSE c \in Arrays : heap'.id[c] = heap'.dst[d]
      BY <2>6, <3>1 DEF Target, NoArray
    <3> QED BY <2>6, <3>1, <3>2
  <2>8. \A a \in Arrays \ {d} : Target'[a] = Target[a]
    BY <1>k, <2>4, <2>5, TargetKept
  <2>9. Target' = [Target EXCEPT ![d] = b]
    <3>1. /\ Target = [a \in Arrays |-> Target[a]]
          /\ Target' = [a \in Arrays |-> Target'[a]]
      BY DEF Target
    <3> QED BY <2>7, <2>8, <3>1
  <2>10. Members' = Members
    BY <1>3 DEF SetIndexedBy, Members
  <2> QED BY <1>v, <2>4, <2>9, <2>10 DEF Chains!Next, Chains!Index
<1>4. ASSUME NEW j \in Jobs, NEW i \in ChangeIds, NEW t \in AccessType, ChangeAccessType(j, i, t)
      PROVE  Chains!Next
  <2>1. PICK k \in DOMAIN jobs[j].arrays : heap' = [heap EXCEPT !.access[jobs[j].arrays[k]] = t]
    BY <1>4 DEF ChangeAccessType
  <2> DEFINE a == jobs[j].arrays[k]
  <2>2. a \in Arrays /\ a \in Chains!Elements(Members[j])
    BY <1>m DEF JobInv, TypeOK, IsJob, Chains!Elements
  <2>3. /\ heap'.access = [heap.access EXCEPT ![a] = t]
        /\ heap'.dst = heap.dst /\ heap'.addressing = heap.addressing
    BY <1>h, <2>1 DEF Heap
  <2>4. Members' = Members
    BY <1>4 DEF ChangeAccessType, Members
  <2> HIDE DEF a
  <2>5. Chains!SetAccess(j, a, t)
    BY <1>v, <1>t, <2>2, <2>3, <2>4 DEF Chains!SetAccess
  <2>6. t \in Chains!AccessType
    BY DEF AccessType, Chains!AccessType
  <2> QED BY <2>2, <2>5, <2>6 DEF Chains!Next
<1>5. ASSUME NEW j \in Jobs, NEW i \in ChangeIds, NEW m \in AddressingMode,
             ChangeAddressingMode(j, i, m)
      PROVE  Chains!Next
  <2>1. PICK k \in DOMAIN jobs[j].arrays :
            heap' = [heap EXCEPT !.addressing[jobs[j].arrays[k]] = m]
    BY <1>5 DEF ChangeAddressingMode
  <2> DEFINE a == jobs[j].arrays[k]
  <2>2. a \in Arrays /\ a \in Chains!Elements(Members[j])
    BY <1>m DEF JobInv, TypeOK, IsJob, Chains!Elements
  <2>3. /\ heap'.addressing = [heap.addressing EXCEPT ![a] = m]
        /\ heap'.dst = heap.dst /\ heap'.access = heap.access
    BY <1>h, <2>1 DEF Heap
  <2>4. Members' = Members
    BY <1>5 DEF ChangeAddressingMode, Members
  <2> HIDE DEF a
  <2>5. Chains!SetAddressing(j, a, m)
    BY <1>v, <1>t, <2>2, <2>3, <2>4 DEF Chains!SetAddressing
  <2>6. m \in Chains!AddressingMode
    BY DEF AddressingMode, Chains!AddressingMode
  <2> QED BY <2>2, <2>5, <2>6 DEF Chains!Next
<1>6. CASE UNCHANGED vars
  BY <1>6 DEF vars, Chains!avars, Target, Members, View, Wire
<1> QED BY <1>1, <1>2, <1>3, <1>4, <1>5, <1>6 DEF Next

(* In every behaviour the device is told what IndexChains describes: the   *)
(* arrays of a job in order, each with the row of the array it indexes     *)
(* (pickle_job.h:55-110, 170-225).                                         *)
THEOREM ImplementsChainsCorrect == Spec => ImplementsChains
<1>1. Spec => []JobInv
  BY JobInvariant, PTL DEF JobInv
<1>2. [](JobInv => Viewed)
  BY ViewedFromInv, PTL
<1>3. JobInv /\ JobInv' /\ Viewed' /\ [Next]_vars => [Chains!Next]_(Chains!avars)
  BY NextChains
<1> QED BY <1>1, <1>2, <1>3, InitChains, PTL DEF Spec, ImplementsChains, Chains!Spec

-----------------------------------------------------------------------------
(* GraphJob: the wrapper. *)


(* What holds between two calls of the wrapper, of the heap and its job.   *)
Sound(s) ==
    /\ s = [heap |-> s.heap, job |-> s.job]
    /\ s.heap \in Heap /\ IdsDistinct(s.heap) /\ DstsExist(s.heap)
    /\ IsJob(s.job) /\ RenamesItsArrays(s.heap, s.job)

(* g differs from h in ids given to arrays that had none, and in the       *)
(* relations of the arrays in D.                                           *)
Extends(h, g, D) ==
    /\ KeepsIds(h, g)
    /\ \A a \in Arrays \ D : g.dst[a] = h.dst[a]
    /\ g.access = h.access /\ g.addressing = h.addressing

(* getArrayId changes no relation, nor how an array is read.               *)
LEMMA WithIdExtends ==
    ASSUME NEW h \in Heap, NEW a \in Arrays, IdsDistinct(h)
    PROVE  Extends(h, WithId(h, a), {})
<1>1. KeepsIds(h, WithId(h, a)) /\ WithId(h, a).dst = h.dst
  BY WithIdFacts
<1>2. WithId(h, a).access = h.access /\ WithId(h, a).addressing = h.addressing
  BY DEF WithId, Heap
<1> QED BY <1>1, <1>2 DEF Extends

(* indexedBy changes one relation, to an id that b then has.               *)
LEMMA IndexedByExtends ==
    ASSUME NEW h \in Heap, NEW d \in Arrays, NEW b \in Arrays, IdsDistinct(h)
    PROVE  /\ Extends(h, IndexedBy(h, d, b), {d})
           /\ IndexedBy(h, d, b).dst[d] = IndexedBy(h, d, b).id[b]
           /\ IndexedBy(h, d, b).id[b] # Unassigned
<1> DEFINE w == WithId(h, b)
           g == IndexedBy(h, d, b)
<1>1. Extends(h, w, {}) /\ w \in Heap /\ w.id[b] # Unassigned
  BY WithIdExtends, WithIdFacts
<1> HIDE DEF w
<1>2. g = [w EXCEPT !.dst[d] = w.id[b]]
  BY DEF IndexedBy, w
<1>3. /\ g.dst = [w.dst EXCEPT ![d] = w.id[b]]
      /\ g.id = w.id /\ g.access = w.access /\ g.addressing = w.addressing
  BY <1>1, <1>2 DEF Heap
<1>4. w.dst \in [Arrays -> Int]
  BY <1>1 DEF Heap
<1> HIDE DEF g
<1>5. g.dst[d] = g.id[b] /\ \A a \in Arrays \ {d} : g.dst[a] = w.dst[a]
  BY <1>3, <1>4
<1>6. Extends(h, g, {d})
  BY <1>1, <1>3, <1>5 DEF Extends, KeepsIds
<1> QED BY <1>1, <1>3, <1>5, <1>6 DEF g

(* addArrayDescriptor, as the wrapper calls it.                            *)
LEMMA AddedFacts ==
    ASSUME NEW s, Sound(s), NEW a \in Arrays
    PROVE  /\ Sound(Added(s, a))
           /\ Extends(s.heap, Added(s, a).heap, {})
           /\ Added(s, a).job.arrays = Append(s.job.arrays, a)
<1> DEFINE h == WithId(s.heap, a)
<1>1. /\ h \in Heap /\ IdsDistinct(h) /\ KeepsIds(s.heap, h)
      /\ h.id[a] # Unassigned /\ h.dst = s.heap.dst
  BY WithIdFacts DEF Sound
<1>2. Extends(s.heap, h, {})
  BY WithIdExtends DEF Sound
<1>3. Added(s, a) = [heap |-> h, job |-> JobWith(s.job, a, h.id[a])]
  BY DEF Added
<1> HIDE DEF h
<1>4. DstsExist(h)
  BY <1>1, DstsKept DEF Sound
<1>5. RenamesItsArrays(h, s.job)
  BY <1>1, JobKept DEF Sound
<1>6. /\ IsJob(JobWith(s.job, a, h.id[a]))
      /\ RenamesItsArrays(h, JobWith(s.job, a, h.id[a]))
  BY <1>1, <1>5, JobWithFacts DEF Sound
<1>7. JobWith(s.job, a, h.id[a]).arrays = Append(s.job.arrays, a)
  BY DEF JobWith
<1> HIDE DEF JobWith
<1> QED BY <1>1, <1>2, <1>3, <1>4, <1>6, <1>7 DEF Sound

(* indexedBy, as the wrapper calls it.                                     *)
LEMMA LinkedFacts ==
    ASSUME NEW s, Sound(s), NEW d \in Arrays, NEW b \in Arrays
    PROVE  /\ Sound(Linked(s, d, b))
           /\ Extends(s.heap, Linked(s, d, b).heap, {d})
           /\ Linked(s, d, b).job = s.job
           /\ Linked(s, d, b).heap.dst[d] = Linked(s, d, b).heap.id[b]
<1> DEFINE g == IndexedBy(s.heap, d, b)
<1>1. /\ g \in Heap /\ IdsDistinct(g) /\ KeepsIds(s.heap, g) /\ DstsExist(g)
  BY IndexedByFacts DEF Sound
<1>2. Extends(s.heap, g, {d}) /\ g.dst[d] = g.id[b]
  BY IndexedByExtends DEF Sound
<1>3. Linked(s, d, b) = [heap |-> g, job |-> s.job]
  BY DEF Linked, Sound
<1> HIDE DEF g
<1>4. RenamesItsArrays(g, s.job)
  BY <1>1, JobKept DEF Sound
<1> QED BY <1>1, <1>2, <1>3, <1>4 DEF Sound

(* q lists the arrays of a job fresh from the wrapper.                     *)
IsChain(q, index, neighbors, sel, cons) ==
    /\ Len(q) = (IF sel = Null THEN 2 ELSE 3) + (IF cons = Null THEN 0 ELSE 1)
    /\ q[1] = index /\ q[2] = neighbors
    /\ sel # Null => q[3] = sel
    /\ cons # Null => q[Len(q)] = cons

LEMMA AppendFacts ==
    ASSUME NEW q \in Seq(Arrays), NEW a \in Arrays
    PROVE  /\ Append(q, a) \in Seq(Arrays)
           /\ Len(q) \in Nat /\ Len(Append(q, a)) = Len(q) + 1
           /\ Append(q, a)[Len(q) + 1] = a
           /\ \A k \in 1 .. Len(q) : Append(q, a)[k] = q[k]
OBVIOUS

(* What the wrapper leaves of heap h: a heap and a job that fit each       *)
(* other, and no relation changed but that of the neighbors array and of   *)
(* the selector.                                                           *)
Built(h, s, index, neighbors, sel, cons) ==
    /\ Sound(s) /\ Extends(h, s.heap, {neighbors, sel})
    /\ IsChain(s.job.arrays, index, neighbors, sel, cons)
    /\ sel # Null => s.heap.dst[sel] = s.heap.id[index]
    /\ cons # Null => s.heap.dst[neighbors] = s.heap.id[cons]
    /\ cons = Null => s.heap.dst[neighbors] = h.dst[neighbors]

(* createGraphJobUsing...Edges (wrapper.h:13-75).                          *)
LEMMA GraphJobFacts ==
    ASSUME NEW h \in Heap, IdsDistinct(h), DstsExist(h),
           NEW index \in Arrays, NEW neighbors \in Arrays,
           NEW sel \in Arrays \cup {Null}, NEW cons \in Arrays \cup {Null},
           sel # neighbors
    PROVE  Built(h, GraphJobOf(h, index, neighbors, sel, cons), index, neighbors, sel, cons)
<1> DEFINE s0 == [heap |-> h, job |-> EmptyJob]
           s1 == Added(s0, index)
           s2 == Added(s1, neighbors)
           s3 == WithSelector(s2, index, sel)
           s4 == WithConsumer(s3, neighbors, cons)
<1>g. GraphJobOf(h, index, neighbors, sel, cons) = s4
  BY DEF GraphJobOf
<1>a. IsJob(EmptyJob) /\ RenamesItsArrays(h, EmptyJob) /\ EmptyJob.arrays = <<>>
  BY DEF IsJob, RenamesItsArrays, EmptyJob, NoArray
<1>b. s0.heap = h /\ s0.job = EmptyJob /\ s0 = [heap |-> s0.heap, job |-> s0.job]
  OBVIOUS
<1> HIDE DEF s0
<1>0. Sound(s0)
  BY <1>a, <1>b DEF Sound
<1>1. Sound(s1) /\ Extends(h, s1.heap, {}) /\ Len(s1.job.arrays) = 1 /\ s1.job.arrays[1] = index
  <2>1. Sound(s1) /\ Extends(s0.heap, s1.heap, {}) /\ s1.job.arrays = Append(<<>>, index)
    BY <1>0, <1>a, <1>b, AddedFacts
  <2> HIDE DEF s1
  <2>2. <<>> \in Seq(Arrays) /\ Len(<<>>) = 0
    OBVIOUS
  <2> QED BY <2>1, <2>2, <1>b, AppendFacts
<1> HIDE DEF s1
<1>2. /\ Sound(s2) /\ Extends(s1.heap, s2.heap, {})
      /\ Len(s2.job.arrays) = 2 /\ s2.job.arrays[1] = index /\ s2.job.arrays[2] = neighbors
  <2>1. /\ Sound(s2) /\ Extends(s1.heap, s2.heap, {})
        /\ s2.job.arrays = Append(s1.job.arrays, neighbors)
    BY <1>1, AddedFacts
  <2> HIDE DEF s2
  <2>2. s1.job.arrays \in Seq(Arrays)
    BY <1>1 DEF Sound, IsJob
  <2> QED BY <1>1, <2>1, <2>2, AppendFacts
<1>3. Extends(h, s2.heap, {})
  BY <1>1, <1>2 DEF Extends, KeepsIds
<1> HIDE DEF s2
<1>4. /\ Sound(s3) /\ Extends(s2.heap, s3.heap, {sel})
      /\ IsChain(s3.job.arrays, index, neighbors, sel, Null)
      /\ sel # Null => s3.heap.dst[sel] = s3.heap.id[index]
  <2>1. CASE sel = Null
    BY <1>2, <2>1 DEF WithSelector, Extends, KeepsIds, IsChain
  <2>2. CASE sel \in Arrays
    <3>1. sel # Null /\ s3 = Linked(Added(s2, sel), sel, index)
      BY <2>2, NullAssumption DEF WithSelector
    <3> DEFINE t == Added(s2, sel)
    <3>2. /\ Sound(t) /\ Extends(s2.heap, t.heap, {})
          /\ t.job.arrays = Append(s2.job.arrays, sel)
      BY <1>2, <2>2, AddedFacts
    <3> HIDE DEF t
    <3>3. IsChain(t.job.arrays, index, neighbors, sel, Null)
      <4>1. s2.job.arrays \in Seq(Arrays)
        BY <1>2 DEF Sound, IsJob
      <4> QED BY <1>2, <2>2, <3>1, <3>2, <4>1, AppendFacts DEF IsChain
    <3> DEFINE u == Linked(t, sel, index)
    <3>4. /\ Sound(u) /\ Extends(t.heap, u.heap, {sel})
          /\ u.job = t.job /\ u.heap.dst[sel] = u.heap.id[index]
      BY <3>2, <2>2, LinkedFacts
    <3>5. s3 = u
      BY <3>1 DEF t
    <3> HIDE DEF u
    <3>6. Extends(s2.heap, u.heap, {sel})
      BY <3>2, <3>4 DEF Extends, KeepsIds
    <3> QED BY <3>3, <3>4, <3>5, <3>6
  <2> QED BY <2>1, <2>2
<1>5. s3.heap.id[index] # Unassigned
  <2>1. s3.job.arrays \in Seq(Arrays)
    BY <1>4 DEF Sound, IsJob
  <2>2. 1 \in DOMAIN s3.job.arrays /\ s3.job.arrays[1] = index
    BY <1>4, <2>1 DEF IsChain
  <2> QED BY <1>4, <2>2 DEF Sound, RenamesItsArrays
<1> HIDE DEF s3
<1>6. /\ Sound(s4) /\ Extends(s3.heap, s4.heap, {neighbors})
      /\ IsChain(s4.job.arrays, index, neighbors, sel, cons)
      /\ cons # Null => s4.heap.dst[neighbors] = s4.heap.id[cons]
  <2>1. CASE cons = Null
    BY <1>4, <2>1 DEF WithConsumer, Extends, KeepsIds
  <2>2. CASE cons \in Arrays
    <3>1. cons # Null /\ s4 = Linked(Added(s3, cons), neighbors, cons)
      BY <2>2, NullAssumption DEF WithConsumer
    <3> DEFINE t == Added(s3, cons)
    <3>2. /\ Sound(t) /\ Extends(s3.heap, t.heap, {})
          /\ t.job.arrays = Append(s3.job.arrays, cons)
      BY <1>4, <2>2, AddedFacts
    <3> HIDE DEF t
    <3>3. IsChain(t.job.arrays, index, neighbors, sel, cons)
      <4>1. s3.job.arrays \in Seq(Arrays)
        BY <1>4 DEF Sound, IsJob
      <4>2. Len(s3.job.arrays) = IF sel = Null THEN 2 ELSE 3
        BY <1>4 DEF IsChain
      <4> QED BY <1>4, <2>2, <3>1, <3>2, <4>1, <4>2, AppendFacts DEF IsChain
    <3> DEFINE u == Linked(t, neighbors, cons)
    <3>4. /\ Sound(u) /\ Extends(t.heap, u.heap, {neighbors})
          /\ u.job = t.job /\ u.heap.dst[neighbors] = u.heap.id[cons]
      BY <3>2, <2>2, LinkedFacts
    <3>5. s4 = u
      BY <3>1 DEF t
    <3> HIDE DEF u
    <3>6. Extends(s3.heap, u.heap, {neighbors})
      BY <3>2, <3>4 DEF Extends, KeepsIds
    <3> QED BY <3>3, <3>4, <3>5, <3>6
  <2> QED BY <2>1, <2>2
<1> HIDE DEF s4
<1>7. Extends(h, s4.heap, {neighbors, sel})
  BY <1>3, <1>4, <1>6 DEF Extends, KeepsIds
<1>8. sel # Null => s4.heap.dst[sel] = s4.heap.id[index]
  BY <1>4, <1>5, <1>6, NullAssumption DEF Extends, KeepsIds
<1>9. cons = Null => s4.heap.dst[neighbors] = h.dst[neighbors]
  <2>1. Extends(h, s3.heap, {sel})
    BY <1>3, <1>4 DEF Extends, KeepsIds
  <2>2. cons = Null => s4 = s3
    BY DEF WithConsumer, s4
  <2> QED BY <2>1, <2>2 DEF Extends
<1> QED BY <1>6, <1>7, <1>8, <1>9, <1>g DEF Built

-----------------------------------------------------------------------------
(* The inductive invariant: that of the jobs above, and the relations of   *)
(* the graphs.                                                             *)

GraphInv == TypeOK /\ RenameInv /\ built \subseteq Graphs /\ IndexReachesNeighbors

(* A graph's arrays are arrays, and no vector is one of them.              *)
LEMMA GraphArrays ==
    ASSUME NEW g \in Graphs, NEW d \in Direction
    PROVE  /\ IndexOf[g][d] \in Arrays /\ NeighborsOf[g][d] \in Arrays
           /\ IndexOf[g][d] \in IndexArrays /\ NeighborsOf[g][d] \in NeighborsArrays
BY GraphAssumption DEF IndexArrays, NeighborsArrays

LEMMA OptionalArrays ==
    ASSUME NEW a \in Optional
    PROVE  a \in Arrays \cup {Null} /\ a \notin IndexArrays /\ a \notin NeighborsArrays
<1>1. IndexArrays \subseteq Arrays /\ NeighborsArrays \subseteq Arrays
  BY GraphAssumption DEF IndexArrays, NeighborsArrays
<1> QED BY <1>1, NullAssumption DEF Optional, Vectors

(* Steps that keep ids, and point index arrays elsewhere only if the       *)
(* application may, keep the relations of the graphs there are.            *)
LEMMA RelationsKept ==
    ASSUME built \subseteq Graphs, IndexReachesNeighbors,
           NEW h, NEW D, Extends(heap, h, D), D \cap IndexArrays \subseteq Relatable
    PROVE  \A g \in built, d \in Direction :
               /\ h.id[NeighborsOf[g][d]] # Unassigned
               /\ h.dst[IndexOf[g][d]] = h.id[NeighborsOf[g][d]] \/ IndexOf[g][d] \in Relatable
<1> SUFFICES ASSUME NEW g \in built, NEW d \in Direction
             PROVE  /\ h.id[NeighborsOf[g][d]] # Unassigned
                    /\ \/ h.dst[IndexOf[g][d]] = h.id[NeighborsOf[g][d]]
                       \/ IndexOf[g][d] \in Relatable
  OBVIOUS
<1>1. /\ IndexOf[g][d] \in Arrays /\ NeighborsOf[g][d] \in Arrays
      /\ IndexOf[g][d] \in D => IndexOf[g][d] \in Relatable
  BY GraphArrays
<1>2. /\ heap.id[NeighborsOf[g][d]] # Unassigned
      /\ \/ heap.dst[IndexOf[g][d]] = heap.id[NeighborsOf[g][d]]
         \/ IndexOf[g][d] \in Relatable
  BY DEF IndexReachesNeighbors
<1> QED BY <1>1, <1>2 DEF Extends, KeepsIds

(* A graph's own relations, and those of the graphs before it.             *)
LEMMA GraphHeapFacts ==
    ASSUME NEW h \in Heap, IdsDistinct(h), DstsExist(h), NEW g \in Graphs
    PROVE  LET k == GraphHeap(h, g) IN
           /\ k \in Heap /\ IdsDistinct(k) /\ DstsExist(k) /\ KeepsIds(h, k)
           /\ Extends(h, k, {IndexOf[g][d] : d \in Direction})
           /\ \A d \in Direction : /\ k.dst[IndexOf[g][d]] = k.id[NeighborsOf[g][d]]
                                   /\ k.id[NeighborsOf[g][d]] # Unassigned
<1> DEFINE ii == IndexOf[g]["in"]
           ni == NeighborsOf[g]["in"]
           io == IndexOf[g]["out"]
           no == NeighborsOf[g]["out"]
           m == IndexedBy(h, ii, ni)
           k == IndexedBy(m, io, no)
<1>1. ii \in Arrays /\ ni \in Arrays /\ io \in Arrays /\ no \in Arrays /\ ii # io
  BY GraphAssumption DEF Direction
<1>2. m \in Heap /\ IdsDistinct(m) /\ DstsExist(m) /\ KeepsIds(h, m)
  BY <1>1, IndexedByFacts
<1>3. Extends(h, m, {ii}) /\ m.dst[ii] = m.id[ni] /\ m.id[ni] # Unassigned
  BY <1>1, IndexedByExtends
<1> HIDE DEF m
<1>4. k \in Heap /\ IdsDistinct(k) /\ DstsExist(k) /\ KeepsIds(m, k)
  BY <1>1, <1>2, IndexedByFacts
<1>5. Extends(m, k, {io}) /\ k.dst[io] = k.id[no] /\ k.id[no] # Unassigned
  BY <1>1, <1>2, IndexedByExtends
<1>6. GraphHeap(h, g) = k
  BY DEF GraphHeap, m
<1> HIDE DEF k
<1>7. KeepsIds(h, k)
  BY <1>2, <1>4 DEF KeepsIds
<1>8. k.dst[ii] = k.id[ni] /\ k.id[ni] # Unassigned
  BY <1>1, <1>3, <1>5 DEF Extends, KeepsIds
<1>9. Extends(h, k, {ii, io})
  BY <1>3, <1>5, <1>7 DEF Extends
<1>10. {IndexOf[g][d] : d \in Direction} = {ii, io}
  BY DEF Direction
<1> HIDE DEF ii, ni, io, no
<1>11. \A d \in Direction : /\ k.dst[IndexOf[g][d]] = k.id[NeighborsOf[g][d]]
                            /\ k.id[NeighborsOf[g][d]] # Unassigned
  BY <1>5, <1>8 DEF Direction, ii, ni, io, no
<1> QED BY <1>4, <1>6, <1>7, <1>9, <1>10, <1>11

LEMMA GraphInitInv == GInit => GraphInv
<1> SUFFICES ASSUME GInit PROVE GraphInv
  OBVIOUS
<1>1. TypeOK /\ RenameInv
  BY InitInv DEF GInit
<1> QED BY <1>1 DEF GInit, GraphInv, IndexReachesNeighbors

LEMMA GraphNextInv == GraphInv /\ [GNext]_gvars => GraphInv'
<1> SUFFICES ASSUME GraphInv, [GNext]_gvars PROVE GraphInv'
  OBVIOUS
<1>h. /\ heap \in Heap /\ IdsDistinct(heap) /\ DstsExist(heap)
      /\ TypeOK /\ RenameInv /\ built \subseteq Graphs /\ IndexReachesNeighbors
  BY DEF GraphInv, TypeOK, RenameInv
<1>r. ASSUME NEW D, Extends(heap, heap', D), D \cap IndexArrays \subseteq Relatable, built' = built
      PROVE  IndexReachesNeighbors'
  BY <1>h, <1>r, RelationsKept DEF IndexReachesNeighbors
<1>1. ASSUME NEW g \in Graphs, ConstructGraph(g) PROVE GraphInv'
  <2>1. heap' = GraphHeap(heap, g) /\ jobs' = jobs /\ built' = built \cup {g} /\ g \notin built
    BY <1>1 DEF ConstructGraph
  <2> DEFINE own == {IndexOf[g][d] : d \in Direction}
  <2>2. /\ heap' \in Heap /\ IdsDistinct(heap') /\ DstsExist(heap') /\ KeepsIds(heap, heap')
        /\ Extends(heap, heap', own)
        /\ \A d \in Direction : /\ heap'.dst[IndexOf[g][d]] = heap'.id[NeighborsOf[g][d]]
                                /\ heap'.id[NeighborsOf[g][d]] # Unassigned
    BY <1>h, <2>1, GraphHeapFacts
  <2>3. \A j \in Jobs : RenamesItsArrays(heap', jobs[j])
    BY <1>h, <2>2, JobsKept
  <2>4. TypeOK' /\ RenameInv'
    BY <1>h, <2>1, <2>2, <2>3 DEF TypeOK, RenameInv
  <2>5. ASSUME NEW f \in built, NEW d \in Direction
        PROVE  /\ heap'.id[NeighborsOf[f][d]] # Unassigned
               /\ \/ heap'.dst[IndexOf[f][d]] = heap'.id[NeighborsOf[f][d]]
                  \/ IndexOf[f][d] \in Relatable
    <3>1. f \in Graphs /\ f # g
      BY <1>h, <2>1
    <3>2. IndexOf[f][d] \notin own
      BY <3>1, GraphAssumption
    <3>3. IndexOf[f][d] \in Arrays \ own /\ NeighborsOf[f][d] \in Arrays
      BY <3>1, <3>2, GraphArrays
    <3>4. /\ heap.id[NeighborsOf[f][d]] # Unassigned
          /\ \/ heap.dst[IndexOf[f][d]] = heap.id[NeighborsOf[f][d]]
             \/ IndexOf[f][d] \in Relatable
      BY <1>h DEF IndexReachesNeighbors
    <3> HIDE DEF own
    <3> QED BY <2>2, <3>3, <3>4 DEF Extends, KeepsIds
  <2>6. IndexReachesNeighbors'
    BY <2>1, <2>2, <2>5 DEF IndexReachesNeighbors
  <2> QED BY <1>h, <2>1, <2>4, <2>6 DEF GraphInv
<1>2. ASSUME NEW j \in Jobs, NEW g \in Graphs, NEW d \in Direction,
             NEW sel \in Optional, NEW cons \in Optional, CreateGraphJob(j, g, d, sel, cons)
      PROVE  GraphInv'
  <2> DEFINE s == GraphJobOf(heap, IndexOf[g][d], NeighborsOf[g][d], sel, cons)
  <2>1. heap' = s.heap /\ jobs' = [jobs EXCEPT ![j] = s.job] /\ built' = built
    BY <1>2 DEF CreateGraphJob
  <2>2. Sound(s) /\ Extends(heap, s.heap, {NeighborsOf[g][d], sel})
    <3>1. sel # NeighborsOf[g][d]
      BY GraphArrays, OptionalArrays
    <3> QED BY <1>h, <3>1, GraphArrays, OptionalArrays, GraphJobFacts DEF Built
  <2> HIDE DEF s
  <2>3. TypeOK' /\ RenameInv'
    BY <1>h, <2>1, <2>2, JobReplaced DEF Sound, Extends
  <2>4. {NeighborsOf[g][d], sel} \cap IndexArrays = {}
    BY GraphAssumption, GraphArrays, OptionalArrays
  <2>5. IndexReachesNeighbors'
    BY <1>r, <2>1, <2>2, <2>4
  <2> QED BY <1>h, <2>1, <2>3, <2>5 DEF GraphInv
<1>3. ASSUME NEW d \in Live, NEW b \in Live, Relate(d, b) PROVE GraphInv'
  <2>1. d \in Arrays /\ b \in Arrays
    BY <1>h, GraphAssumption DEF Live, Vectors
  <2>2. heap' = IndexedBy(heap, d, b) /\ jobs' = jobs /\ built' = built /\ d \in Relatable
    BY <1>3 DEF Relate, SetIndexedBy
  <2>3. Extends(heap, heap', {d})
    BY <1>h, <2>1, <2>2, IndexedByExtends
  <2>4. Next
    BY <1>3, <2>1 DEF Relate, Next
  <2>5. TypeOK' /\ RenameInv'
    BY <1>h, <2>4, NextInv
  <2>6. IndexReachesNeighbors'
    BY <1>r, <2>2, <2>3
  <2> QED BY <1>h, <2>2, <2>5, <2>6 DEF GraphInv
<1>4. ASSUME NEW j \in Jobs, NEW a \in Live, Extend(j, a) PROVE GraphInv'
  <2>1. a \in Arrays
    BY <1>h, GraphAssumption DEF Live, Vectors
  <2>2. heap' = WithId(heap, a) /\ built' = built
    BY <1>4 DEF Extend, AddArrayDescriptor
  <2>3. Extends(heap, heap', {})
    BY <1>h, <2>1, <2>2, WithIdExtends
  <2>4. Next
    BY <1>4, <2>1 DEF Extend, Next
  <2>5. TypeOK' /\ RenameInv'
    BY <1>h, <2>4, NextInv
  <2>6. IndexReachesNeighbors'
    BY <1>r, <2>2, <2>3
  <2> QED BY <1>h, <2>2, <2>5, <2>6 DEF GraphInv
<1>5. CASE UNCHANGED gvars
  BY <1>h, <1>5 DEF gvars, GraphInv, TypeOK, RenameInv, IndexReachesNeighbors
<1> QED BY <1>1, <1>2, <1>3, <1>4, <1>5 DEF GNext

(* However the graphs are constructed and the jobs built, extended and     *)
(* related, the invariant holds (graph.h:170-173, wrapper.h:13-75).        *)
THEOREM GraphInvariant == GSpec => []GraphInv
<1>1. GInit => GraphInv
  BY GraphInitInv
<1>2. GraphInv /\ [GNext]_gvars => GraphInv'
  BY GraphNextInv
<1> QED BY <1>1, <1>2, PTL DEF GSpec

(* Under the wrapper, too, ids are distinct and every job's rename map     *)
(* agrees with its list of arrays (wrapper.h:13-75).                       *)
THEOREM GraphRenamesCorrect == GSpec => []RenameInv
BY GraphInvariant, PTL DEF GraphInv

(* No index array is ever pointed away from its neighbors array but by the *)
(* application, for any number of graphs, vectors and jobs                 *)
(* (graph.h:170-173, wrapper.h:30,38).                                     *)
THEOREM IndexReachesNeighborsCorrect == GSpec => []IndexReachesNeighbors
BY GraphInvariant, PTL DEF GraphInv

-----------------------------------------------------------------------------
(* What the device is told, from the invariant.                            *)

(* A job reads as before in a heap that keeps its arrays' ids and          *)
(* relations.                                                              *)
LEMMA DescriptorKept ==
    ASSUME NEW h, NEW k, NEW D, NEW job, IsJob(job), RenamesItsArrays(h, job),
           Extends(h, k, D), \A n \in DOMAIN job.arrays : job.arrays[n] \notin D
    PROVE  JobDescriptor(k, job) = JobDescriptor(h, job)
<1> DEFINE s == job.arrays
<1>1. \A n \in DOMAIN s : s[n] \in Arrays
  BY DEF IsJob
<1>2. \A n \in DOMAIN s : k.id[s[n]] = h.id[s[n]] /\ k.dst[s[n]] = h.dst[s[n]]
  BY <1>1 DEF RenamesItsArrays, Extends, KeepsIds
<1>3. Throws(k, job) <=> Throws(h, job)
  BY <1>2 DEF Throws
<1>4. \A n \in DOMAIN s : WireRow(k, job, s[n]) = WireRow(h, job, s[n])
  BY <1>2 DEF WireRow, Extends
<1>5. [n \in DOMAIN s |-> WireRow(k, job, s[n])] = [n \in DOMAIN s |-> WireRow(h, job, s[n])]
  BY <1>4
<1> QED BY <1>3, <1>5 DEF JobDescriptor

(* What the wrapper's next job would be, in any reachable state.           *)
LEMMA FreshJobFacts ==
    ASSUME GraphInv, NEW g \in built, NEW d \in Direction,
           NEW sel \in Optional, NEW cons \in Optional
    PROVE  LET s == GraphJobOf(heap, IndexOf[g][d], NeighborsOf[g][d], sel, cons) IN
           /\ Built(heap, s, IndexOf[g][d], NeighborsOf[g][d], sel, cons)
           /\ s.heap.dst[IndexOf[g][d]] = heap.dst[IndexOf[g][d]]
           /\ s.heap.id[NeighborsOf[g][d]] = heap.id[NeighborsOf[g][d]]
<1> DEFINE i == IndexOf[g][d]
           n == NeighborsOf[g][d]
           s == GraphJobOf(heap, i, n, sel, cons)
<1>1. heap \in Heap /\ IdsDistinct(heap) /\ DstsExist(heap) /\ g \in Graphs
  BY DEF GraphInv, TypeOK, RenameInv
<1>2. i \in Arrays /\ n \in Arrays /\ i \in IndexArrays /\ n \in NeighborsArrays
  BY <1>1, GraphArrays
<1>3. sel # n /\ sel # i /\ i # n
  BY <1>2, OptionalArrays, GraphAssumption
<1>4. sel \in Arrays \cup {Null} /\ cons \in Arrays \cup {Null}
  BY OptionalArrays
<1> HIDE DEF i, n
<1>5. Built(heap, s, i, n, sel, cons)
  <2>1. heap \in Heap /\ IdsDistinct(heap) /\ DstsExist(heap)
    BY <1>1
  <2>2. i \in Arrays /\ n \in Arrays /\ sel # n
    BY <1>2, <1>3
  <2> QED BY <2>1, <2>2, <1>4, GraphJobFacts
<1> HIDE DEF s
<1>6. heap.id[n] # Unassigned
  BY DEF GraphInv, IndexReachesNeighbors, n
<1>7. s.heap.dst[i] = heap.dst[i] /\ s.heap.id[n] = heap.id[n]
  BY <1>2, <1>3, <1>5, <1>6 DEF Built, Extends, KeepsIds
<1> QED BY <1>5, <1>7 DEF s, i, n

(* Building a job leaves alone what the device is told about a job that    *)
(* lists neither the neighbors array nor the selector (wrapper.h:30,38).   *)
THEOREM OtherJobsKeptCorrect == GSpec => []OtherJobsKept
<1>1. ASSUME GraphInv PROVE OtherJobsKept
  <2> SUFFICES ASSUME NEW g \in built, NEW d \in Direction,
                      NEW sel \in Optional, NEW cons \in Optional, NEW i \in Jobs,
                      \A k \in DOMAIN jobs[i].arrays :
                          jobs[i].arrays[k] \notin {NeighborsOf[g][d], sel}
               PROVE  LET s == GraphJobOf(heap, IndexOf[g][d], NeighborsOf[g][d], sel, cons)
                      IN  JobDescriptor(s.heap, jobs[i]) = JobDescriptor(heap, jobs[i])
    BY DEF OtherJobsKept
  <2> DEFINE s == GraphJobOf(heap, IndexOf[g][d], NeighborsOf[g][d], sel, cons)
  <2>1. Extends(heap, s.heap, {NeighborsOf[g][d], sel})
    BY <1>1, FreshJobFacts DEF Built
  <2>2. IsJob(jobs[i]) /\ RenamesItsArrays(heap, jobs[i])
    BY <1>1 DEF GraphInv, TypeOK, RenameInv
  <2> HIDE DEF s
  <2>3. JobDescriptor(s.heap, jobs[i]) = JobDescriptor(heap, jobs[i])
    BY <2>1, <2>2, DescriptorKept
  <2> QED BY <2>3 DEF s
<1> QED BY <1>1, GraphInvariant, PTL

-----------------------------------------------------------------------------
(* The fresh job itself.  FreshJob(k, job, i, n, sel, cons) gathers what   *)
(* GraphJobFacts says of it, with i and n the graph's arrays.              *)

FreshJob(k, job, i, n, sel, cons) ==
    /\ k \in Heap /\ IdsDistinct(k) /\ DstsExist(k)
    /\ IsJob(job) /\ RenamesItsArrays(k, job)
    /\ Extends(heap, k, {n, sel})
    /\ IsChain(job.arrays, i, n, sel, cons)
    /\ i \in Arrays /\ n \in Arrays /\ sel \in Arrays \cup {Null} /\ cons \in Arrays \cup {Null}
    /\ i # n /\ sel \notin {i, n} /\ cons \notin {i, n}
    /\ k.dst[i] = heap.dst[i] /\ k.id[n] = heap.id[n]
    /\ sel # Null => k.dst[sel] = k.id[i]
    /\ cons # Null => k.dst[n] = k.id[cons]
    /\ cons = Null => k.dst[n] = heap.dst[n]

LEMMA FreshJobIs ==
    ASSUME GraphInv, NEW g \in built, NEW d \in Direction,
           NEW sel \in Optional, NEW cons \in Optional
    PROVE  LET s == GraphJobOf(heap, IndexOf[g][d], NeighborsOf[g][d], sel, cons) IN
           FreshJob(s.heap, s.job, IndexOf[g][d], NeighborsOf[g][d], sel, cons)
<1> DEFINE s == GraphJobOf(heap, IndexOf[g][d], NeighborsOf[g][d], sel, cons)
<1>1. g \in Graphs
  BY DEF GraphInv
<1>2. /\ IndexOf[g][d] \in Arrays /\ NeighborsOf[g][d] \in Arrays
      /\ IndexOf[g][d] \in IndexArrays /\ NeighborsOf[g][d] \in NeighborsArrays
  BY <1>1, GraphArrays
<1>3. IndexOf[g][d] # NeighborsOf[g][d]
  BY <1>2, GraphAssumption
<1>4. /\ sel \in Arrays \cup {Null} /\ sel \notin {IndexOf[g][d], NeighborsOf[g][d]}
      /\ cons \in Arrays \cup {Null} /\ cons \notin {IndexOf[g][d], NeighborsOf[g][d]}
  BY <1>2, OptionalArrays
<1>5. /\ Built(heap, s, IndexOf[g][d], NeighborsOf[g][d], sel, cons)
      /\ s.heap.dst[IndexOf[g][d]] = heap.dst[IndexOf[g][d]]
      /\ s.heap.id[NeighborsOf[g][d]] = heap.id[NeighborsOf[g][d]]
  BY FreshJobFacts
<1> HIDE DEF s
<1>6. FreshJob(s.heap, s.job, IndexOf[g][d], NeighborsOf[g][d], sel, cons)
  BY <1>2, <1>3, <1>4, <1>5 DEF FreshJob, Built, Sound
<1> QED BY <1>6 DEF s

(* Its arrays, each in its place.                                          *)
LEMMA ChainPlaces ==
    ASSUME NEW k, NEW job, NEW i, NEW n, NEW sel, NEW cons, FreshJob(k, job, i, n, sel, cons)
    PROVE  LET q == job.arrays IN
           /\ \A m \in DOMAIN q : q[m] \in {i, n, sel, cons} \ {Null}
           /\ \A a \in {i, n, sel, cons} \ {Null} : \E m \in DOMAIN q : q[m] = a
           /\ 1 \in DOMAIN q /\ \A m \in DOMAIN q : q[m] = i => m = 1
           /\ 2 \in DOMAIN q /\ \A m \in DOMAIN q : q[m] = n => m = 2
           /\ sel # Null => 3 \in DOMAIN q /\ q[3] = sel
<1> DEFINE q == job.arrays
<1>1. /\ q \in Seq(Arrays) /\ Null \notin Arrays /\ IsChain(q, i, n, sel, cons)
      /\ i \in Arrays /\ n \in Arrays /\ i # n /\ sel \notin {i, n} /\ cons \notin {i, n}
      /\ sel \in Arrays \cup {Null} /\ cons \in Arrays \cup {Null}
  BY NullAssumption DEF FreshJob, IsJob
<1> HIDE DEF q
<1>2. DOMAIN q = 1 .. Len(q) /\ Len(q) \in Nat
  BY <1>1
<1>3. q[1] = i /\ q[2] = n
  BY <1>1 DEF IsChain
<1>4. CASE sel = Null /\ cons = Null
  <2>1. DOMAIN q = 1 .. 2
    BY <1>1, <1>2, <1>4 DEF IsChain
  <2>2. \A m \in 1 .. 2 : m = 1 \/ m = 2
    OBVIOUS
  <2> QED BY <1>1, <1>3, <1>4, <2>1, <2>2 DEF q
<1>5. CASE sel # Null /\ cons = Null
  <2>1. DOMAIN q = 1 .. 3 /\ q[3] = sel
    BY <1>1, <1>2, <1>5 DEF IsChain
  <2>2. \A m \in 1 .. 3 : m = 1 \/ m = 2 \/ m = 3
    OBVIOUS
  <2> QED BY <1>1, <1>3, <1>5, <2>1, <2>2 DEF q
<1>6. CASE sel = Null /\ cons # Null
  <2>1. DOMAIN q = 1 .. 3 /\ q[3] = cons
    BY <1>1, <1>2, <1>6 DEF IsChain
  <2>2. \A m \in 1 .. 3 : m = 1 \/ m = 2 \/ m = 3
    OBVIOUS
  <2> QED BY <1>1, <1>3, <1>6, <2>1, <2>2 DEF q
<1>7. CASE sel # Null /\ cons # Null
  <2>1. DOMAIN q = 1 .. 4 /\ q[3] = sel /\ q[4] = cons
    BY <1>1, <1>2, <1>7 DEF IsChain
  <2>2. \A m \in 1 .. 4 : m = 1 \/ m = 2 \/ m = 3 \/ m = 4
    OBVIOUS
  <2> QED BY <1>1, <1>3, <1>7, <2>1, <2>2 DEF q
<1> QED BY <1>4, <1>5, <1>6, <1>7

(* getJobDescriptor answers if every relation stays inside the job.        *)
LEMMA SendableFacts ==
    ASSUME NEW k, NEW job, NEW S, RenamesItsArrays(k, job),
           \A m \in DOMAIN job.arrays : job.arrays[m] \in S,
           \A a \in S : \E m \in DOMAIN job.arrays : job.arrays[m] = a
    PROVE  JobDescriptor(k, job).ok <=> \A a \in S : StaysIn(k, a, S)
<1>1. DOMAIN job.rename = {NoArray} \cup {k.id[b] : b \in S}
  BY DEF RenamesItsArrays
<1>2. Throws(k, job) <=> \E a \in S : k.dst[a] \notin DOMAIN job.rename
  BY DEF Throws, RenamesItsArrays
<1>3. JobDescriptor(k, job).ok <=> ~ Throws(k, job)
  BY DEF JobDescriptor
<1> QED BY <1>1, <1>2, <1>3 DEF StaysIn

(* An array whose relation is the same in two heaps, one with more ids,    *)
(* stays inside a set in both or in neither.                               *)
LEMMA StaysInKept ==
    ASSUME NEW h \in Heap, NEW k \in Heap, DstsExist(h), IdsDistinct(h), IdsDistinct(k),
           KeepsIds(h, k), NEW a \in Arrays, k.dst[a] = h.dst[a], NEW S \in SUBSET Arrays
    PROVE  StaysIn(h, a, S) <=> StaysIn(k, a, S)
<1>1. CASE h.dst[a] = NoArray
  BY <1>1 DEF StaysIn
<1>2. CASE h.dst[a] # NoArray
  <2>1. PICK c \in Arrays : h.id[c] = h.dst[a] /\ h.dst[a] # Unassigned
    BY <1>2 DEF DstsExist
  <2>2. k.id[c] = h.dst[a]
    BY <2>1 DEF KeepsIds
  <2>3. \A b \in Arrays : h.id[b] = h.dst[a] <=> b = c
    BY <2>1 DEF IdsDistinct
  <2>4. \A b \in Arrays : k.id[b] = h.dst[a] <=> b = c
    BY <2>1, <2>2 DEF IdsDistinct
  <2> QED BY <2>3, <2>4 DEF StaysIn
<1> QED BY <1>1, <1>2

(* What the last array of a fresh job indexes, the wrapper has not set.    *)
LEMMA LastKept ==
    ASSUME NEW k, NEW job, NEW i, NEW n, NEW sel, NEW cons, FreshJob(k, job, i, n, sel, cons)
    PROVE  LET last == IF cons = Null THEN n ELSE cons IN
           last \in Arrays /\ (last # sel => k.dst[last] = heap.dst[last])
<1>1. CASE cons = Null
  BY <1>1 DEF FreshJob
<1>2. CASE cons # Null
  BY <1>2 DEF FreshJob, Extends
<1> QED BY <1>1, <1>2

(* A fresh job can be sent exactly when the two relations the wrapper does *)
(* not set stay inside it, whatever jobs were built before and whatever    *)
(* the application has related (wrapper.h:13-75).                          *)
THEOREM FreshJobSendableCorrect == GSpec => []FreshJobSendable
<1>1. ASSUME GraphInv, NEW g \in built, NEW d \in Direction,
             NEW sel \in Optional, NEW cons \in Optional
      PROVE  LET s == GraphJobOf(heap, IndexOf[g][d], NeighborsOf[g][d], sel, cons)
                 inside == {IndexOf[g][d], NeighborsOf[g][d], sel, cons} \ {Null}
                 last == IF cons = Null THEN NeighborsOf[g][d] ELSE cons
             IN  JobDescriptor(s.heap, s.job).ok
                   <=> /\ StaysIn(heap, IndexOf[g][d], inside)
                       /\ \/ StaysIn(heap, last, inside)
                          \/ cons # Null /\ cons = sel
  <2> DEFINE i == IndexOf[g][d]
             n == NeighborsOf[g][d]
             s == GraphJobOf(heap, i, n, sel, cons)
             k == s.heap
             job == s.job
             inside == {i, n, sel, cons} \ {Null}
             last == IF cons = Null THEN n ELSE cons
  <2>1. FreshJob(k, job, i, n, sel, cons)
    BY <1>1, FreshJobIs
  <2>2. heap \in Heap /\ DstsExist(heap) /\ IdsDistinct(heap)
    BY <1>1 DEF GraphInv, TypeOK, RenameInv
  <2> HIDE DEF i, n, k, job
  <2>3. JobDescriptor(k, job).ok <=> \A a \in inside : StaysIn(k, a, inside)
    <3>1. RenamesItsArrays(k, job)
      BY <2>1 DEF FreshJob
    <3>2. /\ \A m \in DOMAIN job.arrays : job.arrays[m] \in inside
          /\ \A a \in inside : \E m \in DOMAIN job.arrays : job.arrays[m] = a
      BY <2>1, ChainPlaces
    <3> HIDE DEF inside
    <3> QED BY <3>1, <3>2, SendableFacts
  <2>4. last \in Arrays /\ (last # sel => k.dst[last] = heap.dst[last])
    BY <2>1, LastKept
  <2>5. inside \in SUBSET Arrays /\ i \in inside /\ n \in inside
    BY <2>1, NullAssumption DEF FreshJob
  <2>6. sel # Null => StaysIn(k, sel, inside)
    BY <2>1, <2>5 DEF FreshJob, StaysIn
  <2>i. StaysIn(heap, i, inside) <=> StaysIn(k, i, inside)
    BY <2>1, <2>2, <2>5, StaysInKept DEF FreshJob, Extends
  <2>7. cons # Null => StaysIn(k, n, inside)
    BY <2>1 DEF FreshJob, StaysIn
  <2>8. last # sel => (StaysIn(heap, last, inside) <=> StaysIn(k, last, inside))
    BY <2>1, <2>2, <2>4, <2>5, StaysInKept DEF FreshJob, Extends
  <2>9. last \in inside
    BY <2>1, <2>5
  <2>10. (\A a \in inside : StaysIn(k, a, inside))
           <=> StaysIn(k, i, inside) /\ (last = sel \/ StaysIn(k, last, inside))
    <3>1. \A a \in inside : a = i \/ a = n \/ (a = sel /\ sel # Null) \/ (a = cons /\ cons # Null)
      OBVIOUS
    <3>2. last = sel => StaysIn(k, last, inside)
      BY <2>6, <2>9
    <3> QED BY <2>5, <2>6, <2>7, <2>9, <3>1, <3>2
  <2>11. last = sel <=> cons # Null /\ cons = sel
    BY <2>1 DEF FreshJob
  <2>12. JobDescriptor(k, job).ok
            <=> /\ StaysIn(heap, i, inside)
                /\ StaysIn(heap, last, inside) \/ (cons # Null /\ cons = sel)
    BY <2>3, <2>i, <2>8, <2>10, <2>11
  <2> QED BY <2>12 DEF i, n, k, job
<1>2. GraphInv => FreshJobSendable
  BY <1>1 DEF FreshJobSendable
<1> QED BY <1>2, GraphInvariant, PTL

(* The rows of a job are the chain the kernel walks, and it ends if what   *)
(* the wrapper found led nowhere.                                          *)
ReadsAsChain(rows, i, n, sel, cons) ==
    LET last == IF cons = Null THEN n ELSE cons IN
    /\ rows[1].region = i
    /\ heap.dst[i] = heap.id[n] => rows[1].dst = 1
    /\ rows[2].region = n
    /\ cons # Null => rows[rows[2].dst + 1].region = cons
    /\ sel # Null => \E m \in DOMAIN rows : rows[m].region = sel /\ rows[m].dst = 0
    /\ last # sel => \A m \in DOMAIN rows : rows[m].region = last =>
                        (rows[m].dst = NoArray <=> heap.dst[last] = NoArray)

LEMMA FreshRows ==
    ASSUME NEW k, NEW job, NEW i, NEW n, NEW sel, NEW cons, FreshJob(k, job, i, n, sel, cons),
           JobDescriptor(k, job).ok
    PROVE  ReadsAsChain(JobDescriptor(k, job).rows, i, n, sel, cons)
<1> DEFINE q == job.arrays
           rows == JobDescriptor(k, job).rows
           last == IF cons = Null THEN n ELSE cons
<1>1. /\ q \in Seq(Arrays) /\ RenamesItsArrays(k, job)
      /\ (heap.dst[i] = heap.id[n] => k.dst[i] = k.id[n])
      /\ (sel # Null => k.dst[sel] = k.id[i])
      /\ (cons # Null => k.dst[n] = k.id[cons])
  BY DEF FreshJob, IsJob
<1>2. DOMAIN q = 1 .. Len(q) /\ Len(q) \in Nat
  BY <1>1
<1>3. rows = [m \in DOMAIN q |-> WireRow(k, job, q[m])]
  BY DEF JobDescriptor
<1>4. ~ Throws(k, job)
  BY DEF JobDescriptor
<1>5. /\ q[1] = i /\ q[2] = n
      /\ 1 \in DOMAIN q /\ \A m \in DOMAIN q : q[m] = i => m = 1
      /\ 2 \in DOMAIN q /\ \A m \in DOMAIN q : q[m] = n => m = 2
      /\ sel # Null => 3 \in DOMAIN q /\ q[3] = sel
  BY ChainPlaces DEF FreshJob, IsChain
<1>6. \A a \in {i, n, sel, cons} \ {Null} : \E m \in DOMAIN q : q[m] = a
  BY ChainPlaces
<1> HIDE DEF q, rows
<1>7. \A m \in DOMAIN q : rows[m].region = q[m] /\ rows[m].dst = job.rename[k.dst[q[m]]]
  BY <1>3 DEF WireRow
<1>8. ASSUME NEW m \in DOMAIN q
      PROVE  LET r == job.rename[k.id[q[m]]] IN r + 1 \in DOMAIN q /\ q[r + 1] = q[m] /\ r \in Nat
  <2>1. LET r == job.rename[k.id[q[m]]] IN r \in m - 1 .. Len(q) - 1 /\ q[r + 1] = q[m]
    BY <1>1 DEF RenamesItsArrays, q
  <2> QED BY <2>1, <1>2
<1>9. heap.dst[i] = heap.id[n] => rows[1].dst = 1
  <2> SUFFICES ASSUME heap.dst[i] = heap.id[n] PROVE rows[1].dst = 1
    OBVIOUS
  <2>1. rows[1].dst = job.rename[k.id[q[2]]]
    BY <1>1, <1>5, <1>7
  <2> QED BY <2>1, <1>5, <1>8
<1>10. cons # Null => rows[rows[2].dst + 1].region = cons
  <2> SUFFICES ASSUME cons # Null PROVE rows[rows[2].dst + 1].region = cons
    OBVIOUS
  <2>1. PICK m \in DOMAIN q : q[m] = cons
    BY <1>6
  <2>2. rows[2].dst = job.rename[k.id[q[m]]]
    BY <1>1, <1>5, <1>7, <2>1
  <2> QED BY <2>1, <2>2, <1>7, <1>8
<1>11. sel # Null => 3 \in DOMAIN rows /\ rows[3].region = sel /\ rows[3].dst = 0
  <2> SUFFICES ASSUME sel # Null PROVE 3 \in DOMAIN rows /\ rows[3].region = sel /\ rows[3].dst = 0
    OBVIOUS
  <2>1. rows[3].dst = job.rename[k.id[q[1]]] /\ rows[3].region = sel
    BY <1>1, <1>5, <1>7
  <2>2. rows[3].dst \in Nat /\ rows[3].dst + 1 = 1
    BY <2>1, <1>5, <1>8
  <2> QED BY <2>1, <2>2, <1>3, <1>5
<1>12. ASSUME last # sel, NEW m \in DOMAIN rows, rows[m].region = last
       PROVE  rows[m].dst = NoArray <=> heap.dst[last] = NoArray
  <2>1. k.dst[last] = heap.dst[last]
    BY <1>12, LastKept
  <2>2. m \in DOMAIN q /\ q[m] = last /\ rows[m].dst = job.rename[k.dst[last]]
    BY <1>3, <1>7, <1>12
  <2>3. job.rename[NoArray] = NoArray
    BY <1>1 DEF RenamesItsArrays
  <2>4. CASE k.dst[last] # NoArray
    <3>1. k.dst[last] \in DOMAIN job.rename
      BY <1>4, <2>2 DEF Throws, q
    <3>2. PICK l \in DOMAIN q : k.id[q[l]] = k.dst[last]
      BY <1>1, <2>4, <3>1 DEF RenamesItsArrays, q
    <3>3. rows[m].dst \in Nat
      BY <1>8, <2>2, <3>2
    <3> QED BY <2>1, <2>4, <3>3 DEF NoArray
  <2> QED BY <2>1, <2>2, <2>3, <2>4
<1> QED BY <1>5, <1>7, <1>9, <1>10, <1>11, <1>12 DEF rows, ReadsAsChain

(* A fresh job the device can be sent reads as index array, neighbors,     *)
(* consumer, with the selector leading to the index array, and goes on     *)
(* beyond its last array only where it did before (wrapper.h:13-75).       *)
THEOREM FreshJobIsChainCorrect == GSpec => []FreshJobIsChain
<1>1. ASSUME GraphInv PROVE FreshJobIsChain
  <2> SUFFICES ASSUME NEW g \in built, NEW d \in Direction,
                      NEW sel \in Optional, NEW cons \in Optional
               PROVE  LET s == GraphJobOf(heap, IndexOf[g][d], NeighborsOf[g][d], sel, cons)
                          w == JobDescriptor(s.heap, s.job)
                      IN  w.ok => ReadsAsChain(w.rows, IndexOf[g][d], NeighborsOf[g][d], sel, cons)
    BY DEF FreshJobIsChain, ReadsAsChain
  <2> DEFINE i == IndexOf[g][d]
             n == NeighborsOf[g][d]
             s == GraphJobOf(heap, i, n, sel, cons)
             k == s.heap
             job == s.job
  <2>1. FreshJob(k, job, i, n, sel, cons)
    BY <1>1, FreshJobIs
  <2> HIDE DEF i, n, k, job
  <2>2. JobDescriptor(k, job).ok => ReadsAsChain(JobDescriptor(k, job).rows, i, n, sel, cons)
    BY <2>1, FreshRows
  <2> QED BY <2>2 DEF i, n, k, job
<1> QED BY <1>1, GraphInvariant, PTL
=============================================================================
