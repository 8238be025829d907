-------------------------- MODULE SlidingQueueProofs --------------------------
(***************************************************************************)
(* Theorems about SlidingQueue, for any threads, elements and sizes.  What *)
(* is in the array and what waits in buffers is counted by sets: every     *)
(* element that was appended is held by one thread or has a cell.          *)
(***************************************************************************)
EXTENDS SlidingQueue, FiniteSetTheorems, TLAPS

(* The elements whose cells have been claimed.                             *)
Published == appended \ UNION {Held[t] : t \in Threads}

(* The state of a buffer agrees with where its thread is.                  *)
BufferState ==
    \A t \in Threads :
        /\ claim[t] \in {-1} \cup Nat
        /\ region[t] # "in" => claim[t] = -1 /\ local_queue[t] = <<>>
        /\ claim[t] = -1 => pending[t] = None /\ copied[t] = 0
        /\ copied[t] =< Len(local_queue[t]) /\ Len(local_queue[t]) =< LocalSize

(* No element is in two places.                                            *)
BuffersApart ==
    /\ \A t \in Threads :
          /\ Held[t] \subseteq appended
          /\ claim[t] # -1 => Buffered(t) \subseteq Published
          /\ \A i, k \in DOMAIN local_queue[t] : local_queue[t][i] = local_queue[t][k] => i = k
    /\ \A t, u \in Threads : t # u => Held[t] \cap Held[u] = {}

Counted == shared_in = Cardinality(Published)

Landed(i) == \A t \in Threads : i \notin InFlight(t)

(* The cells hold what was published, but for what is yet to be copied.    *)
Landing ==
    /\ \A i \in 0 .. shared_in - 1 : Landed(i) => shared[i] \in Published
    /\ \A e \in Published :
          \/ \E i \in 0 .. shared_in - 1 : Landed(i) /\ shared[i] = e
          \/ \E t \in Threads : e \in Uncopied(t)

QInv == QTypeOK /\ BufferState /\ ClaimsApart /\ BuffersApart /\ Counted /\ Landing

-----------------------------------------------------------------------------
(* A list without repetitions has as many elements as it is long.          *)
LEMMA ListCount ==
    ASSUME NEW q \in Seq(Elements), \A i, k \in DOMAIN q : q[i] = q[k] => i = k
    PROVE  LET S == {q[i] : i \in DOMAIN q} IN
           IsFiniteSet(S) /\ Cardinality(S) = Len(q)
<1> DEFINE S == {q[i] : i \in DOMAIN q}
<1>1. DOMAIN q = 1 .. Len(q) /\ Len(q) \in Nat
  OBVIOUS
<1>2. q \in [1 .. Len(q) -> S]
  BY <1>1
<1>3. q \in Bijection(1 .. Len(q), S)
  <2>1. IsInjective(q)
    BY <1>1 DEF IsInjective
  <2>2. \A s \in S : \E i \in 1 .. Len(q) : q[i] = s
    BY <1>1
  <2> QED BY <1>2, <2>1, <2>2 DEF Bijection, Injection, Surjection
<1>4. ExistsBijection(1 .. Len(q), S)
  BY <1>3 DEF ExistsBijection
<1> HIDE DEF S
<1>5. Cardinality(S) = Len(q)
  BY <1>1, <1>4, FS_CountingElements
<1>6. IsFiniteSet(S)
  BY <1>1, <1>4, FS_NatBijection
<1> QED BY <1>5, <1>6 DEF S

(* Counting stops at alloc_size.                                           *)
LEMMA Bounded ==
    ASSUME NEW S \in SUBSET Elements
    PROVE  IsFiniteSet(S) /\ Cardinality(S) \in Nat /\ Cardinality(S) =< AllocSize
<1>1. IsFiniteSet(S) /\ Cardinality(S) =< Cardinality(Elements)
  BY ElementsAssumption, FS_Subset
<1>2. Cardinality(S) \in Nat /\ Cardinality(Elements) \in Nat
  BY <1>1, ElementsAssumption, FS_CardinalityType
<1> QED BY <1>1, <1>2, ElementsAssumption, SizesAssumption

LEMMA SetFacts ==
    ASSUME QInv
    PROVE  /\ Published \subseteq Elements /\ Published \subseteq appended
           /\ shared_in \in 0 .. AllocSize
           /\ \A t \in Threads : InFlight(t) \subseteq Claimed(t)
           /\ \A t \in Threads : Claimed(t) \subseteq 0 .. AllocSize - 1
<1>1. Published \subseteq Elements /\ Published \subseteq appended
  BY DEF QInv, QTypeOK, Published
<1>2. shared_in \in 0 .. AllocSize
  BY <1>1, Bounded, SizesAssumption DEF QInv, Counted
<1>3. ASSUME NEW t \in Threads PROVE InFlight(t) \subseteq Claimed(t)
  <2>1. claim[t] \in Int /\ copied[t] \in Nat /\ Len(local_queue[t]) \in Nat
    BY DEF QInv, QTypeOK
  <2> QED BY <2>1 DEF InFlight, Claimed
<1>4. ASSUME NEW t \in Threads PROVE Claimed(t) \subseteq 0 .. AllocSize - 1
  <2>1. Claimed(t) \subseteq shared_out_end .. shared_in - 1 /\ shared_out_end \in Nat
    BY DEF QInv, ClaimsApart, QTypeOK
  <2> QED BY <1>2, <2>1, SizesAssumption
<1> QED BY <1>1, <1>2, <1>3, <1>4

(* Between regions every buffer is empty, and all is published.            *)
LEMMA SerialFacts ==
    ASSUME QInv, Serial
    PROVE  /\ \A t \in Threads : /\ claim[t] = -1 /\ local_queue[t] = <<>>
                                 /\ Held[t] = {} /\ Claimed(t) = {} /\ InFlight(t) = {}
                                 /\ Uncopied(t) = {}
           /\ Published = appended
<1>1. \A t \in Threads : claim[t] = -1 /\ local_queue[t] = <<>>
  BY DEF QInv, BufferState, Serial
<1>2. \A t \in Threads : Held[t] = {} /\ Claimed(t) = {} /\ InFlight(t) = {} /\ Uncopied(t) = {}
  BY <1>1 DEF Held, Buffered, Claimed, InFlight, Uncopied
<1> QED BY <1>1, <1>2 DEF Published

-----------------------------------------------------------------------------
LEMMA InitQInv == Init => QInv
<1> SUFFICES ASSUME Init PROVE QInv
  OBVIOUS
<1>1. QTypeOK
  BY DEF Init, QTypeOK, Cells
<1>2. BufferState
  BY SizesAssumption DEF Init, BufferState
<1>3. ClaimsApart
  BY DEF Init, ClaimsApart, Claimed
<1>4. \A t \in Threads : Held[t] = {}
  BY DEF Init, Held, Buffered
<1>5. Published = {}
  BY DEF Init, Published
<1>6. BuffersApart
  BY <1>4 DEF Init, BuffersApart
<1>7. Counted
  BY <1>5, FS_EmptySet DEF Init, Counted
<1>8. Landing
  BY <1>5 DEF Init, Landing
<1> QED BY <1>1, <1>2, <1>3, <1>6, <1>7, <1>8 DEF QInv

LEMMA PushBackInv == ASSUME QInv, NEW e \in Elements, PushBack(e) PROVE QInv'
<1>q. QTypeOK /\ BufferState /\ ClaimsApart /\ BuffersApart /\ Counted /\ Landing
  BY DEF QInv
<1>0. /\ e \notin appended /\ appended' = appended \cup {e} /\ Serial
      /\ shared' = [shared EXCEPT ![shared_in] = e] /\ shared_in' = shared_in + 1
      /\ UNCHANGED <<shared_out_start, shared_out_end, local_queue, claim, copied, pending, region>>
  BY DEF PushBack, buffers
<1>1. /\ \A t \in Threads : /\ claim[t] = -1 /\ Held[t] = {} /\ Claimed(t) = {} /\ InFlight(t) = {}
      /\ Published = appended
  BY <1>0, SerialFacts
<1>2. \A t \in Threads : Held'[t] = {} /\ Claimed(t)' = {} /\ InFlight(t)' = {}
  BY <1>0, <1>1 DEF Held, Buffered, Claimed, InFlight
<1>3. Published' = Published \cup {e}
  BY <1>0, <1>1, <1>2 DEF Published
<1>4. shared_in \in 0 .. AllocSize - 1
  <2>1. appended \cup {e} \in SUBSET Elements /\ appended \in SUBSET Elements
    BY <1>q DEF QTypeOK
  <2>2. Cardinality(appended \cup {e}) = shared_in + 1
    BY <1>0, <1>1, <1>q, <2>1, Bounded, FS_AddElement DEF Counted
  <2>3. shared_in + 1 =< AllocSize /\ shared_in \in Nat
    BY <1>q, <2>1, <2>2, Bounded DEF QTypeOK
  <2> QED BY <2>3, SizesAssumption
<1>5. QTypeOK'
  BY <1>q, <1>0, <1>4 DEF QTypeOK, Cells
<1>6. BufferState'
  BY <1>q, <1>0 DEF BufferState
<1>7. ClaimsApart'
  BY <1>q, <1>0, <1>2 DEF ClaimsApart, QTypeOK
<1>8. BuffersApart'
  BY <1>q, <1>0, <1>1, <1>2 DEF BuffersApart
<1>9. Counted'
  <2>1. appended \in SUBSET Elements
    BY <1>q DEF QTypeOK
  <2> QED BY <1>0, <1>1, <1>3, <1>q, <2>1, Bounded, FS_AddElement DEF Counted
<1>10. Landing'
  <2>1. /\ \A i \in 0 .. shared_in - 1 : shared'[i] = shared[i]
        /\ shared'[shared_in] = e
        /\ 0 .. shared_in' - 1 = (0 .. shared_in - 1) \cup {shared_in}
    BY <1>q, <1>0, <1>4 DEF QTypeOK, Cells
  <2>2. /\ \A i : Landed(i) /\ Landed(i)'
        /\ \A t \in Threads : Uncopied(t) = {}
    BY <1>0, <1>1, <1>2, SerialFacts DEF Landed
  <2> QED BY <1>q, <1>3, <2>1, <2>2 DEF Landing
<1> QED BY <1>5, <1>6, <1>7, <1>8, <1>9, <1>10 DEF QInv

(* slide_window and the barriers move nothing.                             *)
LEMMA UnmovedInv ==
    ASSUME QInv, Serial, UNCHANGED <<shared, shared_in, claim, copied, pending, appended>>,
           \A t \in Threads : local_queue'[t] = local_queue[t],
           local_queue' \in [Threads -> Seq(Elements)],
           region' \in [Threads -> {"out", "in", "done"}],
           shared_out_start' \in Nat, shared_out_end' \in Nat,
           shared_out_start' =< shared_out_end', shared_out_end' =< shared_in
    PROVE  QInv'
<1>q. QTypeOK /\ BufferState /\ ClaimsApart /\ BuffersApart /\ Counted /\ Landing
  BY DEF QInv
<1>1. \A t \in Threads : claim[t] = -1 /\ Claimed(t)' = {}
  BY SerialFacts DEF Claimed
<1>2. \A t \in Threads : /\ Held'[t] = Held[t] /\ InFlight(t)' = InFlight(t)
                         /\ Uncopied(t)' = Uncopied(t) /\ Buffered(t)' = Buffered(t)
  BY DEF Held, InFlight, Uncopied, Buffered
<1>3. Published' = Published
  BY <1>2 DEF Published
<1>4. QTypeOK'
  BY <1>q DEF QTypeOK
<1>5. BufferState'
  BY <1>q, SerialFacts DEF BufferState
<1>6. ClaimsApart'
  BY <1>1 DEF ClaimsApart
<1>7. BuffersApart'
  BY <1>q, <1>2, <1>3 DEF BuffersApart
<1>8. Counted'
  BY <1>q, <1>3 DEF Counted
<1>9. Landing'
  BY <1>q, <1>2, <1>3 DEF Landing, Landed
<1> QED BY <1>4, <1>5, <1>6, <1>7, <1>8, <1>9 DEF QInv

LEMMA BetweenRegionsInv ==
    ASSUME QInv, SlideWindow \/ BeginRegion \/ EndRegion PROVE QInv'
<1>q. QTypeOK /\ ClaimsApart
  BY DEF QInv
<1>1. CASE SlideWindow
  BY <1>q, <1>1, UnmovedInv DEF SlideWindow, buffers, QTypeOK, ClaimsApart
<1>2. CASE BeginRegion
  <2>1. \A t \in Threads : local_queue'[t] = local_queue[t]
    BY <1>2, SerialFacts DEF BeginRegion
  <2>2. local_queue' \in [Threads -> Seq(Elements)]
    BY <1>2 DEF BeginRegion
  <2>3. region' \in [Threads -> {"out", "in", "done"}]
    BY <1>2 DEF BeginRegion
  <2> QED BY <1>q, <1>2, <2>1, <2>2, <2>3, UnmovedInv DEF BeginRegion, queue, QTypeOK, ClaimsApart
<1>3. CASE EndRegion
  <2>1. \A t \in Threads : region[t] = "done" /\ region'[t] = "out"
    BY <1>3 DEF EndRegion
  <2>2. UNCHANGED <<shared, shared_in, shared_out_start, shared_out_end, local_queue,
                    claim, copied, pending, appended>>
    BY <1>3 DEF EndRegion, queue, buffers
  <2>3. QTypeOK'
    BY <1>q, <1>3, <2>2 DEF QTypeOK, EndRegion
  <2>4. BufferState'
    BY <2>1, <2>2 DEF QInv, BufferState
  <2>5. /\ \A t \in Threads : Claimed(t)' = Claimed(t) /\ InFlight(t)' = InFlight(t)
                              /\ Uncopied(t)' = Uncopied(t) /\ Buffered(t)' = Buffered(t)
        /\ Held' = Held /\ Published' = Published
    BY <2>2 DEF Held, InFlight, Uncopied, Buffered, Claimed, Published
  <2> QED BY <2>2, <2>3, <2>4, <2>5 DEF QInv, ClaimsApart, BuffersApart, Counted, Landing, Landed
<1> QED BY <1>1, <1>2, <1>3

LEMMA ResetInv == ASSUME QInv, Reset PROVE QInv'
<1>q. QTypeOK /\ BufferState /\ BuffersApart
  BY DEF QInv
<1>0. /\ Serial /\ appended' = {} /\ shared_in' = 0 /\ shared_out_start' = 0 /\ shared_out_end' = 0
      /\ UNCHANGED <<shared, local_queue, claim, copied, pending, region>>
  BY DEF Reset, buffers
<1>1. \A t \in Threads : claim[t] = -1 /\ Held[t] = {} /\ Claimed(t) = {}
  BY <1>0, SerialFacts
<1>2. /\ \A t \in Threads : Held'[t] = {} /\ Claimed(t)' = {}
      /\ Published' = {}
  BY <1>0, <1>1 DEF Held, Buffered, Claimed, Published
<1>3. QTypeOK' /\ BufferState'
  BY <1>q, <1>0 DEF QTypeOK, BufferState
<1>4. ClaimsApart'
  BY <1>0, <1>2 DEF ClaimsApart
<1>5. BuffersApart'
  BY <1>q, <1>0, <1>1, <1>2 DEF BuffersApart
<1>6. Counted'
  BY <1>0, <1>2, FS_EmptySet DEF Counted
<1>7. Landing'
  BY <1>0, <1>2 DEF Landing
<1> QED BY <1>3, <1>4, <1>5, <1>6, <1>7 DEF QInv

(* Steps of a thread that touch neither the array nor a claim.             *)
LEMMA BufferPushBackInv ==
    ASSUME QInv, NEW t \in Threads, NEW e \in Elements, BufferPushBack(t, e) PROVE QInv'
<1>q. QTypeOK /\ BufferState /\ ClaimsApart /\ BuffersApart /\ Counted /\ Landing
  BY DEF QInv
<1>0. /\ region[t] = "in" /\ claim[t] = -1 /\ e \notin appended /\ Len(local_queue[t]) < LocalSize
      /\ local_queue' = [local_queue EXCEPT ![t] = Append(local_queue[t], e)]
      /\ appended' = appended \cup {e}
      /\ UNCHANGED <<shared, shared_in, shared_out_start, shared_out_end, claim, copied, pending, region>>
  BY DEF BufferPushBack, Running, queue
<1>1. local_queue[t] \in Seq(Elements) /\ Len(local_queue[t]) \in Nat /\ copied[t] \in Nat
  BY <1>q DEF QTypeOK
<1>2. /\ local_queue'[t] = Append(local_queue[t], e)
      /\ \A u \in Threads \ {t} : local_queue'[u] = local_queue[u]
      /\ local_queue' \in [Threads -> Seq(Elements)]
  BY <1>q, <1>0, <1>1 DEF QTypeOK
<1>3. /\ Len(local_queue'[t]) = Len(local_queue[t]) + 1
      /\ DOMAIN local_queue'[t] = DOMAIN local_queue[t] \cup {Len(local_queue[t]) + 1}
      /\ \A i \in DOMAIN local_queue[t] : local_queue'[t][i] = local_queue[t][i]
      /\ local_queue'[t][Len(local_queue[t]) + 1] = e
  BY <1>1, <1>2
<1>4. Buffered(t)' = Buffered(t) \cup {e} /\ \A u \in Threads \ {t} : Buffered(u)' = Buffered(u)
  BY <1>2, <1>3 DEF Buffered
<1>5. \A u \in Threads : /\ Claimed(u)' = Claimed(u) /\ InFlight(u)' = InFlight(u)
                         /\ Uncopied(u)' = Uncopied(u)
  BY <1>0, <1>2 DEF Claimed, InFlight, Uncopied
<1>6. /\ Held[t] = Buffered(t) /\ Held'[t] = Held[t] \cup {e}
      /\ \A u \in Threads \ {t} : Held'[u] = Held[u]
  BY <1>0, <1>2, <1>4 DEF Held
<1>7. Published' = Published
  BY <1>0, <1>6 DEF Published
<1>8. QTypeOK'
  BY <1>q, <1>0, <1>2 DEF QTypeOK
<1>9. BufferState'
  BY <1>q, <1>0, <1>1, <1>2, <1>3, SizesAssumption DEF BufferState
<1>10. ClaimsApart'
  BY <1>q, <1>0, <1>5 DEF ClaimsApart
<1>11. BuffersApart'
  <2>1. \A u \in Threads : Held'[u] \subseteq appended'
    BY <1>q, <1>0, <1>6 DEF BuffersApart
  <2>2. \A u \in Threads : claim'[u] # -1 => Buffered(u)' \subseteq Published'
    BY <1>q, <1>0, <1>4, <1>7 DEF BuffersApart
  <2>3. e \notin Buffered(t)
    BY <1>q, <1>0, <1>6 DEF BuffersApart
  <2>4. \A i, k \in DOMAIN local_queue'[t] : local_queue'[t][i] = local_queue'[t][k] => i = k
    BY <1>q, <1>3, <2>3 DEF BuffersApart, Buffered
  <2>5. \A u \in Threads \ {t} : \A i, k \in DOMAIN local_queue'[u] :
            local_queue'[u][i] = local_queue'[u][k] => i = k
    BY <1>q, <1>2 DEF BuffersApart
  <2>6. \A u, v \in Threads : u # v => Held'[u] \cap Held'[v] = {}
    BY <1>q, <1>0, <1>6 DEF BuffersApart
  <2> QED BY <2>1, <2>2, <2>4, <2>5, <2>6 DEF BuffersApart
<1>12. Counted'
  BY <1>q, <1>0, <1>7 DEF Counted
<1>13. Landing'
  BY <1>q, <1>0, <1>5, <1>7 DEF Landing, Landed
<1> QED BY <1>8, <1>9, <1>10, <1>11, <1>12, <1>13 DEF QInv

LEMMA LeaveRegionInv == ASSUME QInv, NEW t \in Threads, LeaveRegion(t) PROVE QInv'
<1>q. QTypeOK /\ BufferState
  BY DEF QInv
<1>1. /\ UNCHANGED <<shared, shared_in, shared_out_start, shared_out_end, local_queue,
                     claim, copied, pending, appended>>
      /\ claim[t] = -1 /\ local_queue[t] = <<>> /\ region' = [region EXCEPT ![t] = "done"]
  BY DEF LeaveRegion, Running, queue, buffers
<1>2. QTypeOK'
  BY <1>q, <1>1 DEF QTypeOK
<1>3. BufferState'
  BY <1>q, <1>1 DEF BufferState, QTypeOK
<1>4. /\ \A u \in Threads : Claimed(u)' = Claimed(u) /\ InFlight(u)' = InFlight(u)
                            /\ Uncopied(u)' = Uncopied(u) /\ Buffered(u)' = Buffered(u)
      /\ Held' = Held /\ Published' = Published
  BY <1>1 DEF Held, InFlight, Uncopied, Buffered, Claimed, Published
<1> QED BY <1>1, <1>2, <1>3, <1>4 DEF QInv, ClaimsApart, BuffersApart, Counted, Landing, Landed

(* A flush begins: the buffer is published in the step that claims cells   *)
(* for it, and the element that waits, if any, is held in its place.       *)
ClaimStep(t, new) ==
    /\ Running(t) /\ local_queue[t] # <<>> /\ Claim(t)
    /\ new \notin appended
    /\ pending' = [pending EXCEPT ![t] = new]
    /\ appended' = appended \cup ({new} \ {None})
    /\ UNCHANGED <<shared, shared_out_start, shared_out_end, local_queue, copied, region>>

LEMMA ClaimFacts ==
    ASSUME QInv, NEW t \in Threads, NEW new \in Elements \cup {None}, ClaimStep(t, new)
    PROVE  /\ Held[t] = Buffered(t) /\ Held'[t] = {new} \ {None}
           /\ \A u \in Threads \ {t} : Held'[u] = Held[u]
           /\ Published' = Published \cup Buffered(t) /\ Published \cap Buffered(t) = {}
           /\ Claimed(t) = {} /\ InFlight(t) = {} /\ Uncopied(t) = {}
           /\ Claimed(t)' = shared_in .. shared_in' - 1 /\ InFlight(t)' = Claimed(t)'
           /\ Uncopied(t)' = Buffered(t)
           /\ \A u \in Threads \ {t} : /\ Claimed(u)' = Claimed(u) /\ InFlight(u)' = InFlight(u)
                                       /\ Uncopied(u)' = Uncopied(u)
           /\ \A u \in Threads : Buffered(u)' = Buffered(u)
           /\ shared_in' = shared_in + Len(local_queue[t])
           /\ shared_in \in Nat /\ Len(local_queue[t]) \in Nat \ {0}
<1>q. QTypeOK /\ BufferState /\ BuffersApart
  BY DEF QInv
<1>1. claim[t] = -1 /\ copied[t] = 0 /\ local_queue[t] \in Seq(Elements)
  BY <1>q DEF ClaimStep, Running, BufferState, QTypeOK
<1>2. /\ claim'[t] = shared_in /\ \A u \in Threads \ {t} : claim'[u] = claim[u]
      /\ pending'[t] = new /\ \A u \in Threads \ {t} : pending'[u] = pending[u]
      /\ shared_in' = shared_in + Len(local_queue[t]) /\ local_queue' = local_queue
      /\ copied' = copied /\ appended' = appended \cup ({new} \ {None}) /\ new \notin appended
  BY <1>q DEF ClaimStep, Claim, QTypeOK
<1>3. shared_in \in Nat /\ Len(local_queue[t]) \in Nat \ {0} /\ shared_in # -1
  BY <1>q, <1>1 DEF ClaimStep, QTypeOK
<1>4. \A u \in Threads : Buffered(u)' = Buffered(u)
  BY <1>2 DEF Buffered
<1>5. Held[t] = Buffered(t) /\ Held'[t] = {new} \ {None} /\ \A u \in Threads \ {t} : Held'[u] = Held[u]
  BY <1>1, <1>2, <1>3, <1>4 DEF Held
<1>6. Published' = Published \cup Buffered(t) /\ Published \cap Buffered(t) = {}
  <2>1. Buffered(t) \subseteq appended /\ \A u \in Threads \ {t} : Buffered(t) \cap Held[u] = {}
    BY <1>q, <1>5 DEF BuffersApart
  <2>2. \A x : x \in Published <=> x \in appended /\ \A u \in Threads : x \notin Held[u]
    BY DEF Published
  <2>3. \A x : x \in Published' <=> x \in appended' /\ \A u \in Threads : x \notin Held'[u]
    BY DEF Published
  <2>4. ASSUME NEW x PROVE x \in Published' <=> x \in Published \/ x \in Buffered(t)
    BY <1>2, <1>5, <2>1, <2>2, <2>3
  <2> QED BY <1>5, <2>2, <2>4
<1>7. Claimed(t) = {} /\ InFlight(t) = {} /\ Uncopied(t) = {}
  BY <1>1 DEF Claimed, InFlight, Uncopied
<1>8. Claimed(t)' = shared_in .. shared_in' - 1
  BY <1>2, <1>3 DEF Claimed
<1>9. InFlight(t)' = Claimed(t)'
  BY <1>1, <1>2, <1>3 DEF Claimed, InFlight
<1>10. Uncopied(t)' = Buffered(t)
  <2>1. DOMAIN local_queue[t] = 0 + 1 .. Len(local_queue[t])
    BY <1>1
  <2> QED BY <1>1, <1>2, <1>3, <2>1 DEF Uncopied, Buffered
<1>11. \A u \in Threads \ {t} : /\ Claimed(u)' = Claimed(u) /\ InFlight(u)' = InFlight(u)
                                /\ Uncopied(u)' = Uncopied(u)
  BY <1>2 DEF Claimed, InFlight, Uncopied
<1> QED BY <1>2, <1>3, <1>4, <1>5, <1>6, <1>7, <1>8, <1>9, <1>10, <1>11

LEMMA ClaimInv ==
    ASSUME QInv, NEW t \in Threads, NEW new \in Elements \cup {None}, ClaimStep(t, new)
    PROVE  QInv'
<1>q. QTypeOK /\ BufferState /\ ClaimsApart /\ BuffersApart /\ Counted /\ Landing
  BY DEF QInv
<1>0. /\ claim' = [claim EXCEPT ![t] = shared_in] /\ pending' = [pending EXCEPT ![t] = new]
      /\ region[t] = "in" /\ appended' = appended \cup ({new} \ {None}) /\ new \notin appended
      /\ UNCHANGED <<shared, shared_out_start, shared_out_end, local_queue, copied, region>>
  BY DEF ClaimStep, Claim, Running
<1>f. /\ Held[t] = Buffered(t) /\ Held'[t] = {new} \ {None}
      /\ \A u \in Threads \ {t} : Held'[u] = Held[u]
      /\ Published' = Published \cup Buffered(t) /\ Published \cap Buffered(t) = {}
      /\ Claimed(t) = {} /\ InFlight(t) = {} /\ Uncopied(t) = {}
      /\ Claimed(t)' = shared_in .. shared_in' - 1 /\ InFlight(t)' = Claimed(t)'
      /\ Uncopied(t)' = Buffered(t)
      /\ \A u \in Threads \ {t} : /\ Claimed(u)' = Claimed(u) /\ InFlight(u)' = InFlight(u)
                                  /\ Uncopied(u)' = Uncopied(u)
      /\ \A u \in Threads : Buffered(u)' = Buffered(u)
      /\ shared_in' = shared_in + Len(local_queue[t])
      /\ shared_in \in Nat /\ Len(local_queue[t]) \in Nat \ {0}
  BY ClaimFacts
<1>1. QTypeOK'
  BY <1>q, <1>0, <1>f DEF QTypeOK
<1>2. BufferState'
  BY <1>q, <1>0, <1>f DEF BufferState, QTypeOK
<1>3. ClaimsApart'
  <2>1. shared_out_start' =< shared_out_end' /\ shared_out_end' =< shared_in'
    BY <1>q, <1>0, <1>f DEF ClaimsApart, QTypeOK
  <2>2. ASSUME NEW u \in Threads PROVE Claimed(u)' \subseteq shared_out_end .. shared_in' - 1
    <3>1. shared_out_end =< shared_in /\ shared_out_end \in Nat
      BY <1>q DEF ClaimsApart, QTypeOK
    <3>2. CASE u = t
      BY <1>f, <3>1, <3>2
    <3>3. CASE u # t
      <4>1. Claimed(u)' \subseteq shared_out_end .. shared_in - 1
        BY <1>q, <1>f, <3>3 DEF ClaimsApart
      <4> QED BY <1>f, <3>1, <4>1
    <3> QED BY <3>2, <3>3
  <2>3. \A u \in Threads \ {t} : Claimed(u)' \cap Claimed(t)' = {}
    <3>1. \A u \in Threads \ {t} : Claimed(u)' \subseteq shared_out_end .. shared_in - 1
      BY <1>q, <1>f DEF ClaimsApart
    <3>2. shared_out_end \in Nat
      BY <1>q DEF QTypeOK
    <3> QED BY <1>f, <3>1, <3>2
  <2>4. \A u, v \in Threads : u # v => Claimed(u)' \cap Claimed(v)' = {}
    BY <1>q, <1>f, <2>3 DEF ClaimsApart
  <2> QED BY <1>0, <2>1, <2>2, <2>4 DEF ClaimsApart
<1>4. BuffersApart'
  <2>1. \A u \in Threads : Held'[u] \subseteq appended'
    BY <1>q, <1>0, <1>f DEF BuffersApart
  <2>2. \A u \in Threads : claim'[u] # -1 => Buffered(u)' \subseteq Published'
    BY <1>q, <1>0, <1>f DEF BuffersApart, QTypeOK
  <2>3. \A u, v \in Threads : u # v => Held'[u] \cap Held'[v] = {}
    BY <1>q, <1>0, <1>f DEF BuffersApart
  <2> QED BY <1>q, <1>0, <2>1, <2>2, <2>3 DEF BuffersApart
<1>5. Counted'
  <2>1. Published \in SUBSET Elements /\ Buffered(t) \in SUBSET Elements
    BY <1>q, <1>f, SetFacts DEF BuffersApart, QTypeOK
  <2>2. IsFiniteSet(Published) /\ IsFiniteSet(Buffered(t)) /\ Cardinality(Published) \in Nat
    BY <2>1, Bounded
  <2>3. Cardinality(Buffered(t)) = Len(local_queue[t])
    BY <1>q, ListCount DEF QTypeOK, BuffersApart, Buffered
  <2>4. Cardinality(Published') = Cardinality(Published) + Cardinality(Buffered(t)) - Cardinality({})
    BY <1>f, <2>2, FS_Union
  <2>5. Cardinality({}) = 0
    BY FS_EmptySet
  <2> QED BY <1>q, <1>f, <2>2, <2>3, <2>4, <2>5 DEF Counted
<1>6. Landing'
  <2>1. ASSUME NEW i \in 0 .. shared_in' - 1, Landed(i)' PROVE i \in 0 .. shared_in - 1 /\ Landed(i)
    <3>1. i \notin shared_in .. shared_in' - 1
      BY <1>f, <2>1 DEF Landed
    <3>2. Landed(i)
      BY <1>f, <2>1 DEF Landed
    <3> QED BY <1>f, <3>1, <3>2
  <2>2. ASSUME NEW i \in 0 .. shared_in - 1, Landed(i) PROVE i \in 0 .. shared_in' - 1 /\ Landed(i)'
    <3>1. i \in 0 .. shared_in' - 1 /\ i \notin InFlight(t)'
      BY <1>f
    <3> QED BY <1>f, <2>2, <3>1 DEF Landed
  <2>3. \A i \in 0 .. shared_in' - 1 : Landed(i)' => shared'[i] \in Published'
    BY <1>q, <1>0, <1>f, <2>1 DEF Landing
  <2>4. ASSUME NEW e \in Published'
        PROVE  \/ \E i \in 0 .. shared_in' - 1 : Landed(i)' /\ shared'[i] = e
               \/ \E u \in Threads : e \in Uncopied(u)'
    <3>1. CASE e \in Buffered(t)
      BY <1>f, <3>1
    <3>2. CASE e \in Published
      BY <1>q, <1>0, <1>f, <2>2, <3>2 DEF Landing
    <3> QED BY <1>f, <3>1, <3>2
  <2> QED BY <2>3, <2>4 DEF Landing
<1> QED BY <1>1, <1>2, <1>3, <1>4, <1>5, <1>6 DEF QInv

LEMMA FlushSteps ==
    ASSUME QInv, NEW t \in Threads
    PROVE  /\ Flush(t) => ClaimStep(t, None)
           /\ \A e \in Elements : BufferPushBackFull(t, e) => ClaimStep(t, e)
<1>q. QTypeOK /\ BufferState
  BY DEF QInv
<1>1. ASSUME Flush(t) PROVE ClaimStep(t, None)
  <2>1. pending[t] = None /\ pending' = pending
    BY <1>q, <1>1 DEF Flush, Running, BufferState
  <2>2. pending' = [pending EXCEPT ![t] = None]
    BY <1>q, <2>1 DEF QTypeOK
  <2>3. None \notin appended
    BY <1>q, ElementsAssumption DEF QTypeOK
  <2> QED BY <1>1, <2>2, <2>3 DEF Flush, ClaimStep
<1>2. ASSUME NEW e \in Elements, BufferPushBackFull(t, e) PROVE ClaimStep(t, e)
  <2>1. local_queue[t] # <<>>
    BY <1>2, SizesAssumption DEF BufferPushBackFull
  <2>2. {e} = {e} \ {None}
    BY ElementsAssumption
  <2> QED BY <1>2, <2>1, <2>2 DEF BufferPushBackFull, ClaimStep
<1> QED BY <1>1, <1>2
(* A step of the copy: one element lands in one cell that t has claimed.   *)
LEMMA CopyFacts ==
    ASSUME QInv, NEW t \in Threads, Copy(t),
           NEW p, p = claim[t] + copied[t], NEW e, e = local_queue[t][copied[t] + 1]
    PROVE  /\ p \in Cells /\ p \in shared_out_end .. shared_in - 1 /\ p \in InFlight(t)
           /\ e \in Elements /\ e \in Buffered(t) /\ e \in Uncopied(t)
           /\ shared' = [shared EXCEPT ![p] = e]
           /\ InFlight(t)' = InFlight(t) \ {p} /\ Uncopied(t)' = Uncopied(t) \ {e}
           /\ \A u \in Threads \ {t} : /\ InFlight(u)' = InFlight(u) /\ Uncopied(u)' = Uncopied(u)
                                       /\ p \notin InFlight(u)
           /\ \A u \in Threads : Claimed(u)' = Claimed(u) /\ Buffered(u)' = Buffered(u)
           /\ Held' = Held /\ Published' = Published
<1>q. QTypeOK /\ ClaimsApart /\ BuffersApart /\ BufferState
  BY DEF QInv
<1>0. /\ claim[t] # -1 /\ copied[t] < Len(local_queue[t])
      /\ shared' = [shared EXCEPT ![p] = e]
      /\ copied' = [copied EXCEPT ![t] = copied[t] + 1]
      /\ UNCHANGED <<local_queue, claim, pending, appended>>
  BY DEF Copy
<1>1. claim[t] \in Nat /\ copied[t] \in Nat /\ local_queue[t] \in Seq(Elements)
      /\ Len(local_queue[t]) \in Nat /\ DOMAIN local_queue[t] = 1 .. Len(local_queue[t])
  BY <1>q, <1>0 DEF QTypeOK, BufferState
<1>2. p \in InFlight(t)
  BY <1>0, <1>1 DEF InFlight
<1>3. p \in shared_out_end .. shared_in - 1 /\ p \in Cells
  <2>1. InFlight(t) \subseteq Claimed(t) /\ Claimed(t) \subseteq 0 .. AllocSize - 1
    BY SetFacts
  <2> QED BY <1>2, <1>q, <2>1 DEF ClaimsApart, Cells
<1>4. copied[t] + 1 \in DOMAIN local_queue[t]
  BY <1>0, <1>1
<1>5. e \in Elements /\ e \in Buffered(t) /\ e \in Uncopied(t)
  <2>1. e \in Elements
    BY <1>1, <1>4
  <2>2. copied[t] + 1 \in copied[t] + 1 .. Len(local_queue[t])
    BY <1>1, <1>4
  <2> QED BY <1>0, <1>4, <2>1, <2>2 DEF Buffered, Uncopied
<1>6. copied'[t] = copied[t] + 1 /\ \A u \in Threads \ {t} : copied'[u] = copied[u]
  BY <1>q, <1>0 DEF QTypeOK
<1>7. InFlight(t)' = InFlight(t) \ {p}
  BY <1>0, <1>1, <1>6 DEF InFlight
<1>8. Uncopied(t)' = Uncopied(t) \ {e}
  <2>1. /\ Uncopied(t) = {local_queue[t][i] : i \in copied[t] + 1 .. Len(local_queue[t])}
        /\ Uncopied(t)' = {local_queue[t][i] : i \in copied[t] + 1 + 1 .. Len(local_queue[t])}
    BY <1>0, <1>6 DEF Uncopied
  <2>2. /\ copied[t] + 1 .. Len(local_queue[t])
              = (copied[t] + 1 + 1 .. Len(local_queue[t])) \cup {copied[t] + 1}
        /\ copied[t] + 1 \notin copied[t] + 1 + 1 .. Len(local_queue[t])
        /\ copied[t] + 1 .. Len(local_queue[t]) \subseteq DOMAIN local_queue[t]
    BY <1>1, <1>4
  <2>3. \A i, k \in DOMAIN local_queue[t] : local_queue[t][i] = local_queue[t][k] => i = k
    BY <1>q DEF BuffersApart
  <2>4. ASSUME NEW x PROVE x \in Uncopied(t)' <=> x \in Uncopied(t) \ {e}
    <3>1. ASSUME x \in Uncopied(t)' PROVE x \in Uncopied(t) \ {e}
      <4>1. PICK i \in copied[t] + 1 + 1 .. Len(local_queue[t]) : x = local_queue[t][i]
        BY <2>1, <3>1
      <4>2. i \in DOMAIN local_queue[t] /\ i # copied[t] + 1 /\ i \in copied[t] + 1 .. Len(local_queue[t])
        BY <2>2, <4>1
      <4> QED BY <1>4, <2>1, <2>3, <4>1, <4>2
    <3>2. ASSUME x \in Uncopied(t) \ {e} PROVE x \in Uncopied(t)'
      BY <2>1, <2>2, <3>2
    <3> QED BY <3>1, <3>2
  <2> QED BY <2>4
<1>9. \A u \in Threads \ {t} : InFlight(u)' = InFlight(u) /\ Uncopied(u)' = Uncopied(u)
  BY <1>0, <1>6 DEF InFlight, Uncopied
<1>10. \A u \in Threads \ {t} : p \notin InFlight(u)
  BY <1>2, <1>q, SetFacts DEF ClaimsApart
<1>11. /\ \A u \in Threads : Claimed(u)' = Claimed(u) /\ Buffered(u)' = Buffered(u)
       /\ Held' = Held /\ Published' = Published
  BY <1>0 DEF Claimed, Buffered, Held, Published
<1> QED BY <1>0, <1>2, <1>3, <1>5, <1>7, <1>8, <1>9, <1>10, <1>11

LEMMA CopyInv == ASSUME QInv, NEW t \in Threads, Copy(t) PROVE QInv'
<1>q. QTypeOK /\ BufferState /\ ClaimsApart /\ BuffersApart /\ Counted /\ Landing
  BY DEF QInv
<1>p. PICK p, e : p = claim[t] + copied[t] /\ e = local_queue[t][copied[t] + 1]
  OBVIOUS
<1>0. /\ claim[t] # -1 /\ copied[t] < Len(local_queue[t])
      /\ copied' = [copied EXCEPT ![t] = copied[t] + 1]
      /\ UNCHANGED <<shared_in, shared_out_start, shared_out_end, local_queue, claim, pending,
                     region, appended>>
  BY DEF Copy
<1>f. /\ p \in Cells /\ p \in shared_out_end .. shared_in - 1 /\ p \in InFlight(t)
      /\ e \in Elements /\ e \in Buffered(t) /\ e \in Uncopied(t)
      /\ shared' = [shared EXCEPT ![p] = e]
      /\ InFlight(t)' = InFlight(t) \ {p} /\ Uncopied(t)' = Uncopied(t) \ {e}
      /\ \A u \in Threads \ {t} : /\ InFlight(u)' = InFlight(u) /\ Uncopied(u)' = Uncopied(u)
                                  /\ p \notin InFlight(u)
      /\ \A u \in Threads : Claimed(u)' = Claimed(u) /\ Buffered(u)' = Buffered(u)
      /\ Held' = Held /\ Published' = Published
  BY <1>p, CopyFacts
<1>1. QTypeOK'
  BY <1>q, <1>0, <1>f DEF QTypeOK
<1>2. BufferState'
  <2>1. copied[t] + 1 \in Nat /\ copied[t] + 1 =< Len(local_queue[t])
    BY <1>q, <1>0 DEF QTypeOK
  <2> QED BY <1>q, <1>0, <2>1 DEF BufferState, QTypeOK
<1>3. ClaimsApart'
  BY <1>q, <1>0, <1>f DEF ClaimsApart
<1>4. BuffersApart'
  BY <1>q, <1>0, <1>f DEF BuffersApart
<1>5. Counted'
  BY <1>q, <1>0, <1>f DEF Counted
<1>6. Landing'
  <2>1. shared'[p] = e /\ \A i \in Cells \ {p} : shared'[i] = shared[i]
    BY <1>q, <1>f DEF QTypeOK
  <2>2. 0 .. shared_in - 1 \subseteq Cells
    BY SetFacts, SizesAssumption DEF Cells
  <2>3. p \in 0 .. shared_in - 1 /\ Landed(p)' /\ ~Landed(p)
    <3>1. shared_out_end \in Nat /\ shared_in \in Nat
      BY <1>q DEF QTypeOK
    <3>2. p \in 0 .. shared_in - 1
      BY <1>f, <3>1
    <3>3. ~Landed(p)
      BY <1>f DEF Landed
    <3>4. \A u \in Threads : p \notin InFlight(u)'
      BY <1>f
    <3> QED BY <3>2, <3>3, <3>4 DEF Landed
  <2>4. \A i : i # p => (Landed(i)' <=> Landed(i))
    BY <1>f DEF Landed
  <2>5. e \in Published
    BY <1>q, <1>0, <1>f DEF BuffersApart
  <2>6. \A i \in 0 .. shared_in - 1 : Landed(i)' => shared'[i] \in Published
    BY <1>q, <2>1, <2>2, <2>4, <2>5 DEF Landing
  <2>7. ASSUME NEW x \in Published
        PROVE  \/ \E i \in 0 .. shared_in - 1 : Landed(i)' /\ shared'[i] = x
               \/ \E u \in Threads : x \in Uncopied(u)'
    <3>1. CASE x = e
      BY <2>1, <2>3, <3>1
    <3>2. CASE \E i \in 0 .. shared_in - 1 : Landed(i) /\ shared[i] = x
      BY <2>1, <2>2, <2>3, <2>4, <3>2
    <3>3. CASE x # e /\ \E u \in Threads : x \in Uncopied(u)
      <4>1. PICK u \in Threads : x \in Uncopied(u)
        BY <3>3
      <4>2. x \in Uncopied(u)'
        BY <1>f, <3>3, <4>1
      <4> QED BY <4>2
    <3> QED BY <1>q, <3>1, <3>2, <3>3 DEF Landing
  <2> QED BY <1>0, <1>f, <2>6, <2>7 DEF Landing
<1> QED BY <1>1, <1>2, <1>3, <1>4, <1>5, <1>6 DEF QInv

(* A flush ends when nothing is left to copy.                              *)
LEMMA EndFlushFacts ==
    ASSUME QInv, NEW t \in Threads, EndFlush(t)
    PROVE  /\ claim'[t] = -1 /\ pending'[t] = None /\ copied'[t] = 0
           /\ local_queue'[t] = IF pending[t] = None THEN <<>> ELSE <<pending[t]>>
           /\ \A u \in Threads \ {t} : /\ claim'[u] = claim[u] /\ pending'[u] = pending[u]
                                       /\ copied'[u] = copied[u] /\ local_queue'[u] = local_queue[u]
                                       /\ Claimed(u)' = Claimed(u) /\ Buffered(u)' = Buffered(u)
           /\ \A u \in Threads : InFlight(u)' = InFlight(u) /\ Uncopied(u)' = Uncopied(u)
           /\ Claimed(t)' = {} /\ Held' = Held /\ Published' = Published
<1>q. QTypeOK
  BY DEF QInv
<1>0. /\ claim[t] # -1 /\ copied[t] = Len(local_queue[t])
      /\ local_queue' = [local_queue EXCEPT ![t] =
                              IF pending[t] = None THEN <<>> ELSE <<pending[t]>>]
      /\ claim' = [claim EXCEPT ![t] = -1] /\ copied' = [copied EXCEPT ![t] = 0]
      /\ pending' = [pending EXCEPT ![t] = None]
      /\ appended' = appended
  BY DEF EndFlush
<1>1. /\ claim'[t] = -1 /\ pending'[t] = None /\ copied'[t] = 0
      /\ local_queue'[t] = IF pending[t] = None THEN <<>> ELSE <<pending[t]>>
      /\ \A u \in Threads \ {t} : /\ claim'[u] = claim[u] /\ pending'[u] = pending[u]
                                  /\ copied'[u] = copied[u] /\ local_queue'[u] = local_queue[u]
  BY <1>q, <1>0 DEF QTypeOK
<1>2. \A u \in Threads \ {t} : /\ Claimed(u)' = Claimed(u) /\ Buffered(u)' = Buffered(u)
                              /\ InFlight(u)' = InFlight(u) /\ Uncopied(u)' = Uncopied(u)
  <2> SUFFICES ASSUME NEW u \in Threads \ {t}
               PROVE  /\ Claimed(u)' = Claimed(u) /\ Buffered(u)' = Buffered(u)
                      /\ InFlight(u)' = InFlight(u) /\ Uncopied(u)' = Uncopied(u)
    OBVIOUS
  <2>1. /\ claim'[u] = claim[u] /\ copied'[u] = copied[u]
        /\ local_queue'[u] = local_queue[u]
    BY <1>1
  <2>2. Claimed(u)' = Claimed(u)
    BY <2>1 DEF Claimed
  <2>3. Buffered(u)' = Buffered(u)
    BY <2>1 DEF Buffered
  <2>4. InFlight(u)' = InFlight(u)
    BY <2>1 DEF InFlight
  <2>5. Uncopied(u)' = Uncopied(u)
    BY <2>1 DEF Uncopied
  <2> QED BY <2>2, <2>3, <2>4, <2>5
<1>3. Claimed(t)' = {} /\ InFlight(t)' = {} /\ Uncopied(t)' = {}
  BY <1>1 DEF Claimed, InFlight, Uncopied
<1>4. InFlight(t) = {} /\ Uncopied(t) = {}
  <2>1. claim[t] \in Int /\ copied[t] \in Nat
    BY <1>q DEF QTypeOK
  <2>2. /\ claim[t] + copied[t] .. claim[t] + Len(local_queue[t]) - 1 = {}
        /\ copied[t] + 1 .. Len(local_queue[t]) = {}
    BY <1>0, <2>1
  <2> QED BY <1>0, <2>2 DEF InFlight, Uncopied
<1>5. Held'[t] = Held[t]
  <2>1. Held[t] = {pending[t]} \ {None} /\ Held'[t] = Buffered(t)'
    BY <1>0, <1>1 DEF Held
  <2>2. Buffered(t)' = {pending[t]} \ {None}
    <3>1. CASE pending[t] = None
      BY <1>1, <3>1 DEF Buffered
    <3>2. CASE pending[t] # None
      <4>1. local_queue'[t] = <<pending[t]>>
        BY <1>1, <3>2
      <4>2. DOMAIN local_queue'[t] = {1} /\ local_queue'[t][1] = pending[t]
        BY <4>1
      <4> QED BY <3>2, <4>2 DEF Buffered
    <3> QED BY <3>1, <3>2
  <2> QED BY <2>1, <2>2
<1>6. Held' = Held
  <2>1. \A u \in Threads : Held'[u] = Held[u]
    BY <1>1, <1>2, <1>5 DEF Held
  <2> QED BY <2>1 DEF Held
<1> QED BY <1>0, <1>1, <1>2, <1>3, <1>4, <1>6 DEF Published

LEMMA EndFlushInv == ASSUME QInv, NEW t \in Threads, EndFlush(t) PROVE QInv'
<1>q. QTypeOK /\ BufferState /\ ClaimsApart /\ BuffersApart /\ Counted /\ Landing
  BY DEF QInv
<1>0. /\ local_queue' = [local_queue EXCEPT ![t] =
                              IF pending[t] = None THEN <<>> ELSE <<pending[t]>>]
      /\ claim' = [claim EXCEPT ![t] = -1] /\ copied' = [copied EXCEPT ![t] = 0]
      /\ pending' = [pending EXCEPT ![t] = None] /\ claim[t] # -1
      /\ UNCHANGED <<shared, shared_in, shared_out_start, shared_out_end, region, appended>>
  BY DEF EndFlush, queue
<1>f. /\ claim'[t] = -1 /\ pending'[t] = None /\ copied'[t] = 0
      /\ local_queue'[t] = IF pending[t] = None THEN <<>> ELSE <<pending[t]>>
      /\ \A u \in Threads \ {t} : /\ claim'[u] = claim[u] /\ pending'[u] = pending[u]
                                  /\ copied'[u] = copied[u] /\ local_queue'[u] = local_queue[u]
                                  /\ Claimed(u)' = Claimed(u) /\ Buffered(u)' = Buffered(u)
      /\ \A u \in Threads : InFlight(u)' = InFlight(u) /\ Uncopied(u)' = Uncopied(u)
      /\ Claimed(t)' = {} /\ Held' = Held /\ Published' = Published
  BY EndFlushFacts
<1>1. local_queue'[t] \in Seq(Elements) /\ Len(local_queue'[t]) \in {0, 1}
      /\ DOMAIN local_queue'[t] \subseteq {1}
  <2>1. CASE pending[t] = None
    BY <1>f, <2>1
  <2>2. CASE pending[t] # None
    <3>1. pending[t] \in Elements /\ local_queue'[t] = <<pending[t]>>
      BY <1>q, <1>f, <2>2 DEF QTypeOK
    <3> QED BY <3>1
  <2> QED BY <2>1, <2>2
<1>2. QTypeOK'
  <2>1. local_queue' \in [Threads -> Seq(Elements)]
    BY <1>q, <1>0, <1>f, <1>1 DEF QTypeOK
  <2> QED BY <1>q, <1>0, <2>1 DEF QTypeOK
<1>3. BufferState'
  <2>1. region'[t] = "in"
    BY <1>q, <1>0 DEF BufferState
  <2>2. 0 =< Len(local_queue'[t]) /\ Len(local_queue'[t]) =< LocalSize
    <3>1. 1 =< LocalSize /\ 0 =< LocalSize /\ 0 =< 1
      BY SizesAssumption
    <3>2. CASE Len(local_queue'[t]) = 0
      BY <3>1, <3>2
    <3>3. CASE Len(local_queue'[t]) = 1
      BY <3>1, <3>3
    <3> QED BY <1>1, <3>2, <3>3
  <2> QED BY <1>q, <1>0, <1>f, <2>1, <2>2 DEF BufferState
<1>4. ClaimsApart'
  BY <1>q, <1>0, <1>f DEF ClaimsApart
<1>5. BuffersApart'
  <2>1. \A i, k \in DOMAIN local_queue'[t] : i = k
    BY <1>1
  <2> QED BY <1>q, <1>0, <1>f, <2>1 DEF BuffersApart
<1>6. Counted'
  BY <1>q, <1>0, <1>f DEF Counted
<1>7. Landing'
  BY <1>q, <1>0, <1>f DEF Landing, Landed
<1> QED BY <1>2, <1>3, <1>4, <1>5, <1>6, <1>7 DEF QInv
LEMMA NextQInv == QInv /\ [Next]_qvars => QInv'
<1> SUFFICES ASSUME QInv, [Next]_qvars PROVE QInv'
  OBVIOUS
<1>1. CASE \E e \in Elements : PushBack(e)
  BY <1>1, PushBackInv
<1>2. CASE SlideWindow \/ BeginRegion \/ EndRegion
  BY <1>2, BetweenRegionsInv
<1>3. CASE Reset
  BY <1>3, ResetInv
<1>4. CASE \E t \in Threads, e \in Elements : BufferPushBack(t, e)
  BY <1>4, BufferPushBackInv
<1>5. CASE \E t \in Threads, e \in Elements : BufferPushBackFull(t, e)
  BY <1>5, FlushSteps, ClaimInv
<1>6. CASE \E t \in Threads : Flush(t)
  BY <1>6, FlushSteps, ClaimInv
<1>7. CASE \E t \in Threads : Copy(t)
  BY <1>7, CopyInv
<1>8. CASE \E t \in Threads : EndFlush(t)
  BY <1>8, EndFlushInv
<1>9. CASE \E t \in Threads : LeaveRegion(t)
  BY <1>9, LeaveRegionInv
<1>10. CASE UNCHANGED qvars
  <2>1. UNCHANGED <<shared, shared_in, shared_out_start, shared_out_end, local_queue,
                    claim, copied, pending, region, appended>>
    BY <1>10 DEF qvars
  <2>2. QTypeOK' /\ BufferState'
    BY <2>1 DEF QInv, QTypeOK, BufferState
  <2>3. /\ \A t \in Threads : Claimed(t)' = Claimed(t) /\ InFlight(t)' = InFlight(t)
                              /\ Uncopied(t)' = Uncopied(t) /\ Buffered(t)' = Buffered(t)
        /\ Held' = Held /\ Published' = Published
    BY <2>1 DEF Held, InFlight, Uncopied, Buffered, Claimed, Published
  <2> QED BY <2>1, <2>2, <2>3 DEF QInv, ClaimsApart, BuffersApart, Counted, Landing, Landed
<1> QED BY <1>1, <1>2, <1>3, <1>4, <1>5, <1>6, <1>7, <1>8, <1>9, <1>10 DEF Next

(* QInv holds in every reachable state.                                    *)
THEOREM QueueInvariant == Spec => []QInv
<1> QED BY InitQInv, NextQInv, PTL DEF Spec

(* The variables stay in their types.                                      *)
THEOREM QueueTypeCorrect == Spec => []QTypeOK
<1>1. QInv => QTypeOK
  BY DEF QInv
<1> QED BY <1>1, QueueInvariant, PTL

LEMMA NeverFull == QInv' => shared_in' =< AllocSize
<1> SUFFICES ASSUME QInv' PROVE shared_in' =< AllocSize
  OBVIOUS
<1>1. Published' \in SUBSET Elements /\ shared_in' = Cardinality(Published')
  BY DEF QInv, QTypeOK, Published, Counted
<1> QED BY <1>1, Bounded

(* However many threads flush, no append writes outside the array.         *)
THEOREM WithinArrayCorrect == Spec => []WithinArray
<1>1. ASSUME QInv PROVE WithinArray
  <2>1. shared_in =< AllocSize
    BY <1>1, SetFacts, SizesAssumption
  <2>2. \A t \in Threads : Len(local_queue[t]) =< LocalSize
    BY <1>1 DEF QInv, BufferState
  <2> QED BY <1>1, <2>1, <2>2, SetFacts DEF WithinArray, Cells
<1> QED BY <1>1, QueueInvariant, PTL

(* Flushes in progress write to cells no other thread writes or reads.     *)
THEOREM ClaimsApartCorrect == Spec => []ClaimsApart
<1>1. QInv => ClaimsApart
  BY DEF QInv
<1> QED BY <1>1, QueueInvariant, PTL

(* Between regions the array holds what was appended, and nothing else.    *)
THEOREM NothingLostCorrect == Spec => []NothingLost
<1>1. ASSUME QInv, Serial PROVE {shared[i] : i \in 0 .. shared_in - 1} = appended
  <2>1. /\ \A i : Landed(i)
        /\ \A t \in Threads : Uncopied(t) = {}
        /\ Published = appended
    BY <1>1, SerialFacts DEF Landed
  <2> QED BY <1>1, <2>1 DEF QInv, Landing
<1>2. ASSUME QInv, Serial PROVE shared_in = Cardinality(appended)
  BY <1>2, SerialFacts DEF QInv, Counted
<1>3. QInv => NothingLost
  BY <1>1, <1>2 DEF NothingLost
<1> QED BY <1>3, QueueInvariant, PTL

-----------------------------------------------------------------------------
(* Refinement: the queue and its buffers implement the double buffer.      *)

(* The next window: what landed past the window, and what is to land there. *)
LEMMA NextWindowIs ==
    /\ \A x : x \in NextWindow <=>
                \/ \E i \in shared_out_end .. shared_in - 1 : Landed(i) /\ shared[i] = x
                \/ \E t \in Threads : x \in Uncopied(t)
    /\ \A x : x \in NextWindow' <=>
                \/ \E i \in shared_out_end' .. shared_in' - 1 : Landed(i)' /\ shared'[i] = x
                \/ \E t \in Threads : x \in Uncopied(t)'
<1>1. \A x : x \in NextWindow <=>
                \/ \E i \in shared_out_end .. shared_in - 1 : Landed(i) /\ shared[i] = x
                \/ \E t \in Threads : x \in Uncopied(t)
  BY DEF NextWindow, Landed
<1>2. \A x : x \in NextWindow' <=>
                \/ \E i \in shared_out_end' .. shared_in' - 1 : Landed(i)' /\ shared'[i] = x
                \/ \E t \in Threads : x \in Uncopied(t)'
  BY DEF NextWindow, Landed
<1> QED BY <1>1, <1>2

LEMMA InitBuffer == Init => Buffer!Init
<1> SUFFICES ASSUME Init PROVE Buffer!Init
  OBVIOUS
<1>1. Window = {}
  BY DEF Init, Window
<1>2. \A t \in Threads : Uncopied(t) = {} /\ Buffered(t) = {}
  BY DEF Init, Uncopied, Buffered
<1>3. 0 .. 0 - 1 = {}
  OBVIOUS
<1>4. NextWindow = {}
  BY <1>2, <1>3 DEF Init, NextWindow
<1>5. Held = [t \in Threads |-> {}]
  BY <1>2 DEF Init, Held
<1> QED BY <1>1, <1>4, <1>5 DEF Buffer!Init, Init

LEMMA AppendStep == ASSUME QInv, NEW e \in Elements, PushBack(e) PROVE Buffer!Append(e)
<1>q. QTypeOK /\ ClaimsApart
  BY DEF QInv
<1>0. /\ e \notin appended /\ appended' = appended \cup {e} /\ Serial
      /\ shared' = [shared EXCEPT ![shared_in] = e] /\ shared_in' = shared_in + 1
      /\ UNCHANGED <<shared_out_start, shared_out_end, local_queue, claim, copied, pending, region>>
  BY DEF PushBack, buffers
<1>1. /\ \A i : Landed(i) /\ Landed(i)'
      /\ \A t \in Threads : Uncopied(t) = {} /\ Uncopied(t)' = {}
      /\ Held' = Held
  <2>1. \A t \in Threads : InFlight(t) = {} /\ Uncopied(t) = {}
    BY <1>0, SerialFacts
  <2>2. \A t \in Threads : InFlight(t)' = InFlight(t) /\ Uncopied(t)' = Uncopied(t)
    BY <1>0 DEF InFlight, Uncopied
  <2>3. Held' = Held
    BY <1>0 DEF Held, Buffered
  <2> QED BY <2>1, <2>2, <2>3 DEF Landed
<1>2. /\ shared_out_start \in Nat /\ shared_out_end \in Nat /\ shared_in \in Nat
      /\ shared_out_end =< shared_in
  BY <1>q DEF QTypeOK, ClaimsApart
<1>3. /\ \A i \in 0 .. shared_in - 1 : shared'[i] = shared[i]
      /\ shared'[shared_in] = e
  <2>2. shared_in \in Cells /\ 0 .. shared_in - 1 \subseteq Cells
    <3>1. QInv'
      BY PushBackInv
    <3>2. shared_in' =< AllocSize
      BY <3>1, NeverFull
    <3> QED BY <1>0, <1>2, <3>2, SizesAssumption DEF Cells
  <2> QED BY <1>q, <1>0, <1>2, <2>2 DEF QTypeOK
<1>4. Window' = Window
  <2>1. shared_out_start .. shared_out_end - 1 \subseteq 0 .. shared_in - 1
    BY <1>2
  <2> QED BY <1>0, <1>3, <2>1 DEF Window
<1>5. NextWindow' = NextWindow \cup {e}
  <2>1. shared_out_end .. shared_in' - 1 = (shared_out_end .. shared_in - 1) \cup {shared_in}
    BY <1>0, <1>2
  <2>2. shared_out_end .. shared_in - 1 \subseteq 0 .. shared_in - 1
    BY <1>2
  <2>3. ASSUME NEW x PROVE x \in NextWindow' <=> x \in NextWindow \/ x = e
    BY <1>0, <1>1, <1>3, <2>1, <2>2, NextWindowIs
  <2> QED BY <2>3
<1> QED BY <1>0, <1>1, <1>4, <1>5 DEF Buffer!Append, Buffer!New
LEMMA SlideStep == ASSUME QInv, SlideWindow PROVE Buffer!Slide
<1>q. QTypeOK /\ ClaimsApart
  BY DEF QInv
<1>0. /\ Serial /\ shared_out_start' = shared_out_end /\ shared_out_end' = shared_in
      /\ UNCHANGED <<shared, shared_in, local_queue, claim, copied, pending, appended>>
  BY DEF SlideWindow, buffers
<1>1. \A t \in Threads : InFlight(t) = {} /\ Uncopied(t) = {}
  BY <1>0, SerialFacts
<1>2. \A t \in Threads : Uncopied(t)' = {}
  BY <1>0, <1>1 DEF Uncopied
<1>3. NextWindow = {shared[i] : i \in shared_out_end .. shared_in - 1}
  BY <1>1 DEF NextWindow
<1>4. Window' = NextWindow
  BY <1>0, <1>3 DEF Window
<1>5. NextWindow' = {}
  <2>1. shared_out_end' .. shared_in' - 1 = {}
    BY <1>q, <1>0 DEF QTypeOK
  <2> QED BY <1>2, <2>1, NextWindowIs
<1>6. Held' = Held
  BY <1>0 DEF Held, Buffered
<1> QED BY <1>0, <1>4, <1>5, <1>6 DEF Buffer!Slide

LEMMA ResetStep == ASSUME QInv, Reset PROVE Buffer!Reset
<1>0. /\ Serial /\ shared_out_start' = 0 /\ shared_out_end' = 0 /\ shared_in' = 0
      /\ appended' = {} /\ UNCHANGED <<shared, local_queue, claim, copied, pending>>
  BY DEF Reset, buffers
<1>1. \A t \in Threads : Uncopied(t)' = {}
  BY <1>0, SerialFacts DEF Uncopied
<1>2. 0 .. 0 - 1 = {}
  OBVIOUS
<1>3. Window' = {}
  BY <1>0, <1>2 DEF Window
<1>4. NextWindow' = {}
  BY <1>0, <1>1, <1>2, NextWindowIs
<1>5. Held' = Held
  BY <1>0 DEF Held, Buffered
<1> QED BY <1>0, <1>3, <1>4, <1>5 DEF Buffer!Reset

LEMMA HoldStep ==
    ASSUME QInv, NEW t \in Threads, NEW e \in Elements, BufferPushBack(t, e)
    PROVE  Buffer!Hold(t, e)
<1>q. QTypeOK /\ BufferState
  BY DEF QInv
<1>0. /\ region[t] = "in" /\ claim[t] = -1 /\ e \notin appended
      /\ local_queue' = [local_queue EXCEPT ![t] = Append(local_queue[t], e)]
      /\ appended' = appended \cup {e}
      /\ UNCHANGED <<shared, shared_in, shared_out_start, shared_out_end, claim, copied, pending, region>>
  BY DEF BufferPushBack, Running, queue
<1>1. local_queue[t] \in Seq(Elements)
  BY <1>q DEF QTypeOK
<1>2. /\ local_queue'[t] = Append(local_queue[t], e)
      /\ \A u \in Threads \ {t} : local_queue'[u] = local_queue[u]
  BY <1>q, <1>0 DEF QTypeOK
<1>3. Buffered(t)' = Buffered(t) \cup {e}
  <2>1. /\ DOMAIN local_queue'[t] = DOMAIN local_queue[t] \cup {Len(local_queue[t]) + 1}
        /\ \A i \in DOMAIN local_queue[t] : local_queue'[t][i] = local_queue[t][i]
        /\ local_queue'[t][Len(local_queue[t]) + 1] = e
    BY <1>1, <1>2
  <2> QED BY <2>1 DEF Buffered
<1>4. Held' = [Held EXCEPT ![t] = Held[t] \cup {e}]
  <2>1. /\ Held'[t] = Held[t] \cup {e}
        /\ \A u \in Threads \ {t} : Held'[u] = Held[u]
    BY <1>0, <1>2, <1>3 DEF Held, Buffered
  <2> QED BY <2>1 DEF Held
<1>5. \A u \in Threads : InFlight(u)' = InFlight(u) /\ Uncopied(u)' = Uncopied(u)
  BY <1>0, <1>2 DEF InFlight, Uncopied
<1>6. Window' = Window
  BY <1>0 DEF Window
<1>7. NextWindow' = NextWindow
  BY <1>0, <1>5 DEF NextWindow
<1> QED BY <1>0, <1>4, <1>6, <1>7 DEF Buffer!Hold, Buffer!New

LEMMA PublishStep ==
    ASSUME QInv, NEW t \in Threads, NEW new \in Elements \cup {None}, ClaimStep(t, new)
    PROVE  Buffer!Publish(t, {new} \ {None})
<1>q. QTypeOK /\ ClaimsApart
  BY DEF QInv
<1>0. /\ new \notin appended /\ appended' = appended \cup ({new} \ {None})
      /\ UNCHANGED <<shared, shared_out_start, shared_out_end>>
  BY DEF ClaimStep
<1>f. /\ Held[t] = Buffered(t) /\ Held'[t] = {new} \ {None}
      /\ \A u \in Threads \ {t} : Held'[u] = Held[u]
      /\ InFlight(t) = {} /\ Uncopied(t) = {}
      /\ InFlight(t)' = shared_in .. shared_in' - 1 /\ Uncopied(t)' = Buffered(t)
      /\ \A u \in Threads \ {t} : InFlight(u)' = InFlight(u) /\ Uncopied(u)' = Uncopied(u)
      /\ shared_in' = shared_in + Len(local_queue[t])
      /\ shared_in \in Nat /\ Len(local_queue[t]) \in Nat \ {0}
  BY ClaimFacts
<1>1. Held' = [Held EXCEPT ![t] = {new} \ {None}]
  BY <1>f DEF Held
<1>2. Window' = Window
  BY <1>0 DEF Window
<1>3. \A i : i \in shared_out_end .. shared_in' - 1 /\ Landed(i)'
                <=> i \in shared_out_end .. shared_in - 1 /\ Landed(i)
  <2> SUFFICES ASSUME NEW i \in Int
               PROVE  i \in shared_out_end .. shared_in' - 1 /\ Landed(i)'
                        <=> i \in shared_out_end .. shared_in - 1 /\ Landed(i)
    OBVIOUS
  <2>1. Landed(i)' <=> Landed(i) /\ i \notin shared_in .. shared_in' - 1
    BY <1>f DEF Landed
  <2>2. shared_out_end \in Nat
    BY <1>q DEF QTypeOK
  <2> QED BY <1>f, <2>1, <2>2
<1>4. NextWindow' = NextWindow \cup Held[t]
  <2>1. ASSUME NEW x PROVE x \in NextWindow' <=> x \in NextWindow \/ x \in Held[t]
    <3>1. (\E i \in shared_out_end' .. shared_in' - 1 : Landed(i)' /\ shared'[i] = x)
            <=> (\E i \in shared_out_end .. shared_in - 1 : Landed(i) /\ shared[i] = x)
      BY <1>0, <1>3
    <3>2. (\E u \in Threads : x \in Uncopied(u)')
            <=> (\E u \in Threads : x \in Uncopied(u)) \/ x \in Held[t]
      BY <1>f
    <3> QED BY <3>1, <3>2, NextWindowIs
  <2> QED BY <2>1
<1> QED BY <1>0, <1>1, <1>2, <1>4 DEF Buffer!Publish, Buffer!New

LEMMA CopyStutters == ASSUME QInv, NEW t \in Threads, Copy(t) PROVE UNCHANGED <<Window, NextWindow, Held>>
<1>q. QTypeOK /\ ClaimsApart
  BY DEF QInv
<1>p. PICK p, e : p = claim[t] + copied[t] /\ e = local_queue[t][copied[t] + 1]
  OBVIOUS
<1>0. UNCHANGED <<shared_in, shared_out_start, shared_out_end>>
  BY DEF Copy
<1>f. /\ p \in Cells /\ p \in shared_out_end .. shared_in - 1 /\ p \in InFlight(t)
      /\ e \in Uncopied(t)
      /\ shared' = [shared EXCEPT ![p] = e]
      /\ InFlight(t)' = InFlight(t) \ {p} /\ Uncopied(t)' = Uncopied(t) \ {e}
      /\ \A u \in Threads \ {t} : /\ InFlight(u)' = InFlight(u) /\ Uncopied(u)' = Uncopied(u)
                                  /\ p \notin InFlight(u)
      /\ Held' = Held
  BY <1>p, CopyFacts
<1>1. shared'[p] = e /\ \A i \in Cells \ {p} : shared'[i] = shared[i]
  BY <1>q, <1>f DEF QTypeOK
<1>2. /\ shared_out_end .. shared_in - 1 \subseteq Cells
      /\ shared_out_start .. shared_out_end - 1 \subseteq Cells
  <2>1. /\ shared_out_start \in Nat /\ shared_out_end \in Nat /\ shared_in \in Nat
        /\ shared_out_end =< shared_in /\ shared_in =< AllocSize
    BY <1>q, SetFacts, SizesAssumption DEF QTypeOK, ClaimsApart
  <2> QED BY <2>1, SizesAssumption DEF Cells
<1>3. Window' = Window
  <2>1. p \notin shared_out_start .. shared_out_end - 1
    BY <1>q, <1>f DEF QTypeOK
  <2>2. \A i \in shared_out_start .. shared_out_end - 1 : shared'[i] = shared[i]
    BY <1>1, <1>2, <2>1
  <2> QED BY <1>0, <2>2 DEF Window
<1>4. NextWindow' = NextWindow
  <2>1. ~Landed(p) /\ \A i : Landed(i)' <=> Landed(i) \/ i = p
    BY <1>f DEF Landed
  <2>2. ASSUME NEW x PROVE x \in NextWindow' <=> x \in NextWindow
    <3>1. (\E i \in shared_out_end .. shared_in - 1 : Landed(i)' /\ shared'[i] = x)
            <=> (\E i \in shared_out_end .. shared_in - 1 : Landed(i) /\ shared[i] = x) \/ x = e
      BY <1>f, <1>1, <1>2, <2>1
    <3>2. (\E u \in Threads : x \in Uncopied(u))
            <=> (\E u \in Threads : x \in Uncopied(u)') \/ x = e
      BY <1>f
    <3> QED BY <1>0, <3>1, <3>2, NextWindowIs
  <2> QED BY <2>2
<1> QED BY <1>3, <1>4, <1>f

LEMMA OthersStutter ==
    ASSUME QInv,
           \/ BeginRegion \/ EndRegion \/ UNCHANGED qvars
           \/ \E t \in Threads : LeaveRegion(t)
           \/ \E t \in Threads : EndFlush(t)
    PROVE  UNCHANGED <<Window, NextWindow, Held, appended>>
<1>1. ASSUME UNCHANGED <<shared, shared_in, shared_out_start, shared_out_end, appended>>,
             \A t \in Threads : InFlight(t)' = InFlight(t) /\ Uncopied(t)' = Uncopied(t),
             Held' = Held
      PROVE  UNCHANGED <<Window, NextWindow, Held, appended>>
  <2>1. Window' = Window
    BY <1>1 DEF Window
  <2>2. NextWindow' = NextWindow
    BY <1>1 DEF NextWindow
  <2> QED BY <1>1, <2>1, <2>2
<1>2. CASE BeginRegion
  <2>1. UNCHANGED <<shared, shared_in, shared_out_start, shared_out_end, claim, copied, pending, appended>>
    BY <1>2 DEF BeginRegion, queue
  <2>2. \A t \in Threads : local_queue'[t] = local_queue[t]
    BY <1>2, SerialFacts DEF BeginRegion
  <2>3. \A t \in Threads : InFlight(t)' = InFlight(t) /\ Uncopied(t)' = Uncopied(t)
    BY <2>1, <2>2 DEF InFlight, Uncopied
  <2>4. Held' = Held
    BY <2>1, <2>2 DEF Held, Buffered
  <2> QED BY <1>1, <2>1, <2>3, <2>4
<1>3. CASE EndRegion \/ UNCHANGED qvars \/ \E t \in Threads : LeaveRegion(t)
  <2>1. UNCHANGED <<shared, shared_in, shared_out_start, shared_out_end, local_queue,
                    claim, copied, pending, appended>>
    BY <1>3 DEF EndRegion, LeaveRegion, queue, buffers, qvars
  <2>2. \A t \in Threads : InFlight(t)' = InFlight(t) /\ Uncopied(t)' = Uncopied(t)
    BY <2>1 DEF InFlight, Uncopied
  <2>3. Held' = Held
    BY <2>1 DEF Held, Buffered
  <2> QED BY <1>1, <2>1, <2>2, <2>3
<1>4. CASE \E t \in Threads : EndFlush(t)
  <2>1. PICK t \in Threads : EndFlush(t)
    BY <1>4
  <2>2. UNCHANGED <<shared, shared_in, shared_out_start, shared_out_end, appended>>
    BY <2>1 DEF EndFlush, queue
  <2>3. /\ \A u \in Threads : InFlight(u)' = InFlight(u) /\ Uncopied(u)' = Uncopied(u)
        /\ Held' = Held
    BY <2>1, EndFlushFacts
  <2> QED BY <1>1, <2>2, <2>3
<1> QED BY <1>2, <1>3, <1>4

(* Every step of the queue and its buffers is a step of the double buffer. *)
LEMMA NextBuffer == QInv /\ [Next]_qvars => [Buffer!Next]_(Buffer!dvars)
<1> SUFFICES ASSUME QInv, [Next]_qvars PROVE [Buffer!Next]_(Buffer!dvars)
  OBVIOUS
<1>1. CASE \E e \in Elements : PushBack(e)
  BY <1>1, AppendStep DEF Buffer!Next
<1>2. CASE SlideWindow
  BY <1>2, SlideStep DEF Buffer!Next
<1>3. CASE Reset
  BY <1>3, ResetStep DEF Buffer!Next
<1>4. CASE \E t \in Threads, e \in Elements : BufferPushBack(t, e)
  BY <1>4, HoldStep DEF Buffer!Next
<1>5. CASE \E t \in Threads, e \in Elements : BufferPushBackFull(t, e)
  <2>1. PICK t \in Threads, e \in Elements : BufferPushBackFull(t, e)
    BY <1>5
  <2>2. Buffer!Publish(t, {e} \ {None})
    BY <2>1, FlushSteps, PublishStep
  <2>3. {e} \ {None} = {e}
    BY ElementsAssumption
  <2> QED BY <2>2, <2>3 DEF Buffer!Next
<1>6. CASE \E t \in Threads : Flush(t)
  <2>1. PICK t \in Threads : Flush(t)
    BY <1>6
  <2>2. Buffer!Publish(t, {None} \ {None})
    BY <2>1, FlushSteps, PublishStep
  <2>3. {None} \ {None} = {}
    OBVIOUS
  <2> QED BY <2>2, <2>3 DEF Buffer!Next
<1>7. CASE \E t \in Threads : Copy(t)
  <2>1. UNCHANGED <<Window, NextWindow, Held, appended>>
    BY <1>7, CopyStutters DEF Copy
  <2> QED BY <2>1 DEF Buffer!dvars
<1>8. CASE \/ BeginRegion \/ EndRegion \/ UNCHANGED qvars
           \/ \E t \in Threads : LeaveRegion(t)
           \/ \E t \in Threads : EndFlush(t)
  BY <1>8, OthersStutter DEF Buffer!dvars
<1> QED BY <1>1, <1>2, <1>3, <1>4, <1>5, <1>6, <1>7, <1>8 DEF Next

(* What is appended is not seen until the window slides, and is then seen, *)
(* whichever way the threads' flushes interleave.                          *)
THEOREM ImplementsDoubleBufferCorrect == Spec => ImplementsDoubleBuffer
<1> QED BY InitBuffer, NextBuffer, QueueInvariant, PTL
        DEF Spec, ImplementsDoubleBuffer, Buffer!Spec
=============================================================================
