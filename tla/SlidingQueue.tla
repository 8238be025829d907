----------------------------- MODULE SlidingQueue -----------------------------
(***************************************************************************)
(* The frontier queue of the graph kernels and its per-thread buffers      *)
(* (src/include/graphs/gapbs/sliding_queue.h).                             *)
(*                                                                         *)
(* In a parallel region every thread fills a QueueBuffer; a flush claims a *)
(* range of the shared array with fetch_and_add and then copies into it,   *)
(* an element a step, while other threads claim and copy theirs.  Between  *)
(* regions one thread appends, slides the window and resets.  The kernels  *)
(* are not in the repository: that they follow this discipline, and append *)
(* an element once at most between two resets, is assumed.                 *)
(***************************************************************************)
EXTENDS Integers, Sequences, FiniteSets

CONSTANTS
    Threads,
    Elements,   \* what is queued: the vertices of a graph
    Garbage,    \* an element of new T[shared_size] before it is written
    None,       \* no element
    AllocSize,  \* alloc_size: the length of the shared array
    LocalSize   \* local_size: the length of a buffer

ASSUME ElementsAssumption ==
    /\ Garbage \notin Elements /\ None \notin Elements
    /\ IsFiniteSet(Elements) /\ Cardinality(Elements) =< AllocSize
ASSUME SizesAssumption == AllocSize \in Nat /\ LocalSize \in Nat \ {0}

VARIABLES
    shared,         \* the shared array
    shared_in,      \* where the next append goes
    shared_out_start, shared_out_end,   \* the window: from start to end - 1
    local_queue,    \* local_queue[t]: t's buffer; its length is `in`
    claim,          \* claim[t]: where t's flush copies next, or -1
    copied,         \* copied[t]: how many elements t's flush has copied
    pending,        \* pending[t]: the element whose push_back had to flush
    region,         \* region[t]: "out" of, "in" or "done" with a region
    appended        \* the elements appended since the last reset

qvars == <<shared, shared_in, shared_out_start, shared_out_end, local_queue,
           claim, copied, pending, region, appended>>

queue == <<shared, shared_in, shared_out_start, shared_out_end>>
buffers == <<local_queue, claim, copied, pending>>

Serial == \A t \in Threads : region[t] = "out"
Running(t) == region[t] = "in" /\ claim[t] = -1

Init ==
    /\ shared = [i \in 0 .. AllocSize - 1 |-> Garbage]
    /\ shared_in = 0 /\ shared_out_start = 0 /\ shared_out_end = 0
    /\ local_queue = [t \in Threads |-> <<>>]
    /\ claim = [t \in Threads |-> -1]
    /\ copied = [t \in Threads |-> 0]
    /\ pending = [t \in Threads |-> None]
    /\ region = [t \in Threads |-> "out"]
    /\ appended = {}

-----------------------------------------------------------------------------
(* SlidingQueue, between regions. *)

PushBack(e) ==
    /\ Serial
    /\ e \notin appended
    /\ shared' = [shared EXCEPT ![shared_in] = e]
    /\ shared_in' = shared_in + 1
    /\ appended' = appended \cup {e}
    /\ UNCHANGED <<shared_out_start, shared_out_end, buffers, region>>

(* Mutant of SlideWindow: the end is moved before the start.               *)
SlideWindowSwapped ==
    /\ Serial
    /\ shared_out_end' = shared_in
    /\ shared_out_start' = shared_out_end'
    /\ UNCHANGED <<shared, shared_in, buffers, region, appended>>

SlideWindow ==
    /\ Serial
    /\ shared_out_start' = shared_out_end
    /\ shared_out_end' = shared_in
    /\ UNCHANGED <<shared, shared_in, buffers, region, appended>>

(* Mutant of Reset: shared_in keeps its value.                             *)
ResetWindow ==
    /\ Serial
    /\ shared_out_start' = 0 /\ shared_out_end' = 0
    /\ appended' = {}
    /\ UNCHANGED <<shared, shared_in, buffers, region>>

Reset ==
    /\ Serial
    /\ shared_out_start' = 0 /\ shared_out_end' = 0
    /\ shared_in' = 0
    /\ appended' = {}
    /\ UNCHANGED <<shared, buffers, region>>

(* The region begins: every thread constructs its buffer.                  *)
BeginRegion ==
    /\ Serial
    /\ region' = [t \in Threads |-> "in"]
    /\ local_queue' = [t \in Threads |-> <<>>]
    /\ UNCHANGED <<queue, claim, copied, pending, appended>>

-----------------------------------------------------------------------------
(* QueueBuffer, in a region. *)

BufferPushBack(t, e) ==
    /\ Running(t)
    /\ e \notin appended
    /\ Len(local_queue[t]) < LocalSize
    /\ local_queue' = [local_queue EXCEPT ![t] = Append(local_queue[t], e)]
    /\ appended' = appended \cup {e}
    /\ UNCHANGED <<queue, claim, copied, pending, region>>

(* Mutant of Claim: the claim is one cell short.                           *)
ClaimShort(t) ==
    /\ claim' = [claim EXCEPT ![t] = shared_in]
    /\ shared_in' = shared_in + Len(local_queue[t]) - 1

(* fetch_and_add(sq.shared_in, in): one atomic step.                       *)
Claim(t) ==
    /\ claim' = [claim EXCEPT ![t] = shared_in]
    /\ shared_in' = shared_in + Len(local_queue[t])

(* push_back on a full buffer flushes first.                               *)
BufferPushBackFull(t, e) ==
    /\ Running(t)
    /\ e \notin appended
    /\ Len(local_queue[t]) = LocalSize
    /\ Claim(t)
    /\ pending' = [pending EXCEPT ![t] = e]
    /\ appended' = appended \cup {e}
    /\ UNCHANGED <<shared, shared_out_start, shared_out_end, local_queue, copied, region>>

Flush(t) ==
    /\ Running(t)
    /\ local_queue[t] # <<>>
    /\ Claim(t)
    /\ UNCHANGED <<shared, shared_out_start, shared_out_end, local_queue, copied, pending,
                   region, appended>>

(* A step of std::copy.                                                    *)
Copy(t) ==
    /\ claim[t] # -1
    /\ copied[t] < Len(local_queue[t])
    /\ shared' = [shared EXCEPT ![claim[t] + copied[t]] = local_queue[t][copied[t] + 1]]
    /\ copied' = [copied EXCEPT ![t] = copied[t] + 1]
    /\ UNCHANGED <<shared_in, shared_out_start, shared_out_end, local_queue, claim,
                   pending, region, appended>>

(* Mutant of EndFlush: the buffer keeps a slot that was never filled.      *)
EndFlushKeeping(t) ==
    /\ claim[t] # -1
    /\ copied[t] = Len(local_queue[t])
    /\ local_queue' = [local_queue EXCEPT ![t] = <<pending[t]>>]
    /\ claim' = [claim EXCEPT ![t] = -1]
    /\ copied' = [copied EXCEPT ![t] = 0]
    /\ pending' = [pending EXCEPT ![t] = None]
    /\ UNCHANGED <<queue, region, appended>>

(* in = 0; the push_back that flushed goes on.                             *)
EndFlush(t) ==
    /\ claim[t] # -1
    /\ copied[t] = Len(local_queue[t])
    /\ local_queue' = [local_queue EXCEPT ![t] =
                            IF pending[t] = None THEN <<>> ELSE <<pending[t]>>]
    /\ claim' = [claim EXCEPT ![t] = -1]
    /\ copied' = [copied EXCEPT ![t] = 0]
    /\ pending' = [pending EXCEPT ![t] = None]
    /\ UNCHANGED <<queue, region, appended>>

(* Mutant of LeaveRegion: the buffer is destroyed without a flush.         *)
LeaveRegionUnflushed(t) ==
    /\ Running(t)
    /\ region' = [region EXCEPT ![t] = "done"]
    /\ UNCHANGED <<queue, buffers, appended>>

(* ~QueueBuffer drops what the buffer holds, so a kernel flushes first.    *)
LeaveRegion(t) ==
    /\ Running(t)
    /\ local_queue[t] = <<>>
    /\ region' = [region EXCEPT ![t] = "done"]
    /\ UNCHANGED <<queue, buffers, appended>>

(* The barrier at the end of the region.                                   *)
EndRegion ==
    /\ \A t \in Threads : region[t] = "done"
    /\ region' = [t \in Threads |-> "out"]
    /\ UNCHANGED <<queue, buffers, appended>>

Next ==
    \/ \E e \in Elements : PushBack(e)
    \/ SlideWindow \/ Reset \/ BeginRegion \/ EndRegion
    \/ \E t \in Threads, e \in Elements : BufferPushBack(t, e) \/ BufferPushBackFull(t, e)
    \/ \E t \in Threads : Flush(t) \/ Copy(t) \/ EndFlush(t) \/ LeaveRegion(t)

Spec == Init /\ [][Next]_qvars

-----------------------------------------------------------------------------
(* Properties. *)

Cells == 0 .. AllocSize - 1

QTypeOK ==
    /\ shared \in [Cells -> Elements \cup {Garbage}]
    /\ shared_in \in Nat /\ shared_out_start \in Nat /\ shared_out_end \in Nat
    /\ local_queue \in [Threads -> Seq(Elements)]
    /\ claim \in [Threads -> Int]
    /\ copied \in [Threads -> Nat]
    /\ pending \in [Threads -> Elements \cup {None}]
    /\ region \in [Threads -> {"out", "in", "done"}]
    /\ appended \subseteq Elements

(* The cells t's flush in progress has claimed, and those it has not yet   *)
(* copied an element to.                                                   *)
Claimed(t) ==
    IF claim[t] = -1 THEN {} ELSE claim[t] .. claim[t] + Len(local_queue[t]) - 1
InFlight(t) ==
    IF claim[t] = -1 THEN {} ELSE claim[t] + copied[t] .. claim[t] + Len(local_queue[t]) - 1

(* Nothing is written outside the shared array, though no append checks    *)
(* alloc_size (sliding_queue.h:59-61, 144-149).                            *)
WithinArray ==
    /\ shared_in =< AllocSize
    /\ \A t \in Threads : Claimed(t) \subseteq Cells
    /\ \A t \in Threads : Len(local_queue[t]) =< LocalSize

(* Flushes in progress never write to each other's cells, nor to a cell a  *)
(* reader of the window sees, nor outside what shared_in has passed.       *)
ClaimsApart ==
    /\ shared_out_start =< shared_out_end /\ shared_out_end =< shared_in
    /\ \A t \in Threads : Claimed(t) \subseteq shared_out_end .. shared_in - 1
    /\ \A t, u \in Threads : t # u => Claimed(t) \cap Claimed(u) = {}

(* Between regions nothing appended since the last reset is missing from   *)
(* the array, and no cell the next window takes in is unwritten, whichever *)
(* way the threads' flushes interleaved.                                   *)
NothingLost ==
    Serial => /\ {shared[i] : i \in 0 .. shared_in - 1} = appended
              /\ shared_in = Cardinality(appended)

Buffered(t) == {local_queue[t][i] : i \in DOMAIN local_queue[t]}

(* What a thread keeps to itself: a buffer until it is claimed for, then   *)
(* the element that waits for the flush.                                   *)
Held == [t \in Threads |-> IF claim[t] = -1 THEN Buffered(t) ELSE {pending[t]} \ {None}]

Window == {shared[i] : i \in shared_out_start .. shared_out_end - 1}

Uncopied(t) ==
    IF claim[t] = -1 THEN {}
    ELSE {local_queue[t][i] : i \in copied[t] + 1 .. Len(local_queue[t])}

NextWindow ==
    {shared[i] : i \in (shared_out_end .. shared_in - 1) \ UNION {InFlight(t) : t \in Threads}}
    \cup UNION {Uncopied(t) : t \in Threads}

Buffer == INSTANCE DoubleBuffer WITH
    window <- Window, next <- NextWindow, held <- Held, since <- appended

(* "appends aren't seen until SlideWindow() called" (sliding_queue.h:20):  *)
(* a flush hands its elements to the next window in the step that claims   *)
(* their cells, and a slide shows exactly what was handed over.            *)
ImplementsDoubleBuffer == Buffer!Spec
=============================================================================
