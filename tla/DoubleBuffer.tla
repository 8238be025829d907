----------------------------- MODULE DoubleBuffer -----------------------------
(***************************************************************************)
(* A double-buffered queue, the promise of SlidingQueue and QueueBuffer:   *)
(* what is appended is not seen until the window slides, and is then seen, *)
(* all of it.  Every element is appended at most once, so sets suffice.    *)
(***************************************************************************)
CONSTANTS Threads, Elements

VARIABLES
    window,     \* the elements a reader of the queue sees
    next,       \* the elements appended for the next window
    held,       \* held[t]: the elements thread t keeps to itself so far
    since       \* the elements appended or held since the last reset

dvars == <<window, next, held, since>>

Init ==
    /\ window = {}
    /\ next = {}
    /\ held = [t \in Threads |-> {}]
    /\ since = {}

(* An element comes once between two resets. *)
New(es) == es \cap since = {} /\ since' = since \cup es

Append(e) ==
    /\ New({e})
    /\ next' = next \cup {e}
    /\ UNCHANGED <<window, held>>

Hold(t, e) ==
    /\ New({e})
    /\ held' = [held EXCEPT ![t] = held[t] \cup {e}]
    /\ UNCHANGED <<window, next>>

(* t appends what it holds, and then holds what is new.                    *)
Publish(t, new) ==
    /\ New(new)
    /\ next' = next \cup held[t]
    /\ held' = [held EXCEPT ![t] = new]
    /\ UNCHANGED window

Slide ==
    /\ window' = next
    /\ next' = {}
    /\ UNCHANGED <<held, since>>

Reset ==
    /\ window' = {}
    /\ next' = {}
    /\ since' = {}
    /\ UNCHANGED held

Next ==
    \/ \E e \in Elements : Append(e)
    \/ \E t \in Threads, e \in Elements : Hold(t, e)
    \/ \E t \in Threads : Publish(t, {}) \/ \E e \in Elements : Publish(t, {e})
    \/ Slide
    \/ Reset

Spec == Init /\ [][Next]_dvars
=============================================================================
