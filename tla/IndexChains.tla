----------------------------- MODULE IndexChains -----------------------------
(***************************************************************************)
(* What a prefetch job promises to the device, stated without array ids.   *)
(*                                                                         *)
(* An array may index another one (its target).  A job lists arrays.  The  *)
(* device reads a job as rows: every row names the memory it describes,    *)
(* and the row of the array its elements index.  A job one of whose arrays *)
(* indexes an array outside the job has no description.  PickleJob, with   *)
(* its lazily assigned ids and its rename map, implements this.            *)
(***************************************************************************)
EXTENDS Integers, Sequences

CONSTANTS
    Arrays,     \* the array descriptors of the application
    Jobs,       \* the job objects of the application
    Null        \* no array

AccessType == {"SingleElement", "Ranged"}
AddressingMode == {"Pointer", "Index"}

VARIABLES
    target,     \* target[a]: the array indexed by the elements of a, or Null
    members,    \* members[j]: the arrays of job j, in order
    access,     \* how the device reads an element of a: one or a range
    addressing, \* whether the elements of a are pointers or indices
    view        \* view[j]: what the device would be told about job j

avars == <<target, members, access, addressing, view>>

Elements(s) == {s[k] : k \in DOMAIN s}

(* The position of the last occurrence of a in s. *)
LastPos(s, a) ==
    CHOOSE k \in DOMAIN s : s[k] = a /\ \A l \in DOMAIN s : s[l] = a => l =< k

Closed(t, s) == \A k \in DOMAIN s : t[s[k]] = Null \/ t[s[k]] \in Elements(s)

Row(t, s, a, ac, ad) ==
    [id         |-> LastPos(s, a) - 1,
     dst        |-> IF t[a] = Null THEN -1 ELSE LastPos(s, t[a]) - 1,
     region     |-> a,
     access     |-> ac[a],
     addressing |-> ad[a]]

(* The description of the list of arrays s: its rows if s is closed. *)
Describe(t, s, ac, ad) ==
    IF Closed(t, s)
    THEN [ok |-> TRUE, rows |-> [k \in DOMAIN s |-> Row(t, s, s[k], ac, ad)]]
    ELSE [ok |-> FALSE, rows |-> <<>>]

Init ==
    /\ target = [a \in Arrays |-> Null]
    /\ members = [j \in Jobs |-> <<>>]
    /\ access = [a \in Arrays |-> "SingleElement"]
    /\ addressing = [a \in Arrays |-> "Pointer"]
    /\ view = [j \in Jobs |-> Describe(target, members[j], access, addressing)]

(* The device's view always follows from the rest. *)
Viewed ==
    view' = [j \in Jobs |-> Describe(target', members'[j], access', addressing')]

New(j) ==
    /\ members' = [members EXCEPT ![j] = <<>>]
    /\ UNCHANGED <<target, access, addressing>>
    /\ Viewed

Add(j, a) ==
    /\ members' = [members EXCEPT ![j] = Append(members[j], a)]
    /\ UNCHANGED <<target, access, addressing>>
    /\ Viewed

(* From now on the elements of d index array b. *)
Index(d, b) ==
    /\ target' = [target EXCEPT ![d] = b]
    /\ UNCHANGED <<members, access, addressing>>
    /\ Viewed

SetAccess(j, a, t) ==
    /\ a \in Elements(members[j])
    /\ access' = [access EXCEPT ![a] = t]
    /\ UNCHANGED <<target, members, addressing>>
    /\ Viewed

SetAddressing(j, a, m) ==
    /\ a \in Elements(members[j])
    /\ addressing' = [addressing EXCEPT ![a] = m]
    /\ UNCHANGED <<target, members, access>>
    /\ Viewed

Next ==
    \/ \E j \in Jobs : New(j)
    \/ \E j \in Jobs, a \in Arrays : Add(j, a)
    \/ \E d, b \in Arrays : Index(d, b)
    \/ \E j \in Jobs, a \in Arrays, t \in AccessType : SetAccess(j, a, t)
    \/ \E j \in Jobs, a \in Arrays, m \in AddressingMode : SetAddressing(j, a, m)

Spec == Init /\ [][Next]_avars
=============================================================================
