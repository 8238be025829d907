---------------------------- MODULE VectorContents ----------------------------
(***************************************************************************)
(* What pvector promises of the elements it holds: vectors are sequences,  *)
(* a move empties its source, and what a resize adds is anything ("new     *)
(* elements are uninitialized").  PVector implements it with storage       *)
(* blocks that are allocated, copied, handed over and freed.               *)
(***************************************************************************)
EXTENDS Integers, Sequences

CONSTANTS Vectors, Values, MaxLen, NoVector

VARIABLE contents   \* contents[v]: the elements of v, or NoVector

Strings == UNION {[1 .. n -> Values] : n \in 0 .. MaxLen}

Exists(v) == contents[v] # NoVector
Becomes(v, s) == contents' = [contents EXCEPT ![v] = s]

Init == contents = [v \in Vectors |-> NoVector]

Make(v, s) == ~ Exists(v) /\ Becomes(v, s)

Destroy(v) == Becomes(v, NoVector)

(* v takes w's elements, whether v is new or not. *)
Move(v, w) ==
    /\ Exists(w) /\ v # w
    /\ contents' = [contents EXCEPT ![v] = contents[w], ![w] = <<>>]

Resize(v, s) ==
    /\ Exists(v)
    /\ \A i \in DOMAIN s \cap DOMAIN contents[v] : s[i] = contents[v][i]
    /\ Becomes(v, s)

PushBack(v, x) == Exists(v) /\ Becomes(v, Append(contents[v], x))

Fill(v, x) == Exists(v) /\ Becomes(v, [i \in DOMAIN contents[v] |-> x])

Write(v, i, x) ==
    /\ Exists(v) /\ i \in DOMAIN contents[v]
    /\ Becomes(v, [contents[v] EXCEPT ![i] = x])

Swap(v, w) ==
    /\ Exists(v) /\ Exists(w)
    /\ contents' = [contents EXCEPT ![v] = contents[w], ![w] = contents[v]]

Next ==
    \/ \E v \in Vectors : Destroy(v)
    \/ \E v \in Vectors, s \in Strings : Make(v, s) \/ Resize(v, s)
    \/ \E v, w \in Vectors : Move(v, w) \/ Swap(v, w)
    \/ \E v \in Vectors, x \in Values : PushBack(v, x) \/ Fill(v, x)
    \/ \E v \in Vectors, x \in Values, i \in 1 .. MaxLen : Write(v, i, x)

Spec == Init /\ [][Next]_contents
=============================================================================
