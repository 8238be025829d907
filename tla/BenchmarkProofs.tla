---------------------------- MODULE BenchmarkProofs ----------------------------
(***************************************************************************)
(* Theorems about Benchmark: TopK, for any number of pairs of any values,  *)
(* and reading a graph, for graphs of any size.  Both rest on facts about  *)
(* all natural numbers, for which a set of numbers that has 0 and with n   *)
(* also n + 1 stands where an induction has a predicate.                   *)
(***************************************************************************)
EXTENDS Benchmark, FiniteSetTheorems, WellFoundedInduction, TLAPS

LEMMA LeastNumber ==
    ASSUME NEW T \in SUBSET Nat, T # {}
    PROVE  \E m \in T : \A n \in T : m =< n
<1>1. IsWellFoundedOn(OpToRel(<, Nat), Nat)
  BY NatLessThanWellFounded
<1>2. PICK m \in T : \A n \in T : ~ (<<n, m>> \in OpToRel(<, Nat))
  BY <1>1, WFMin
<1>3. \A n \in T : ~ (n < m)
  BY <1>2 DEF OpToRel
<1> QED BY <1>3

LEMMA EveryNumber ==
    ASSUME NEW S, 0 \in S, \A n \in Nat : n \in S => n + 1 \in S
    PROVE  Nat \subseteq S
<1> DEFINE T == Nat \ S
<1> SUFFICES ASSUME T # {} PROVE FALSE
  OBVIOUS
<1>1. PICK m \in T : \A n \in T : m =< n
  BY LeastNumber
<1>2. m # 0 /\ m \in Nat
  BY <1>1
<1>3. m - 1 \in Nat /\ m - 1 \notin T
  BY <1>1, <1>2
<1> QED BY <1>1, <1>2, <1>3

-----------------------------------------------------------------------------
(* Sorting.  One pair appended to a list in order can be put in its place, *)
(* so the sort has a result, and it loses nothing.                         *)

Pairs == Values \X Int

InOrder(s) == \A m, n \in DOMAIN s : m < n => Greater(s[m], s[n])

LEMMA GreaterFacts ==
    /\ \A p \in Pairs : ~ Greater(p, p)
    /\ \A p, q, r \in Pairs : Greater(p, q) /\ Greater(q, r) => Greater(p, r)
    /\ \A p, q \in Pairs : p[2] # q[2] => Greater(p, q) \/ Greater(q, p)
<1>1. \A p \in Pairs : p[1] \in Int /\ p[2] \in Int
  BY BenchmarkAssumption DEF Pairs
<1>2. \A p \in Pairs : ~ Greater(p, p)
  BY <1>1 DEF Greater
<1>3. ASSUME NEW p \in Pairs, NEW q \in Pairs, NEW r \in Pairs, Greater(p, q), Greater(q, r)
      PROVE  Greater(p, r)
  BY <1>1, <1>3 DEF Greater
<1>4. \A p, q \in Pairs : p[2] # q[2] => Greater(p, q) \/ Greater(q, p)
  BY <1>1 DEF Greater
<1> QED BY <1>2, <1>3, <1>4

(* What Sorted chooses from.                                               *)
Order(s, f) ==
    /\ f \in [DOMAIN s -> DOMAIN s]
    /\ \A m, n \in DOMAIN s : m < n => Greater(s[f[m]], s[f[n]])

LEMMA OrderExists ==
    ASSUME NEW s \in Seq(Pairs), InOrder(s), NEW p \in Pairs,
           \A m \in DOMAIN s : s[m][2] # p[2]
    PROVE  \E f : Order(Append(s, p), f)
<1> DEFINE t == Append(s, p)
           last == Len(s) + 1
           T == {m \in 1 .. last : m = last \/ Greater(p, s[m])}
<1>1. Len(s) \in Nat /\ DOMAIN s = 1 .. Len(s) /\ DOMAIN t = 1 .. last
  OBVIOUS
<1>2. t[last] = p /\ \A m \in 1 .. Len(s) : t[m] = s[m] /\ s[m] \in Pairs
  OBVIOUS
<1>3. PICK at \in T : \A m \in T : at =< m
  <2>1. T \in SUBSET Nat /\ last \in T
    BY <1>1
  <2> QED BY <2>1, LeastNumber
<1> HIDE DEF t
<1>4. at \in 1 .. last
  BY <1>3
<1>5. \A m \in 1 .. Len(s) : m < at => Greater(s[m], p)
  <2>1. \A m \in 1 .. Len(s) : m < at => ~ Greater(p, s[m])
    BY <1>1, <1>3
  <2> QED BY <1>1, <1>2, <2>1, GreaterFacts
<1>6. \A m \in 1 .. Len(s) : m >= at => Greater(p, s[m])
  <2>1. CASE at = last
    BY <1>1, <2>1
  <2>2. CASE at # last
    <3>1. Greater(p, s[at]) /\ at \in 1 .. Len(s)
      BY <1>1, <1>3, <2>2
    <3>2. \A m \in 1 .. Len(s) : m > at => Greater(s[at], s[m])
      BY <1>1, <3>1 DEF InOrder
    <3> QED BY <1>1, <1>2, <3>1, <3>2, GreaterFacts
  <2> QED BY <2>1, <2>2
<1> DEFINE f == [m \in 1 .. last |-> IF m < at THEN m ELSE IF m = at THEN last ELSE m - 1]
<1> HIDE DEF T
<1>7. f \in [1 .. last -> 1 .. last]
  BY <1>1, <1>4
<1>8. ASSUME NEW m \in 1 .. last, NEW n \in 1 .. last, m < n
      PROVE  Greater(t[f[m]], t[f[n]])
  <2>1. CASE n < at
    BY <1>1, <1>2, <1>4, <1>8, <2>1 DEF InOrder
  <2>2. CASE n = at
    BY <1>1, <1>2, <1>4, <1>5, <1>8, <2>2
  <2>3. CASE n > at /\ m < at
    BY <1>1, <1>2, <1>4, <1>8, <2>3 DEF InOrder
  <2>4. CASE n > at /\ m = at
    BY <1>1, <1>2, <1>4, <1>6, <1>8, <2>4
  <2>5. CASE n > at /\ m > at
    BY <1>1, <1>2, <1>4, <1>8, <2>5 DEF InOrder
  <2> QED BY <1>4, <2>1, <2>2, <2>3, <2>4, <2>5
<1> HIDE DEF f
<1> QED BY <1>1, <1>7, <1>8 DEF Order, t

LEMMA SortedFacts ==
    ASSUME NEW s \in Seq(Pairs), InOrder(s), NEW p \in Pairs,
           \A m \in DOMAIN s : s[m][2] # p[2]
    PROVE  LET t == Append(s, p) IN
           /\ Sorted(t) \in Seq(Pairs) /\ Len(Sorted(t)) = Len(s) + 1
           /\ InOrder(Sorted(t))
           /\ \A m \in DOMAIN t : \E n \in DOMAIN t : Sorted(t)[n] = t[m]
           /\ \A m \in DOMAIN t : \E n \in DOMAIN t : Sorted(t)[m] = t[n]
<1> DEFINE t == Append(s, p)
           D == 1 .. Len(s) + 1
           f == CHOOSE f \in [DOMAIN t -> DOMAIN t] :
                    \A m, n \in DOMAIN t : m < n => Greater(t[f[m]], t[f[n]])
<1>1. Len(s) \in Nat /\ DOMAIN t = D /\ t \in Seq(Pairs) /\ \A m \in D : t[m] \in Pairs
  OBVIOUS
<1>2. \E g \in [DOMAIN t -> DOMAIN t] :
          \A m, n \in DOMAIN t : m < n => Greater(t[g[m]], t[g[n]])
  BY OrderExists DEF Order
<1>3. f \in [D -> D] /\ \A m, n \in D : m < n => Greater(t[f[m]], t[f[n]])
  BY <1>1, <1>2
<1>4. Sorted(t) = [m \in D |-> t[f[m]]]
  BY <1>1 DEF Sorted
<1> HIDE DEF t, f, D
<1>5. \A m, n \in D : f[m] = f[n] => m = n
  <2>1. \A m, n \in D : m < n => f[m] # f[n]
    BY <1>1, <1>3, GreaterFacts
  <2> QED BY <2>1 DEF D
<1>6. \A m \in D : \E n \in D : f[n] = m
  <2>1. f \in Injection(D, D)
    BY <1>3, <1>5 DEF Injection, IsInjective
  <2>2. IsFiniteSet(D)
    BY <1>1, FS_Interval DEF D
  <2>3. f \in Surjection(D, D)
    BY <2>1, <2>2, FS_Injection
  <2> QED BY <2>3 DEF Surjection
<1>7. Sorted(t) \in Seq(Pairs) /\ Len(Sorted(t)) = Len(s) + 1
  <2>1. \A m \in D : t[f[m]] \in Pairs
    BY <1>1, <1>3
  <2> QED BY <1>1, <1>4, <2>1 DEF D
<1>8. InOrder(Sorted(t))
  BY <1>3, <1>4 DEF InOrder
<1>9. /\ \A m \in D : \E n \in D : Sorted(t)[n] = t[m]
      /\ \A m \in D : \E n \in D : Sorted(t)[m] = t[n]
  BY <1>3, <1>4, <1>6
<1> QED BY <1>1, <1>7, <1>8, <1>9 DEF t

-----------------------------------------------------------------------------
(* TopK.  The parts of the invariant: what is kept are pairs that were     *)
(* read, in order; nothing is passed over while there is room; what was    *)
(* passed over is not larger than what is kept; and min_so_far is the      *)
(* smallest value kept, if any is.                                         *)

Held == \E n \in Nat : to_sort \in [1 .. n -> Values] /\ Len(to_sort) = n /\ i =< n

KeptRead == \A j \in DOMAIN top_k :
                top_k[j][2] \in 1 .. i /\ top_k[j][1] = to_sort[top_k[j][2]]

AllKept == i =< k => \A m \in 1 .. i : \E j \in DOMAIN top_k : top_k[j][2] = m

PassedOver == \A m \in 1 .. i :
    (\A j \in DOMAIN top_k : top_k[j][2] # m) => \A j \in DOMAIN top_k : top_k[j][1] >= to_sort[m]

LastIsMin == Len(top_k) > 0 => min_so_far = top_k[Len(top_k)][1]

Selecting ==
    /\ i \in Nat /\ k \in Nat /\ Held
    /\ top_k \in Seq(Pairs) /\ InOrder(top_k)
    /\ Len(top_k) = IF i < k THEN i ELSE k
    /\ KeptRead /\ AllKept /\ PassedOver /\ LastIsMin

TopKInv ==
    /\ min_so_far \in Values
    /\ pc # "topk" => i = 0 /\ top_k = <<>>
    /\ pc = "topk" => Selecting

(* In a list in order, values go down.                                     *)
LEMMA ValuesDown ==
    ASSUME NEW s \in Seq(Pairs), InOrder(s), NEW m \in DOMAIN s, NEW n \in DOMAIN s, m =< n
    PROVE  s[m][1] >= s[n][1] /\ s[m][1] \in Int
<1>1. s[m] \in Pairs /\ s[n] \in Pairs /\ DOMAIN s = 1 .. Len(s)
  OBVIOUS
<1>2. s[m][1] \in Int /\ s[n][1] \in Int
  BY <1>1, BenchmarkAssumption DEF Pairs
<1>3. CASE m = n
  BY <1>2, <1>3
<1>4. CASE m < n
  BY <1>2, <1>4 DEF InOrder, Greater
<1> QED BY <1>1, <1>3, <1>4

LEMMA PassingKeeps ==
    ASSUME Selecting, TakePair, ~ Wanted(to_sort[i']), min_so_far \in Values
    PROVE  Selecting'
<1>1. /\ i' = i + 1 /\ UNCHANGED <<top_k, min_so_far, to_sort, k>> /\ i < Len(to_sort)
  BY DEF TakePair
<1>2. /\ i \in Nat /\ k \in Nat /\ top_k \in Seq(Pairs) /\ InOrder(top_k)
      /\ Len(top_k) = IF i < k THEN i ELSE k
  BY DEF Selecting
<1>3. PICK n \in Nat : to_sort \in [1 .. n -> Values] /\ Len(to_sort) = n /\ i =< n
  BY DEF Selecting, Held
<1>4. to_sort[i + 1] \in Int /\ min_so_far \in Int
  <2>1. to_sort[i + 1] \in Values
    BY <1>1, <1>2, <1>3
  <2> QED BY <2>1, BenchmarkAssumption
<1>5. Len(top_k) = k /\ i >= k /\ to_sort[i + 1] =< min_so_far
  BY <1>1, <1>2, <1>4 DEF Wanted
<1>6. Held'
  BY <1>1, <1>2, <1>3 DEF Held
<1>7. KeptRead'
  BY <1>1, <1>2 DEF Selecting, KeptRead
<1>8. AllKept'
  BY <1>1, <1>2, <1>5 DEF AllKept
<1>9. PassedOver'
  <2> SUFFICES ASSUME NEW m \in 1 .. i + 1, \A j \in DOMAIN top_k : top_k[j][2] # m,
                      NEW j \in DOMAIN top_k
               PROVE  top_k[j][1] >= to_sort[m]
    BY <1>1 DEF PassedOver
  <2>1. CASE m \in 1 .. i
    BY <2>1 DEF Selecting, PassedOver
  <2>2. CASE m = i + 1
    <3>1. Len(top_k) \in DOMAIN top_k /\ j =< Len(top_k) /\ Len(top_k) > 0
      BY <1>2
    <3>2. top_k[j][1] >= top_k[Len(top_k)][1] /\ top_k[j][1] \in Int
      BY <1>2, <3>1, ValuesDown
    <3>3. min_so_far = top_k[Len(top_k)][1]
      BY <3>1 DEF Selecting, LastIsMin
    <3> QED BY <1>4, <1>5, <2>2, <3>2, <3>3
  <2> QED BY <1>2, <2>1, <2>2
<1>10. LastIsMin'
  BY <1>1 DEF Selecting, LastIsMin
<1> QED BY <1>1, <1>2, <1>5, <1>6, <1>7, <1>8, <1>9, <1>10 DEF Selecting

(* The list that the sort leaves, before it is cut.  n is what top_k held. *)
LEMMA TakingKeeps ==
    ASSUME Selecting, TakePair, Wanted(to_sort[i']), min_so_far \in Values
    PROVE  Selecting' /\ min_so_far' \in Values
<1> DEFINE v == to_sort[i + 1]
           p == <<v, i + 1>>
           t == Append(top_k, p)
           r == Sorted(t)
           n == Len(top_k)
<1>1. /\ i' = i + 1 /\ UNCHANGED <<to_sort, k>> /\ i < Len(to_sort)
      /\ top_k' = Inserted(p) /\ min_so_far' \in Back(top_k') /\ Wanted(v)
  BY DEF TakePair
<1>2. /\ i \in Nat /\ k \in Nat /\ top_k \in Seq(Pairs) /\ InOrder(top_k)
      /\ n = (IF i < k THEN i ELSE k) /\ KeptRead /\ AllKept /\ PassedOver /\ LastIsMin
  BY DEF Selecting
<1>3. PICK size \in Nat : to_sort \in [1 .. size -> Values] /\ Len(to_sort) = size /\ i =< size
  BY DEF Selecting, Held
<1>4. v \in Values /\ v \in Int /\ min_so_far \in Int /\ p \in Pairs
  <2>1. v \in Values
    BY <1>1, <1>2, <1>3
  <2>2. v \in Int /\ min_so_far \in Int
    BY <2>1, BenchmarkAssumption
  <2> QED BY <1>2, <2>1, <2>2 DEF Pairs
<1>5. Held'
  BY <1>1, <1>2, <1>3 DEF Held
<1> HIDE DEF v
<1>6. n \in Nat /\ DOMAIN top_k = 1 .. n /\ DOMAIN t = 1 .. n + 1
  BY <1>2, <1>4
<1>7. t[n + 1] = p /\ \A j \in 1 .. n : t[j] = top_k[j]
  BY <1>2, <1>4
<1>8. /\ r \in Seq(Pairs) /\ Len(r) = n + 1 /\ InOrder(r)
      /\ \A m \in DOMAIN t : \E j \in DOMAIN t : r[j] = t[m]
      /\ \A m \in DOMAIN t : \E j \in DOMAIN t : r[m] = t[j]
  <2>1. \A m \in DOMAIN top_k : top_k[m][2] # p[2]
    BY <1>2 DEF KeptRead
  <2> HIDE DEF p
  <2> QED BY <1>2, <1>4, <2>1, SortedFacts
<1> HIDE DEF t, r, n
(* Its elements are the kept ones and the new one.                         *)
<1>9. ASSUME NEW j \in 1 .. n + 1
      PROVE  /\ r[j] = p \/ \E l \in 1 .. n : r[j] = top_k[l]
             /\ r[j][2] \in 1 .. i + 1 /\ r[j][1] = to_sort[r[j][2]]
  <2>1. PICK l \in 1 .. n + 1 : r[j] = t[l]
    BY <1>6, <1>8
  <2>2. CASE l = n + 1
    BY <1>2, <1>7, <2>1, <2>2 DEF v
  <2>3. CASE l \in 1 .. n
    BY <1>2, <1>6, <1>7, <2>1, <2>3 DEF KeptRead
  <2> QED BY <1>6, <2>1, <2>2, <2>3
<1>10. \A l \in 1 .. n : \E j \in 1 .. n + 1 : r[j] = top_k[l]
  <2>1. \A l \in 1 .. n : l \in 1 .. n + 1
    BY <1>6
  <2> QED BY <1>6, <1>7, <1>8, <2>1
<1>11. \E j \in 1 .. n + 1 : r[j] = p
  <2>1. n + 1 \in 1 .. n + 1
    BY <1>6
  <2> QED BY <1>6, <1>7, <1>8, <2>1
(* Cutting it.                                                             *)
<1>12. /\ top_k' \in Seq(Pairs) /\ InOrder(top_k')
       /\ Len(top_k') = (IF i + 1 < k THEN i + 1 ELSE k) /\ Len(top_k') =< n + 1
       /\ \A j \in 1 .. Len(top_k') : top_k'[j] = r[j]
       /\ DOMAIN top_k' = 1 .. Len(top_k')
  <2>1. top_k' = IF Len(r) > k THEN SubSeq(r, 1, k) ELSE r
    BY <1>1 DEF Inserted, r, t
  <2>2. CASE Len(r) > k
    <3>1. top_k' = SubSeq(r, 1, k) /\ k \in 0 .. Len(r)
      BY <1>2, <1>6, <1>8, <2>1, <2>2
    <3>2. /\ top_k' \in Seq(Pairs) /\ Len(top_k') = k
          /\ \A j \in 1 .. k : top_k'[j] = r[j]
      BY <1>2, <1>8, <3>1
    <3>3. DOMAIN top_k' = 1 .. k
      BY <3>2
    <3>4. InOrder(top_k')
      <4>1. \A j \in 1 .. k : j \in DOMAIN r
        BY <1>2, <1>6, <1>8, <2>2
      <4> QED BY <1>8, <3>2, <3>3, <4>1 DEF InOrder
    <3>5. k = IF i + 1 < k THEN i + 1 ELSE k
      BY <1>2, <1>8, <2>2
    <3> QED BY <1>2, <1>8, <2>2, <3>2, <3>3, <3>4, <3>5
  <2>3. CASE ~ (Len(r) > k)
    <3>1. top_k' = r /\ n + 1 = i + 1 /\ i + 1 =< k
      BY <1>2, <1>6, <1>8, <2>1, <2>3
    <3> QED BY <1>2, <1>8, <3>1
  <2> QED BY <2>2, <2>3
<1>13. KeptRead'
  <2>1. \A j \in 1 .. Len(top_k') : j \in 1 .. n + 1
    BY <1>6, <1>12
  <2> QED BY <1>1, <1>9, <1>12, <2>1 DEF KeptRead
<1>14. AllKept'
  <2> SUFFICES ASSUME i + 1 =< k, NEW m \in 1 .. i + 1
               PROVE  \E j \in DOMAIN top_k' : top_k'[j][2] = m
    BY <1>1 DEF AllKept
  <2>1. n = i /\ DOMAIN top_k' = 1 .. n + 1
    BY <1>2, <1>12
  <2>2. CASE m = i + 1
    BY <1>11, <1>12, <2>1, <2>2
  <2>3. CASE m \in 1 .. i
    <3>1. PICK l \in 1 .. n : top_k[l][2] = m
      <4>1. i =< k
        BY <1>2
      <4> QED BY <1>2, <1>6, <2>3, <4>1 DEF AllKept
    <3> QED BY <1>10, <1>12, <2>1, <3>1
  <2> QED BY <1>2, <2>2, <2>3
<1>15. PassedOver'
  <2> SUFFICES ASSUME NEW m \in 1 .. i + 1, \A j \in DOMAIN top_k' : top_k'[j][2] # m,
                      NEW j \in DOMAIN top_k'
               PROVE  top_k'[j][1] >= to_sort[m]
    BY <1>1 DEF PassedOver
  <2>1. j \in 1 .. n + 1 /\ j \in 1 .. Len(top_k') /\ top_k'[j] = r[j] /\ k >= 1
    BY <1>2, <1>6, <1>12
  <2>2. CASE \E q \in 1 .. n + 1 : r[q][2] = m
    <3>1. PICK q \in 1 .. n + 1 : r[q][2] = m
      BY <2>2
    <3>2. q \notin 1 .. Len(top_k')
      BY <1>12, <3>1
    <3>3. j =< q /\ j \in DOMAIN r /\ q \in DOMAIN r
      <4>1. DOMAIN r = 1 .. n + 1
        BY <1>6, <1>8
      <4>2. Len(top_k') \in Nat /\ q \in Nat /\ q > Len(top_k')
        BY <1>6, <1>12, <3>1, <3>2
      <4> QED BY <2>1, <3>1, <4>1, <4>2
    <3>4. r[j][1] >= r[q][1]
      BY <1>8, <3>3, ValuesDown
    <3> QED BY <1>9, <2>1, <3>1, <3>4
  <2>3. CASE \A q \in 1 .. n + 1 : r[q][2] # m
    <3>1. \A l \in 1 .. n : top_k[l][2] # m
      BY <1>10, <2>3
    <3>2. m \in 1 .. i
      BY <1>2, <1>11, <2>3
    <3>3. \A l \in 1 .. n : top_k[l][1] >= to_sort[m]
      BY <1>2, <1>6, <3>1, <3>2 DEF PassedOver
    <3>4. i > k /\ n = k
      <4>1. ~ (i =< k)
        BY <1>2, <1>6, <3>1, <3>2 DEF AllKept
      <4> QED BY <1>2, <4>1
    <3>5. CASE r[j] = p
      <4>1. v > min_so_far
        BY <1>1, <1>2, <3>4 DEF Wanted, n
      <4>2. n \in 1 .. n /\ min_so_far = top_k[n][1]
        BY <1>2, <1>6, <2>1, <3>4 DEF LastIsMin, n
      <4>3. min_so_far >= to_sort[m] /\ to_sort[m] \in Int
        <5>1. to_sort[m] \in Values
          BY <1>2, <1>3, <3>2
        <5> QED BY <3>3, <4>2, <5>1, BenchmarkAssumption
      <4> QED BY <1>4, <2>1, <3>5, <4>1, <4>3
    <3>6. CASE r[j] # p
      BY <1>9, <2>1, <3>3, <3>6
    <3> QED BY <3>5, <3>6
  <2> QED BY <2>2, <2>3
<1>16. min_so_far' \in Values /\ LastIsMin'
  <2>1. CASE Len(top_k') = 0
    <3>1. top_k' = <<>>
      BY <1>12, <2>1
    <3> QED BY <1>1, <2>1, <3>1 DEF Back, LastIsMin
  <2>2. CASE Len(top_k') # 0
    <3>1. top_k' # <<>> /\ Len(top_k') \in DOMAIN top_k'
      BY <1>12, <2>2
    <3>2. min_so_far' = top_k'[Len(top_k')][1]
      BY <1>1, <3>1 DEF Back
    <3>3. top_k'[Len(top_k')] \in Pairs
      BY <1>12, <3>1
    <3> QED BY <3>2, <3>3 DEF LastIsMin, Pairs
  <2> QED BY <2>1, <2>2
<1> QED BY <1>1, <1>2, <1>5, <1>12, <1>13, <1>14, <1>15, <1>16 DEF Selecting

LEMMA TopKInit ==
    ASSUME BInit
    PROVE  TopKInv
BY BenchmarkAssumption DEF BInit, TopKInv

LEMMA CallSelects ==
    ASSUME TopKInv, NEW n \in 0 .. MaxPairs, NEW size \in 0 .. MaxK, NEW pairs \in [1 .. n -> Values],
           CallTopK(pairs, size)
    PROVE  Selecting'
<1>1. /\ i' = 0 /\ top_k' = <<>> /\ to_sort' = pairs /\ k' = size
  BY DEF CallTopK, TopKInv
<1>2. n \in Nat /\ size \in Nat
  BY BenchmarkAssumption
<1>3. Len(pairs) = n
  <2>1. pairs \in Seq(Values)
    BY <1>2
  <2>2. Len(pairs) \in Nat /\ DOMAIN pairs = 1 .. Len(pairs)
    BY <2>1
  <2> QED BY <1>2, <2>2
<1>4. Held'
  BY <1>1, <1>2, <1>3 DEF Held
<1>5. KeptRead' /\ AllKept' /\ PassedOver' /\ LastIsMin'
  BY <1>1 DEF KeptRead, AllKept, PassedOver, LastIsMin
<1>6. top_k' \in Seq(Pairs) /\ InOrder(top_k') /\ Len(top_k') = 0
  BY <1>1 DEF InOrder
<1> QED BY <1>1, <1>2, <1>4, <1>5, <1>6 DEF Selecting

LEMMA TopKNext ==
    ASSUME TopKInv, [BNext]_bvars
    PROVE  TopKInv'
<1> USE DEF sorter
<1>1. ASSUME UNCHANGED sorter, pc' # "topk", pc # "topk"
      PROVE  TopKInv'
  BY <1>1 DEF TopKInv
<1>2. ASSUME NEW base \in Bases, Reload(base)
      PROVE  TopKInv'
  BY <1>1, <1>2 DEF Reload
<1>3. CASE PickGiven
  BY <1>1, <1>3 DEF PickGiven
<1>4. CASE BeginPick
  BY <1>1, <1>4 DEF BeginPick
<1>5. ASSUME NEW v \in Vertices(graph), Draw(v)
      PROVE  TopKInv'
  <2>1. pc = "draw" /\ pc' \in {"draw", "idle"}
    BY <1>5 DEF Draw
  <2> QED BY <1>1, <1>5, <2>1 DEF Draw
<1>6. ASSUME NEW n \in 0 .. MaxPairs, NEW size \in 0 .. MaxK, NEW pairs \in [1 .. n -> Values],
             CallTopK(pairs, size)
      PROVE  TopKInv'
  <2>1. Selecting'
    BY <1>6, CallSelects
  <2>2. pc' = "topk" /\ min_so_far' = min_so_far
    BY <1>6 DEF CallTopK
  <2> QED BY <2>1, <2>2 DEF TopKInv
<1>7. CASE TakePair
  <2>1. pc = "topk" /\ pc' = "topk" /\ Selecting /\ min_so_far \in Values
    BY <1>7 DEF TakePair, TopKInv
  <2>2. CASE Wanted(to_sort[i'])
    <3>1. Selecting' /\ min_so_far' \in Values
      BY <1>7, <2>1, <2>2, TakingKeeps
    <3> QED BY <2>1, <3>1 DEF TopKInv
  <2>3. CASE ~ Wanted(to_sort[i'])
    <3>1. Selecting'
      BY <1>7, <2>1, <2>3, PassingKeeps
    <3>2. min_so_far' = min_so_far
      BY <1>7, <2>3 DEF TakePair
    <3> QED BY <2>1, <3>1, <3>2 DEF TopKInv
  <2> QED BY <2>2, <2>3
<1>8. CASE ReturnTopK
  BY <1>8, BenchmarkAssumption DEF ReturnTopK, TopKInv
<1>9. CASE UNCHANGED bvars
  <2>1. UNCHANGED <<sorter, pc>>
    BY <1>9 DEF bvars
  <2> QED BY <2>1 DEF TopKInv, Selecting, Held, KeptRead, AllKept, PassedOver, LastIsMin
<1> QED BY <1>2, <1>3, <1>4, <1>5, <1>6, <1>7, <1>8, <1>9 DEF BNext

(* The invariant says what the property does: the keys of a list in order  *)
(* are different, since equal keys have equal values.                      *)
LEMMA TopKHolds ==
    ASSUME TopKInv
    PROVE  TopKSoFar
<1> SUFFICES ASSUME pc = "topk" PROVE TopKSoFar
  BY DEF TopKSoFar
<1> DEFINE n == Len(top_k)
           kept == {top_k[j][2] : j \in DOMAIN top_k}
<1>1. /\ top_k \in Seq(Pairs) /\ InOrder(top_k) /\ KeptRead /\ PassedOver
      /\ n = (IF i < k THEN i ELSE k) /\ i \in Nat
  BY DEF TopKInv, Selecting
<1>2. n \in Nat /\ DOMAIN top_k = 1 .. n
  BY <1>1
<1>3. Cardinality(kept) = n
  <2> DEFINE f == [j \in 1 .. n |-> top_k[j][2]]
  <2>1. \A j \in 1 .. n : f[j] \in kept
    BY <1>2
  <2>2. \A l, j \in 1 .. n : l < j => f[l] # f[j]
    <3> SUFFICES ASSUME NEW l \in 1 .. n, NEW j \in 1 .. n, l < j, top_k[l][2] = top_k[j][2]
                 PROVE  FALSE
      OBVIOUS
    <3>1. Greater(top_k[l], top_k[j])
      BY <1>1, <1>2 DEF InOrder
    <3>2. top_k[l][1] = top_k[j][1]
      BY <1>1, <1>2 DEF KeptRead
    <3>3. top_k[l][1] \in Int /\ top_k[l][2] \in Int
      <4>1. top_k[l] \in Pairs
        BY <1>1, <1>2
      <4> QED BY <4>1, BenchmarkAssumption DEF Pairs
    <3> QED BY <3>1, <3>2, <3>3 DEF Greater
  <2>3. \A l, j \in 1 .. n : f[l] = f[j] => l = j
    <3> HIDE DEF f
    <3> QED BY <2>2
  <2>4. \A e \in kept : \E j \in 1 .. n : f[j] = e
    BY <1>2
  <2>5. f \in [1 .. n -> kept]
    BY <2>1
  <2> HIDE DEF f, kept, n
  <2>6. f \in Bijection(1 .. n, kept)
    BY <2>3, <2>4, <2>5 DEF Bijection, Injection, Surjection, IsInjective
  <2>7. ExistsBijection(1 .. n, kept)
    BY <2>6 DEF ExistsBijection
  <2> QED BY <1>2, <2>7, FS_CountingElements
<1>4. kept \subseteq 1 .. i
  BY <1>1 DEF KeptRead
<1>5. \A j \in DOMAIN top_k : top_k[j][1] = to_sort[top_k[j][2]]
  BY <1>1 DEF KeptRead
<1>6. ASSUME NEW j \in 2 .. Len(top_k)
      PROVE  top_k[j - 1][1] >= top_k[j][1]
  <2>1. j - 1 \in DOMAIN top_k /\ j \in DOMAIN top_k /\ j - 1 =< j
    BY <1>2
  <2> QED BY <1>1, <2>1, ValuesDown
<1>7. ASSUME NEW j \in DOMAIN top_k, NEW m \in 1 .. i \ kept
      PROVE  top_k[j][1] >= to_sort[m]
  <2>1. \A l \in DOMAIN top_k : top_k[l][2] # m
    BY <1>7
  <2> QED BY <1>1, <2>1 DEF PassedOver
<1> QED BY <1>1, <1>3, <1>4, <1>5, <1>6, <1>7 DEF TopKSoFar

(* TopK returns the k largest of the values it is given, or all of them,   *)
(* for any number of values, with ties, negative values and k = 0: the     *)
(* test against min_so_far (benchmark.h:84) passes over no value that      *)
(* belongs in the answer, and what back() reads of an empty vector does    *)
(* not matter.                                                             *)
THEOREM TopKSoFarCorrect == BSpec => []TopKSoFar
<1>1. BInit => TopKInv
  BY TopKInit
<1>2. TopKInv /\ [BNext]_bvars => TopKInv'
  BY TopKNext
<1>3. TopKInv => TopKSoFar
  BY TopKHolds
<1> QED BY <1>1, <1>2, <1>3, PTL DEF BSpec

-----------------------------------------------------------------------------
(* Reading a graph.  The invariant: its index begins at the neighbors      *)
(* array, never goes down, and spans an even number of neighbors if every  *)
(* edge is in two neighborhoods.                                           *)

WellIndexed(g) ==
    /\ \E directed \in BOOLEAN, n \in Nat \ {0} : \E index \in [0 .. n -> Nat] :
          g = Graph(directed, n, index)
    /\ g.index[0] \in Bases
    /\ \A v \in Vertices(g) : g.index[v] =< g.index[v + 1]
    /\ g.directed \/ (g.index[g.num_nodes] - g.index[0]) % 2 = 0

LEMMA WellIndexedType ==
    ASSUME NEW g, WellIndexed(g)
    PROVE  /\ g.num_nodes \in Nat \ {0} /\ g.directed \in BOOLEAN
           /\ g.index \in [0 .. g.num_nodes -> Nat]
           /\ g = Graph(g.directed, g.num_nodes, g.index)
BY DEF WellIndexed, Graph

LEMMA IndexOfFacts ==
    ASSUME NEW n \in Nat, NEW degree \in [0 .. n - 1 -> Nat], NEW base \in Nat
    PROVE  /\ IndexOf(n, degree, base) \in [0 .. n -> Nat]
           /\ IndexOf(n, degree, base)[0] = base
           /\ \A m \in 1 .. n :
                 IndexOf(n, degree, base)[m] = IndexOf(n, degree, base)[m - 1] + degree[m - 1]
<1> DEFINE Is(f, m) == /\ f \in [0 .. m -> Nat] /\ f[0] = base
                       /\ \A j \in 1 .. m : f[j] = f[j - 1] + degree[j - 1]
           Exists(m) == \E f : Is(f, m)
           S == {m \in Nat : m =< n => Exists(m)}
           Body(f) == [m \in 0 .. n |-> IF m = 0 THEN base ELSE f[m - 1] + degree[m - 1]]
<1>1. 0 \in S
  <2>1. Is([j \in 0 .. 0 |-> base], 0)
    OBVIOUS
  <2>2. Exists(0)
    BY <2>1
  <2> HIDE DEF Exists
  <2> QED BY <2>2
<1>2. ASSUME NEW m \in Nat, m \in S
      PROVE  m + 1 \in S
  <2> SUFFICES ASSUME m + 1 =< n PROVE Exists(m + 1)
    <3> HIDE DEF Exists
    <3> QED OBVIOUS
  <2>0. Exists(m)
    <3> HIDE DEF Exists
    <3> QED BY <1>2
  <2>1. PICK f : Is(f, m)
    BY <2>0
  <2> DEFINE h == [j \in 0 .. m + 1 |-> IF j =< m THEN f[j] ELSE f[m] + degree[m]]
  <2>2. f[m] \in Nat /\ degree[m] \in Nat
    BY <2>1
  <2>3. h \in [0 .. m + 1 -> Nat]
    BY <2>1, <2>2
  <2>4. h[0] = base
    BY <2>1
  <2>5. \A j \in 1 .. m + 1 : h[j] = h[j - 1] + degree[j - 1]
    <3>1. \A j \in 1 .. m : h[j] = f[j] /\ h[j - 1] = f[j - 1]
      OBVIOUS
    <3>2. h[m + 1] = f[m] + degree[m] /\ h[m] = f[m]
      OBVIOUS
    <3> HIDE DEF h
    <3> QED BY <2>1, <3>1, <3>2
  <2> HIDE DEF h
  <2>6. Is(h, m + 1)
    BY <2>3, <2>4, <2>5
  <2> QED BY <2>6
<1>3. n \in S
  <2> HIDE DEF S
  <2> QED BY <1>1, <1>2, EveryNumber
<1>4. PICK f : Is(f, n)
  BY <1>3
<1>5. f = Body(f)
  BY <1>4
<1>6. IndexOf(n, degree, base) = CHOOSE g : g = Body(g)
  BY DEF IndexOf
<1>7. IndexOf(n, degree, base) = Body(IndexOf(n, degree, base))
  <2> HIDE DEF Body
  <2> QED BY <1>5, <1>6
<1> DEFINE at == IndexOf(n, degree, base)
<1>8. at[0] = base /\ \A m \in 1 .. n : at[m] = at[m - 1] + degree[m - 1]
  <2> HIDE DEF at
  <2>1. at = Body(at)
    BY <1>7 DEF at
  <2>2. \A m \in 0 .. n : at[m] = Body(at)[m]
    BY <2>1
  <2> QED BY <2>2
<1>9. at \in [0 .. n -> Nat]
  <2> DEFINE N == {m \in Nat : m =< n => at[m] \in Nat}
  <2> HIDE DEF at
  <2>1. 0 \in N
    BY <1>8
  <2>2. ASSUME NEW m \in Nat, m \in N
        PROVE  m + 1 \in N
    <3> SUFFICES ASSUME m + 1 =< n PROVE at[m + 1] \in Nat
      OBVIOUS
    <3>1. at[m + 1] = at[m] + degree[m] /\ at[m] \in Nat /\ degree[m] \in Nat
      BY <1>8, <2>2
    <3> QED BY <3>1
  <2>3. Nat \subseteq N
    <3> HIDE DEF N
    <3> QED BY <2>1, <2>2, EveryNumber
  <2>4. at = Body(at)
    BY <1>7 DEF at
  <2>5. \A m \in 0 .. n : at[m] \in Nat
    BY <2>3
  <2>6. DOMAIN at = 0 .. n /\ at = [m \in 0 .. n |-> at[m]]
    BY <2>4
  <2> QED BY <2>5, <2>6
<1> QED BY <1>8, <1>9

LEMMA IndexRises ==
    ASSUME NEW g, WellIndexed(g)
    PROVE  \A v, w \in 0 .. g.num_nodes : v =< w => g.index[v] =< g.index[w]
<1> DEFINE n == g.num_nodes
           at == g.index
           S == {d \in Nat : \A v \in 0 .. n : v + d =< n => at[v] =< at[v + d]}
<1>1. n \in Nat \ {0} /\ at \in [0 .. n -> Nat] /\ \A v \in 0 .. n - 1 : at[v] =< at[v + 1]
  BY WellIndexedType DEF WellIndexed, Vertices
<1> HIDE DEF n, at
<1>2. 0 \in S
  BY <1>1
<1>3. ASSUME NEW d \in Nat, d \in S
      PROVE  d + 1 \in S
  <2> SUFFICES ASSUME NEW v \in 0 .. n, v + (d + 1) =< n PROVE at[v] =< at[v + (d + 1)]
    OBVIOUS
  <2>1. at[v] =< at[v + d]
    BY <1>1, <1>3
  <2>2. at[v + d] =< at[(v + d) + 1] /\ (v + d) + 1 = v + (d + 1)
    BY <1>1
  <2>3. at[v] \in Nat /\ at[v + d] \in Nat /\ at[v + (d + 1)] \in Nat
    BY <1>1
  <2> QED BY <2>1, <2>2, <2>3
<1>4. Nat \subseteq S
  <2> HIDE DEF S
  <2> QED BY <1>2, <1>3, EveryNumber
<1>5. ASSUME NEW v \in 0 .. n, NEW w \in 0 .. n, v =< w
      PROVE  at[v] =< at[w]
  <2>1. w - v \in Nat /\ v + (w - v) = w
    BY <1>1, <1>5
  <2>2. w - v \in S
    BY <1>4, <2>1
  <2> QED BY <2>1, <2>2
<1> QED BY <1>5 DEF n, at

LEMMA BuiltWellIndexed ==
    ASSUME NEW g \in BuiltGraphs
    PROVE  WellIndexed(g)
<1>0. PICK directed \in BOOLEAN, n \in NumNodes, base \in Bases :
          \E degree \in [0 .. n - 1 -> Degrees] : g = Graph(directed, n, IndexOf(n, degree, base))
  BY DEF BuiltGraphs
<1>1. PICK degree \in [0 .. n - 1 -> Degrees] : g = Graph(directed, n, IndexOf(n, degree, base))
  BY <1>0
<1> DEFINE index == IndexOf(n, degree, base)
<1>2. /\ n \in Nat \ {0} /\ n \in Nat /\ base \in Nat /\ degree \in [0 .. n - 1 -> Nat]
      /\ \A m \in 0 .. n - 1 : degree[m] \in Nat
  BY BenchmarkAssumption
<1>3. /\ index \in [0 .. n -> Nat] /\ index[0] = base
      /\ \A m \in 1 .. n : index[m] = index[m - 1] + degree[m - 1]
  BY <1>2, IndexOfFacts
<1> HIDE DEF index
<1>4. g = Graph(directed, n, index)
  BY <1>1 DEF index
<1>5. g.index = index /\ g.num_nodes = n /\ g.directed = directed
  BY <1>4 DEF Graph
<1>6. \A v \in 0 .. n - 1 : index[v] =< index[v + 1]
  <2> TAKE v \in 0 .. n - 1
  <2>1. v + 1 \in 1 .. n /\ (v + 1) - 1 = v
    BY <1>2
  <2>2. index[v + 1] = index[v] + degree[v] /\ index[v] \in Nat /\ degree[v] \in Nat
    BY <1>2, <1>3, <2>1
  <2> QED BY <2>2
<1>7. g.directed \/ (g.index[g.num_nodes] - g.index[0]) % 2 = 0
  BY DEF BuiltGraphs
<1> QED BY <1>2, <1>3, <1>4, <1>5, <1>6, <1>7 DEF WellIndexed, Vertices

LEMMA ReloadWellIndexed ==
    ASSUME NEW g, WellIndexed(g), NEW base \in Bases
    PROVE  WellIndexed([g EXCEPT !.index = GenIndex(VertexOffsets(g), base)])
<1> DEFINE n == g.num_nodes
           at == g.index
           new == [v \in 0 .. n |-> base + (at[v] - at[0])]
           h == [g EXCEPT !.index = GenIndex(VertexOffsets(g), base)]
<1>1. n \in Nat \ {0} /\ g.directed \in BOOLEAN /\ at \in [0 .. n -> Nat] /\ g = Graph(g.directed, n, at)
  BY WellIndexedType
<1>2. base \in Nat
  BY BenchmarkAssumption
<1>3. GenIndex(VertexOffsets(g), base) = new
  BY DEF GenIndex, VertexOffsets
<1>4. h = Graph(g.directed, n, new) /\ h.index = new /\ h.num_nodes = n /\ h.directed = g.directed
  <2> HIDE DEF n, at, new
  <2> QED BY <1>1, <1>3 DEF Graph
<1>5. \A v \in 0 .. n : at[0] =< at[v]
  <2>1. 0 \in 0 .. n /\ \A v \in 0 .. n : 0 =< v
    BY <1>1
  <2> QED BY <2>1, IndexRises
<1>6. new \in [0 .. n -> Nat]
  <2> SUFFICES ASSUME NEW v \in 0 .. n PROVE base + (at[v] - at[0]) \in Nat
    OBVIOUS
  <2>1. at[v] \in Nat /\ at[0] \in Nat /\ at[0] =< at[v]
    BY <1>1, <1>5
  <2> HIDE DEF at
  <2> QED BY <1>2, <2>1
<1>7. new[0] = base /\ new[0] \in Bases
  BY <1>1, <1>2
<1>8. \A v \in 0 .. n - 1 : new[v] =< new[v + 1]
  <2> TAKE v \in 0 .. n - 1
  <2>1. v \in 0 .. n /\ v + 1 \in 0 .. n /\ at[v] =< at[v + 1]
    BY <1>1 DEF WellIndexed, Vertices
  <2>2. at[v] \in Nat /\ at[v + 1] \in Nat /\ at[0] \in Nat
    BY <1>1, <2>1
  <2>3. new[v] = base + (at[v] - at[0]) /\ new[v + 1] = base + (at[v + 1] - at[0])
    BY <2>1
  <2> HIDE DEF at, new
  <2> QED BY <1>2, <2>1, <2>2, <2>3
<1>9. new[n] - new[0] = at[n] - at[0]
  <2>1. at[n] \in Nat /\ at[0] \in Nat /\ n \in 0 .. n
    BY <1>1
  <2> QED BY <1>2, <1>7, <2>1
<1>10. g.directed \/ (new[n] - new[0]) % 2 = 0
  BY <1>9 DEF WellIndexed
<1> HIDE DEF h, new, n
<1>11. WellIndexed(h)
  BY <1>1, <1>4, <1>6, <1>7, <1>8, <1>10 DEF WellIndexed, Vertices
<1> QED BY <1>11 DEF h

LEMMA WellIndexedNext ==
    ASSUME WellIndexed(graph), [BNext]_bvars
    PROVE  WellIndexed(graph)'
<1> SUFFICES WellIndexed(graph')
  BY DEF WellIndexed, Vertices
<1>1. ASSUME NEW base \in Bases, Reload(base)
      PROVE  WellIndexed(graph')
  BY <1>1, ReloadWellIndexed DEF Reload
<1>2. graph' = graph \/ \E base \in Bases : Reload(base)
  BY DEF BNext, bvars, picker, PickGiven, BeginPick, Draw, CallTopK, TakePair, ReturnTopK
<1> QED BY <1>1, <1>2

(* The neighborhood of a vertex, and what an offset leaves of it.          *)
LEMMA RowFacts ==
    ASSUME NEW g, WellIndexed(g), NEW v \in Vertices(g), NEW offset \in Nat
    PROVE  LET h == Neighborhood(g, v, offset)
               row == Cells(Neighborhood(g, v, 0)) IN
           /\ row = g.index[v] .. g.index[v + 1] - 1
           /\ h.begin =< h.end
           /\ Cells(h) = {c \in row : Cardinality({b \in row : b < c}) >= offset}
<1> DEFINE first == g.index[v]
           end == g.index[v + 1]
           row == Cells(Neighborhood(g, v, 0))
           h == Neighborhood(g, v, offset)
<1>1. first \in Nat /\ end \in Nat /\ first =< end
  <2>1. v \in 0 .. g.num_nodes /\ v + 1 \in 0 .. g.num_nodes
    BY WellIndexedType DEF Vertices
  <2> QED BY <2>1, WellIndexedType DEF WellIndexed
<1> HIDE DEF first, end
<1>2. row = first .. end - 1
  BY <1>1 DEF Cells, Neighborhood, Degree, first, end
<1>3. /\ h.begin = (IF offset < end - first THEN first + offset ELSE end) /\ h.end = end
  BY <1>1 DEF Neighborhood, Degree, first, end
<1> HIDE DEF row, h
<1>4. ASSUME NEW c \in row
      PROVE  Cardinality({b \in row : b < c}) = c - first
  <2>1. {b \in row : b < c} = first .. c - 1
    BY <1>1, <1>2
  <2>2. c \in Int /\ c >= first
    BY <1>1, <1>2
  <2>3. Cardinality(first .. c - 1) = IF first > c - 1 THEN 0 ELSE (c - 1) - first + 1
    BY <1>1, <2>2, FS_Interval
  <2>4. Cardinality(first .. c - 1) = c - first
    BY <1>1, <2>2, <2>3
  <2> QED BY <2>1, <2>4
<1>5. h.begin =< h.end
  BY <1>1, <1>3
<1>6. Cells(h) = {c \in row : c - first >= offset}
  BY <1>1, <1>2, <1>3 DEF Cells
<1>7. Cells(h) = {c \in row : Cardinality({b \in row : b < c}) >= offset}
  BY <1>4, <1>6
<1> QED BY <1>2, <1>5, <1>7 DEF row, h, first, end

LEMMA SpanFacts ==
    ASSUME NEW g, WellIndexed(g)
    PROVE  NumEdgesDirected(g) = g.index[g.num_nodes] - g.index[0]
<1> DEFINE span == g.index[g.num_nodes] - g.index[0]
<1>1. span \in Int
  <2>1. 0 \in 0 .. g.num_nodes /\ g.num_nodes \in 0 .. g.num_nodes
    BY WellIndexedType
  <2> QED BY <2>1, WellIndexedType
<1>2. g.directed \/ span % 2 = 0
  BY DEF WellIndexed
<1> HIDE DEF span
<1>3. NumEdgesDirected(g) = IF g.directed THEN span ELSE 2 * (span \div 2)
  BY DEF NumEdgesDirected, NumEdges, span
<1> QED BY <1>1, <1>2, <1>3 DEF span

(* The neighbor at c is reached from the last vertex whose neighborhood    *)
(* does not begin behind it.                                               *)
LEMMA CellReached ==
    ASSUME NEW g, WellIndexed(g), NEW c \in g.index[0] .. g.index[g.num_nodes] - 1
    PROVE  \E v \in Vertices(g) : c \in g.index[v] .. g.index[v + 1] - 1
<1> DEFINE n == g.num_nodes
           at == g.index
           T == {v \in 0 .. n : at[v] > c}
<1>1. n \in Nat \ {0} /\ at \in [0 .. n -> Nat] /\ c \in Int /\ c >= at[0] /\ c < at[n]
  <2>1. 0 \in 0 .. g.num_nodes /\ g.num_nodes \in 0 .. g.num_nodes
    BY WellIndexedType
  <2> QED BY <2>1, WellIndexedType
<1> HIDE DEF at, n
<1>2. PICK w \in T : \A v \in T : w =< v
  <2>1. n \in T /\ T \in SUBSET Nat
    BY <1>1
  <2> HIDE DEF T
  <2> QED BY <2>1, LeastNumber
<1>3. w \in 1 .. n /\ at[w] > c
  BY <1>1, <1>2
<1>4. w - 1 \in 0 .. n - 1 /\ ~ (at[w - 1] > c)
  <2>1. w - 1 \in 0 .. n - 1 /\ w - 1 \in 0 .. n /\ ~ (w =< w - 1)
    BY <1>1, <1>3
  <2> QED BY <1>2, <2>1
<1>5. at[w - 1] \in Int /\ at[w] \in Int /\ (w - 1) + 1 = w
  BY <1>1, <1>3, <1>4
<1>6. c \in at[w - 1] .. at[(w - 1) + 1] - 1
  BY <1>1, <1>3, <1>4, <1>5
<1> QED BY <1>4, <1>6 DEF Vertices, at, n

LEMMA NeighborsHold ==
    ASSUME WellIndexed(graph)
    PROVE  NeighborsReached
<1> DEFINE at == graph.index
           n == graph.num_nodes
           V == Vertices(graph)
           rows == [v \in V |-> Cells(Neighborhood(graph, v, 0))]
<1>1. n \in Nat \ {0} /\ at \in [0 .. n -> Nat] /\ V = 0 .. n - 1 /\ at[0] \in Bases
  BY WellIndexedType DEF WellIndexed, Vertices
<1>2. \A v, w \in 0 .. n : v =< w => at[v] =< at[w]
  BY IndexRises
<1>3. \A v \in V : rows[v] = at[v] .. at[v + 1] - 1
  <2> SUFFICES ASSUME NEW v \in V
               PROVE  Cells(Neighborhood(graph, v, 0)) = at[v] .. at[v + 1] - 1
    OBVIOUS
  <2> QED BY RowFacts
<1>4. at[0] + NumEdgesDirected(graph) - 1 = at[n] - 1
  <2>1. at[0] \in Int /\ at[n] \in Int
    BY <1>1
  <2> QED BY <2>1, SpanFacts
<1>5. \A v \in V : /\ v \in 0 .. n /\ v + 1 \in 0 .. n
                   /\ at[v] \in Nat /\ at[v + 1] \in Nat /\ at[0] =< at[v] /\ at[v + 1] =< at[n]
  <2> TAKE v \in V
  <2>1. v \in 0 .. n /\ v + 1 \in 0 .. n /\ 0 \in 0 .. n /\ n \in 0 .. n /\ 0 =< v /\ v + 1 =< n
    BY <1>1
  <2>2. at[v] \in Nat /\ at[v + 1] \in Nat
    BY <1>1, <2>1
  <2> QED BY <1>2, <2>1, <2>2
<1>6. at[0] \in Nat /\ at[n] \in Nat
  BY <1>1
<1>7. \A c \in at[0] .. at[n] - 1 : \E v \in V : c \in at[v] .. at[v + 1] - 1
  BY CellReached
<1> HIDE DEF rows, V, at, n
<1>8. UNION {rows[v] : v \in V} = at[0] .. at[n] - 1
  <2>1. ASSUME NEW v \in V, NEW c \in rows[v]
        PROVE  c \in at[0] .. at[n] - 1
    BY <1>3, <1>5, <1>6, <2>1
  <2>2. \A c \in at[0] .. at[n] - 1 : \E v \in V : c \in rows[v]
    BY <1>3, <1>7
  <2> QED BY <2>1, <2>2
<1>9. \A v, w \in V : v < w => rows[v] \cap rows[w] = {}
  <2> SUFFICES ASSUME NEW v \in V, NEW w \in V, v < w PROVE rows[v] \cap rows[w] = {}
    OBVIOUS
  <2>1. v + 1 =< w
    BY <1>1
  <2>2. at[v + 1] =< at[w]
    BY <1>2, <1>5, <2>1
  <2>3. rows[v] = at[v] .. at[v + 1] - 1 /\ rows[w] = at[w] .. at[w + 1] - 1
    BY <1>3
  <2>4. at[v] \in Int /\ at[v + 1] \in Int /\ at[w] \in Int /\ at[w + 1] \in Int
    BY <1>5
  <2>5. \A c \in rows[v] : c \notin rows[w]
    BY <2>2, <2>3, <2>4
  <2> QED BY <2>5
<1>10. \A v, w \in V : v # w => rows[v] \cap rows[w] = {}
  <2> SUFFICES ASSUME NEW v \in V, NEW w \in V, v # w PROVE rows[v] \cap rows[w] = {}
    OBVIOUS
  <2>1. v < w \/ w < v
    BY <1>1
  <2> QED BY <1>9, <2>1
<1>11. ASSUME NEW v \in V, NEW offset \in Degrees \cup {MaxPairs + 1}
       PROVE  LET h == Neighborhood(graph, v, offset) IN
              /\ h.begin =< h.end
              /\ Cells(h) = {c \in rows[v] : Cardinality({b \in rows[v] : b < c}) >= offset}
  <2>1. offset \in Nat
    BY BenchmarkAssumption
  <2>2. rows[v] = Cells(Neighborhood(graph, v, 0))
    BY DEF rows
  <2> QED BY <2>1, <2>2, RowFacts DEF V
<1>12. UNION {rows[v] : v \in V} = at[0] .. at[0] + NumEdgesDirected(graph) - 1
  BY <1>4, <1>8
<1> QED BY <1>1, <1>10, <1>11, <1>12 DEF NeighborsReached, rows, V, at, n

(* A graph of any size, read from wherever it was loaded to, is read       *)
(* whole: each neighbor that num_edges_directed counts is in the           *)
(* neighborhood of one vertex, and an offset of any size skips as many as  *)
(* there are and stops at the end (graph.h:258-317).                       *)
THEOREM NeighborsReachedCorrect == BSpec => []NeighborsReached
<1>1. BInit => WellIndexed(graph)
  BY BuiltWellIndexed DEF BInit
<1>2. WellIndexed(graph) /\ [BNext]_bvars => WellIndexed(graph)'
  BY WellIndexedNext
<1>3. WellIndexed(graph) => NeighborsReached
  BY NeighborsHold
<1> QED BY <1>1, <1>2, <1>3, PTL DEF BSpec
=============================================================================
