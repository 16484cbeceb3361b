-------------------------- MODULE FilteringProofs ---------------------------
(***************************************************************************)
(* What Filter returns, for any sequence and any set of elements to keep.  *)
(***************************************************************************)
EXTENDS Filtering, FiniteSetTheorems, SequenceTheorems, TLAPS

(* Ranks in a finite set of positive numbers: they are smaller for smaller  *)
(* elements, and every one up to the set's size occurs.                     *)
LEMMA Ranks ==
    ASSUME NEW N \in Nat, NEW left \in SUBSET (1..N),
           NEW rank, rank = [i \in left |-> Cardinality({j \in left : j <= i})]
    PROVE  /\ IsFiniteSet(left) /\ Cardinality(left) \in Nat
           /\ rank \in [left -> 1..Cardinality(left)]
           /\ \A i \in left : rank[i] <= i
           /\ \A i, k \in left : i < k => rank[i] < rank[k]
           /\ rank \in Surjection(left, 1..Cardinality(left))
<1>0. \A j \in left : j \in Nat /\ j >= 1
  OBVIOUS
<1>1. IsFiniteSet(left) /\ Cardinality(left) \in Nat
  <2>1. 1 \in Int /\ N \in Int
    OBVIOUS
  <2>2. IsFiniteSet(1..N)
    BY <2>1, FS_Interval, Zenon
  <2>3. IsFiniteSet(left)
    BY <2>2, FS_Subset
  <2> QED
    BY <2>3, FS_CardinalityType
<1> DEFINE Upto(i) == {j \in left : j <= i}
<1>2. ASSUME NEW i \in left
      PROVE  /\ Upto(i) \in SUBSET left /\ IsFiniteSet(Upto(i)) /\ Cardinality(Upto(i)) \in Nat
             /\ Cardinality(Upto(i)) <= Cardinality(left) /\ Cardinality(Upto(i)) <= i
             /\ Cardinality(Upto(i)) > 0
  <2>1. Upto(i) \in SUBSET left /\ Upto(i) \in SUBSET (1..i) /\ i \in Upto(i) /\ i \in Nat
    <3>1. i \in Nat /\ i <= i
      BY <1>0
    <3>2. ASSUME NEW j \in Upto(i) PROVE j \in left /\ j \in 1..i
      <4>1. j \in left /\ j <= i
        OBVIOUS
      <4> QED
        BY <1>0, <3>1, <4>1
    <3> QED
      BY <3>1, <3>2
  <2>2. IsFiniteSet(Upto(i)) /\ Cardinality(Upto(i)) <= Cardinality(left)
    BY <1>1, <2>1, FS_Subset
  <2>3. Cardinality(Upto(i)) \in Nat
    BY <2>2, FS_CardinalityType
  <2>4. IsFiniteSet(1..i) /\ Cardinality(1..i) = i
    <3>1. 1 \in Int /\ i \in Int /\ ~(1 > i) /\ i - 1 + 1 = i
      BY <2>1
    <3>2. IsFiniteSet(1..i) /\ Cardinality(1..i) = IF 1 > i THEN 0 ELSE i - 1 + 1
      BY <3>1, FS_Interval, Zenon
    <3> QED
      BY <3>1, <3>2
  <2>5. Cardinality(Upto(i)) <= Cardinality(1..i)
    BY <2>1, <2>4, FS_Subset
  <2>6. Upto(i) # {}
    BY <2>1
  <2>7. Cardinality(Upto(i)) # 0
    BY <2>2, <2>6, FS_EmptySet
  <2> QED
    BY <2>1, <2>2, <2>3, <2>4, <2>5, <2>7
<1>3. \A i \in left : rank[i] = Cardinality(Upto(i))
  OBVIOUS
<1> HIDE DEF Upto
<1>4. rank \in [left -> 1..Cardinality(left)]
  <2>1. \A i \in left : rank[i] \in 1..Cardinality(left)
    BY <1>1, <1>2, <1>3
  <2> QED
    BY <2>1
<1>5. ASSUME NEW i \in left, NEW k \in left, i < k PROVE rank[i] < rank[k]
  <2>1. Upto(i) \in SUBSET Upto(k) /\ k \in Upto(k) /\ k \notin Upto(i)
    <3>1. i \in Nat /\ k \in Nat
      BY <1>0
    <3>2. ASSUME NEW j \in Upto(i) PROVE j \in Upto(k)
      <4>1. j \in left /\ j <= i /\ j \in Nat
        BY <1>0 DEF Upto
      <4>2. j <= k
        BY <1>5, <3>1, <4>1
      <4> QED
        BY <4>1, <4>2 DEF Upto
    <3>3. k <= k /\ ~(k <= i)
      BY <1>5, <3>1
    <3> QED
      BY <3>2, <3>3 DEF Upto
  <2>2. IsFiniteSet(Upto(k)) /\ Cardinality(Upto(i)) \in Nat /\ Cardinality(Upto(k)) \in Nat
    BY <1>2
  <2>3. Cardinality(Upto(i)) <= Cardinality(Upto(k)) /\ Cardinality(Upto(k)) # Cardinality(Upto(i))
    BY <2>1, <2>2, FS_Subset
  <2> QED
    BY <1>3, <2>2, <2>3
<1>6. rank \in Surjection(left, 1..Cardinality(left))
  <2>1. rank \in Injection(left, 1..Cardinality(left))
    <3>1. ASSUME NEW i \in left, NEW k \in left, rank[i] = rank[k] PROVE i = k
      <4>1. rank[i] \in Nat /\ rank[k] \in Nat /\ i \in Nat /\ k \in Nat
        BY <1>1, <1>4
      <4>2. ~(i < k) /\ ~(k < i)
        BY <1>5, <3>1, <4>1
      <4> QED
        BY <4>1, <4>2
    <3> QED
      BY <1>4, <3>1 DEF Injection, IsInjective
  <2>2. IsFiniteSet(1..Cardinality(left)) /\ Cardinality(1..Cardinality(left)) = Cardinality(left)
    <3>1. PICK c \in Nat : c = Cardinality(left)
      BY <1>1
    <3>2. 1 \in Int /\ c \in Int
      OBVIOUS
    <3>3. IsFiniteSet(1..c) /\ Cardinality(1..c) = IF 1 > c THEN 0 ELSE c - 1 + 1
      BY <3>2, FS_Interval, Zenon
    <3>4. Cardinality(1..c) = c
      BY <3>3
    <3> QED
      BY <3>1, <3>3, <3>4
  <2> QED
    BY <2>1, <2>2, FS_Injection
<1> QED
  BY <1>1, <1>2, <1>3, <1>4, <1>5, <1>6

(* t is s at the increasing positions pos: those of the elements to keep.   *)
AtPositions(t, s, keep, m, pos) ==
    /\ Len(t) = m
    /\ \A n \in 1..m : t[n] = s[pos[n]] /\ s[pos[n]] \in keep /\ pos[n] >= n
    /\ \A a, b \in 1..m : a < b => pos[a] < pos[b]
    /\ \A i \in 1..Len(s) : s[i] \in keep => \E n \in 1..m : pos[n] = i

LEMMA FilterPositions ==
    ASSUME NEW S, NEW s \in Seq(S), NEW keep
    PROVE  /\ Filter(s, keep) \in Seq(S)
           /\ \E m \in Nat : \E pos \in [1..m -> 1..Len(s)] :
                 AtPositions(Filter(s, keep), s, keep, m, pos)
<1>1. PICK N \in Nat : N = Len(s) /\ DOMAIN s = 1..N /\ \A i \in 1..N : s[i] \in S
  OBVIOUS
<1>2. PICK left \in SUBSET (1..N) : left = {i \in DOMAIN s : s[i] \in keep}
  BY <1>1
<1>3. PICK rank : rank = [i \in left |-> Cardinality({j \in left : j <= i})]
  OBVIOUS
<1>4. PICK m \in Nat : m = Cardinality(left)
  BY <1>3, Ranks
<1>5. /\ rank \in [left -> 1..m]
      /\ \A i \in left : rank[i] <= i
      /\ \A i, k \in left : i < k => rank[i] < rank[k]
      /\ \A n \in 1..m : \E i \in left : rank[i] = n
  <2>1. /\ rank \in [left -> 1..Cardinality(left)]
        /\ \A i \in left : rank[i] <= i
        /\ \A i, k \in left : i < k => rank[i] < rank[k]
        /\ \A n \in 1..Cardinality(left) : \E i \in left : rank[i] = n
    <3>1. rank \in [left -> 1..Cardinality(left)]
      BY <1>3, Ranks
    <3>2. \A i \in left : rank[i] <= i
      BY <1>3, Ranks
    <3>3. \A i, k \in left : i < k => rank[i] < rank[k]
      BY <1>3, Ranks
    <3>4. rank \in Surjection(left, 1..Cardinality(left))
      BY <1>3, Ranks
    <3> QED
      BY <3>1, <3>2, <3>3, <3>4 DEF Surjection
  <2> QED
    BY <1>4, <2>1
<1>6. PICK pos : pos = [n \in 1..m |-> CHOOSE i \in left : rank[i] = n]
  OBVIOUS
<1>7. \A n \in 1..m : pos[n] \in left /\ rank[pos[n]] = n
  BY <1>5, <1>6
<1>8. pos \in [1..m -> 1..N]
  BY <1>6, <1>7
<1>9. Filter(s, keep) = [n \in 1..m |-> s[pos[n]]]
  <2>1. \A i \in left : rank[i] = Cardinality({j \in left : j <= i})
    BY <1>3
  <2>2. \A n \in 1..m : pos[n] = CHOOSE i \in left : Cardinality({j \in left : j <= i}) = n
    BY <1>6, <2>1
  <2>3. Filter(s, keep) = [n \in 1..m |-> s[CHOOSE i \in left : Cardinality({j \in left : j <= i}) = n]]
    BY <1>2, <1>4 DEF Filter
  <2> QED
    BY <2>2, <2>3
<1>10. Filter(s, keep) \in Seq(S) /\ Len(Filter(s, keep)) = m
  BY <1>1, <1>8, <1>9
<1>11. ASSUME NEW n \in 1..m
       PROVE  Filter(s, keep)[n] = s[pos[n]] /\ s[pos[n]] \in keep /\ pos[n] >= n
  <2>1. pos[n] \in left /\ rank[pos[n]] = n /\ rank[pos[n]] <= pos[n]
    BY <1>5, <1>7
  <2> QED
    BY <1>2, <1>9, <2>1
<1>12. ASSUME NEW a \in 1..m, NEW b \in 1..m, a < b PROVE pos[a] < pos[b]
  <2>1. /\ pos[a] \in left /\ rank[pos[a]] = a /\ pos[b] \in left /\ rank[pos[b]] = b
        /\ pos[a] \in Nat /\ pos[b] \in Nat
    BY <1>7, <1>8
  <2>2. pos[b] < pos[a] => b < a
    BY <1>5, <2>1
  <2>3. pos[a] # pos[b] /\ ~(pos[b] < pos[a])
    BY <1>12, <2>1, <2>2
  <2> QED
    BY <2>1, <2>3
<1>13. ASSUME NEW i \in 1..N, s[i] \in keep PROVE \E n \in 1..m : pos[n] = i
  <2>1. i \in left /\ rank[i] \in 1..m
    BY <1>1, <1>2, <1>5, <1>13
  <2>2. PICK n \in 1..m : n = rank[i]
    BY <2>1
  <2>3. pos[n] \in left /\ rank[pos[n]] = rank[i] /\ pos[n] \in Nat /\ rank[i] \in Nat
    BY <1>7, <1>8, <2>1, <2>2
  <2>4. ~(pos[n] < i) /\ ~(i < pos[n])
    BY <1>5, <2>1, <2>2, <2>3
  <2>5. pos[n] = i
    BY <2>1, <2>3, <2>4
  <2> QED
    BY <2>5
<1> QED
  BY <1>1, <1>8, <1>10, <1>11, <1>12, <1>13 DEF AtPositions

(* Exactly the elements to keep are left.                                   *)
LEMMA FilterRange ==
    ASSUME NEW S, NEW s \in Seq(S), NEW keep
    PROVE  Range(Filter(s, keep)) = Range(s) \cap keep
<1>0. PICK m \in Nat : \E pos \in [1..m -> 1..Len(s)] :
          AtPositions(Filter(s, keep), s, keep, m, pos)
  BY FilterPositions
<1>1. PICK pos \in [1..m -> 1..Len(s)] : AtPositions(Filter(s, keep), s, keep, m, pos)
  BY <1>0
<1>2. /\ Filter(s, keep) \in Seq(S) /\ Len(Filter(s, keep)) = m
      /\ \A n \in 1..m : Filter(s, keep)[n] = s[pos[n]] /\ s[pos[n]] \in keep
      /\ \A a, b \in 1..m : a < b => pos[a] < pos[b]
      /\ \A i \in 1..Len(s) : s[i] \in keep => \E n \in 1..m : pos[n] = i
  BY <1>1, FilterPositions DEF AtPositions
<1>3. DOMAIN Filter(s, keep) = 1..m /\ DOMAIN s = 1..Len(s)
  BY <1>2
<1>4. ASSUME NEW x \in Range(Filter(s, keep)) PROVE x \in Range(s) \cap keep
  BY <1>2, <1>3 DEF Range
<1>5. ASSUME NEW x \in Range(s) \cap keep PROVE x \in Range(Filter(s, keep))
  <2>1. PICK i \in 1..Len(s) : x = s[i]
    BY <1>3 DEF Range
  <2>2. PICK n \in 1..m : pos[n] = i
    BY <1>2, <2>1
  <2> QED
    BY <1>2, <1>3, <2>1, <2>2 DEF Range
<1> QED
  BY <1>4, <1>5

(* The first element to keep comes first.                                   *)
LEMMA FilterFirst ==
    ASSUME NEW S, NEW s \in Seq(S), NEW keep, NEW j \in 1..Len(s), s[j] \in keep,
           \A i \in 1..Len(s) : i < j => s[i] \notin keep
    PROVE  /\ Filter(s, keep) \in Seq(S) /\ Len(Filter(s, keep)) \in Nat \ {0}
           /\ Filter(s, keep)[1] = s[j]
<1>0. PICK m \in Nat : \E pos \in [1..m -> 1..Len(s)] :
          AtPositions(Filter(s, keep), s, keep, m, pos)
  BY FilterPositions
<1>1. PICK pos \in [1..m -> 1..Len(s)] : AtPositions(Filter(s, keep), s, keep, m, pos)
  BY <1>0
<1>2. /\ Filter(s, keep) \in Seq(S) /\ Len(Filter(s, keep)) = m
      /\ \A n \in 1..m : Filter(s, keep)[n] = s[pos[n]] /\ s[pos[n]] \in keep
      /\ \A a, b \in 1..m : a < b => pos[a] < pos[b]
      /\ \A i \in 1..Len(s) : s[i] \in keep => \E n \in 1..m : pos[n] = i
  BY <1>1, FilterPositions DEF AtPositions
<1>3. PICK n \in 1..m : pos[n] = j
  BY <1>2
<1>4. m # 0 /\ 1 \in 1..m
  BY <1>3
<1>5. n = 1
  <2>1. ASSUME n # 1 PROVE FALSE
    <3>1. 1 < n
      BY <1>3, <2>1
    <3>2. pos[1] < j /\ s[pos[1]] \in keep /\ pos[1] \in 1..Len(s)
      BY <1>2, <1>3, <1>4, <3>1
    <3> QED
      BY <3>2
  <2> QED
    BY <2>1
<1> QED
  BY <1>2, <1>3, <1>4, <1>5

-----------------------------------------------------------------------------
(* Removing one element: the later ones move up.                            *)
LEMMA ElementRemoved ==
    ASSUME NEW S, NEW s \in Seq(S), NEW k \in 1..Len(s)
    PROVE  /\ RemoveAt(s, k) \in Seq(S) /\ Len(RemoveAt(s, k)) = Len(s) - 1
           /\ \A n \in 1..(Len(s) - 1) : n < k => RemoveAt(s, k)[n] = s[n]
           /\ \A n \in 1..(Len(s) - 1) : n >= k => RemoveAt(s, k)[n] = s[n + 1]
<1>1. PICK N \in Nat : N = Len(s) /\ DOMAIN s = 1..N /\ k \in 1..N
  OBVIOUS
<1>2. PICK before, after : before = SubSeq(s, 1, k - 1) /\ after = SubSeq(s, k + 1, N)
  OBVIOUS
<1>3. /\ before \in Seq(S) /\ Len(before) = k - 1
      /\ \A i \in 1..(k - 1) : before[i] = s[i]
  <2>1. \A i \in 1..(k - 1) : s[i] \in S
    BY <1>1
  <2>2. /\ before \in Seq(S)
        /\ Len(before) = IF 1 <= k - 1 THEN k - 1 - 1 + 1 ELSE 0
        /\ \A i \in 1..(k - 1 - 1 + 1) : before[i] = s[1 + i - 1]
    BY <1>1, <1>2, <2>1, SubSeqProperties
  <2> QED
    BY <1>1, <2>2
<1>4. /\ after \in Seq(S) /\ Len(after) = N - k
      /\ \A i \in 1..(N - k) : after[i] = s[k + i]
  <2>1. \A i \in (k + 1)..N : s[i] \in S
    BY <1>1
  <2>2. /\ after \in Seq(S)
        /\ Len(after) = IF k + 1 <= N THEN N - (k + 1) + 1 ELSE 0
        /\ \A i \in 1..(N - (k + 1) + 1) : after[i] = s[(k + 1) + i - 1]
    BY <1>1, <1>2, <2>1, SubSeqProperties
  <2> QED
    BY <1>1, <2>2
<1>5. PICK new : new = before \o after
  OBVIOUS
<1>6. RemoveAt(s, k) = new
  BY <1>1, <1>2, <1>5 DEF RemoveAt
<1>7. /\ new \in Seq(S) /\ Len(new) = Len(before) + Len(after)
      /\ \A n \in 1..Len(new) : new[n] = IF n <= Len(before) THEN before[n]
                                         ELSE after[n - Len(before)]
  <2>1. /\ before \o after \in Seq(S) /\ Len(before \o after) = Len(before) + Len(after)
        /\ \A n \in 1..(Len(before) + Len(after)) :
              (before \o after)[n] = IF n <= Len(before) THEN before[n]
                                     ELSE after[n - Len(before)]
    BY <1>3, <1>4, ConcatProperties
  <2> QED
    BY <1>5, <2>1
<1>8. Len(new) = N - 1
  BY <1>1, <1>3, <1>4, <1>7
<1>9. ASSUME NEW n \in 1..(N - 1)
      PROVE  new[n] = IF n < k THEN s[n] ELSE s[n + 1]
  <2>1. CASE n < k
    <3>1. n \in 1..(k - 1) /\ n <= k - 1
      BY <1>1, <2>1
    <3> QED
      BY <1>3, <1>7, <1>8, <2>1, <3>1
  <2>2. CASE ~(n < k)
    <3>1. n - (k - 1) \in 1..(N - k) /\ ~(n <= k - 1) /\ k + (n - (k - 1)) = n + 1
      BY <1>1, <2>2
    <3>2. new[n] = after[n - (k - 1)]
      BY <1>3, <1>7, <1>8, <3>1
    <3>3. after[n - (k - 1)] = s[k + (n - (k - 1))]
      BY <1>4, <3>1
    <3> QED
      BY <2>2, <3>1, <3>2, <3>3
  <2> QED
    BY <2>1, <2>2
<1> QED
  BY <1>1, <1>6, <1>7, <1>8, <1>9

=============================================================================
