----------------------------- MODULE RuleProofs -----------------------------
(***************************************************************************)
(* What one rule does, for every number of tables, every row limit, every  *)
(* list of dates and every literal: the sub-tables that parseRule lists,   *)
(* the lists of sub-tables that one condition on the key is sent to, and   *)
(* how those lists are merged.  First the facts about numbers, finite sets *)
(* and lists that this and later proofs share; induction over the naturals *)
(* is stated for a set, the form in which the provers can use it.          *)
(***************************************************************************)
EXTENDS RoutePlan, FiniteSetTheorems, TLAPS

(* A list of integers in strictly increasing order.                        *)
Increasing(l) ==
    /\ l \in Seq(Int)
    /\ \A i, j \in 1..Len(l) : i < j => l[i] < l[j]

(* A list of integers, none of them twice.                                 *)
Distinct(l) ==
    /\ l \in Seq(Int)
    /\ \A i, j \in DOMAIN l : l[i] = l[j] => i = j
-----------------------------------------------------------------------------
(* Lists, item by item. *)

(* A list after another.                                                   *)
LEMMA Joined ==
    ASSUME NEW T, NEW l \in Seq(T), NEW r \in Seq(T)
    PROVE  /\ l \o r \in Seq(T) /\ Len(l \o r) = Len(l) + Len(r)
           /\ \A i \in 1..(Len(l) + Len(r)) : (l \o r)[i] = IF i <= Len(l) THEN l[i] ELSE r[i - Len(l)]
  OBVIOUS

(* A part of a list.                                                       *)
LEMMA Sliced ==
    ASSUME NEW T, NEW l, NEW a \in Int, NEW b \in Int, \A i \in a..b : l[i] \in T
    PROVE  /\ SubSeq(l, a, b) \in Seq(T) /\ Len(SubSeq(l, a, b)) = IF a <= b THEN b - a + 1 ELSE 0
           /\ \A i \in 1..(b - a + 1) : SubSeq(l, a, b)[i] = l[a + i - 1]
  OBVIOUS

(* A list with an element more.                                            *)
LEMMA Lengthened ==
    ASSUME NEW T, NEW l \in Seq(T), NEW x \in T
    PROVE  /\ Append(l, x) \in Seq(T) /\ Len(Append(l, x)) = Len(l) + 1
           /\ \A i \in 1..Len(l) : Append(l, x)[i] = l[i]
           /\ Append(l, x)[Len(l) + 1] = x
  OBVIOUS

(* Lists with the same items are the same.                                 *)
LEMMA SameItems ==
    ASSUME NEW T, NEW l \in Seq(T), NEW r \in Seq(T), Len(l) = Len(r), \A i \in 1..Len(l) : l[i] = r[i]
    PROVE  l = r
  OBVIOUS
-----------------------------------------------------------------------------
(* A nonempty set of naturals has a least element.                         *)
LEMMA LeastNatural ==
    ASSUME NEW S \in SUBSET Nat, S # {}
    PROVE  \E m \in S : \A y \in S : m <= y
<1>1. PICK m \in S : \A y \in S : ~ (<<y, m>> \in OpToRel(<, Nat))
  BY NatLessThanWellFounded, WFMin, Zenon
<1>2. \A y \in S : m <= y
  <2> TAKE y \in S
  <2>1. m \in Nat /\ y \in Nat
    OBVIOUS
  <2>2. <<y, m>> \in Nat \X Nat /\ ~ (<<y, m>> \in OpToRel(<, Nat))
    BY <2>1, <1>1, Zenon
  <2>3. ~ (y < m)
    BY <2>2 DEF OpToRel
  <2> QED BY <2>1, <2>3
<1> QED BY <1>2

(* A set with 0 and with the successor of each of its numbers has them all.*)
LEMMA SetInduction ==
    ASSUME NEW S, 0 \in S, \A n \in Nat : n \in S => n + 1 \in S
    PROVE  \A n \in Nat : n \in S
<1> DEFINE T == {n \in Nat : n \notin S}
<1> SUFFICES ASSUME T # {} PROVE FALSE
  OBVIOUS
<1>1. PICK m \in T : \A y \in T : m <= y
  <2>1. T \in SUBSET Nat
    OBVIOUS
  <2> HIDE DEF T
  <2> QED BY <2>1, LeastNatural
<1>2. m \in Nat /\ m # 0 /\ m - 1 \in Nat
  BY <1>1
<1>3. m - 1 \in S
  BY <1>1, <1>2
<1>4. (m - 1) + 1 \in S
  BY <1>2, <1>3
<1> QED BY <1>1, <1>2, <1>4

(* A finite, nonempty set of integers has a greatest element, which Max    *)
(* returns.                                                                *)
LEMMA GreatestInteger ==
    ASSUME NEW S \in SUBSET Int, IsFiniteSet(S), S # {}
    PROVE  Max(S) \in S /\ \A x \in S : x <= Max(S)
<1> DEFINE P == {n \in Nat : \A T \in SUBSET Int : IsFiniteSet(T) /\ Cardinality(T) = n /\ T # {}
                                 => \E m \in T : \A x \in T : x <= m}
<1>1. 0 \in P
  BY FS_EmptySet
<1>2. ASSUME NEW n \in Nat, n \in P PROVE n + 1 \in P
  <2> SUFFICES ASSUME NEW T \in SUBSET Int, IsFiniteSet(T), Cardinality(T) = n + 1, T # {}
               PROVE  \E m \in T : \A x \in T : x <= m
    OBVIOUS
  <2>1. PICK e \in T : TRUE
    BY Zenon
  <2> DEFINE U == T \ {e}
  <2>2. IsFiniteSet(U) /\ Cardinality(U) = n /\ U \in SUBSET Int
    <3>1. IsFiniteSet(T \ {e}) /\ Cardinality(T \ {e}) = Cardinality(T) - 1
      BY <2>1, FS_RemoveElement, Zenon
    <3> QED BY <3>1
  <2>3. CASE U = {}
    BY <2>1, <2>3
  <2>4. CASE U # {}
    <3>1. PICK m \in U : \A x \in U : x <= m
      BY <1>2, <2>2, <2>4
    <3>2. \A x \in T : x = e \/ x <= m
      BY <3>1
    <3>3. m \in Int /\ e \in Int /\ m \in T
      BY <2>1, <3>1
    <3>4. CASE e <= m
      BY <3>2, <3>3, <3>4
    <3>5. CASE m < e
      <4>1. \A x \in T : x \in Int
        OBVIOUS
      <4>2. \A x \in T : x <= e
        BY <3>2, <3>3, <3>5, <4>1
      <4> QED BY <2>1, <4>2
    <3> QED BY <3>3, <3>4, <3>5
  <2> QED BY <2>3, <2>4
<1>3. \A n \in Nat : n \in P
  <2> HIDE DEF P
  <2> QED BY <1>1, <1>2, SetInduction
<1>4. \E m \in S : \A x \in S : x <= m
  <2>1. Cardinality(S) \in Nat
    BY FS_CardinalityType
  <2> QED BY <1>3, <2>1
<1>5. \E m \in S : \A x \in S : m >= x
  BY <1>4
<1>6. Max(S) \in S /\ \A x \in S : Max(S) >= x
  BY <1>5, Zenon DEF Max
<1>7. \A x \in S : x \in Int
  OBVIOUS
<1> QED BY <1>6, <1>7
-----------------------------------------------------------------------------
(* FlattenSeq puts one list behind the other.                              *)
LEMMA FlattenSteps ==
    ASSUME NEW T, NEW ss \in Seq(Seq(T)), ss # <<>>
    PROVE  \E f \in [1..Len(ss) -> Seq(T)] :
               /\ f[1] = ss[1] /\ FlattenSeq(ss) = f[Len(ss)]
               /\ \A i \in 2..Len(ss) : f[i] = f[i - 1] \o ss[i]
<1>0. Len(ss) \in Nat /\ Len(ss) # 0 /\ \A i \in 1..Len(ss) : ss[i] \in Seq(T)
  OBVIOUS
<1> DEFINE Def(f, n) == f = [i \in 1..n |-> IF i = 1 THEN ss[i] ELSE f[i - 1] \o ss[i]]
           P == {n \in Nat : n <= Len(ss) => \E f : Def(f, n)}
<1>1. 0 \in P
  <2>1. Def(<<>>, 0)
    OBVIOUS
  <2> QED BY <2>1, Zenon
<1>2. ASSUME NEW n \in Nat, n \in P PROVE n + 1 \in P
  <2> HIDE DEF Def
  <2> SUFFICES ASSUME n + 1 <= Len(ss) PROVE \E f : Def(f, n + 1)
    OBVIOUS
  <2>1. PICK f : Def(f, n)
    BY <1>0, <1>2
  <2> USE DEF Def
  <2> DEFINE g == [i \in 1..(n + 1) |-> IF i = 1 THEN ss[i] ELSE f[i - 1] \o ss[i]]
  <2>2. \A i \in 1..n : f[i] = IF i = 1 THEN ss[i] ELSE f[i - 1] \o ss[i]
    BY <2>1, Zenon
  <2>3. \A i \in 1..n : g[i] = f[i]
    BY <2>2
  <2>4. \A i \in 1..(n + 1) : i # 1 => i - 1 \in 1..n
    OBVIOUS
  <2>5. \A i \in 1..(n + 1) : g[i] = IF i = 1 THEN ss[i] ELSE g[i - 1] \o ss[i]
    BY <2>3, <2>4, Zenon
  <2>6. Def(g, n + 1)
    BY <2>5, Zenon
  <2> QED BY <2>6, Zenon
<1>3. \E f : Def(f, Len(ss))
  <2>1. \A n \in Nat : n \in P
    <3> HIDE DEF P
    <3> QED BY <1>1, <1>2, SetInduction, Zenon
  <2> HIDE DEF Def
  <2> QED BY <1>0, <2>1
<1> DEFINE F == CHOOSE f : Def(f, Len(ss))
<1>4. Def(F, Len(ss))
  BY <1>3, Zenon
<1>5. FlattenSeq(ss) = F[Len(ss)]
  BY <1>0 DEF FlattenSeq
<1> HIDE DEF F
<1>6. \A i \in 1..Len(ss) : F[i] = IF i = 1 THEN ss[i] ELSE F[i - 1] \o ss[i]
  BY <1>4, Zenon
<1> DEFINE Q == {n \in Nat : n + 1 <= Len(ss) => F[n + 1] \in Seq(T)}
<1>7. 0 \in Q
  BY <1>0, <1>6
<1>8. ASSUME NEW n \in Nat, n \in Q PROVE n + 1 \in Q
  <2> SUFFICES ASSUME n + 2 <= Len(ss) PROVE F[n + 2] \in Seq(T)
    BY <1>0
  <2>0. n + 2 \in 1..Len(ss) /\ n + 2 # 1 /\ (n + 2) - 1 = n + 1
    BY <1>0
  <2>1. F[n + 2] = F[n + 1] \o ss[n + 2]
    BY <1>6, <2>0, Zenon
  <2>2. F[n + 1] \in Seq(T) /\ ss[n + 2] \in Seq(T)
    BY <1>0, <1>8
  <2> QED BY <2>1, <2>2, Joined
<1>9. \A n \in Nat : n \in Q
  <2> HIDE DEF Q
  <2> QED BY <1>7, <1>8, SetInduction, Zenon
<1>10. \A i \in 1..Len(ss) : F[i] \in Seq(T)
  <2> SUFFICES ASSUME NEW i \in 1..Len(ss) PROVE F[i] \in Seq(T)
    OBVIOUS
  <2>1. i - 1 \in Nat /\ (i - 1) + 1 = i /\ i <= Len(ss)
    BY <1>0
  <2>2. i - 1 \in Q
    BY <1>9, <2>1, Zenon
  <2> QED BY <2>1, <2>2, Zenon
<1>11. F \in [1..Len(ss) -> Seq(T)]
  BY <1>4, <1>10
<1>12. 1 \in 1..Len(ss) /\ \A i \in 2..Len(ss) : i \in 1..Len(ss) /\ i # 1
  BY <1>0
<1>13. F[1] = ss[1] /\ \A i \in 2..Len(ss) : F[i] = F[i - 1] \o ss[i]
  BY <1>6, <1>12, Zenon
<1> QED BY <1>5, <1>11, <1>13, Zenon
-----------------------------------------------------------------------------
(* A number above all those of an increasing list can be put behind it.    *)
LEMMA AppendIncreasing ==
    ASSUME NEW l, Increasing(l), NEW z \in Int, \A x \in ToSet(l) : x < z
    PROVE  Increasing(Append(l, z)) /\ ToSet(Append(l, z)) = ToSet(l) \cup {z}
<1>1. l \in Seq(Int) /\ Len(l) \in Nat /\ DOMAIN l = 1..Len(l)
  BY DEF Increasing
<1>2. /\ Append(l, z) \in Seq(Int) /\ Len(Append(l, z)) = Len(l) + 1
      /\ \A i \in 1..Len(l) : Append(l, z)[i] = l[i]
      /\ Append(l, z)[Len(l) + 1] = z
  BY <1>1, Lengthened
<1>3. \A i \in 1..Len(l) : l[i] < z
  BY <1>1 DEF ToSet
<1>4. Increasing(Append(l, z))
  BY <1>1, <1>2, <1>3 DEF Increasing
<1>5. DOMAIN Append(l, z) = 1..(Len(l) + 1)
  BY <1>2
<1>6. \A x : x \in ToSet(Append(l, z)) <=> x \in ToSet(l) \/ x = z
  <2>1. \A i \in 1..(Len(l) + 1) : i \in 1..Len(l) \/ i = Len(l) + 1
    BY <1>1
  <2>2. Len(l) + 1 \in 1..(Len(l) + 1) /\ \A i \in 1..Len(l) : i \in 1..(Len(l) + 1)
    BY <1>1
  <2> QED BY <1>1, <1>2, <1>5, <2>1, <2>2, Zenon DEF ToSet
<1> QED BY <1>4, <1>6, Zenon

(* A list without elements is empty.                                       *)
LEMMA NoElements ==
    ASSUME NEW s \in Seq(Int), ToSet(s) = {}
    PROVE  s = <<>>
<1>1. ASSUME 1 \in 1..Len(s) PROVE FALSE
  <2>1. s[1] \in ToSet(s)
    BY <1>1 DEF ToSet
  <2> QED BY <2>1
<1>2. Len(s) = 0
  BY <1>1
<1> QED BY <1>2

(* A set that has i whenever it has all numbers below i has all numbers.   *)
LEMMA StrongInduction ==
    ASSUME NEW N \in Nat, NEW S,
           \A i \in 1..N : (\A j \in 1..(i - 1) : j \in S) => i \in S
    PROVE  1..N \subseteq S
<1> DEFINE P == {n \in Nat : \A j \in 1..n : j <= N => j \in S}
<1>1. 0 \in P
  OBVIOUS
<1>2. ASSUME NEW n \in Nat, n \in P PROVE n + 1 \in P
  <2> SUFFICES ASSUME NEW j \in 1..(n + 1), j <= N PROVE j \in S
    OBVIOUS
  <2>1. j \in 1..N /\ \A k \in 1..(j - 1) : k \in 1..n /\ k <= N
    OBVIOUS
  <2>2. \A k \in 1..(j - 1) : k \in S
    BY <1>2, <2>1
  <2> QED BY <2>1, <2>2
<1>3. \A n \in Nat : n \in P
  <2> HIDE DEF P
  <2> QED BY <1>1, <1>2, SetInduction
<1> QED BY <1>3

(* A function on 1..n is a list of n elements.                             *)
LEMMA ListOfLength ==
    ASSUME NEW T, NEW n \in Nat, NEW l \in [1..n -> T]
    PROVE  l \in Seq(T) /\ Len(l) = n /\ DOMAIN l = 1..n
  OBVIOUS

(* The elements of a list in increasing order are integers.                *)
LEMMA IncreasingInts ==
    ASSUME NEW l, Increasing(l)
    PROVE  \A x \in ToSet(l) : x \in Int
<1>1. l \in Seq(Int) /\ DOMAIN l = 1..Len(l)
  BY DEF Increasing
<1> QED BY <1>1 DEF ToSet

(* The elements of two lists put together.                                 *)
LEMMA ConcatElements ==
    ASSUME NEW T, NEW l \in Seq(T), NEW r \in Seq(T)
    PROVE  \A x : x \in ToSet(l \o r) <=> x \in ToSet(l) \/ x \in ToSet(r)
<1>a. /\ Len(l) \in Nat /\ DOMAIN l = 1..Len(l)
      /\ Len(r) \in Nat /\ DOMAIN r = 1..Len(r)
  OBVIOUS
<1>b. /\ l \o r \in Seq(T) /\ Len(l \o r) = Len(l) + Len(r)
      /\ \A i \in 1..(Len(l) + Len(r)) : (l \o r)[i] = IF i <= Len(l) THEN l[i] ELSE r[i - Len(l)]
  BY <1>a, Joined
<1>c. DOMAIN (l \o r) = 1..(Len(l) + Len(r))
  BY <1>b
<1> TAKE x
<1>1. ASSUME x \in ToSet(l \o r) PROVE x \in ToSet(l) \/ x \in ToSet(r)
  <2>1. PICK i \in 1..(Len(l) + Len(r)) : x = (l \o r)[i]
    BY <1>c, <1>1 DEF ToSet
  <2>2. (i <= Len(l) /\ i \in 1..Len(l)) \/ (~(i <= Len(l)) /\ i - Len(l) \in 1..Len(r))
    BY <1>a
  <2> QED BY <1>a, <1>b, <2>1, <2>2 DEF ToSet
<1>2. ASSUME x \in ToSet(l) PROVE x \in ToSet(l \o r)
  <2>1. PICK i \in 1..Len(l) : x = l[i]
    BY <1>a, <1>2 DEF ToSet
  <2>2. i \in 1..(Len(l) + Len(r)) /\ (l \o r)[i] = l[i]
    BY <1>a, <1>b
  <2> QED BY <1>c, <2>1, <2>2 DEF ToSet
<1>3. ASSUME x \in ToSet(r) PROVE x \in ToSet(l \o r)
  <2>1. PICK i \in 1..Len(r) : x = r[i]
    BY <1>a, <1>3 DEF ToSet
  <2>2. i + Len(l) \in 1..(Len(l) + Len(r)) /\ ~(i + Len(l) <= Len(l)) /\ (i + Len(l)) - Len(l) = i
    BY <1>a
  <2>3. (l \o r)[i + Len(l)] = r[i]
    BY <1>b, <2>2
  <2> QED BY <1>c, <2>1, <2>2, <2>3 DEF ToSet
<1> QED BY <1>1, <1>2, <1>3

(* An increasing list may be put behind one whose numbers are all smaller. *)
LEMMA ConcatIncreasing ==
    ASSUME NEW l, Increasing(l), NEW r, Increasing(r),
           \A x \in ToSet(l), y \in ToSet(r) : x < y
    PROVE  Increasing(l \o r) /\ ToSet(l \o r) = ToSet(l) \cup ToSet(r)
<1>1. /\ l \in Seq(Int) /\ Len(l) \in Nat /\ DOMAIN l = 1..Len(l)
      /\ r \in Seq(Int) /\ Len(r) \in Nat /\ DOMAIN r = 1..Len(r)
  BY DEF Increasing
<1>2. /\ l \o r \in Seq(Int) /\ Len(l \o r) = Len(l) + Len(r)
      /\ \A i \in 1..(Len(l) + Len(r)) : (l \o r)[i] = IF i <= Len(l) THEN l[i] ELSE r[i - Len(l)]
  BY <1>1, Joined
<1>3. \A i \in 1..Len(l), j \in 1..Len(r) : l[i] < r[j]
  BY <1>1, Zenon DEF ToSet
<1>4. Increasing(l \o r)
  <2> SUFFICES ASSUME NEW i \in 1..(Len(l) + Len(r)), NEW j \in 1..(Len(l) + Len(r)), i < j
               PROVE  (l \o r)[i] < (l \o r)[j]
    BY <1>2 DEF Increasing
  <2>1. CASE j <= Len(l)
    BY <1>1, <1>2, <2>1 DEF Increasing
  <2>2. CASE i > Len(l)
    <3>1. /\ (l \o r)[i] = r[i - Len(l)] /\ (l \o r)[j] = r[j - Len(l)]
          /\ i - Len(l) \in 1..Len(r) /\ j - Len(l) \in 1..Len(r) /\ i - Len(l) < j - Len(l)
      BY <1>1, <1>2, <2>2
    <3> QED BY <3>1, Zenon DEF Increasing
  <2>3. CASE i <= Len(l) /\ j > Len(l)
    <3>1. /\ (l \o r)[i] = l[i] /\ (l \o r)[j] = r[j - Len(l)]
          /\ i \in 1..Len(l) /\ j - Len(l) \in 1..Len(r)
      BY <1>1, <1>2, <2>3
    <3> QED BY <1>3, <3>1
  <2> QED BY <1>1, <2>1, <2>2, <2>3
<1>5. DOMAIN (l \o r) = 1..(Len(l) + Len(r))
  BY <1>2
<1>6. \A x : x \in ToSet(l \o r) <=> x \in ToSet(l) \/ x \in ToSet(r)
  BY <1>1, ConcatElements
<1> QED BY <1>4, <1>6, Zenon

(* A part of an increasing list is increasing and has what stands there.   *)
LEMMA SubSeqIncreasing ==
    ASSUME NEW l, Increasing(l), NEW i \in Int, NEW j \in Int, 1 <= i, j <= Len(l)
    PROVE  /\ Increasing(SubSeq(l, i, j))
           /\ \A x : x \in ToSet(SubSeq(l, i, j)) <=> \E p \in i..j : l[p] = x
<1>1. l \in Seq(Int) /\ Len(l) \in Nat /\ DOMAIN l = 1..Len(l)
  BY DEF Increasing
<1>2. \A p \in i..j : p \in 1..Len(l) /\ l[p] \in Int
  BY <1>1
<1>3. /\ SubSeq(l, i, j) \in Seq(Int) /\ Len(SubSeq(l, i, j)) = IF i <= j THEN j - i + 1 ELSE 0
      /\ \A p \in 1..(j - i + 1) : SubSeq(l, i, j)[p] = l[i + p - 1]
  BY <1>2, Sliced
<1>4. CASE j < i
  <2>1. Len(SubSeq(l, i, j)) = 0 /\ i..j = {}
    BY <1>3, <1>4
  <2>2. DOMAIN SubSeq(l, i, j) = {}
    BY <1>3, <2>1
  <2> QED BY <1>3, <2>1, <2>2 DEF Increasing, ToSet
<1>5. CASE i <= j
  <2>1. DOMAIN SubSeq(l, i, j) = 1..(j - i + 1) /\ Len(SubSeq(l, i, j)) = j - i + 1
    BY <1>3, <1>5
  <2>2. Increasing(SubSeq(l, i, j))
    <3> SUFFICES ASSUME NEW p \in 1..(j - i + 1), NEW q \in 1..(j - i + 1), p < q
                 PROVE  SubSeq(l, i, j)[p] < SubSeq(l, i, j)[q]
      BY <1>3, <2>1 DEF Increasing
    <3>1. i + p - 1 \in 1..Len(l) /\ i + q - 1 \in 1..Len(l) /\ i + p - 1 < i + q - 1
      BY <1>1
    <3> QED BY <1>3, <3>1, Zenon DEF Increasing
  <2>3. \A x : x \in ToSet(SubSeq(l, i, j)) <=> \E p \in i..j : l[p] = x
    <3> TAKE x
    <3>1. ASSUME x \in ToSet(SubSeq(l, i, j)) PROVE \E p \in i..j : l[p] = x
      <4>1. PICK p \in 1..(j - i + 1) : x = SubSeq(l, i, j)[p]
        BY <2>1, <3>1, Zenon DEF ToSet
      <4>2. i + p - 1 \in i..j
        OBVIOUS
      <4> QED BY <1>3, <4>1, <4>2
    <3>2. ASSUME NEW p \in i..j, l[p] = x PROVE x \in ToSet(SubSeq(l, i, j))
      <4>1. p - i + 1 \in 1..(j - i + 1) /\ i + (p - i + 1) - 1 = p
        OBVIOUS
      <4>2. SubSeq(l, i, j)[p - i + 1] = x
        BY <1>3, <3>2, <4>1
      <4> QED BY <2>1, <4>1, <4>2, Zenon DEF ToSet
    <3> QED BY <3>1, <3>2
  <2> QED BY <2>2, <2>3
<1> QED BY <1>4, <1>5
-----------------------------------------------------------------------------
(* The elements of the flattened list are those of the lists in it.        *)
LEMMA FlattenElements ==
    ASSUME NEW T, NEW ss \in Seq(Seq(T))
    PROVE  \A x : x \in ToSet(FlattenSeq(ss)) <=> \E i \in 1..Len(ss) : x \in ToSet(ss[i])
<1>0. Len(ss) \in Nat /\ \A i \in 1..Len(ss) : ss[i] \in Seq(T)
  OBVIOUS
<1>1. CASE ss = <<>>
  <2>1. FlattenSeq(ss) = <<>> /\ 1..Len(ss) = {}
    BY <1>1 DEF FlattenSeq
  <2> QED BY <2>1 DEF ToSet
<1>2. CASE ss # <<>>
  <2>1. PICK f \in [1..Len(ss) -> Seq(T)] :
               /\ f[1] = ss[1] /\ FlattenSeq(ss) = f[Len(ss)]
               /\ \A i \in 2..Len(ss) : f[i] = f[i - 1] \o ss[i]
    BY <1>2, FlattenSteps, Zenon
  <2> DEFINE Has(n) == \A x : x \in ToSet(f[n]) <=> \E i \in 1..n : x \in ToSet(ss[i])
             P == {n \in Nat : n + 1 <= Len(ss) => Has(n + 1)}
  <2>2. 0 \in P
    <3>1. 1..(0 + 1) = {1}
      OBVIOUS
    <3> QED BY <2>1, <3>1
  <2>3. ASSUME NEW n \in Nat, n \in P PROVE n + 1 \in P
    <3> SUFFICES ASSUME n + 2 <= Len(ss) PROVE Has(n + 2)
      BY <1>0
    <3>1. n + 2 \in 2..Len(ss) /\ (n + 2) - 1 = n + 1 /\ n + 1 \in 1..Len(ss) /\ n + 2 \in 1..Len(ss)
      BY <1>0
    <3>2. f[n + 2] = f[n + 1] \o ss[n + 2] /\ f[n + 1] \in Seq(T) /\ ss[n + 2] \in Seq(T)
      BY <1>0, <2>1, <3>1, Zenon
    <3>3. \A x : x \in ToSet(f[n + 2]) <=> x \in ToSet(f[n + 1]) \/ x \in ToSet(ss[n + 2])
      BY <3>2, ConcatElements
    <3>4. Has(n + 1)
      <4> HIDE DEF Has
      <4> QED BY <2>3, <3>1
    <3>5. \A i : i \in 1..(n + 2) <=> i \in 1..(n + 1) \/ i = n + 2
      OBVIOUS
    <3> QED BY <3>3, <3>4, <3>5, Zenon
  <2>4. \A n \in Nat : n \in P
    <3> HIDE DEF P
    <3> QED BY <2>2, <2>3, SetInduction, Zenon
  <2>5. Has(Len(ss))
    <3>1. Len(ss) - 1 \in Nat /\ (Len(ss) - 1) + 1 = Len(ss) /\ Len(ss) <= Len(ss)
      BY <1>0, <1>2
    <3> HIDE DEF Has
    <3> QED BY <2>4, <3>1, Zenon
  <2> QED BY <2>1, <2>5
<1> QED BY <1>1, <1>2

(* Lists in increasing order, each below the next, flatten to a list in    *)
(* increasing order.  b[i] is a number between the lists i and i + 1.      *)
LEMMA FlattenIncreasing ==
    ASSUME NEW ss \in Seq(Seq(Int)), NEW b \in [0..Len(ss) -> Int],
           \A i \in 1..Len(ss) : /\ Increasing(ss[i]) /\ b[i - 1] <= b[i]
                                 /\ \A x \in ToSet(ss[i]) : b[i - 1] <= x /\ x < b[i]
    PROVE  Increasing(FlattenSeq(ss))
<1>0. Len(ss) \in Nat /\ \A i \in 1..Len(ss) : ss[i] \in Seq(Int)
  OBVIOUS
<1>1. CASE ss = <<>>
  <2>1. FlattenSeq(ss) = <<>>
    BY <1>1 DEF FlattenSeq
  <2> QED BY <2>1 DEF Increasing
<1>2. CASE ss # <<>>
  <2>1. PICK f \in [1..Len(ss) -> Seq(Int)] :
               /\ f[1] = ss[1] /\ FlattenSeq(ss) = f[Len(ss)]
               /\ \A i \in 2..Len(ss) : f[i] = f[i - 1] \o ss[i]
    BY <1>2, FlattenSteps, Zenon
  <2> DEFINE OK(n) == Increasing(f[n]) /\ \A x \in ToSet(f[n]) : x < b[n]
             P == {n \in Nat : n + 1 <= Len(ss) => OK(n + 1)}
  <2>2. 0 \in P
    <3>1. 1 \in 1..Len(ss) /\ 0 + 1 = 1
      BY <1>0, <1>2
    <3> QED BY <2>1, <3>1
  <2>3. ASSUME NEW n \in Nat, n \in P PROVE n + 1 \in P
    <3> SUFFICES ASSUME n + 2 <= Len(ss) PROVE OK(n + 2)
      BY <1>0
    <3>1. /\ n + 2 \in 2..Len(ss) /\ (n + 2) - 1 = n + 1 /\ n + 2 \in 1..Len(ss)
          /\ n + 1 \in 1..Len(ss) /\ n + 1 \in 0..Len(ss) /\ n + 2 \in 0..Len(ss)
      BY <1>0
    <3>2. f[n + 2] = f[n + 1] \o ss[n + 2]
      BY <2>1, <3>1, Zenon
    <3>3. OK(n + 1)
      <4> HIDE DEF OK
      <4> QED BY <2>3, <3>1
    <3>4. /\ Increasing(ss[n + 2]) /\ b[n + 1] <= b[n + 2]
          /\ \A x \in ToSet(ss[n + 2]) : b[n + 1] <= x /\ x < b[n + 2]
      BY <3>1
    <3>5. /\ b[n + 1] \in Int /\ b[n + 2] \in Int
          /\ \A x \in ToSet(f[n + 1]) : x \in Int
          /\ \A x \in ToSet(ss[n + 2]) : x \in Int
      BY <3>1, <3>3, <3>4, IncreasingInts, Zenon
    <3>6. \A x \in ToSet(f[n + 1]), y \in ToSet(ss[n + 2]) : x < y
      BY <3>3, <3>4, <3>5
    <3>7. /\ Increasing(f[n + 1] \o ss[n + 2])
          /\ ToSet(f[n + 1] \o ss[n + 2]) = ToSet(f[n + 1]) \cup ToSet(ss[n + 2])
      BY <3>3, <3>4, <3>6, ConcatIncreasing
    <3>8. \A x \in ToSet(f[n + 1]) : x < b[n + 2]
      BY <3>3, <3>4, <3>5
    <3> QED BY <3>2, <3>4, <3>7, <3>8
  <2>4. \A n \in Nat : n \in P
    <3> HIDE DEF P
    <3> QED BY <2>2, <2>3, SetInduction, Zenon
  <2>5. OK(Len(ss))
    <3>1. Len(ss) - 1 \in Nat /\ (Len(ss) - 1) + 1 = Len(ss) /\ Len(ss) <= Len(ss)
      BY <1>0, <1>2
    <3> HIDE DEF OK
    <3> QED BY <2>4, <3>1, Zenon
  <2> QED BY <2>1, <2>5
<1> QED BY <1>1, <1>2

(* A list with no element twice stays one when a new one is appended.      *)
LEMMA AppendDistinct ==
    ASSUME NEW l, Distinct(l), NEW z \in Int, z \notin ToSet(l)
    PROVE  Distinct(Append(l, z)) /\ ToSet(Append(l, z)) = ToSet(l) \cup {z}
<1>1. l \in Seq(Int) /\ Len(l) \in Nat /\ DOMAIN l = 1..Len(l)
  BY DEF Distinct
<1>2. /\ Append(l, z) \in Seq(Int) /\ DOMAIN Append(l, z) = 1..(Len(l) + 1)
      /\ \A i \in 1..Len(l) : Append(l, z)[i] = l[i]
      /\ Append(l, z)[Len(l) + 1] = z
  BY <1>1
<1>3. \A i \in 1..(Len(l) + 1) : i = Len(l) + 1 \/ i \in 1..Len(l)
  BY <1>1
<1>4. \A i \in 1..Len(l) : i \in 1..(Len(l) + 1) /\ l[i] \in ToSet(l) /\ l[i] # z
  BY <1>1 DEF ToSet
<1>5. Len(l) + 1 \in 1..(Len(l) + 1)
  BY <1>1
<1>6. \A i, j \in 1..Len(l) : l[i] = l[j] => i = j
  BY <1>1 DEF Distinct
<1>7. Distinct(Append(l, z))
  <2> SUFFICES ASSUME NEW i \in 1..(Len(l) + 1), NEW j \in 1..(Len(l) + 1),
                      Append(l, z)[i] = Append(l, z)[j]
               PROVE  i = j
    BY <1>2, Zenon DEF Distinct
  <2>1. CASE i \in 1..Len(l) /\ j \in 1..Len(l)
    BY <1>2, <1>6, <2>1
  <2>2. CASE i = Len(l) + 1 /\ j \in 1..Len(l)
    BY <1>2, <1>4, <2>2
  <2>3. CASE i \in 1..Len(l) /\ j = Len(l) + 1
    BY <1>2, <1>4, <2>3
  <2> QED BY <1>3, <2>1, <2>2, <2>3
<1>8. ToSet(Append(l, z)) = ToSet(l) \cup {z}
  <2>1. ToSet(Append(l, z)) = {Append(l, z)[i] : i \in 1..(Len(l) + 1)} /\ ToSet(l) = {l[i] : i \in 1..Len(l)}
    BY <1>1, <1>2 DEF ToSet
  <2> QED BY <1>2, <1>3, <1>4, <1>5, <2>1
<1> QED BY <1>7, <1>8

(* A list in increasing order has no element twice.                        *)
LEMMA IncreasingDistinct ==
    ASSUME NEW l, Increasing(l)
    PROVE  Distinct(l)
<1>1. l \in Seq(Int) /\ Len(l) \in Nat /\ DOMAIN l = 1..Len(l)
  BY DEF Increasing
<1>2. \A i \in 1..Len(l) : l[i] \in Int
  BY <1>1
<1>3. ASSUME NEW i \in 1..Len(l), NEW j \in 1..Len(l), l[i] = l[j], i # j PROVE FALSE
  <2>1. i < j \/ j < i
    BY <1>3
  <2>2. l[i] < l[j] \/ l[j] < l[i]
    BY <2>1 DEF Increasing
  <2> QED BY <1>2, <1>3, <2>2
<1> QED BY <1>1, <1>3 DEF Distinct

(* The elements of a list are finitely many.                               *)
LEMMA ListFinite ==
    ASSUME NEW T, NEW l \in Seq(T)
    PROVE  IsFiniteSet(ToSet(l))
<1>1. Len(l) \in Nat /\ DOMAIN l = 1..Len(l) /\ l = [i \in 1..Len(l) |-> l[i]]
  OBVIOUS
<1>2. IsFiniteSet(1..Len(l))
  <2>1. 1 \in Int /\ Len(l) \in Int
    BY <1>1
  <2> QED BY <2>1, FS_Interval
<1>3. l \in Surjection(1..Len(l), ToSet(l))
  BY <1>1 DEF Surjection, ToSet
<1> QED BY <1>2, <1>3, FS_Surjection

(* SetToSeqs(S): each of its lists has every element of S once.            *)
LEMMA ListsOfSet ==
    ASSUME NEW S \in SUBSET Int, IsFiniteSet(S), NEW l \in SetToSeqs(S)
    PROVE  Distinct(l) /\ ToSet(l) = S
<1> DEFINE n == Cardinality(S)
<1>1. n \in Nat
  BY FS_CardinalityType
<1>2. l \in [1..n -> S] /\ \A i, j \in 1..n : i # j => l[i] # l[j]
  BY Zenon DEF SetToSeqs
<1> HIDE DEF n
<1>3. l \in Seq(Int) /\ DOMAIN l = 1..n
  <2>1. l \in [1..n -> Int]
    BY <1>2, Zenon
  <2> QED BY <1>1, <2>1, ListOfLength
<1>4. l \in Injection(1..n, S)
  BY <1>2 DEF Injection, IsInjective
<1>5. Cardinality(1..n) = n
  BY <1>1, FS_Interval
<1>6. l \in Surjection(1..n, S)
  BY <1>4, <1>5, FS_Injection DEF n
<1>7. ToSet(l) = S
  <2>1. \A t \in S : \E i \in 1..n : l[i] = t
    BY <1>6, Zenon DEF Surjection
  <2>2. \A i \in 1..n : l[i] \in S
    BY <1>2
  <2>3. ToSet(l) = {l[i] : i \in 1..n}
    BY <1>3 DEF ToSet
  <2> QED BY <2>1, <2>2, <2>3, Zenon
<1> QED BY <1>2, <1>3, <1>7 DEF Distinct
-----------------------------------------------------------------------------
(* Rules. *)

(* A literal that is a number, written with or without quotes.             *)
Number(lit) == lit.form \in {"num", "str"} /\ lit.v \in Int

(* A range rule with n tables of limit keys.                               *)
RangeRule(rule, n, limit) ==
    /\ rule.type = "range"
    /\ rule.ranges = ParseNumSharding(n, limit)
    /\ rule.subTables = makeList(0, n)
-----------------------------------------------------------------------------
(* Multiplication by the row limit keeps the order.                        *)
LEMMA TimesMonotone ==
    ASSUME NEW a \in Int, NEW b \in Int, NEW l \in Nat, a <= b
    PROVE  a * l <= b * l
  OBVIOUS

(* FindForKey gives the position of the first range with the key.          *)
LEMMA RangeFound ==
    ASSUME NEW n \in Nat, NEW limit \in Nat \ {0},
           NEW rule, RangeRule(rule, n, limit),
           NEW x, Number(x), FindForKey(rule, x) # Err
    PROVE  /\ FindForKey(rule, x) \in 0..(n - 1)
           /\ FindForKey(rule, x) + 1 \in RangesWith(rule, x)
           /\ \A i \in RangesWith(rule, x) : FindForKey(rule, x) + 1 <= i
<1>1. FindForKey(rule, x) = NumRangeShardFind(rule, x)
  BY DEF FindForKey, RangeRule
<1>2. RangesWith(rule, x) # {} /\ FindForKey(rule, x) = Min(RangesWith(rule, x)) - 1
  BY <1>1 DEF NumRangeShardFind
<1>3. \A i \in RangesWith(rule, x) : i \in 1..n
  BY DEF RangesWith, RangeRule, ParseNumSharding, Number
<1>4. \E m \in RangesWith(rule, x) : \A i \in RangesWith(rule, x) : m <= i
  BY <1>2, <1>3, LeastNatural
<1>5. /\ Min(RangesWith(rule, x)) \in RangesWith(rule, x)
      /\ \A i \in RangesWith(rule, x) : Min(RangesWith(rule, x)) <= i
  BY <1>4, Zenon DEF Min
<1>6. Min(RangesWith(rule, x)) \in 1..n
  BY <1>3, <1>5
<1> QED BY <1>2, <1>5, <1>6

(* NumRangeShard.FindForKey: of two keys the smaller is in no later table, *)
(* even when the end of a range is the largest int64 and stands for no     *)
(* end at all.                                                             *)
LEMMA RangeFindMonotone ==
    ASSUME NEW n \in Nat, NEW limit \in Nat \ {0},
           NEW rule, RangeRule(rule, n, limit),
           NEW x, Number(x), FindForKey(rule, x) # Err,
           NEW y, Number(y), FindForKey(rule, y) # Err, x.v <= y.v
    PROVE  FindForKey(rule, x) <= FindForKey(rule, y)
<1> DEFINE i == FindForKey(rule, x) + 1
           j == FindForKey(rule, y) + 1
<1>1. /\ i \in 1..n /\ i \in RangesWith(rule, x) /\ \A k \in RangesWith(rule, x) : i <= k
      /\ j \in 1..n /\ j \in RangesWith(rule, y)
      /\ FindForKey(rule, x) \in Int /\ FindForKey(rule, y) \in Int
  BY RangeFound
<1> HIDE DEF i, j
<1>2. \A k \in 1..n : rule.ranges[k].start = (k - 1) * limit /\ rule.ranges[k].end = k * limit
  BY DEF RangeRule, ParseNumSharding
<1>3. \A k \in 1..n : k * limit \in Int /\ (k - 1) * limit \in Int
  OBVIOUS
<1>4. (i - 1) * limit <= x.v
  <2>1. ContainsKey(rule.ranges[i], x.v)
    BY <1>1, Zenon DEF RangesWith, Number
  <2> QED BY <1>1, <1>2, <2>1 DEF ContainsKey
<1>5. (j - 1) * limit <= y.v /\ (j * limit = MaxNumKey \/ y.v < j * limit)
  <2>1. ContainsKey(rule.ranges[j], y.v)
    BY <1>1, Zenon DEF RangesWith, Number
  <2> QED BY <1>1, <1>2, <2>1 DEF ContainsKey
<1>6. SUFFICES ASSUME j < i PROVE FALSE
  BY <1>1 DEF i, j
<1>7. j \notin RangesWith(rule, x)
  BY <1>1, <1>6
<1>8. DOMAIN rule.ranges = 1..n
  BY DEF RangeRule, ParseNumSharding
<1>9. ~((j - 1) * limit <= x.v) \/ (j * limit # MaxNumKey /\ ~(x.v < j * limit))
  <2>1. ~ContainsKey(rule.ranges[j], x.v)
    BY <1>1, <1>7, <1>8, Zenon DEF RangesWith, Number
  <2> QED BY <1>1, <1>2, <2>1 DEF ContainsKey
<1>10. (j - 1) * limit <= (i - 1) * limit /\ j * limit <= (i - 1) * limit
  BY <1>1, <1>6, TimesMonotone
<1> QED BY <1>1, <1>3, <1>4, <1>5, <1>9, <1>10 DEF Number
-----------------------------------------------------------------------------
(* makeList: all indices from start up to end.                             *)
LEMMA MakeListLen ==
    ASSUME NEW n \in Nat
    PROVE  Len(makeList(0, n)) = n
  BY DEF makeList

(* makeList holds every index from start to before end.                    *)
LEMMA MakeListHas ==
    ASSUME NEW start \in Int, NEW end \in Int, NEW i \in start..(end - 1)
    PROVE  i \in ToSet(makeList(start, end))
<1>1. i - start + 1 \in 1..(end - start)
  OBVIOUS
<1>2. makeList(start, end)[i - start + 1] = i /\ DOMAIN makeList(start, end) = 1..(end - start)
  BY <1>1 DEF makeList
<1> QED BY <1>1, <1>2 DEF ToSet

(* What the comparisons of the key with a literal say about it, whichever  *)
(* side the literal is on.                                                 *)
LEMMA ComparisonBounds ==
    ASSUME NEW w, w.op \in {"<", "<=", ">", ">="}, w.rev \in BOOLEAN, w.lit.v \in Int,
           NEW k \in Int, Satisfies(w, k)
    PROVE  /\ KeyBelow(w) => k <= w.lit.v /\ (w.op \in {"<", ">"} => k < w.lit.v)
           /\ ~KeyBelow(w) => k >= w.lit.v
<1>1. IF w.rev THEN Compare(w.op, w.lit.v, k) ELSE Compare(w.op, k, w.lit.v)
  BY Zenon DEF Satisfies
<1>2. ASSUME NEW o, NEW a, NEW b, Compare(o, a, b)
      PROVE  /\ o = "<" => a < b
             /\ o = "<=" => a <= b
             /\ o = ">" => a > b
             /\ o = ">=" => a >= b
  <2>1. /\ Compare("<", a, b) = (a < b) /\ Compare("<=", a, b) = (a <= b)
        /\ Compare(">", a, b) = (a > b) /\ Compare(">=", a, b) = (a >= b)
    BY Zenon DEF Compare
  <2>2. ASSUME o = "<" PROVE a < b
    BY <1>2, <2>1, <2>2, Zenon
  <2>3. ASSUME o = "<=" PROVE a <= b
    BY <1>2, <2>1, <2>3, Zenon
  <2>4. ASSUME o = ">" PROVE a > b
    BY <1>2, <2>1, <2>4, Zenon
  <2>5. ASSUME o = ">=" PROVE a >= b
    BY <1>2, <2>1, <2>5, Zenon
  <2> QED BY <2>2, <2>3, <2>4, <2>5, Zenon
<1>3. ASSUME w.rev PROVE /\ w.op = "<" => w.lit.v < k
                         /\ w.op = "<=" => w.lit.v <= k
                         /\ w.op = ">" => w.lit.v > k
                         /\ w.op = ">=" => w.lit.v >= k
  BY <1>1, <1>2, <1>3, Zenon
<1>4. ASSUME ~w.rev PROVE /\ w.op = "<" => k < w.lit.v
                          /\ w.op = "<=" => k <= w.lit.v
                          /\ w.op = ">" => k > w.lit.v
                          /\ w.op = ">=" => k >= w.lit.v
  BY <1>1, <1>2, <1>4, Zenon
<1> QED BY <1>3, <1>4 DEF KeyBelow

(* Range rules: a comparison of the key with a number, which the router    *)
(* can place, is sent to the table of every key that satisfies it.         *)
LEMMA RangeCompareReaches ==
    ASSUME NEW n \in Nat, NEW limit \in Nat \ {0},
           NEW rule, RangeRule(rule, n, limit),
           NEW w, w.op \in {"<", "<=", ">", ">="}, w.rev \in BOOLEAN, Number(w.lit),
           RangeCompare(rule, w).ok,
           NEW x, Number(x), FindForKey(rule, x) # Err, Satisfies(w, x.v)
    PROVE  FindForKey(rule, x) \in ToSet(RangeCompare(rule, w).l)
<1> DEFINE index == getTableIndexByValue(rule, w.lit)
           found == FindForKey(rule, x)
           last == IF w.op \in {"<", ">"} THEN adjustShardIndex(rule, w.lit, index) ELSE index
<1>1. index = FindForKey(rule, w.lit)
  BY DEF getTableIndexByValue, Number
<1>2. index # Err
  BY DEF RangeCompare, Failed
<1>3. index \in 0..(n - 1) /\ found \in 0..(n - 1)
  BY <1>1, <1>2, RangeFound
<1>4. CASE ~KeyBelow(w)
  <2>1. RangeCompare(rule, w).l = makeList(index, n)
    BY <1>2, <1>4, MakeListLen DEF RangeCompare, Some, RangeRule
  <2>2. index <= found
    BY <1>1, <1>2, <1>4, ComparisonBounds, RangeFindMonotone DEF Number
  <2> HIDE DEF index, found
  <2> QED BY <1>3, <2>1, <2>2, MakeListHas DEF found
<1>5. CASE KeyBelow(w)
  <2>1. last >= 0 /\ RangeCompare(rule, w).l = makeList(0, last + 1)
    <3>1. last \in Int
      BY <1>3 DEF adjustShardIndex
    <3>2. ~(last < 0)
      BY <1>2, <1>5 DEF RangeCompare, Some, Failed
    <3> QED BY <1>2, <1>5, <3>1, <3>2 DEF RangeCompare, Some
  <2>2. found <= index
    BY <1>1, <1>2, <1>5, ComparisonBounds, RangeFindMonotone DEF Number
  <2>3. found <= last
    <3>1. CASE last = index
      BY <2>2, <3>1
    <3>2. CASE last # index
      <4>1. w.op \in {"<", ">"} /\ EqualStart(rule, w.lit, index) /\ last = index - 1
        BY <3>2 DEF adjustShardIndex
      <4>2. found + 1 \in RangesWith(rule, x)
        BY RangeFound
      <4>3. rule.ranges[found + 1].start <= x.v
        BY <4>2 DEF RangesWith, ContainsKey
      <4>4. x.v < w.lit.v
        BY <1>5, <4>1, ComparisonBounds DEF Number
      <4>5. rule.ranges[index + 1].start = w.lit.v
        BY <4>1 DEF EqualStart
      <4>6. found # index
        BY <4>3, <4>4, <4>5 DEF Number
      <4> HIDE DEF index, found, last
      <4> QED BY <1>3, <2>2, <4>1, <4>6
    <3> QED BY <3>1, <3>2
  <2>4. last \in Int
    BY <1>3 DEF adjustShardIndex
  <2> HIDE DEF index, found, last
  <2> QED BY <1>3, <2>1, <2>3, <2>4, MakeListHas DEF found
<1> QED BY <1>4, <1>5

(* BETWEEN is sent to the tables between those of its ends.                *)
LEMMA RangeBetweenReaches ==
    ASSUME NEW n \in Nat, NEW limit \in Nat \ {0},
           NEW rule, RangeRule(rule, n, limit),
           NEW w, w.op = "between", Number(w.from), Number(w.to),
           RangeBetween(rule, w).ok,
           NEW x, Number(x), FindForKey(rule, x) # Err, Satisfies(w, x.v)
    PROVE  FindForKey(rule, x) \in ToSet(RangeBetween(rule, w).l)
<1> DEFINE from == getTableIndexByValue(rule, w.from)
           to == getTableIndexByValue(rule, w.to)
           found == FindForKey(rule, x)
<1>1. from = FindForKey(rule, w.from) /\ to = FindForKey(rule, w.to)
  BY DEF getTableIndexByValue, Number
<1>2. from # Err /\ to # Err
  BY DEF RangeBetween, Failed
<1>3. from \in 0..(n - 1) /\ to \in 0..(n - 1) /\ found \in 0..(n - 1)
  BY <1>1, <1>2, RangeFound
<1>4. x.v \in w.from.v..w.to.v
  BY Zenon DEF Satisfies
<1>5. w.from.v <= x.v /\ x.v <= w.to.v
  BY <1>4 DEF Number
<1>6. from <= found /\ found <= to
  BY <1>1, <1>2, <1>5, RangeFindMonotone
<1>7. ~(to < from)
  BY <1>3, <1>6
<1>8. RangeBetween(rule, w).l = makeList(from, to + 1)
  BY <1>2, <1>7 DEF RangeBetween, Some
<1> HIDE DEF from, to, found
<1> QED BY <1>3, <1>6, <1>8, MakeListHas DEF found

(* A condition on the key, with literals that are numbers.                 *)
RangeCondition(w) ==
    \/ w.op \in {"=", "<=>", "<", "<=", ">", ">="} /\ w.rev \in BOOLEAN /\ Number(w.lit)
    \/ w.op = "between" /\ Number(w.from) /\ Number(w.to)
    \/ w.op = "not in"

(* For any number of tables and any row limit of a range rule, a condition *)
(* that getRangeShardTableIndex accepts is sent to the table of every key  *)
(* that satisfies it: no row is missed, at the ends of ranges neither.     *)
THEOREM RangeRouting ==
    ASSUME NEW n \in Nat, NEW limit \in Nat \ {0},
           NEW rule, RangeRule(rule, n, limit),
           NEW w, RangeCondition(w), getTableIndexs(rule, w).ok,
           NEW x, Number(x), FindForKey(rule, x) # Err, Satisfies(w, x.v)
    PROVE  FindForKey(rule, x) \in ToSet(getTableIndexs(rule, w).l)
<1>1. getTableIndexs(rule, w) = getRangeShardTableIndex(rule, w)
  BY Zenon DEF getTableIndexs, RangeRule
<1>2. FindForKey(rule, x) \in 0..(n - 1)
  BY RangeFound
<1>3. CASE w.op \in {"=", "<=>"}
  <2>1. getRangeShardTableIndex(rule, w) = OneTable(rule, w)
    BY <1>3, Zenon DEF getRangeShardTableIndex
  <2>2. Number(w.lit) /\ w.rev \in BOOLEAN
    BY <1>3, Zenon DEF RangeCondition
  <2>3. x.v = w.lit.v
    <3>1. IF w.rev THEN Compare(w.op, w.lit.v, x.v) ELSE Compare(w.op, x.v, w.lit.v)
      BY <1>3, Zenon DEF Satisfies
    <3>2. \A a, b : Compare(w.op, a, b) = (a = b)
      BY <1>3, Zenon DEF Compare
    <3> QED BY <3>1, <3>2, Zenon
  <2>4. FindForKey(rule, x) = FindForKey(rule, w.lit)
    <3>1. FindForKey(rule, x) = NumRangeShardFind(rule, x) /\ FindForKey(rule, w.lit) = NumRangeShardFind(rule, w.lit)
      BY Zenon DEF FindForKey, RangeRule
    <3>2. RangesWith(rule, x) = RangesWith(rule, w.lit)
      BY <2>2, <2>3 DEF RangesWith, Number
    <3> QED BY <3>1, <3>2 DEF NumRangeShardFind
  <2>5. OneTable(rule, w).l = <<FindForKey(rule, x)>>
    BY <1>1, <2>1, <2>2, <2>4 DEF OneTable, getTableIndexByValue, Number, Some, Failed
  <2> QED BY <1>1, <2>1, <2>5 DEF ToSet
<1>4. CASE w.op \in {"<", "<=", ">", ">="}
  <2>1. getRangeShardTableIndex(rule, w) = RangeCompare(rule, w)
    BY <1>4, Zenon DEF getRangeShardTableIndex
  <2>2. Number(w.lit) /\ w.rev \in BOOLEAN
    BY <1>4, Zenon DEF RangeCondition
  <2> QED BY <1>1, <1>4, <2>1, <2>2, RangeCompareReaches
<1>5. CASE w.op = "between"
  <2>1. getRangeShardTableIndex(rule, w) = RangeBetween(rule, w)
    BY <1>5, Zenon DEF getRangeShardTableIndex
  <2>2. Number(w.from) /\ Number(w.to)
    BY <1>5 DEF RangeCondition
  <2> QED BY <1>1, <1>5, <2>1, <2>2, RangeBetweenReaches
<1>6. CASE w.op = "not in"
  <2>1. getRangeShardTableIndex(rule, w) = Some(rule.subTables)
    BY <1>6, Zenon DEF getRangeShardTableIndex
  <2>2. getTableIndexs(rule, w).l = makeList(0, n)
    BY <1>1, <2>1 DEF Some, RangeRule
  <2> QED BY <1>2, <2>2, MakeListHas
<1> QED BY <1>3, <1>4, <1>5, <1>6, Zenon DEF RangeCondition
-----------------------------------------------------------------------------
(* Hash rules. *)

HashRule(rule, n) == rule.type = "hash" /\ rule.subTables = makeList(0, n)

(* A number that both its spellings hash to: not negative, and below 2^64. *)
Unsigned(lit) == Number(lit) /\ lit.v \in 0..(Word - 1)

HashCondition(w) ==
    \/ w.op \in {"=", "<=>", "<", "<=", ">", ">="} /\ w.rev \in BOOLEAN /\ Unsigned(w.lit)
    \/ w.op \in {"between", "not between", "not in"}

(* A key below 2^64 is its own hash, quoted or not.                        *)
LEMMA HashOfNumber ==
    ASSUME Word \in Nat \ {0}, NEW x, Unsigned(x)
    PROVE  HashValue(x) = x.v /\ x.v \in Nat
<1>1. x.v \in Nat /\ x.v < Word
  BY DEF Unsigned, Number
<1>2. x.v % Word = x.v
  BY <1>1
<1> QED BY <1>1, <1>2 DEF HashValue, Unsigned, Number

(* For any number of tables of a hash rule, a condition on the key is sent *)
(* to the table of every key that satisfies it (getHashShardTableIndex),   *)
(* whether the keys are written as numbers or as quoted numbers.           *)
THEOREM HashRouting ==
    ASSUME Word \in Nat \ {0}, NEW n \in Nat \ {0},
           NEW rule, HashRule(rule, n),
           NEW w, HashCondition(w),
           NEW x, Unsigned(x), Satisfies(w, x.v)
    PROVE  /\ getTableIndexs(rule, w).ok
           /\ FindForKey(rule, x) \in ToSet(getTableIndexs(rule, w).l)
<1>1. getTableIndexs(rule, w) = getHashShardTableIndex(rule, w)
  BY Zenon DEF getTableIndexs, HashRule
<1>2. \A y : Unsigned(y) => FindForKey(rule, y) = y.v % n
  <2> SUFFICES ASSUME NEW y, Unsigned(y) PROVE FindForKey(rule, y) = y.v % n
    OBVIOUS
  <2>1. FindForKey(rule, y) = HashShardFind(rule, y)
    BY Zenon DEF FindForKey, HashRule
  <2>2. Len(rule.subTables) = n
    BY MakeListLen DEF HashRule
  <2> QED BY <2>1, <2>2, HashOfNumber DEF HashShardFind
<1>3. FindForKey(rule, x) \in 0..(n - 1)
  <2>1. x.v % n \in 0..(n - 1)
    BY HashOfNumber
  <2> QED BY <1>2, <2>1
<1>4. CASE w.op \in {"=", "<=>"}
  <2>1. getHashShardTableIndex(rule, w) = OneTable(rule, w)
    BY <1>4, Zenon DEF getHashShardTableIndex
  <2>2. Unsigned(w.lit) /\ w.rev \in BOOLEAN
    BY <1>4, Zenon DEF HashCondition
  <2>3. x.v = w.lit.v
    <3>1. IF w.rev THEN Compare(w.op, w.lit.v, x.v) ELSE Compare(w.op, x.v, w.lit.v)
      BY <1>4, Zenon DEF Satisfies
    <3>2. \A a, b : Compare(w.op, a, b) = (a = b)
      BY <1>4, Zenon DEF Compare
    <3> QED BY <3>1, <3>2, Zenon
  <2>4. FindForKey(rule, x) = FindForKey(rule, w.lit)
    BY <1>2, <2>2, <2>3
  <2>5. getTableIndexByValue(rule, w.lit) = FindForKey(rule, x) /\ FindForKey(rule, x) # Err
    BY <1>3, <2>2, <2>4 DEF getTableIndexByValue, Unsigned, Number, Err
  <2>6. OneTable(rule, w) = Some(<<FindForKey(rule, x)>>)
    BY <2>5 DEF OneTable
  <2> QED BY <1>1, <2>1, <2>6 DEF ToSet, Some
<1>5. CASE w.op \notin {"=", "<=>"}
  <2>1. getHashShardTableIndex(rule, w) = Some(rule.subTables)
    <3>1. w.op # "in"
      BY Zenon DEF HashCondition
    <3> QED BY <1>5, <3>1, Zenon DEF getHashShardTableIndex
  <2>2. getTableIndexs(rule, w).ok /\ getTableIndexs(rule, w).l = makeList(0, n)
    BY <1>1, <2>1 DEF Some, HashRule
  <2> QED BY <1>3, <2>2, MakeListHas
<1> QED BY <1>4, <1>5
-----------------------------------------------------------------------------
(* Date rules. *)

(* The dates of the tables, in the increasing order parseRule insists on.  *)
DateRule(rule) ==
    /\ rule.type \in DateTypes
    /\ rule.subTables \in Seq(Nat)
    /\ \A i, j \in 1..Len(rule.subTables) : i < j => rule.subTables[i] < rule.subTables[j]

(* A literal that is a date of the rule's kind.                            *)
Day(rule, lit) == lit.v \in Nat /\ getTableIndexByValue(rule, lit) # Err

HasTable(rule, lit) == FindForKey(rule, lit) \in ToSet(rule.subTables)

DateCondition(rule, w) ==
    \/ /\ w.op \in {"=", "<=>", "<", "<=", ">", ">="}
       /\ w.rev \in BOOLEAN /\ Day(rule, w.lit) /\ HasTable(rule, w.lit)
    \/ /\ w.op = "between"
       /\ Day(rule, w.from) /\ HasTable(rule, w.from) /\ Day(rule, w.to) /\ HasTable(rule, w.to)

(* A later day is in no earlier year, month or day.                        *)
LEMMA DateFindMonotone ==
    ASSUME NEW rule, DateRule(rule), NEW x, Day(rule, x), NEW y, Day(rule, y), x.v <= y.v
    PROVE  /\ FindForKey(rule, x) \in Nat /\ FindForKey(rule, y) \in Nat
           /\ FindForKey(rule, x) <= FindForKey(rule, y)
           /\ x.v = y.v => FindForKey(rule, x) = FindForKey(rule, y)
<1>1. \A z : FindForKey(rule, z) = DateShardFind(rule, z)
  <2>1. rule.type # "hash" /\ rule.type # "range"
    BY DEF DateRule, DateTypes
  <2> QED BY <2>1, Zenon DEF FindForKey
<1>2. /\ DateShardFind(rule, x) = x.v \div DateUnit[rule.type]
      /\ DateShardFind(rule, y) = y.v \div DateUnit[rule.type]
  BY <1>1 DEF DateShardFind, Day, getTableIndexByValue
<1>3. CASE rule.type = "date_year"
  BY <1>1, <1>2, <1>3 DEF Day, DateUnit
<1>4. CASE rule.type = "date_month"
  BY <1>1, <1>2, <1>4 DEF Day, DateUnit
<1>5. CASE rule.type = "date_day"
  BY <1>1, <1>2, <1>5 DEF Day, DateUnit
<1> QED BY <1>3, <1>4, <1>5 DEF DateRule, DateTypes

(* In increasing order a date stands at one place.                         *)
LEMMA OnePlace ==
    ASSUME NEW rule, DateRule(rule), NEW p \in DOMAIN rule.subTables
    PROVE  /\ At(rule.subTables[p], rule.subTables) = {p}
           /\ Min(At(rule.subTables[p], rule.subTables)) = p
<1>1. DOMAIN rule.subTables = 1..Len(rule.subTables)
  BY DEF DateRule
<1>2. \A i \in DOMAIN rule.subTables : rule.subTables[i] \in Nat
  BY DEF DateRule
<1>3. \A i \in DOMAIN rule.subTables : rule.subTables[i] = rule.subTables[p] => i = p
  <2> SUFFICES ASSUME NEW i \in DOMAIN rule.subTables, rule.subTables[i] = rule.subTables[p], i # p
               PROVE FALSE
    OBVIOUS
  <2>1. i < p \/ p < i
    BY <1>1
  <2> QED BY <1>1, <1>2, <2>1 DEF DateRule
<1>4. At(rule.subTables[p], rule.subTables) = {p}
  BY <1>3 DEF At
<1> QED BY <1>1, <1>4 DEF Min

(* makeLeList, makeGeList and makeBetweenList have all dates up to, from   *)
(* and between those they are given.                                       *)
LEMMA DateLists ==
    ASSUME NEW rule, DateRule(rule),
           NEW p \in DOMAIN rule.subTables, NEW q \in DOMAIN rule.subTables
    PROVE  /\ rule.subTables[p] <= rule.subTables[q] =>
                  /\ rule.subTables[p] \in ToSet(makeLeList(rule.subTables[q], rule.subTables))
                  /\ rule.subTables[q] \in ToSet(makeGeList(rule.subTables[p], rule.subTables))
           /\ \A r \in DOMAIN rule.subTables :
                  rule.subTables[p] <= rule.subTables[r] /\ rule.subTables[r] <= rule.subTables[q] =>
                  rule.subTables[r] \in ToSet(makeBetweenList(rule.subTables[p], rule.subTables[q], rule.subTables))
<1> DEFINE s == rule.subTables
<1>1. s \in Seq(Nat) /\ DOMAIN s = 1..Len(s) /\ Len(s) \in Nat
  BY DEF DateRule
<1>2. \A i, j \in DOMAIN s : s[i] <= s[j] => i <= j
  <2> SUFFICES ASSUME NEW i \in DOMAIN s, NEW j \in DOMAIN s, s[i] <= s[j], j < i
               PROVE FALSE
    BY <1>1
  <2>1. \A m, n \in DOMAIN s : m < n => s[m] < s[n]
    BY <1>1, Zenon DEF DateRule
  <2>2. s[j] < s[i] /\ s[i] \in Nat /\ s[j] \in Nat
    BY <1>1, <2>1
  <2> QED BY <2>2
<1>3. \A i \in DOMAIN s : At(s[i], s) # {} /\ Min(At(s[i], s)) = i
  BY OnePlace, Zenon
<1>4. \A i, j, r \in DOMAIN s : i <= r /\ r <= j => s[r] \in ToSet(SubSeq(s, i, j))
  <2> SUFFICES ASSUME NEW i \in DOMAIN s, NEW j \in DOMAIN s, NEW r \in DOMAIN s, i <= r, r <= j
               PROVE s[r] \in ToSet(SubSeq(s, i, j))
    OBVIOUS
  <2> HIDE DEF s
  <2>1. r - i + 1 \in 1..(j - i + 1)
    BY <1>1
  <2>2. DOMAIN SubSeq(s, i, j) = 1..(j - i + 1) /\ SubSeq(s, i, j)[r - i + 1] = s[r]
    <3>1. i \in Int /\ j \in Int /\ i <= j /\ \A m \in i..j : s[m] \in Nat
      BY <1>1
    <3>2. /\ SubSeq(s, i, j) \in Seq(Nat) /\ Len(SubSeq(s, i, j)) = j - i + 1
          /\ \A m \in 1..(j - i + 1) : SubSeq(s, i, j)[m] = s[i + m - 1]
      BY <3>1, Sliced
    <3>3. i + (r - i + 1) - 1 = r
      BY <1>1
    <3> QED BY <2>1, <3>2, <3>3
  <2> QED BY <2>1, <2>2, Zenon DEF ToSet
<1> HIDE DEF s
<1>5. p \in DOMAIN s /\ q \in DOMAIN s
  BY DEF s
<1>6. ASSUME s[p] <= s[q] PROVE s[p] \in ToSet(makeLeList(s[q], s)) /\ s[q] \in ToSet(makeGeList(s[p], s))
  <2>1. p <= q /\ 1 \in DOMAIN s /\ Len(s) \in DOMAIN s /\ 1 <= p /\ q <= Len(s)
    BY <1>1, <1>2, <1>5, <1>6
  <2>2. makeLeList(s[q], s) = SubSeq(s, 1, q) /\ makeGeList(s[p], s) = SubSeq(s, p, Len(s))
    BY <1>3, <1>5 DEF makeLeList, makeGeList
  <2> QED BY <1>4, <1>5, <2>1, <2>2
<1>7. ASSUME NEW r \in DOMAIN s, s[p] <= s[r], s[r] <= s[q] PROVE s[r] \in ToSet(makeBetweenList(s[p], s[q], s))
  <2>1. p <= r /\ r <= q
    BY <1>2, <1>5, <1>7
  <2>2. makeBetweenList(s[p], s[q], s) = SubSeq(s, p, q)
    BY <1>3, <1>5, Zenon DEF makeBetweenList
  <2> QED BY <1>4, <1>5, <2>1, <2>2
<1> QED BY <1>6, <1>7 DEF s

(* For any increasing list of years, months or days, a condition on dates  *)
(* that have a table is sent to the table of every date that satisfies it  *)
(* (getDateShardTableIndex), whichever side the literal is on.             *)
THEOREM DateRouting ==
    ASSUME NEW rule, DateRule(rule),
           NEW w, DateCondition(rule, w),
           NEW x, Day(rule, x), HasTable(rule, x), Satisfies(w, x.v)
    PROVE  /\ getTableIndexs(rule, w).ok
           /\ FindForKey(rule, x) \in ToSet(getTableIndexs(rule, w).l)
<1> DEFINE s == rule.subTables
           Index(y) == FindForKey(rule, y)
<1>1. getTableIndexs(rule, w) = getDateShardTableIndex(rule, w)
  <2>1. rule.type # "hash" /\ rule.type # "range"
    BY DEF DateRule, DateTypes
  <2> QED BY <2>1, Zenon DEF getTableIndexs
<1>2. PICK r \in DOMAIN s : s[r] = Index(x)
  BY DEF HasTable, ToSet
<1>3. \A y : Day(rule, y) => getTableIndexByValue(rule, y) = Index(y) /\ Index(y) # Err
  <2> SUFFICES ASSUME NEW y, Day(rule, y) PROVE getTableIndexByValue(rule, y) = Index(y) /\ Index(y) # Err
    OBVIOUS
  <2>1. Index(y) \in Nat
    BY DateFindMonotone DEF Day
  <2> QED BY <2>1 DEF getTableIndexByValue, Day
<1>4. CASE w.op \in {"=", "<=>"}
  <2>1. getDateShardTableIndex(rule, w) = OneTable(rule, w)
    BY <1>4, Zenon DEF getDateShardTableIndex
  <2>2. Day(rule, w.lit) /\ w.rev \in BOOLEAN
    BY <1>4 DEF DateCondition
  <2>3. x.v = w.lit.v
    <3>1. IF w.rev THEN Compare(w.op, w.lit.v, x.v) ELSE Compare(w.op, x.v, w.lit.v)
      BY <1>4, Zenon DEF Satisfies
    <3>2. \A a, b : Compare(w.op, a, b) = (a = b)
      BY <1>4, Zenon DEF Compare
    <3> QED BY <3>1, <3>2, Zenon
  <2>4. getTableIndexByValue(rule, w.lit) = Index(x) /\ Index(x) # Err
    BY <1>3, <2>2, <2>3, DateFindMonotone DEF Day
  <2>5. OneTable(rule, w) = Some(<<Index(x)>>)
    BY <2>4 DEF OneTable
  <2> QED BY <1>1, <2>1, <2>5 DEF ToSet, Some
<1>5. CASE w.op \in {"<", "<=", ">", ">="}
  <2>1. getDateShardTableIndex(rule, w) = DateCompare(rule, w)
    BY <1>5, Zenon DEF getDateShardTableIndex
  <2>2. Day(rule, w.lit) /\ HasTable(rule, w.lit) /\ w.rev \in BOOLEAN
    BY <1>5 DEF DateCondition
  <2>3. PICK p \in DOMAIN s : s[p] = Index(w.lit)
    BY <2>2 DEF HasTable, ToSet
  <2>4. getTableIndexByValue(rule, w.lit) = s[p] /\ s[p] # Err
    BY <1>3, <2>2, <2>3
  <2>5. DateCompare(rule, w) = Some(IF KeyBelow(w) THEN makeLeList(s[p], s) ELSE makeGeList(s[p], s))
    BY <2>4 DEF DateCompare
  <2>6. x.v \in Int /\ w.lit.v \in Int
    BY <2>2 DEF Day
  <2>7. (KeyBelow(w) => x.v <= w.lit.v) /\ (~KeyBelow(w) => w.lit.v <= x.v)
    BY <1>5, <2>2, <2>6, ComparisonBounds
  <2>8. (KeyBelow(w) => s[r] <= s[p]) /\ (~KeyBelow(w) => s[p] <= s[r])
    BY <1>2, <2>2, <2>3, <2>7, DateFindMonotone
  <2>9. s[r] \in ToSet(DateCompare(rule, w).l) /\ DateCompare(rule, w).ok
    BY <1>2, <2>3, <2>5, <2>8, DateLists DEF Some
  <2> QED BY <1>1, <1>2, <2>1, <2>9
<1>6. CASE w.op = "between"
  <2>1. getDateShardTableIndex(rule, w) = DateBetween(rule, w)
    BY <1>6, Zenon DEF getDateShardTableIndex
  <2>2. Day(rule, w.from) /\ HasTable(rule, w.from) /\ Day(rule, w.to) /\ HasTable(rule, w.to)
    BY <1>6 DEF DateCondition
  <2>3. PICK p \in DOMAIN s : s[p] = Index(w.from)
    BY <2>2 DEF HasTable, ToSet
  <2>4. PICK q \in DOMAIN s : s[q] = Index(w.to)
    BY <2>2 DEF HasTable, ToSet
  <2>5. /\ getTableIndexByValue(rule, w.from) = s[p] /\ s[p] # Err
        /\ getTableIndexByValue(rule, w.to) = s[q] /\ s[q] # Err
    BY <1>3, <2>2, <2>3, <2>4
  <2>6. x.v \in w.from.v..w.to.v
    BY <1>6, Zenon DEF Satisfies
  <2>7. w.from.v <= x.v /\ x.v <= w.to.v
    BY <2>2, <2>6 DEF Day
  <2>8. /\ s[p] \in Nat /\ s[q] \in Nat /\ s[r] \in Nat
        /\ s[p] <= s[r] /\ s[r] <= s[q]
    BY <1>2, <2>2, <2>3, <2>4, <2>7, DateFindMonotone
  <2>9. Min({s[p], s[q]}) = s[p] /\ Max({s[p], s[q]}) = s[q]
    BY <2>8 DEF Min, Max
  <2>10. DateBetween(rule, w) = Some(makeBetweenList(s[p], s[q], s))
    BY <1>6, <2>5, <2>9 DEF DateBetween
  <2>11. s[r] \in ToSet(makeBetweenList(s[p], s[q], s))
    BY <1>2, <2>3, <2>4, <2>8, DateLists
  <2> QED BY <1>1, <1>2, <2>1, <2>10, <2>11 DEF Some
<1> QED BY <1>4, <1>5, <1>6 DEF DateCondition
-----------------------------------------------------------------------------
(* interList, unionList and differentList. *)

(* x is one of the numbers of the two lists that keep asks for, seen up to *)
(* but not including place i of l1 and place j of l2.                      *)
Picked(l1, l2, keep, i, j, x) ==
    \/ "first" \in keep /\ x \notin ToSet(l2) /\ \E p \in 1..(i - 1) : l1[p] = x
    \/ "both" \in keep /\ x \in ToSet(l2) /\ \E p \in 1..(i - 1) : l1[p] = x
    \/ "second" \in keep /\ x \notin ToSet(l1) /\ \E q \in 1..(j - 1) : l2[q] = x

(* After each turn of the loop: what is done of one list is below the rest *)
(* of the other, and l has what was picked so far, in order.               *)
MergeOK(l1, l2, keep, m) ==
    /\ m.i \in 1..(Len(l1) + 1) /\ m.j \in 1..(Len(l2) + 1)
    /\ \A p \in 1..(m.i - 1), q \in m.j..Len(l2) : l1[p] < l2[q]
    /\ \A q \in 1..(m.j - 1), p \in m.i..Len(l1) : l2[q] < l1[p]
    /\ Increasing(m.l)
    /\ \A x : x \in ToSet(m.l) <=> Picked(l1, l2, keep, m.i, m.j, x)

(* A turn of the loop keeps MergeOK and leaves less to do, if there is     *)
(* anything to do in both lists.                                           *)
LEMMA MergeTurnOK ==
    ASSUME NEW l1, Increasing(l1), NEW l2, Increasing(l2), NEW keep,
           NEW m, MergeOK(l1, l2, keep, m)
    PROVE  LET n == MergeTurn(l1, l2, keep, m)
           IN  /\ MergeOK(l1, l2, keep, n)
               /\ n.i > Len(l1) \/ n.j > Len(l2) \/ n.i + n.j > m.i + m.j
<1> DEFINE x == l1[m.i]
           y == l2[m.j]
           n == MergeTurn(l1, l2, keep, m)
<1>1. /\ l1 \in Seq(Int) /\ Len(l1) \in Nat /\ DOMAIN l1 = 1..Len(l1)
      /\ l2 \in Seq(Int) /\ Len(l2) \in Nat /\ DOMAIN l2 = 1..Len(l2)
      /\ m.i \in Int /\ m.j \in Int /\ 1 <= m.i /\ 1 <= m.j
  BY DEF Increasing, MergeOK
<1>0. m.i \in Int /\ m.j \in Int /\ 1 <= m.i /\ 1 <= m.j /\ Len(l1) \in Nat /\ Len(l2) \in Nat
  BY <1>1
<1>2. CASE m.i > Len(l1) \/ m.j > Len(l2)
  <2>1. n = m
    BY <1>2 DEF MergeTurn
  <2> QED BY <1>2, <2>1
<1>3. CASE m.i <= Len(l1) /\ m.j <= Len(l2)
  <2>1. x \in Int /\ y \in Int /\ m.i \in 1..Len(l1) /\ m.j \in 1..Len(l2)
    BY <1>1, <1>3
  <2>0. /\ m.i \in m.i..Len(l1) /\ \A p \in 1..(m.i - 1) : p \in 1..Len(l1) /\ p < m.i
        /\ m.j \in m.j..Len(l2) /\ \A q \in 1..(m.j - 1) : q \in 1..Len(l2) /\ q < m.j
    <3>1. \A i \in Int, k \in Int : 1 <= i /\ i <= k =>
              i \in i..k /\ \A p \in 1..(i - 1) : p \in 1..k /\ p < i
      OBVIOUS
    <3> HIDE DEF x, y, n
    <3> QED BY <1>0, <1>3, <3>1
  <2>a. /\ \A p \in 1..(m.i - 1), q \in m.j..Len(l2) : l1[p] < l2[q]
        /\ \A q \in 1..(m.j - 1), p \in m.i..Len(l1) : l2[q] < l1[p]
    BY DEF MergeOK
  <2>b. /\ \A p, q \in 1..Len(l1) : p < q => l1[p] < l1[q]
        /\ \A p, q \in 1..Len(l2) : p < q => l2[p] < l2[q]
    BY DEF Increasing
  <2>2. \A p \in 1..(m.i - 1) : p \in 1..Len(l1) /\ l1[p] < x /\ l1[p] < y
    BY <2>0, <2>1, <2>a, <2>b
  <2>3. \A q \in 1..(m.j - 1) : q \in 1..Len(l2) /\ l2[q] < y /\ l2[q] < x
    BY <2>0, <2>1, <2>a, <2>b
  <2>4. \A z \in ToSet(m.l) : z < x /\ z < y
    BY <2>2, <2>3 DEF MergeOK, Picked
  <2>5. /\ \A p \in m.i..Len(l1) : p \in 1..Len(l1) /\ (p = m.i \/ x < l1[p]) /\ l1[p] \in Int
        /\ \A q \in m.j..Len(l2) : q \in 1..Len(l2) /\ (q = m.j \/ y < l2[q]) /\ l2[q] \in Int
    BY <1>1, <1>3 DEF Increasing
  <2>6. /\ m.i + 1 \in 1..(Len(l1) + 1) /\ (m.i + 1) - 1 = m.i
        /\ m.j + 1 \in 1..(Len(l2) + 1) /\ (m.j + 1) - 1 = m.j
        /\ \A p \in 1..m.i : p \in 1..(m.i - 1) \/ p = m.i
        /\ \A q \in 1..m.j : q \in 1..(m.j - 1) \/ q = m.j
        /\ \A p \in 1..(m.i - 1) : p \in 1..m.i
        /\ \A q \in 1..(m.j - 1) : q \in 1..m.j
        /\ m.i \in 1..m.i /\ m.j \in 1..m.j
        /\ \A p \in (m.i + 1)..Len(l1) : p \in m.i..Len(l1) /\ p # m.i
        /\ \A q \in (m.j + 1)..Len(l2) : q \in m.j..Len(l2) /\ q # m.j
    <3>1. \A i \in Int, k \in Nat : 1 <= i /\ i <= k =>
              /\ i + 1 \in 1..(k + 1) /\ (i + 1) - 1 = i /\ i \in 1..i
              /\ \A p \in 1..i : p \in 1..(i - 1) \/ p = i
              /\ \A p \in 1..(i - 1) : p \in 1..i
              /\ \A p \in (i + 1)..k : p \in i..k /\ p # i
      OBVIOUS
    <3> HIDE DEF x, y, n
    <3> QED BY <1>0, <1>3, <3>1, Zenon
  <2>7. /\ \A z : z \in ToSet(l1) <=> \E p \in 1..Len(l1) : l1[p] = z
        /\ \A z : z \in ToSet(l2) <=> \E q \in 1..Len(l2) : l2[q] = z
    BY <1>1, Zenon DEF ToSet
  <2>8. /\ \A p \in 1..Len(l1) : p \in 1..(m.i - 1) \/ p \in m.i..Len(l1)
        /\ \A q \in 1..Len(l2) : q \in 1..(m.j - 1) \/ q \in m.j..Len(l2)
    <3>1. \A i \in Int, k \in Nat : \A p \in 1..k : p \in 1..(i - 1) \/ p \in i..k
      OBVIOUS
    <3> QED BY <1>0, <3>1, Zenon
  <2>9. Increasing(m.l) /\ \A z : z \in ToSet(m.l) <=> Picked(l1, l2, keep, m.i, m.j, z)
    BY DEF MergeOK
  <2>10. CASE x < y
    <3>1. x \notin ToSet(l2) /\ x \in ToSet(l1)
      <4>1. \A q \in 1..Len(l2) : l2[q] # x
        <5> SUFFICES ASSUME NEW q \in 1..Len(l2), l2[q] = x PROVE FALSE
          OBVIOUS
        <5>1. CASE q \in 1..(m.j - 1)
          BY <2>1, <2>3, <5>1
        <5>2. CASE q \in m.j..Len(l2)
          BY <2>1, <2>5, <2>10, <5>2
        <5> QED BY <2>8, <5>1, <5>2
      <4> QED BY <2>1, <2>7, <4>1, Zenon
    <3>2. n.i = m.i + 1 /\ n.j = m.j /\ n.l = IF "first" \in keep THEN Append(m.l, x) ELSE m.l
      BY <1>1, <1>3, <2>10 DEF MergeTurn
    <3>3. \A p \in 1..m.i, q \in m.j..Len(l2) : l1[p] < l2[q]
      <4>1. \A q \in m.j..Len(l2) : x < l2[q]
        BY <2>1, <2>5, <2>10
      <4> QED BY <2>6, <2>a, <4>1, Zenon
    <3>4. \A q \in 1..(m.j - 1), p \in (m.i + 1)..Len(l1) : l2[q] < l1[p]
      BY <2>6 DEF MergeOK
    <3>5. Increasing(n.l) /\ \A z : z \in ToSet(n.l) <=> z \in ToSet(m.l) \/ ("first" \in keep /\ z = x)
      <4>1. CASE "first" \in keep
        BY <2>1, <2>4, <2>9, <3>2, <4>1, AppendIncreasing
      <4>2. CASE "first" \notin keep
        BY <2>9, <3>2, <4>2
      <4> QED BY <4>1, <4>2
    <3>6. \A z : Picked(l1, l2, keep, m.i + 1, m.j, z) <=>
                 Picked(l1, l2, keep, m.i, m.j, z) \/ ("first" \in keep /\ z = x)
      BY <2>6, <3>1, Zenon DEF Picked
    <3>7. MergeOK(l1, l2, keep, n)
      <4>1. n.i \in 1..(Len(l1) + 1) /\ n.j \in 1..(Len(l2) + 1) /\ n.i - 1 = m.i
        BY <2>6, <3>2 DEF MergeOK
      <4>2. \A z : z \in ToSet(n.l) <=> Picked(l1, l2, keep, n.i, n.j, z)
        BY <2>9, <3>2, <3>5, <3>6, Zenon
      <4> HIDE DEF n, x, y
      <4> QED BY <3>2, <3>3, <3>4, <3>5, <4>1, <4>2, Zenon DEF MergeOK
    <3> QED BY <1>1, <3>2, <3>7
  <2>11. CASE y < x
    <3>1. y \notin ToSet(l1) /\ y \in ToSet(l2)
      <4>1. \A p \in 1..Len(l1) : l1[p] # y
        <5> SUFFICES ASSUME NEW p \in 1..Len(l1), l1[p] = y PROVE FALSE
          OBVIOUS
        <5>1. CASE p \in 1..(m.i - 1)
          BY <2>1, <2>2, <5>1
        <5>2. CASE p \in m.i..Len(l1)
          BY <2>1, <2>5, <2>11, <5>2
        <5> QED BY <2>8, <5>1, <5>2
      <4> QED BY <2>1, <2>7, <4>1, Zenon
    <3>2. n.i = m.i /\ n.j = m.j + 1 /\ n.l = IF "second" \in keep THEN Append(m.l, y) ELSE m.l
      <4>1. ~(m.i > Len(l1) \/ m.j > Len(l2)) /\ ~(x < y) /\ x > y
        BY <1>1, <1>3, <2>1, <2>11
      <4> QED BY <4>1 DEF MergeTurn
    <3>3. \A p \in 1..(m.i - 1), q \in (m.j + 1)..Len(l2) : l1[p] < l2[q]
      BY <2>6 DEF MergeOK
    <3>4. \A q \in 1..m.j, p \in m.i..Len(l1) : l2[q] < l1[p]
      <4>1. \A p \in m.i..Len(l1) : y < l1[p]
        <5> SUFFICES ASSUME NEW p \in m.i..Len(l1) PROVE y < l1[p]
          OBVIOUS
        <5>1. l1[p] \in Int /\ (l1[p] = x \/ x < l1[p])
          BY <2>5, Zenon
        <5> QED BY <2>1, <2>11, <5>1
      <4> QED BY <2>6, <2>a, <4>1, Zenon
    <3>5. Increasing(n.l) /\ \A z : z \in ToSet(n.l) <=> z \in ToSet(m.l) \/ ("second" \in keep /\ z = y)
      <4>1. CASE "second" \in keep
        BY <2>1, <2>4, <2>9, <3>2, <4>1, AppendIncreasing
      <4>2. CASE "second" \notin keep
        BY <2>9, <3>2, <4>2
      <4> QED BY <4>1, <4>2
    <3>6. \A z : Picked(l1, l2, keep, m.i, m.j + 1, z) <=>
                 Picked(l1, l2, keep, m.i, m.j, z) \/ ("second" \in keep /\ z = y)
      BY <2>6, <3>1, Zenon DEF Picked
    <3>7. MergeOK(l1, l2, keep, n)
      <4>1. n.i \in 1..(Len(l1) + 1) /\ n.j \in 1..(Len(l2) + 1) /\ n.j - 1 = m.j
        BY <2>6, <3>2 DEF MergeOK
      <4>2. \A z : z \in ToSet(n.l) <=> Picked(l1, l2, keep, n.i, n.j, z)
        BY <2>9, <3>2, <3>5, <3>6, Zenon
      <4> HIDE DEF n, x, y
      <4> QED BY <3>2, <3>3, <3>4, <3>5, <4>1, <4>2, Zenon DEF MergeOK
    <3> QED BY <1>1, <3>2, <3>7
  <2>12. CASE x = y
    <3>1. x \in ToSet(l1) /\ x \in ToSet(l2)
      BY <2>1, <2>7, <2>12
    <3>2. n.i = m.i + 1 /\ n.j = m.j + 1 /\ n.l = IF "both" \in keep THEN Append(m.l, x) ELSE m.l
      <4>1. ~(m.i > Len(l1) \/ m.j > Len(l2)) /\ ~(x < y) /\ ~(x > y)
        BY <1>1, <1>3, <2>1, <2>12
      <4> QED BY <4>1 DEF MergeTurn
    <3>3. \A p \in 1..m.i, q \in (m.j + 1)..Len(l2) : l1[p] < l2[q]
      BY <2>1, <2>5, <2>6, <2>12, Zenon DEF MergeOK
    <3>4. \A q \in 1..m.j, p \in (m.i + 1)..Len(l1) : l2[q] < l1[p]
      BY <2>1, <2>5, <2>6, <2>12, Zenon DEF MergeOK
    <3>5. Increasing(n.l) /\ \A z : z \in ToSet(n.l) <=> z \in ToSet(m.l) \/ ("both" \in keep /\ z = x)
      <4>1. CASE "both" \in keep
        BY <2>1, <2>4, <2>9, <3>2, <4>1, AppendIncreasing
      <4>2. CASE "both" \notin keep
        BY <2>9, <3>2, <4>2
      <4> QED BY <4>1, <4>2
    <3>6. \A z : Picked(l1, l2, keep, m.i + 1, m.j + 1, z) <=>
                 Picked(l1, l2, keep, m.i, m.j, z) \/ ("both" \in keep /\ z = x)
      BY <2>6, <2>12, <3>1, Zenon DEF Picked
    <3>7. MergeOK(l1, l2, keep, n)
      <4>1. /\ n.i \in 1..(Len(l1) + 1) /\ n.j \in 1..(Len(l2) + 1)
            /\ n.i - 1 = m.i /\ n.j - 1 = m.j
        BY <2>6, <3>2 DEF MergeOK
      <4>2. \A z : z \in ToSet(n.l) <=> Picked(l1, l2, keep, n.i, n.j, z)
        BY <2>9, <3>2, <3>5, <3>6, Zenon
      <4> HIDE DEF n, x, y
      <4> QED BY <3>2, <3>3, <3>4, <3>5, <4>1, <4>2, Zenon DEF MergeOK
    <3> QED BY <1>1, <3>2, <3>7
  <2> QED BY <2>1, <2>10, <2>11, <2>12
<1> QED BY <1>1, <1>2, <1>3

(* The result of the loop and the rest of the lists after it.              *)
WithRest(l1, l2, keep, m) ==
    m.l \o (IF "first" \in keep THEN SubSeq(l1, m.i, Len(l1)) ELSE <<>>)
        \o (IF "second" \in keep THEN SubSeq(l2, m.j, Len(l2)) ELSE <<>>)

(* The loop of Merged runs until one list is at its end.                   *)
LEMMA MergeLoop ==
    ASSUME NEW l1, Increasing(l1), NEW l2, Increasing(l2), NEW keep
    PROVE  \E m : /\ MergeOK(l1, l2, keep, m) /\ (m.i > Len(l1) \/ m.j > Len(l2))
                  /\ Merged(l1, l2, keep) = WithRest(l1, l2, keep, m)
<1> DEFINE start == [i |-> 1, j |-> 1, l |-> <<>>]
           Def(f, n) == f = [k \in 0..n |->
                   IF k = 0 THEN start ELSE MergeTurn(l1, l2, keep, f[k - 1])]
           P == {n \in Nat : \E f : Def(f, n)}
           N == Len(l1) + Len(l2)
<1>0. Len(l1) \in Nat /\ Len(l2) \in Nat /\ N \in Nat
  BY DEF Increasing
<1> HIDE DEF start, N
<1>1. 0 \in P
  <2>1. Def([k \in 0..0 |-> start], 0)
    OBVIOUS
  <2> QED BY <2>1, Zenon
<1>2. ASSUME NEW n \in Nat, n \in P PROVE n + 1 \in P
  <2>1. PICK f : Def(f, n)
    BY <1>2
  <2> DEFINE g == [k \in 0..(n + 1) |-> IF k = 0 THEN start ELSE MergeTurn(l1, l2, keep, f[k - 1])]
  <2>2. \A k \in 0..n : f[k] = IF k = 0 THEN start ELSE MergeTurn(l1, l2, keep, f[k - 1])
    BY <2>1
  <2>3. \A k \in 0..n : g[k] = f[k]
    BY <2>2
  <2>4. \A k \in 0..(n + 1) : k # 0 => k - 1 \in 0..n
    OBVIOUS
  <2>5. \A k \in 0..(n + 1) : g[k] = IF k = 0 THEN start ELSE MergeTurn(l1, l2, keep, g[k - 1])
    BY <2>3, <2>4, Zenon
  <2>6. Def(g, n + 1)
    BY <2>5, Zenon
  <2> HIDE DEF Def
  <2> QED BY <2>6
<1>3. \E f : Def(f, N)
  <2>1. \A n \in Nat : n \in P
    <3> HIDE DEF P
    <3> QED BY <1>1, <1>2, SetInduction
  <2> HIDE DEF Def
  <2> QED BY <1>0, <2>1
<1> DEFINE F == CHOOSE f : Def(f, N)
<1>4. Def(F, N)
  <2> HIDE DEF Def
  <2> QED BY <1>3, Zenon
<1>5. Merged(l1, l2, keep) = WithRest(l1, l2, keep, F[N])
  BY Zenon DEF Merged, WithRest, N, start
<1> HIDE DEF F, P
<1>6. F[0] = start /\ \A k \in 0..N : k # 0 => F[k] = MergeTurn(l1, l2, keep, F[k - 1])
  BY <1>0, <1>4
<1> HIDE DEF Def
<1> DEFINE OK(k) ==
               /\ MergeOK(l1, l2, keep, F[k])
               /\ F[k].i > Len(l1) \/ F[k].j > Len(l2) \/ F[k].i + F[k].j >= k + 2
           Q == {k \in Nat : k <= N => OK(k)}
<1>7. 0 \in Q
  <2>1. start.i = 1 /\ start.j = 1 /\ start.l = <<>>
    BY DEF start
  <2>2. Increasing(<<>>) /\ ToSet(<<>>) = {}
    BY DEF Increasing, ToSet
  <2>3. MergeOK(l1, l2, keep, start)
    <3>1. /\ 1 \in 1..(Len(l1) + 1) /\ 1 \in 1..(Len(l2) + 1) /\ 1..(1 - 1) = {}
      BY <1>0
    <3> QED BY <2>1, <2>2, <3>1 DEF MergeOK, Picked
  <2> QED BY <1>6, <2>1, <2>3
<1>8. ASSUME NEW k \in Nat, k \in Q PROVE k + 1 \in Q
  <2> SUFFICES ASSUME k + 1 <= N
               PROVE  /\ MergeOK(l1, l2, keep, F[k + 1])
                      /\ \/ F[k + 1].i > Len(l1) \/ F[k + 1].j > Len(l2)
                         \/ F[k + 1].i + F[k + 1].j >= (k + 1) + 2
    OBVIOUS
  <2>1. F[k + 1] = MergeTurn(l1, l2, keep, F[k])
    <3>1. k + 1 \in 0..N /\ k + 1 # 0 /\ (k + 1) - 1 = k
      BY <1>0
    <3> QED BY <1>6, <3>1
  <2>2. /\ MergeOK(l1, l2, keep, F[k])
        /\ F[k].i > Len(l1) \/ F[k].j > Len(l2) \/ F[k].i + F[k].j >= k + 2
    <3>1. k <= N
      BY <1>0
    <3>2. OK(k)
      <4> HIDE DEF OK
      <4> QED BY <1>8, <3>1
    <3> QED BY <3>2
  <2>3. /\ MergeOK(l1, l2, keep, F[k + 1])
        /\ F[k + 1].i > Len(l1) \/ F[k + 1].j > Len(l2) \/ F[k + 1].i + F[k + 1].j > F[k].i + F[k].j
    BY <2>1, <2>2, MergeTurnOK
  <2>4. CASE F[k].i > Len(l1) \/ F[k].j > Len(l2)
    <3>1. F[k + 1] = F[k]
      BY <2>1, <2>4 DEF MergeTurn
    <3> QED BY <2>3, <2>4, <3>1
  <2>5. CASE F[k].i + F[k].j >= k + 2
    <3>1. F[k].i \in Int /\ F[k].j \in Int /\ F[k + 1].i \in Int /\ F[k + 1].j \in Int
      BY <1>0, <2>2, <2>3 DEF MergeOK
    <3>2. \A a, b, c, d \in Int : a + b > c + d /\ c + d >= k + 2 => a + b >= (k + 1) + 2
      OBVIOUS
    <3> QED BY <2>3, <2>5, <3>1, <3>2, Zenon
  <2> QED BY <2>2, <2>4, <2>5
<1>9. N \in Q
  <2>1. \A k \in Nat : k \in Q
    <3> HIDE DEF Q
    <3> QED BY <1>7, <1>8, SetInduction
  <2> QED BY <1>0, <2>1
<1>10. /\ MergeOK(l1, l2, keep, F[N])
       /\ F[N].i > Len(l1) \/ F[N].j > Len(l2) \/ F[N].i + F[N].j >= N + 2
  <2>1. OK(N)
    <3> HIDE DEF OK
    <3> QED BY <1>0, <1>9
  <2> QED BY <2>1
<1>11. F[N].i > Len(l1) \/ F[N].j > Len(l2)
  <2>1. F[N].i \in 1..(Len(l1) + 1) /\ F[N].j \in 1..(Len(l2) + 1)
    BY <1>10 DEF MergeOK
  <2>2. F[N].i > Len(l1) \/ F[N].j > Len(l2) \/ F[N].i + F[N].j >= Len(l1) + Len(l2) + 2
    BY <1>10 DEF N
  <2> QED BY <1>0, <2>1, <2>2
<1> QED BY <1>5, <1>10, <1>11, Zenon

(* Of two lists in increasing order the loop makes one in increasing order *)
(* with exactly the numbers it is asked to keep.                           *)
LEMMA MergedLists ==
    ASSUME NEW l1, Increasing(l1), NEW l2, Increasing(l2), NEW keep
    PROVE  /\ Increasing(Merged(l1, l2, keep))
           /\ \A x : x \in ToSet(Merged(l1, l2, keep)) <=>
                        \/ "first" \in keep /\ x \in ToSet(l1) /\ x \notin ToSet(l2)
                        \/ "both" \in keep /\ x \in ToSet(l1) /\ x \in ToSet(l2)
                        \/ "second" \in keep /\ x \in ToSet(l2) /\ x \notin ToSet(l1)
<1>1. PICK m : /\ MergeOK(l1, l2, keep, m) /\ (m.i > Len(l1) \/ m.j > Len(l2))
               /\ Merged(l1, l2, keep) = WithRest(l1, l2, keep, m)
  BY MergeLoop, Zenon
<1>2. /\ Len(l1) \in Nat /\ Len(l2) \in Nat
      /\ m.i \in 1..(Len(l1) + 1) /\ m.j \in 1..(Len(l2) + 1)
  <2>1. MergeOK(l1, l2, keep, m)
    BY <1>1
  <2> QED BY <2>1 DEF Increasing, MergeOK
<1> DEFINE r1 == IF "first" \in keep THEN SubSeq(l1, m.i, Len(l1)) ELSE <<>>
           r2 == IF "second" \in keep THEN SubSeq(l2, m.j, Len(l2)) ELSE <<>>
<1>3. Increasing(<<>>) /\ ToSet(<<>>) = {}
  BY DEF Increasing, ToSet
<1>4. Increasing(r1) /\ \A x : x \in ToSet(r1) <=> "first" \in keep /\ \E p \in m.i..Len(l1) : l1[p] = x
  <2>1. CASE "first" \in keep
    <3>1. m.i \in Int /\ Len(l1) \in Int /\ 1 <= m.i /\ Len(l1) <= Len(l1)
      BY <1>2
    <3> QED BY <2>1, <3>1, SubSeqIncreasing
  <2>2. CASE "first" \notin keep
    BY <1>3, <2>2
  <2> QED BY <2>1, <2>2
<1>5. Increasing(r2) /\ \A x : x \in ToSet(r2) <=> "second" \in keep /\ \E q \in m.j..Len(l2) : l2[q] = x
  <2>1. CASE "second" \in keep
    <3>1. m.j \in Int /\ Len(l2) \in Int /\ 1 <= m.j /\ Len(l2) <= Len(l2)
      BY <1>2
    <3> QED BY <2>1, <3>1, SubSeqIncreasing
  <2>2. CASE "second" \notin keep
    BY <1>3, <2>2
  <2> QED BY <2>1, <2>2
<1>6. Merged(l1, l2, keep) = m.l \o r1 \o r2
  BY <1>1 DEF WithRest
<1>7. /\ Increasing(m.l) /\ \A x : x \in ToSet(m.l) <=> Picked(l1, l2, keep, m.i, m.j, x)
      /\ \A p \in 1..(m.i - 1), q \in m.j..Len(l2) : l1[p] < l2[q]
      /\ \A q \in 1..(m.j - 1), p \in m.i..Len(l1) : l2[q] < l1[p]
  BY <1>1 DEF MergeOK
<1>8. /\ \A p \in 1..(m.i - 1), q \in m.i..Len(l1) : l1[p] < l1[q]
      /\ \A p \in 1..(m.j - 1), q \in m.j..Len(l2) : l2[p] < l2[q]
  <2>1. /\ \A p \in 1..(m.i - 1), q \in m.i..Len(l1) : p \in 1..Len(l1) /\ q \in 1..Len(l1) /\ p < q
        /\ \A p \in 1..(m.j - 1), q \in m.j..Len(l2) : p \in 1..Len(l2) /\ q \in 1..Len(l2) /\ p < q
    <3>1. \A i \in Nat, k \in Nat : 1 <= i =>
              \A p \in 1..(i - 1), q \in i..k : p \in 1..k /\ q \in 1..k /\ p < q
      OBVIOUS
    <3> QED BY <1>2, <3>1
  <2> QED BY <2>1 DEF Increasing
<1> HIDE DEF r1, r2
<1>9. \A x \in ToSet(m.l) : /\ \A y \in ToSet(r1) : x < y
                            /\ \A y \in ToSet(r2) : x < y
  <2> SUFFICES ASSUME NEW x \in ToSet(m.l)
               PROVE  (\A y \in ToSet(r1) : x < y) /\ (\A y \in ToSet(r2) : x < y)
    OBVIOUS
  <2>1. (\E p \in 1..(m.i - 1) : l1[p] = x) \/ (\E q \in 1..(m.j - 1) : l2[q] = x)
    BY <1>7, Zenon DEF Picked
  <2>2. \A y \in ToSet(r1) : x < y
    BY <1>4, <1>7, <1>8, <2>1
  <2>3. \A y \in ToSet(r2) : x < y
    BY <1>5, <1>7, <1>8, <2>1
  <2> QED BY <2>2, <2>3
<1>10. Increasing(m.l \o r1) /\ ToSet(m.l \o r1) = ToSet(m.l) \cup ToSet(r1)
  BY <1>4, <1>7, <1>9, ConcatIncreasing
<1>11. ToSet(r1) = {} \/ ToSet(r2) = {}
  <2>1. m.i..Len(l1) = {} \/ m.j..Len(l2) = {}
    BY <1>1, <1>2
  <2> QED BY <1>4, <1>5, <2>1, Zenon
<1>12. /\ Increasing(m.l \o r1 \o r2)
       /\ ToSet(m.l \o r1 \o r2) = ToSet(m.l) \cup ToSet(r1) \cup ToSet(r2)
  BY <1>5, <1>9, <1>10, <1>11, ConcatIncreasing
<1>13. \A x : x \in ToSet(Merged(l1, l2, keep)) <=>
           \/ Picked(l1, l2, keep, m.i, m.j, x)
           \/ "first" \in keep /\ \E p \in m.i..Len(l1) : l1[p] = x
           \/ "second" \in keep /\ \E q \in m.j..Len(l2) : l2[q] = x
  BY <1>4, <1>5, <1>6, <1>7, <1>12, Zenon
<1>14. /\ \A x : x \in ToSet(l1) <=> \E p \in 1..Len(l1) : l1[p] = x
       /\ \A x : x \in ToSet(l2) <=> \E q \in 1..Len(l2) : l2[q] = x
  BY DEF Increasing, ToSet
<1>15. /\ \A p : p \in 1..Len(l1) <=> p \in 1..(m.i - 1) \/ p \in m.i..Len(l1)
       /\ \A q : q \in 1..Len(l2) <=> q \in 1..(m.j - 1) \/ q \in m.j..Len(l2)
  BY <1>2
<1>16. m.i..Len(l1) = {} \/ m.j..Len(l2) = {}
  BY <1>1, <1>2
<1>17. \A p \in 1..Len(l1), q \in 1..Len(l2) : l1[p] \in Int /\ l2[q] \in Int
  BY DEF Increasing
<1>18. \A p \in m.i..Len(l1) : l1[p] \notin ToSet(l2)
  <2> SUFFICES ASSUME NEW p \in m.i..Len(l1), NEW q \in 1..Len(l2), l2[q] = l1[p] PROVE FALSE
    BY <1>14, Zenon
  <2>1. q \in 1..(m.j - 1) /\ l2[q] \in Int
    BY <1>15, <1>16, <1>17
  <2>2. l2[q] < l1[p]
    BY <1>7, <2>1
  <2> QED BY <2>1, <2>2
<1>19. \A q \in m.j..Len(l2) : l2[q] \notin ToSet(l1)
  <2> SUFFICES ASSUME NEW q \in m.j..Len(l2), NEW p \in 1..Len(l1), l2[q] = l1[p] PROVE FALSE
    BY <1>14, Zenon
  <2>1. p \in 1..(m.i - 1) /\ l1[p] \in Int
    BY <1>15, <1>16, <1>17
  <2>2. l1[p] < l2[q]
    BY <1>7, <2>1
  <2> QED BY <2>1, <2>2
<1>20. \A x : x \in ToSet(Merged(l1, l2, keep)) <=>
           \/ "first" \in keep /\ x \in ToSet(l1) /\ x \notin ToSet(l2)
           \/ "both" \in keep /\ x \in ToSet(l1) /\ x \in ToSet(l2)
           \/ "second" \in keep /\ x \in ToSet(l2) /\ x \notin ToSet(l1)
  <2> TAKE x
  <2>1. /\ x \in ToSet(l1) <=> \/ \E p \in 1..(m.i - 1) : l1[p] = x
                               \/ \E p \in m.i..Len(l1) : l1[p] = x
        /\ x \in ToSet(l2) <=> \/ \E q \in 1..(m.j - 1) : l2[q] = x
                               \/ \E q \in m.j..Len(l2) : l2[q] = x
    BY <1>14, <1>15, Zenon
  <2>2. /\ (\E p \in m.i..Len(l1) : l1[p] = x) => x \notin ToSet(l2)
        /\ (\E q \in m.j..Len(l2) : l2[q] = x) => x \notin ToSet(l1)
    BY <1>18, <1>19
  <2> QED BY <1>13, <2>1, <2>2, Zenon DEF Picked
<1> QED BY <1>6, <1>12, <1>20

(* interList, unionList and differentList are intersection, union and      *)
(* difference: of lists in increasing order, as every list of tables is,   *)
(* they make a list in increasing order with exactly those tables.         *)
THEOREM ListsAreSets ==
    ASSUME NEW l1, Increasing(l1), NEW l2, Increasing(l2)
    PROVE  /\ Increasing(interList(l1, l2)) /\ ToSet(interList(l1, l2)) = ToSet(l1) \cap ToSet(l2)
           /\ Increasing(unionList(l1, l2)) /\ ToSet(unionList(l1, l2)) = ToSet(l1) \cup ToSet(l2)
           /\ Increasing(differentList(l1, l2)) /\ ToSet(differentList(l1, l2)) = ToSet(l1) \ ToSet(l2)
<1>1. Increasing(interList(l1, l2)) /\ ToSet(interList(l1, l2)) = ToSet(l1) \cap ToSet(l2)
  <2>1. Increasing(Merged(l1, l2, {"both"}))
    BY MergedLists
  <2>2. \A x : x \in ToSet(Merged(l1, l2, {"both"})) <=> x \in ToSet(l1) /\ x \in ToSet(l2)
    BY MergedLists, Zenon
  <2> QED BY <2>1, <2>2 DEF interList
<1>2. Increasing(unionList(l1, l2)) /\ ToSet(unionList(l1, l2)) = ToSet(l1) \cup ToSet(l2)
  <2>1. Increasing(Merged(l1, l2, {"first", "both", "second"}))
    BY MergedLists
  <2>2. \A x : x \in ToSet(Merged(l1, l2, {"first", "both", "second"})) <=>
                  x \in ToSet(l1) \/ x \in ToSet(l2)
    <3> DEFINE K == {"first", "both", "second"}
    <3>1. "first" \in K /\ "both" \in K /\ "second" \in K
      OBVIOUS
    <3> HIDE DEF K
    <3>2. \A x : x \in ToSet(Merged(l1, l2, K)) <=> x \in ToSet(l1) \/ x \in ToSet(l2)
      BY <3>1, MergedLists, Zenon
    <3> QED BY <3>2 DEF K
  <2> QED BY <2>1, <2>2 DEF unionList
<1>3. Increasing(differentList(l1, l2)) /\ ToSet(differentList(l1, l2)) = ToSet(l1) \ ToSet(l2)
  <2>1. Increasing(Merged(l1, l2, {"first"}))
    BY MergedLists
  <2>2. \A x : x \in ToSet(Merged(l1, l2, {"first"})) <=> x \in ToSet(l1) /\ x \notin ToSet(l2)
    <3> DEFINE K == {"first"}
    <3>1. "first" \in K /\ "both" \notin K /\ "second" \notin K
      OBVIOUS
    <3> HIDE DEF K
    <3>2. \A x : x \in ToSet(Merged(l1, l2, K)) <=> x \in ToSet(l1) /\ x \notin ToSet(l2)
      BY <3>1, MergedLists, Zenon
    <3> QED BY <3>2 DEF K
  <2> QED BY <2>1, <2>2 DEF differentList
<1> QED BY <1>1, <1>2, <1>3
-----------------------------------------------------------------------------
(* Every finite set of integers can be listed in increasing order.         *)
LEMMA AscendingExists ==
    ASSUME NEW S \in SUBSET Int, IsFiniteSet(S)
    PROVE  \E s \in [1..Cardinality(S) -> S] : \A i, j \in DOMAIN s : i < j => s[i] < s[j]
<1> DEFINE Sorted(T, s) == \A i, j \in DOMAIN s : i < j => s[i] < s[j]
           Has(T) == \E s \in [1..Cardinality(T) -> T] : Sorted(T, s)
           P == {n \in Nat : \A T \in SUBSET Int : IsFiniteSet(T) /\ Cardinality(T) = n => Has(T)}
<1>1. 0 \in P
  <2> SUFFICES ASSUME NEW T \in SUBSET Int, IsFiniteSet(T), Cardinality(T) = 0 PROVE Has(T)
    OBVIOUS
  <2>1. 1..Cardinality(T) = {}
    OBVIOUS
  <2>2. <<>> \in [1..Cardinality(T) -> T] /\ Sorted(T, <<>>)
    BY <2>1
  <2> QED BY <2>2, Zenon
<1>2. ASSUME NEW n \in Nat, n \in P PROVE n + 1 \in P
  <2> SUFFICES ASSUME NEW T \in SUBSET Int, IsFiniteSet(T), Cardinality(T) = n + 1 PROVE Has(T)
    OBVIOUS
  <2>1. T # {}
    BY FS_EmptySet
  <2> DEFINE m == Max(T)
             U == T \ {m}
  <2>2. m \in T /\ \A x \in T : x <= m
    BY <2>1, GreatestInteger
  <2>3. IsFiniteSet(U) /\ Cardinality(U) = n /\ U \in SUBSET Int
    <3>1. IsFiniteSet(T \ {m}) /\ Cardinality(T \ {m}) = Cardinality(T) - 1
      BY <2>2, FS_RemoveElement, Zenon
    <3>2. Cardinality(T) - 1 = n
      OBVIOUS
    <3>3. T \ {m} \in SUBSET Int
      BY Zenon
    <3> HIDE DEF m
    <3> QED BY <3>1, <3>2, <3>3
  <2>4. Has(U)
    <3> HIDE DEF Has, m, U
    <3> QED BY <1>2, <2>3
  <2> HIDE DEF m
  <2>5. PICK s \in [1..n -> U] : Sorted(U, s)
    BY <2>3, <2>4, Zenon
  <2> DEFINE t == [i \in 1..(n + 1) |-> IF i = n + 1 THEN m ELSE s[i]]
  <2>6. \A i \in 1..n : s[i] \in T /\ s[i] # m /\ s[i] \in Int /\ m \in Int /\ s[i] <= m
    BY <2>2, Zenon
  <2>7. t \in [1..(n + 1) -> T]
    BY <2>2, <2>6
  <2>8. Sorted(T, t)
    <3> SUFFICES ASSUME NEW i \in 1..(n + 1), NEW j \in 1..(n + 1), i < j PROVE t[i] < t[j]
      OBVIOUS
    <3>1. i \in 1..n /\ t[i] = s[i]
      OBVIOUS
    <3>2. CASE j = n + 1
      <4>1. t[j] = m
        BY <3>2
      <4> HIDE DEF t
      <4> QED BY <2>6, <3>1, <4>1
    <3>3. CASE j # n + 1
      <4>1. j \in 1..n /\ t[j] = s[j]
        BY <3>3
      <4> HIDE DEF t
      <4> QED BY <2>5, <3>1, <4>1
    <3> QED BY <3>2, <3>3
  <2> QED BY <2>7, <2>8, Zenon
<1>3. \A n \in Nat : n \in P
  <2> HIDE DEF P
  <2> QED BY <1>1, <1>2, SetInduction
<1>4. Has(S)
  <2>1. Cardinality(S) \in Nat
    BY FS_CardinalityType
  <2> HIDE DEF Has
  <2> QED BY <1>3, <2>1
<1> QED BY <1>4, Zenon

(* getTableIndexsByTuple, ParseDayRange: the sorted list of a finite set   *)
(* is increasing and has the elements of the set.                          *)
LEMMA AscendingSorted ==
    ASSUME NEW S \in SUBSET Int, IsFiniteSet(S)
    PROVE  Increasing(Ascending(S)) /\ ToSet(Ascending(S)) = S
<1> DEFINE s == Ascending(S)
           n == Cardinality(S)
<1>1. n \in Nat
  BY FS_CardinalityType
<1>2. s \in [1..n -> S] /\ \A i, j \in DOMAIN s : i < j => s[i] < s[j]
  BY AscendingExists, Zenon DEF Ascending
<1> HIDE DEF s, n
<1>3. Len(s) = n /\ s \in Seq(Int)
  <2>1. s \in [1..n -> Int]
    BY <1>2, Zenon
  <2> QED BY <1>1, <2>1
<1>4. Increasing(s)
  BY <1>2, <1>3 DEF Increasing
<1>5. s \in Injection(1..n, S)
  <2>1. \A i, j \in 1..n : s[i] = s[j] => i = j
    <3> SUFFICES ASSUME NEW i \in 1..n, NEW j \in 1..n, s[i] = s[j], i # j PROVE FALSE
      OBVIOUS
    <3>1. s[i] \in Int /\ s[j] \in Int
      BY <1>2, Zenon
    <3>2. i < j \/ j < i
      OBVIOUS
    <3> QED BY <1>2, <3>1, <3>2
  <2> QED BY <1>2, <2>1 DEF Injection, IsInjective
<1>6. IsFiniteSet(1..n) /\ Cardinality(1..n) = n
  BY <1>1, FS_Interval
<1>7. s \in Surjection(1..n, S)
  BY <1>5, <1>6, FS_Injection DEF n
<1>8. \A x : x \in ToSet(s) <=> x \in S
  BY <1>2, <1>7, Zenon DEF Surjection, ToSet
<1> QED BY <1>4, <1>8 DEF s
-----------------------------------------------------------------------------
(* parseRule. *)

(* The list from start to before end is in increasing order.               *)
LEMMA MakeListIncreasing ==
    ASSUME NEW start \in Int, NEW end \in Int
    PROVE  /\ Increasing(makeList(start, end))
           /\ \A x : x \in ToSet(makeList(start, end)) <=> x \in start..(end - 1)
<1> DEFINE l == makeList(start, end)
           n == IF start <= end THEN end - start ELSE 0
<1>1. n \in Nat /\ 1..n = 1..(end - start)
  OBVIOUS
<1> HIDE DEF n
<1>2. l = [i \in 1..n |-> start + i - 1]
  BY <1>1 DEF makeList
<1> HIDE DEF l
<1>3. l \in [1..n -> Int] /\ \A i \in 1..n : l[i] = start + i - 1
  BY <1>1, <1>2
<1>4. l \in Seq(Int) /\ DOMAIN l = 1..n /\ Len(l) = n
  BY <1>1, <1>3
<1>5. Increasing(l)
  BY <1>1, <1>3, <1>4 DEF Increasing
<1>6. ASSUME NEW x, x \in ToSet(l) PROVE x \in start..(end - 1)
  <2>1. PICK i \in 1..n : x = l[i]
    BY <1>4, <1>6 DEF ToSet
  <2>2. i \in 1..(end - start) /\ x = start + i - 1
    BY <1>1, <1>3, <2>1
  <2> QED BY <2>2
<1> QED BY <1>5, <1>6, MakeListHas DEF l

(* The count of the tables on the first nodes, node by node.               *)
LEMMA SumOfTables ==
    ASSUME NEW locations \in Seq(Nat)
    PROVE  /\ sumTables(locations, 0) = 0
           /\ \A i \in 0..Len(locations) : sumTables(locations, i) \in Nat
           /\ \A i \in 1..Len(locations) :
                  sumTables(locations, i) = sumTables(locations, i - 1) + locations[i]
<1> DEFINE N == Len(locations)
           Def(f, n) == f = [j \in 0..n |-> IF j = 0 THEN 0 ELSE f[j - 1] + locations[j]]
           Good(f, n) == Def(f, n) /\ f \in [0..n -> Nat]
           P == {n \in Nat : n <= N => \E f : Good(f, n)}
<1>1. N \in Nat /\ \A j \in 1..N : locations[j] \in Nat
  OBVIOUS
<1> HIDE DEF N
<1>2. 0 \in P
  <2> DEFINE f == [j \in 0..0 |-> 0]
  <2>1. f \in [0..0 -> Nat]
    OBVIOUS
  <2>2. Def(f, 0)
    <3>1. \A j \in 0..0 : j = 0
      OBVIOUS
    <3> QED BY <3>1
  <2> QED BY <2>1, <2>2, Zenon
<1>3. ASSUME NEW n \in Nat, n \in P PROVE n + 1 \in P
  <2> SUFFICES ASSUME n + 1 <= N PROVE \E f : Good(f, n + 1)
    <3> HIDE DEF Good
    <3> QED OBVIOUS
  <2>1. n <= N
    BY <1>1
  <2>2. PICK f : Good(f, n)
    <3> HIDE DEF Good
    <3> QED BY <1>3, <2>1
  <2> DEFINE g == [j \in 0..(n + 1) |-> IF j = n + 1 THEN f[n] + locations[n + 1] ELSE f[j]]
  <2>3. f[n] \in Nat /\ locations[n + 1] \in Nat /\ \A j \in 0..n : f[j] \in Nat
    BY <1>1, <2>2
  <2>4. g \in [0..(n + 1) -> Nat]
    <3> SUFFICES ASSUME NEW j \in 0..(n + 1) PROVE g[j] \in Nat
      OBVIOUS
    <3>1. j = n + 1 \/ j \in 0..n
      OBVIOUS
    <3> QED BY <2>3, <3>1
  <2>5. \A j \in 0..(n + 1) : g[j] = IF j = 0 THEN 0 ELSE g[j - 1] + locations[j]
    <3> SUFFICES ASSUME NEW j \in 0..(n + 1)
                 PROVE  g[j] = IF j = 0 THEN 0 ELSE g[j - 1] + locations[j]
      OBVIOUS
    <3>1. CASE j = n + 1
      <4>1. j # 0 /\ j - 1 = n /\ n \in 0..(n + 1) /\ n # n + 1
        BY <3>1
      <4> QED BY <3>1, <4>1
    <3>2. CASE j # n + 1
      <4>1. j \in 0..n /\ g[j] = f[j] /\ (j # 0 => j - 1 \in 0..(n + 1) /\ j - 1 # n + 1)
        BY <3>2
      <4>2. f[j] = IF j = 0 THEN 0 ELSE f[j - 1] + locations[j]
        BY <2>2, <4>1
      <4> QED BY <4>1, <4>2
    <3> QED BY <3>1, <3>2
  <2>6. Def(g, n + 1)
    <3> HIDE DEF g
    <3> QED BY <2>4, <2>5
  <2> QED BY <2>4, <2>6, Zenon
<1>4. \E f : Good(f, N)
  <2> HIDE DEF Good
  <2>1. \A n \in Nat : n \in P
    <3> HIDE DEF P
    <3> QED BY <1>2, <1>3, SetInduction
  <2> QED BY <1>1, <2>1
<1> DEFINE F == CHOOSE f : Def(f, N)
<1>5. Def(F, N)
  BY <1>4, Zenon
<1>6. \A i : sumTables(locations, i) = F[i]
  BY Zenon DEF sumTables, N
<1> HIDE DEF F
<1>7. F[0] = 0 /\ \A i \in 1..N : F[i] = F[i - 1] + locations[i]
  <2>1. 0 \in 0..N /\ \A i \in 1..N : i \in 0..N /\ i # 0
    BY <1>1
  <2> QED BY <1>5, <2>1, Zenon
<1> DEFINE Q == {n \in Nat : n <= N => F[n] \in Nat}
<1>8. \A n \in Nat : n \in Q
  <2>1. 0 \in Q
    BY <1>7
  <2>2. ASSUME NEW n \in Nat, n \in Q PROVE n + 1 \in Q
    <3> SUFFICES ASSUME n + 1 <= N PROVE F[n + 1] \in Nat
      OBVIOUS
    <3>1. n + 1 \in 1..N /\ (n + 1) - 1 = n /\ n <= N
      BY <1>1
    <3>2. F[n] \in Nat /\ locations[n + 1] \in Nat /\ F[n + 1] = F[n] + locations[n + 1]
      <4>1. F[n + 1] = F[(n + 1) - 1] + locations[n + 1]
        BY <1>7, <3>1, Zenon
      <4> QED BY <1>1, <2>2, <3>1, <4>1
    <3> QED BY <3>2
  <2> HIDE DEF Q
  <2> QED BY <2>1, <2>2, SetInduction
<1>9. \A i \in 0..N : F[i] \in Nat
  BY <1>1, <1>8
<1> QED BY <1>6, <1>7, <1>9, Zenon DEF N

(* Two lists of consecutive numbers, one behind the other.                 *)
LEMMA MakeListConcat ==
    ASSUME NEW a \in Nat, NEW c \in Nat
    PROVE  makeList(0, a) \o [j \in 1..c |-> a + j - 1] = makeList(0, a + c)
<1> DEFINE l == makeList(0, a)
           r == [j \in 1..c |-> a + j - 1]
           m == makeList(0, a + c)
<1>1. l \in [1..a -> Int] /\ \A i \in 1..a : l[i] = i - 1
  BY DEF makeList
<1>2. m \in [1..(a + c) -> Int] /\ \A i \in 1..(a + c) : m[i] = i - 1
  BY DEF makeList
<1>3. r \in [1..c -> Int] /\ \A i \in 1..c : r[i] = a + i - 1
  OBVIOUS
<1> HIDE DEF l, r, m
<1>4. l \in Seq(Int) /\ Len(l) = a /\ r \in Seq(Int) /\ Len(r) = c /\ m \in Seq(Int) /\ Len(m) = a + c
  <2>1. a + c \in Nat
    OBVIOUS
  <2> QED BY <1>1, <1>2, <1>3, <2>1, ListOfLength
<1>5. /\ l \o r \in Seq(Int) /\ Len(l \o r) = a + c
      /\ \A i \in 1..(a + c) : (l \o r)[i] = IF i <= a THEN l[i] ELSE r[i - a]
  BY <1>4, Joined
<1>6. \A i \in 1..(a + c) : (l \o r)[i] = m[i]
  <2> SUFFICES ASSUME NEW i \in 1..(a + c) PROVE (l \o r)[i] = m[i]
    BY Zenon
  <2>1. CASE i <= a
    BY <1>1, <1>2, <1>5, <2>1
  <2>2. CASE ~(i <= a)
    <3>1. i - a \in 1..c /\ a + (i - a) - 1 = i - 1
      BY <2>2
    <3>2. (l \o r)[i] = r[i - a]
      BY <1>5, <2>2
    <3> QED BY <1>2, <1>3, <3>1, <3>2
  <2> QED BY <2>1, <2>2, Zenon
<1>7. l \o r = m
  BY <1>4, <1>5, <1>6, SameItems, Zenon
<1> QED BY <1>7, Zenon DEF l, r, m

(* The tables of a hash or range rule are numbered from 0.                 *)
LEMMA CountedTables ==
    ASSUME NEW cfg, ValidConfig(cfg), ParseOk(cfg), cfg.type \in {"hash", "range"}
    PROVE  /\ \E n \in Nat : SubTables(cfg) = makeList(0, n)
           /\ \A i \in DOMAIN cfg.nodes : TablesOfNode(cfg, i) \in Seq(Int)
<1> DEFINE N == Len(cfg.nodes)
           loc == cfg.locations
           S(i) == sumTables(loc, i)
           T(i) == [j \in 1..loc[i] |-> S(i - 1) + j - 1]
           ss == [i \in DOMAIN cfg.nodes |-> TablesOfNode(cfg, i)]
<1>1. cfg.type \notin DateTypes
  BY DEF DateTypes
<1>2. loc \in Seq(Nat) /\ Len(loc) = N /\ N \in Nat /\ DOMAIN cfg.nodes = 1..N
  BY <1>1 DEF ValidConfig, ParseOk
<1> HIDE DEF N, loc, S
<1>3. /\ S(0) = 0 /\ \A i \in 0..N : S(i) \in Nat
      /\ \A i \in 1..N : S(i) = S(i - 1) + loc[i]
  BY <1>2, SumOfTables, Zenon DEF S
<1>4. \A i \in 1..N : loc[i] \in Nat
  BY <1>2
<1>5. \A i \in 1..N : TablesOfNode(cfg, i) = T(i)
  BY Zenon DEF TablesOfNode, loc, S
<1>6. \A i \in 1..N : T(i) \in Seq(Int)
  <2> SUFFICES ASSUME NEW i \in 1..N PROVE T(i) \in Seq(Int)
    OBVIOUS
  <2>1. i - 1 \in 0..N
    BY <1>2
  <2>2. S(i - 1) \in Nat /\ loc[i] \in Nat
    BY <1>3, <1>4, <2>1
  <2>3. T(i) \in [1..loc[i] -> Int]
    BY <2>2
  <2> QED BY <2>2, <2>3
<1>7. ss = [i \in 1..N |-> T(i)]
  BY <1>2, <1>5
<1> HIDE DEF T
<1>8. ss \in Seq(Seq(Int)) /\ Len(ss) = N /\ \A i \in 1..N : ss[i] = T(i)
  <2>1. ss \in [1..N -> Seq(Int)]
    BY <1>6, <1>7, Zenon
  <2> QED BY <1>2, <1>7, <2>1
<1>9. SubTables(cfg) = FlattenSeq(ss)
  BY DEF SubTables
<1> HIDE DEF ss
<1>10. FlattenSeq(ss) = makeList(0, S(N))
  <2>1. CASE N = 0
    <3>1. ss = <<>>
      BY <1>8, <2>1
    <3>2. FlattenSeq(ss) = <<>>
      BY <3>1 DEF FlattenSeq
    <3>3. makeList(0, 0) = <<>>
      BY DEF makeList
    <3> QED BY <1>3, <2>1, <3>2, <3>3
  <2>2. CASE N # 0
    <3>1. ss # <<>>
      BY <1>8, <2>2
    <3>2. PICK f \in [1..N -> Seq(Int)] :
              /\ f[1] = ss[1] /\ FlattenSeq(ss) = f[N]
              /\ \A i \in 2..N : f[i] = f[i - 1] \o ss[i]
      BY <1>8, <3>1, FlattenSteps, ZenonT(30)
    <3> DEFINE P == {n \in Nat : n + 1 <= N => f[n + 1] = makeList(0, S(n + 1))}
    <3>3. \A n \in Nat : n < N => makeList(0, S(n)) \o T(n + 1) = makeList(0, S(n + 1))
      <4> SUFFICES ASSUME NEW n \in Nat, n < N
                   PROVE  makeList(0, S(n)) \o T(n + 1) = makeList(0, S(n + 1))
        OBVIOUS
      <4>1. n \in 0..N /\ n + 1 \in 1..N /\ (n + 1) - 1 = n
        BY <1>2
      <4>2. S(n) \in Nat /\ loc[n + 1] \in Nat /\ S(n + 1) = S(n) + loc[n + 1]
        <5>1. S(n + 1) = S((n + 1) - 1) + loc[n + 1]
          BY <1>3, <4>1
        <5> QED BY <1>3, <1>4, <4>1, <5>1
      <4>3. T(n + 1) = [j \in 1..loc[n + 1] |-> S(n) + j - 1]
        BY <4>1 DEF T
      <4> QED BY <4>2, <4>3, MakeListConcat, Zenon
    <3>4. 0 \in P
      <4>1. f[1] = T(1) /\ T(1) \in Seq(Int)
        BY <1>2, <1>6, <1>8, <2>2, <3>2
      <4>2. makeList(0, S(0)) = <<>>
        BY <1>3 DEF makeList
      <4>3. makeList(0, S(0)) \o T(0 + 1) = makeList(0, S(0 + 1))
        BY <1>2, <2>2, <3>3
      <4>4. <<>> \o T(1) = T(1)
        BY <4>1
      <4> QED BY <4>1, <4>2, <4>3, <4>4
    <3>5. ASSUME NEW n \in Nat, n \in P PROVE n + 1 \in P
      <4> SUFFICES ASSUME n + 2 <= N PROVE f[n + 2] = makeList(0, S(n + 2))
        BY <1>2
      <4>1. n + 2 \in 2..N /\ (n + 2) - 1 = n + 1 /\ n + 1 <= N /\ n + 1 < N /\ n + 1 \in Nat /\ n + 2 \in 1..N
        BY <1>2
      <4>2. f[n + 2] = f[n + 1] \o T(n + 2)
        BY <1>8, <3>2, <4>1, Zenon
      <4>3. f[n + 1] = makeList(0, S(n + 1))
        BY <3>5, <4>1
      <4>4. makeList(0, S(n + 1)) \o T((n + 1) + 1) = makeList(0, S((n + 1) + 1))
        BY <3>3, <4>1
      <4>5. (n + 1) + 1 = n + 2
        OBVIOUS
      <4> QED BY <4>2, <4>3, <4>4, <4>5
    <3>6. \A n \in Nat : n \in P
      <4> HIDE DEF P
      <4> QED BY <3>4, <3>5, SetInduction
    <3>7. N - 1 \in Nat /\ (N - 1) + 1 = N /\ N <= N
      BY <1>2, <2>2
    <3> QED BY <3>2, <3>6, <3>7
  <2> QED BY <2>1, <2>2
<1>11. S(N) \in Nat
  BY <1>2, <1>3
<1> QED BY <1>2, <1>5, <1>6, <1>9, <1>10, <1>11

(* Dates in increasing order, at least one.                                *)
SomeDates(l) == Increasing(l) /\ l \in Seq(Nat) /\ l # <<>>

(* The two ends of a range of dates, in order.                             *)
LEMMA InOrderEnds ==
    ASSUME NEW r \in Nat \X Nat
    PROVE  /\ InOrder(r)[1] \in Nat /\ InOrder(r)[2] \in Nat /\ InOrder(r)[1] <= InOrder(r)[2]
           /\ InOrder(r)[1] \in {r[1], r[2]} /\ InOrder(r)[2] \in {r[1], r[2]}
  BY DEF InOrder

(* The years of a range.                                                   *)
LEMMA YearsInOrder ==
    ASSUME NEW r \in Nat \X Nat
    PROVE  SomeDates(ParseYearRange(r))
<1> DEFINE a == InOrder(r)[1]
           b == InOrder(r)[2]
           n == b - a + 1
           l == ParseYearRange(r)
<1>1. a \in Nat /\ b \in Nat /\ a <= b
  BY InOrderEnds
<1>2. l = [i \in 1..n |-> a + i - 1]
  BY DEF ParseYearRange
<1> HIDE DEF a, b, l
<1>3. n \in Nat /\ n # 0
  BY <1>1
<1> HIDE DEF n
<1>4. \A i \in 1..n : a + i - 1 \in Nat
  BY <1>1
<1>5. l \in [1..n -> Nat] /\ l \in [1..n -> Int]
  BY <1>2, <1>4
<1>6. l \in Seq(Nat) /\ Len(l) = n /\ l \in Seq(Int)
  BY <1>3, <1>5, ListOfLength
<1>7. \A i, j \in 1..n : i < j => l[i] < l[j]
  BY <1>1, <1>2
<1>8. Increasing(l)
  BY <1>5, <1>6, <1>7 DEF Increasing
<1>9. l # <<>>
  BY <1>3, <1>6
<1> QED BY <1>6, <1>8, <1>9 DEF SomeDates, l

(* A month is a year and the number of the month.                          *)
LEMMA YearAndMonth ==
    ASSUME NEW k \in Nat
    PROVE  k \div 100 \in Nat /\ k = 100 * (k \div 100) + (k % 100)
  OBVIOUS

(* The months of a range: the count is not 0, and December is followed by  *)
(* January.                                                                *)
LEMMA MonthsInOrder ==
    ASSUME NEW r \in Nat \X Nat, r[1] % 100 \in 1..12, r[2] % 100 \in 1..12
    PROVE  SomeDates(ParseMonthRange(r))
<1> DEFINE a == InOrder(r)[1]
           b == InOrder(r)[2]
           y == a \div 100
           m == a % 100
           n == ((b \div 100) - y) * 12 + (b % 100) - m + 1
           W(k) == (y + ((k - 1) \div 12)) * 100 + ((k - 1) % 12) + 1
           l == ParseMonthRange(r)
<1>1. a \in Nat /\ b \in Nat /\ a <= b /\ m \in 1..12 /\ b % 100 \in 1..12
  BY InOrderEnds
<1>2. l = [i \in 1..n |-> W(m + i - 1)]
  BY DEF ParseMonthRange
<1> HIDE DEF a, b, l
<1>3. y \in Nat /\ b \div 100 \in Nat /\ a = 100 * y + m /\ b = 100 * (b \div 100) + (b % 100)
  BY <1>1, YearAndMonth
<1>4. n \in Nat /\ n # 0
  <2> HIDE DEF y, m
  <2>1. y <= b \div 100 /\ (y = b \div 100 => m <= b % 100)
    BY <1>1, <1>3
  <2> QED BY <1>1, <1>3, <2>1
<1> HIDE DEF y, m, n
<1>5. \A k \in Nat \ {0} : W(k) \in Nat
  BY <1>3
<1>6. \A j, k \in Nat \ {0} : j < k => W(j) < W(k)
  <2> SUFFICES ASSUME NEW j \in Nat \ {0}, NEW k \in Nat \ {0}, j < k PROVE W(j) < W(k)
    OBVIOUS
  <2> DEFINE qj == (j - 1) \div 12
             qk == (k - 1) \div 12
             rj == (j - 1) % 12
             rk == (k - 1) % 12
  <2>1. /\ qj \in Int /\ rj \in 0..11 /\ j - 1 = 12 * qj + rj
        /\ qk \in Int /\ rk \in 0..11 /\ k - 1 = 12 * qk + rk
    OBVIOUS
  <2> HIDE DEF qj, qk, rj, rk
  <2>2. qj <= qk /\ (qj = qk => rj < rk)
    BY <2>1
  <2>3. (y + qj) * 100 + rj + 1 < (y + qk) * 100 + rk + 1
    BY <1>3, <2>1, <2>2
  <2> QED BY <2>3 DEF qj, qk, rj, rk
<1> HIDE DEF W
<1>7. \A i \in 1..n : m + i - 1 \in Nat \ {0}
  BY <1>1, <1>4
<1>8. l \in [1..n -> Nat]
  BY <1>2, <1>5, <1>7
<1>9. l \in [1..n -> Int]
  BY <1>8
<1>10. l \in Seq(Nat) /\ Len(l) = n /\ l \in Seq(Int)
  BY <1>4, <1>8, <1>9, ListOfLength
<1>11. \A i, j \in 1..n : i < j => l[i] < l[j]
  <2> SUFFICES ASSUME NEW i \in 1..n, NEW j \in 1..n, i < j PROVE l[i] < l[j]
    OBVIOUS
  <2>1. m + i - 1 < m + j - 1
    BY <1>1
  <2>2. l[i] = W(m + i - 1) /\ l[j] = W(m + j - 1)
    BY <1>2
  <2> QED BY <1>6, <1>7, <2>1, <2>2
<1>12. Increasing(l)
  BY <1>8, <1>10, <1>11 DEF Increasing
<1>13. l # <<>>
  BY <1>4, <1>10
<1> QED BY <1>10, <1>12, <1>13 DEF SomeDates, l

(* The days of a range.                                                    *)
LEMMA DaysInOrder ==
    ASSUME NEW r \in Nat \X Nat, IsDay(r[1]), IsDay(r[2])
    PROVE  SomeDates(ParseDayRange(r))
<1> DEFINE a == InOrder(r)[1]
           b == InOrder(r)[2]
           S == {n \in a..b : IsDay(n)}
           l == ParseDayRange(r)
<1>1. a \in Nat /\ b \in Nat /\ a <= b
  BY InOrderEnds
<1>2. IsDay(a)
  <2>1. a = r[1] \/ a = r[2]
    BY InOrderEnds
  <2> QED BY <2>1, Zenon
<1>3. l = Ascending(S)
  BY DEF ParseDayRange
<1> HIDE DEF a, b, l
<1>4. IsFiniteSet(a..b)
  BY <1>1, FS_Interval
<1>5. S \subseteq a..b /\ a \in S
  BY <1>1, <1>2
<1>6. S \in SUBSET Int /\ S \subseteq Nat
  BY <1>1, <1>5
<1>7. IsFiniteSet(S)
  BY <1>4, <1>5, FS_Subset, Zenon
<1> HIDE DEF S
<1>8. Increasing(l) /\ ToSet(l) = S
  BY <1>3, <1>6, <1>7, AscendingSorted
<1>9. l \in Seq(Int) /\ DOMAIN l = 1..Len(l) /\ Len(l) \in Nat
  BY <1>8 DEF Increasing
<1>10. \A i \in 1..Len(l) : l[i] \in Nat
  <2>1. \A i \in 1..Len(l) : l[i] \in ToSet(l)
    BY <1>9 DEF ToSet
  <2> QED BY <1>6, <1>8, <2>1, Zenon
<1>11. l \in Seq(Nat)
  <2>1. l = [i \in 1..Len(l) |-> l[i]]
    BY <1>9
  <2>2. l \in [1..Len(l) -> Nat]
    BY <1>10, <2>1
  <2> QED BY <1>9, <2>2, ListOfLength
<1>12. l # <<>>
  <2>1. ToSet(<<>>) = {}
    BY DEF ToSet
  <2> QED BY <1>5, <1>8, <2>1
<1> QED BY <1>8, <1>11, <1>12 DEF SomeDates, l

(* parseRule refuses dates that are not in order, so the list of all dates *)
(* is in increasing order.                                                 *)
LEMMA DateTables ==
    ASSUME NEW cfg, ValidConfig(cfg), ParseOk(cfg), cfg.type \in DateTypes
    PROVE  /\ Increasing(SubTables(cfg))
           /\ \A t \in ToSet(SubTables(cfg)) : t \in Nat
           /\ \A i \in DOMAIN cfg.nodes : TablesOfNode(cfg, i) \in Seq(Int)
<1> DEFINE N == Len(cfg.nodes)
           T(i) == TablesOfNode(cfg, i)
           ss == [i \in DOMAIN cfg.nodes |-> T(i)]
           b == [i \in 0..N |-> IF i = 0 THEN 0 ELSE Last(T(i)) + 1]
<1>1. /\ N \in Nat /\ DOMAIN cfg.nodes = 1..N
      /\ cfg.dates \in Seq(Nat \X Nat) /\ Len(cfg.dates) = N /\ DatesInOrder(cfg)
  BY DEF ValidConfig, ParseOk
<1>2. ASSUME NEW i \in 1..N PROVE SomeDates(T(i))
  <2> DEFINE r == cfg.dates[i]
  <2>1. r \in Nat \X Nat /\ i \in DOMAIN cfg.dates
    BY <1>1
  <2>2. /\ cfg.type = "date_month" => r[1] % 100 \in 1..12 /\ r[2] % 100 \in 1..12
        /\ cfg.type = "date_day" => IsDay(r[1]) /\ IsDay(r[2])
    <3>1. \A e \in {r[1], r[2]} : (cfg.type = "date_month" => e % 100 \in 1..12)
                               /\ (cfg.type = "date_day" => IsDay(e))
      BY <2>1, Zenon DEF ValidConfig
    <3> QED BY <3>1, Zenon
  <2>3. CASE cfg.type = "date_year"
    <3>1. T(i) = ParseYearRange(r)
      BY <2>3, Zenon DEF TablesOfNode
    <3> QED BY <2>1, <3>1, YearsInOrder
  <2>4. CASE cfg.type = "date_month"
    <3>1. T(i) = ParseMonthRange(r)
      BY <2>4, Zenon DEF TablesOfNode
    <3> QED BY <2>1, <2>2, <2>4, <3>1, MonthsInOrder, Zenon
  <2>5. CASE cfg.type = "date_day"
    <3>1. T(i) = ParseDayRange(r)
      BY <2>5, Zenon DEF TablesOfNode
    <3> QED BY <2>1, <2>2, <2>5, <3>1, DaysInOrder
  <2> QED BY <2>3, <2>4, <2>5 DEF DateTypes
<1>3. SubTables(cfg) = FlattenSeq(ss)
  BY DEF SubTables
<1>4. \A i \in 2..N : Last(T(i - 1)) < Head(T(i))
  BY <1>1 DEF DatesInOrder
<1>5. \A i \in 1..N : Increasing(T(i)) /\ T(i) \in Seq(Nat) /\ T(i) # <<>> /\ T(i) \in Seq(Int)
  BY <1>2 DEF SomeDates, Increasing
<1> HIDE DEF N, T
<1>6. ss \in Seq(Seq(Int)) /\ Len(ss) = N /\ \A i \in 1..N : ss[i] = T(i)
  <2>1. ss \in [1..N -> Seq(Int)]
    BY <1>1, <1>5
  <2> QED BY <1>1, <2>1, ListOfLength
<1>7. ASSUME NEW i \in 1..N
      PROVE  /\ Last(T(i)) \in Nat /\ Head(T(i)) \in Nat /\ Head(T(i)) <= Last(T(i))
             /\ \A x \in ToSet(T(i)) : x \in Nat /\ Head(T(i)) <= x /\ x <= Last(T(i))
  <2> DEFINE l == T(i)
  <2>1. l \in Seq(Nat) /\ Len(l) \in Nat /\ Len(l) # 0 /\ DOMAIN l = 1..Len(l)
    BY <1>5
  <2>2. Last(l) = l[Len(l)] /\ Head(l) = l[1]
    BY <2>1 DEF Last
  <2>3. \A j \in 1..Len(l) : l[j] \in Nat
    BY <2>1
  <2>4. \A j, k \in 1..Len(l) : j < k => l[j] < l[k]
    BY <1>5, <2>1 DEF Increasing
  <2> HIDE DEF l
  <2>5. \A j \in 1..Len(l) : l[1] <= l[j] /\ l[j] <= l[Len(l)]
    <3> SUFFICES ASSUME NEW j \in 1..Len(l) PROVE l[1] <= l[j] /\ l[j] <= l[Len(l)]
      OBVIOUS
    <3>1. 1 \in 1..Len(l) /\ Len(l) \in 1..Len(l) /\ (j = 1 \/ 1 < j) /\ (j = Len(l) \/ j < Len(l))
      <4>1. Len(l) \in Nat /\ 1 <= Len(l) /\ j \in Nat /\ 1 <= j /\ j <= Len(l)
        BY <2>1
      <4> QED BY <4>1
    <3>2. l[1] \in Nat /\ l[j] \in Nat /\ l[Len(l)] \in Nat
      BY <2>3, <3>1
    <3>3. (j = 1 \/ l[1] < l[j]) /\ (j = Len(l) \/ l[j] < l[Len(l)])
      BY <2>4, <3>1
    <3> QED BY <3>2, <3>3
  <2>6. 1 \in 1..Len(l) /\ Len(l) \in 1..Len(l)
    BY <2>1
  <2>7. \A x \in ToSet(l) : \E j \in 1..Len(l) : x = l[j]
    BY <2>1 DEF ToSet
  <2> QED BY <2>2, <2>3, <2>5, <2>6, <2>7 DEF l
<1>8. b \in [0..N -> Int]
  <2> SUFFICES ASSUME NEW i \in 0..N PROVE (IF i = 0 THEN 0 ELSE Last(T(i)) + 1) \in Int
    OBVIOUS
  <2>1. i = 0 \/ i \in 1..N
    BY <1>1
  <2> QED BY <1>7, <2>1
<1>9. ASSUME NEW i \in 1..N
      PROVE  /\ b[i - 1] <= b[i]
             /\ \A x \in ToSet(T(i)) : b[i - 1] <= x /\ x < b[i]
  <2>1. b[i] = Last(T(i)) + 1 /\ b[i - 1] = IF i = 1 THEN 0 ELSE Last(T(i - 1)) + 1
    BY <1>1
  <2>2. b[i - 1] <= Head(T(i)) /\ b[i - 1] \in Int
    <3>1. CASE i = 1
      BY <1>7, <2>1, <3>1
    <3>2. CASE i # 1
      <4>1. i \in 2..N /\ i - 1 \in 1..N
        BY <1>1, <3>2
      <4>2. Last(T(i - 1)) < Head(T(i)) /\ Last(T(i - 1)) \in Nat /\ Head(T(i)) \in Nat
        BY <1>4, <1>7, <4>1
      <4> QED BY <2>1, <3>2, <4>2
    <3> QED BY <3>1, <3>2
  <2> HIDE DEF b
  <2>3. Head(T(i)) \in Nat /\ Last(T(i)) \in Nat /\ Head(T(i)) <= Last(T(i))
    BY <1>7
  <2>4. \A x \in ToSet(T(i)) : x \in Nat /\ Head(T(i)) <= x /\ x <= Last(T(i))
    BY <1>7
  <2> QED BY <2>1, <2>2, <2>3, <2>4
<1> HIDE DEF ss, b
<1>10. Increasing(FlattenSeq(ss))
  BY <1>5, <1>6, <1>8, <1>9, FlattenIncreasing, Zenon
<1>11. \A x \in ToSet(FlattenSeq(ss)) : x \in Nat
  <2>1. \A x \in ToSet(FlattenSeq(ss)) : \E i \in 1..N : x \in ToSet(T(i))
    BY <1>6, FlattenElements, Zenon
  <2> QED BY <1>7, <2>1
<1> QED BY <1>1, <1>3, <1>5, <1>10, <1>11 DEF T

(* What the proofs need of a parsed rule.                                  *)
ParsedRule(rule) ==
    \/ /\ rule.type = "hash"
       /\ \E n \in Nat \ {0} : HashRule(rule, n)
    \/ /\ rule.type = "range"
       /\ \E n \in Nat, limit \in Nat \ {0} : RangeRule(rule, n, limit)
    \/ DateRule(rule)

(* parseRule: the sub-tables of every rule that is accepted are listed in  *)
(* increasing order without repetition, and each of them is given to one   *)
(* of the rule's nodes, whatever the counts or dates in the configuration. *)
THEOREM RuleParsed ==
    ASSUME NEW cfg, ValidConfig(cfg), ParseOk(cfg)
    PROVE  LET rule == parseRule(cfg)
           IN  /\ ParsedRule(rule)
               /\ Increasing(rule.subTables)
               /\ \A t \in ToSet(rule.subTables) :
                      t \in Nat /\ rule.tableToNode[t] \in 0..(Len(rule.nodes) - 1)
               /\ DOMAIN rule.tableToNode = ToSet(rule.subTables)
<1> DEFINE rule == parseRule(cfg)
           N == Len(cfg.nodes)
           ss == [i \in DOMAIN cfg.nodes |-> TablesOfNode(cfg, i)]
<1>1. /\ rule.type = cfg.type /\ rule.nodes = cfg.nodes
      /\ rule.subTables = SubTables(cfg)
      /\ rule.ranges = ParseNumSharding(Len(SubTables(cfg)), cfg.limit)
      /\ rule.tableToNode = [t \in ToSet(SubTables(cfg)) |->
             (CHOOSE i \in DOMAIN cfg.nodes : Contains(TablesOfNode(cfg, i), t)) - 1]
  BY DEF parseRule
<1> HIDE DEF rule
<1>2. cfg.type \in {"hash", "range"} \/ cfg.type \in DateTypes
  BY DEF ValidConfig
<1>3. N \in Nat /\ DOMAIN cfg.nodes = 1..N
  BY DEF ValidConfig
<1>4. \A i \in DOMAIN cfg.nodes : TablesOfNode(cfg, i) \in Seq(Int)
  BY <1>2, CountedTables, DateTables
<1>5. cfg.type \in {"hash", "range"} => \E n \in Nat : SubTables(cfg) = makeList(0, n)
  BY CountedTables
<1>6. Increasing(SubTables(cfg)) /\ \A t \in ToSet(SubTables(cfg)) : t \in Nat
  <2>1. CASE cfg.type \in {"hash", "range"}
    <3>1. PICK n \in Nat : SubTables(cfg) = makeList(0, n)
      BY <1>5, <2>1
    <3>2. 0 \in Int /\ n \in Int /\ \A x \in 0..(n - 1) : x \in Nat
      OBVIOUS
    <3>3. Increasing(makeList(0, n)) /\ \A x : x \in ToSet(makeList(0, n)) <=> x \in 0..(n - 1)
      BY <3>2, MakeListIncreasing
    <3> QED BY <3>1, <3>2, <3>3
  <2>2. CASE cfg.type \in DateTypes
    BY <2>2, DateTables
  <2> QED BY <1>2, <2>1, <2>2
<1>7. ParsedRule(rule)
  <2>1. CASE cfg.type = "hash"
    <3>1. PICK n \in Nat : SubTables(cfg) = makeList(0, n)
      BY <1>5, <2>1
    <3>2. SubTables(cfg) # <<>> /\ makeList(0, 0) = <<>>
      BY <2>1 DEF ValidConfig, makeList
    <3>3. n \in Nat \ {0} /\ HashRule(rule, n)
      BY <1>1, <2>1, <3>1, <3>2 DEF HashRule
    <3> QED BY <3>3 DEF ParsedRule, HashRule
  <2>2. CASE cfg.type = "range"
    <3>1. PICK n \in Nat : SubTables(cfg) = makeList(0, n)
      BY <1>5, <2>2
    <3>2. cfg.limit \in Nat \ {0}
      BY <2>2 DEF ValidConfig
    <3>3. RangeRule(rule, n, cfg.limit)
      BY <1>1, <2>2, <3>1, MakeListLen DEF RangeRule
    <3> QED BY <3>2, <3>3 DEF ParsedRule, RangeRule
  <2>3. CASE cfg.type \in DateTypes
    <3> DEFINE s == SubTables(cfg)
    <3>1. s \in Seq(Int) /\ \A i, j \in 1..Len(s) : i < j => s[i] < s[j]
      BY <1>6 DEF Increasing
    <3>2. \A t \in ToSet(s) : t \in Nat
      BY <1>6
    <3> HIDE DEF s
    <3>3. Len(s) \in Nat /\ DOMAIN s = 1..Len(s) /\ s = [i \in 1..Len(s) |-> s[i]]
      BY <3>1
    <3>4. \A i \in 1..Len(s) : s[i] \in Nat
      <4>1. \A i \in 1..Len(s) : s[i] \in ToSet(s)
        BY <3>3 DEF ToSet
      <4> QED BY <3>2, <4>1
    <3>5. s \in [1..Len(s) -> Nat]
      BY <3>3, <3>4
    <3>6. s \in Seq(Nat)
      BY <3>3, <3>5, ListOfLength
    <3> QED BY <1>1, <2>3, <3>1, <3>6 DEF ParsedRule, DateRule, s
  <2> QED BY <1>2, <2>1, <2>2, <2>3
<1>8. \A t \in ToSet(SubTables(cfg)) : rule.tableToNode[t] \in 0..(N - 1)
  <2> SUFFICES ASSUME NEW t \in ToSet(SubTables(cfg)) PROVE rule.tableToNode[t] \in 0..(N - 1)
    OBVIOUS
  <2>1. ss \in [1..N -> Seq(Int)]
    BY <1>3, <1>4
  <2>2. ss \in Seq(Seq(Int)) /\ Len(ss) = N
    BY <1>3, <2>1, ListOfLength
  <2>3. SubTables(cfg) = FlattenSeq(ss)
    BY DEF SubTables
  <2>4. \E i \in 1..N : t \in ToSet(ss[i])
    <3> HIDE DEF ss
    <3> QED BY <2>2, <2>3, FlattenElements
  <2>5. \E i \in DOMAIN cfg.nodes : Contains(TablesOfNode(cfg, i), t)
    <3>1. PICK i \in 1..N : t \in ToSet(ss[i])
      BY <2>4
    <3>2. ss[i] = TablesOfNode(cfg, i)
      BY <1>3
    <3>3. \E j \in DOMAIN ss[i] : ss[i][j] = t
      BY <3>1 DEF ToSet
    <3>4. Contains(ss[i], t)
      BY <1>3, <1>4, <3>2, <3>3 DEF Contains
    <3> QED BY <1>3, <3>2, <3>4
  <2>6. (CHOOSE i \in DOMAIN cfg.nodes : Contains(TablesOfNode(cfg, i), t)) \in 1..N
    BY <1>3, <2>5, Zenon
  <2> QED BY <1>1, <1>3, <2>6
<1>9. DOMAIN rule.tableToNode = ToSet(rule.subTables)
  BY <1>1
<1> QED BY <1>1, <1>6, <1>7, <1>8, <1>9, Zenon DEF rule
=============================================================================
