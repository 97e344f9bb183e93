-------------------------- MODULE NodeHealthProofs --------------------------
(***************************************************************************)
(* The safety of NodeHealth for every set of addresses, slaves, weights,   *)
(* orders and administrators.  DownIsClosed and Distinct follow from       *)
(* HeapInv, which follows a DB object through the hands of the processes:  *)
(* one that a process is about to mark is closed, one it is about to       *)
(* install has the address it was opened for.  SafeIndex follows from      *)
(* BalancerInv: the queue was made for a part of the weights, by Gcd, and  *)
(* stays so while slaves come, go and are drawn.  TurnsByWeight follows    *)
(* from both: DeleteSlave cuts slaves and weights at the same places, and  *)
(* no server is twice in the list.                                         *)
(***************************************************************************)
EXTENDS NodeHealth, FiniteSetTheorems, WellFoundedInduction, TLAPS

Entry == [addr : Addrs, state : States, open : BOOLEAN]
Task == [at : Places, kind : {"master", "slave"}, addr : Addrs \cup {Nil}, ref : DBs \cup {Nil}]

ListsOK ==
    /\ master \in DBs /\ cur \in DBs \cup {Nil}
    /\ slaves \in Seq(DBs \cup {Nil}) /\ todo \in Seq(DBs \cup {Nil})
    /\ job \in [Procs -> Task]
    /\ job[checker].at \notin {"idle", "ping", "snapshot"} => cur # Nil

HeapOK == dbs \in [Refs -> Entry]

(* What a process holds: a DB to close or to mark, a marked one closed      *)
(* before, and one to install with the address of the order.                *)
TaskOK(j, h) ==
    /\ j.ref # Nil => j.at \in {"install", "close", "mark"}
    /\ j.at \in {"close", "mark"} => j.ref # Nil
    /\ j.at = "mark" => ~h[j.ref].open
    /\ j.at = "install" /\ j.ref # Nil => h[j.ref].addr = j.addr

HeapInv ==
    /\ ListsOK /\ HeapOK
    /\ \A p \in Procs : TaskOK(job[p], dbs)
    /\ DownIsClosed /\ Distinct

(* How often slave i is in the queue, and a queue in which every slave is   *)
(* as often as that.                                                        *)
Turns(ws, i) == ws[i] \div Gcd(ws)
TakesTurns(q, ws) ==
    /\ q \in Seq(1..Len(ws))
    /\ \A i \in 1..Len(ws) : Occurrences(q, i) = Turns(ws, i)

BalancerInv ==
    /\ weights \in Seq(Nat \ {0}) /\ last \in Nat
    /\ queue # <<>> =>
         /\ slaves # <<>>
         /\ \E m \in 1..Len(weights) : TakesTurns(queue, SubSeq(weights, 1, m))
-----------------------------------------------------------------------------
(* A nonempty set of naturals has a minimum, and Min is it.                 *)
LEMMA MinOfNaturals ==
    ASSUME NEW S \in SUBSET Nat, S # {}
    PROVE  Min(S) \in S /\ \A x \in S : Min(S) <= x
<1>1. PICK m \in S : \A y \in S : ~ (<<y, m>> \in OpToRel(<, Nat))
  BY NatLessThanWellFounded, WFMin, Zenon
<1>2. \A y \in S : m <= y
  <2> TAKE y \in S
  <2>1. m \in Nat /\ y \in Nat
    OBVIOUS
  <2>2. <<y, m>> \in Nat \X Nat /\ ~ (<<y, m>> \in OpToRel(<, Nat))
    BY <2>1, <1>1, Zenon
  <2>3. ~ (y < m)
    BY <2>2 DEF OpToRel
  <2> QED
    BY <2>1, <2>3
<1>3. \E x \in S : \A y \in S : x <= y
  BY <1>2
<1> QED
  BY <1>3, Zenon DEF Min

(* The numbers of a set up to k, one more at most for the next k.           *)
Upto(K, k) == {j \in K : j <= k}

(* The next number is in the larger set if it is in K at all.               *)
LEMMA UptoNext ==
    ASSUME NEW K \in SUBSET Nat, NEW k \in Nat
    PROVE  /\ k + 1 \in K => Upto(K, k + 1) = Upto(K, k) \cup {k + 1} /\ k + 1 \notin Upto(K, k)
           /\ k + 1 \notin K => Upto(K, k + 1) = Upto(K, k)
<1>1. \A j \in K : j \in Nat /\ (j <= k + 1 <=> j <= k \/ j = k + 1)
  OBVIOUS
<1>2. \A j : j \in Upto(K, k + 1) <=> j \in Upto(K, k) \/ (j = k + 1 /\ j \in K)
  <2>1. \A j : j \in Upto(K, k + 1) <=> j \in K /\ j <= k + 1
    BY Zenon DEF Upto
  <2>2. \A j : j \in Upto(K, k) <=> j \in K /\ j <= k
    BY Zenon DEF Upto
  <2> QED
    BY <1>1, <2>1, <2>2, Zenon
<1>3. k + 1 \notin Upto(K, k)
  BY DEF Upto
<1>4. ASSUME k + 1 \in K PROVE Upto(K, k + 1) = Upto(K, k) \cup {k + 1}
  BY <1>2, <1>4, Zenon
<1>5. ASSUME k + 1 \notin K PROVE Upto(K, k + 1) = Upto(K, k)
  BY <1>2, <1>5, Zenon
<1> QED
  BY <1>3, <1>4, <1>5

(* Kept: every place of the shorter list is a place of the longer one, and  *)
(* no two places are the same one.                                          *)
LEMMA KeptPlaces ==
    ASSUME NEW n \in Nat, NEW K \in SUBSET Nat, \A j \in K : 1 <= j /\ j <= n,
           NEW i \in Nat, 1 <= i, i <= Cardinality(K)
    PROVE  \E k \in K : Cardinality(Upto(K, k)) = i
<1>1. IsFiniteSet(K) /\ Cardinality(K) \in Nat
  BY FS_BoundedSetOfNaturals, FS_CardinalityType
<1>2. \A k \in Nat : IsFiniteSet(Upto(K, k)) /\ Cardinality(Upto(K, k)) \in Nat
  <2>1. \A k : Upto(K, k) \in SUBSET K
    BY DEF Upto
  <2> QED
    BY <1>1, <2>1, FS_Subset, FS_CardinalityType
<1>3. \A k \in Nat : /\ Cardinality(Upto(K, k + 1)) <= Cardinality(Upto(K, k)) + 1
                     /\ k + 1 \notin K => Cardinality(Upto(K, k + 1)) = Cardinality(Upto(K, k))
  <2> TAKE k \in Nat
  <2>1. CASE k + 1 \in K
    BY <2>1, <1>2, UptoNext, FS_AddElement
  <2>2. CASE k + 1 \notin K
    <3>1. Upto(K, k + 1) = Upto(K, k)
      BY <2>2, UptoNext
    <3>2. Cardinality(Upto(K, k)) \in Nat
      BY <1>2
    <3> QED
      BY <2>2, <3>1, <3>2
  <2> QED
    BY <2>1, <2>2
<1> DEFINE S == {k \in Nat : i <= Cardinality(Upto(K, k))}
<1>4. Upto(K, n) = K
  BY Zenon DEF Upto
<1>5. n \in S
  BY <1>1, <1>4
<1>6. PICK k \in S : \A x \in S : k <= x
  <2>1. S \in SUBSET Nat /\ S # {}
    BY <1>5
  <2> HIDE DEF S
  <2> QED
    BY <2>1, MinOfNaturals, Zenon
<1>7. k \in Nat /\ i <= Cardinality(Upto(K, k))
  BY <1>6
<1>8. Cardinality(Upto(K, 0)) = 0
  <2>0. \A j \in K : ~ (j <= 0)
    OBVIOUS
  <2>1. Upto(K, 0) = {}
    BY <2>0, Zenon DEF Upto
  <2> QED
    BY <2>1, FS_EmptySet
<1>9. k # 0
  BY <1>7, <1>8
<1>10. PICK m \in Nat : k = m + 1
  <2>1. k - 1 \in Nat /\ k = (k - 1) + 1
    BY <1>7, <1>9
  <2> QED
    BY <2>1
<1>11. Cardinality(Upto(K, m)) < i
  <2>1. m \notin S
    BY <1>6, <1>7, <1>10
  <2> QED
    BY <2>1, <1>2
<1>12. Cardinality(Upto(K, k)) = i /\ k \in K
  BY <1>2, <1>3, <1>7, <1>10, <1>11
<1> QED
  BY <1>12

(* The i-th smallest number of K.                                          *)
Place(K, i) == CHOOSE k \in K : Cardinality({j \in K : j <= k}) = i

(* DeleteSlave's lists are parts of the old ones, place by place.           *)
LEMMA KeptIsPart ==
    ASSUME NEW T, NEW s \in Seq(T), NEW K \in SUBSET (DOMAIN s)
    PROVE  /\ Kept(s, K) \in Seq(T)
           /\ \A i \in DOMAIN Kept(s, K) : Place(K, i) \in K /\ Kept(s, K)[i] = s[Place(K, i)]
           /\ \A i, j \in DOMAIN Kept(s, K) : Place(K, i) = Place(K, j) => i = j
<1>1. K \in SUBSET Nat /\ Len(s) \in Nat /\ \A j \in K : 1 <= j /\ j <= Len(s)
  OBVIOUS
<1>2. IsFiniteSet(K) /\ Cardinality(K) \in Nat
  BY <1>1, FS_BoundedSetOfNaturals, FS_CardinalityType, Zenon
<1>3. \A i \in 1..Cardinality(K) : Place(K, i) \in K /\ Cardinality(Upto(K, Place(K, i))) = i
  <2> TAKE i \in 1..Cardinality(K)
  <2>1. i \in Nat /\ 1 <= i /\ i <= Cardinality(K)
    BY <1>2
  <2>2. \E k \in K : Cardinality(Upto(K, k)) = i
    BY <1>1, <2>1, KeptPlaces, Zenon
  <2> QED
    BY <2>2, Zenon DEF Place, Upto
<1>4. Kept(s, K) = [i \in 1..Cardinality(K) |-> s[Place(K, i)]]
  BY Zenon DEF Kept, Place
<1>5. \A i \in 1..Cardinality(K) : s[Place(K, i)] \in T
  <2>1. \A k \in K : s[k] \in T
    OBVIOUS
  <2> QED
    BY <1>3, <2>1
<1>6. Kept(s, K) \in Seq(T)
  <2>1. Kept(s, K) \in [1..Cardinality(K) -> T]
    BY <1>4, <1>5
  <2> QED
    BY <2>1, <1>2
<1>7. DOMAIN Kept(s, K) = 1..Cardinality(K)
  BY <1>4
<1>8. \A i \in 1..Cardinality(K) : Kept(s, K)[i] = s[Place(K, i)]
  BY <1>4
<1>9. \A i, j \in 1..Cardinality(K) : Place(K, i) = Place(K, j) => i = j
  BY <1>3, Zenon
<1> QED
  BY <1>3, <1>6, <1>7, <1>8, <1>9, Zenon

(* A list without its first entry.                                          *)
LEMMA TailIsPart ==
    ASSUME NEW T, NEW s \in Seq(T), s # <<>>
    PROVE  /\ Head(s) = s[1] /\ 1 \in DOMAIN s /\ s[1] \in T /\ Tail(s) \in Seq(T)
           /\ \A k \in DOMAIN Tail(s) : k + 1 \in DOMAIN s /\ Tail(s)[k] = s[k + 1]
  OBVIOUS
-----------------------------------------------------------------------------
(* Induction over a set of numbers.                                         *)
LEMMA NumbersAll ==
    ASSUME NEW S, 0 \in S, \A n \in Nat : n \in S => n + 1 \in S
    PROVE  \A n \in Nat : n \in S
<1> DEFINE T == {n \in Nat : n \notin S}
<1> SUFFICES ASSUME T # {} PROVE FALSE
  OBVIOUS
<1>1. PICK m \in T : \A y \in T : m <= y
  <2>1. T \in SUBSET Nat
    OBVIOUS
  <2> HIDE DEF T
  <2> QED
    BY <2>1, MinOfNaturals, Zenon
<1>2. m \in Nat /\ m # 0 /\ m - 1 \in Nat
  BY <1>1
<1>3. m - 1 \in S
  BY <1>1, <1>2
<1>4. (m - 1) + 1 \in S
  BY <1>2, <1>3
<1> QED
  BY <1>1, <1>2, <1>4
-----------------------------------------------------------------------------
(* A bounded, nonempty set of naturals has a maximum, and Max is it.        *)
LEMMA MaxOfBounded ==
    ASSUME NEW S \in SUBSET Nat, S # {}, NEW b \in Nat, \A x \in S : x <= b
    PROVE  Max(S) \in S
<1> DEFINE R == {n \in Nat : \E x \in S : x + n = b}
<1>1. R \in SUBSET Nat /\ R # {}
  <2>1. PICK x \in S : TRUE
    BY Zenon
  <2>2. x \in Nat /\ x <= b /\ b - x \in Nat /\ x + (b - x) = b
    OBVIOUS
  <2>3. b - x \in R
    BY <2>1, <2>2
  <2> QED
    BY <2>3, Zenon
<1>2. Min(R) \in R /\ \A n \in R : Min(R) <= n
  <2> HIDE DEF R
  <2> QED
    BY <1>1, MinOfNaturals
<1>3. PICK m \in S : m + Min(R) = b
  BY <1>2
<1>4. \A x \in S : m >= x
  <2> TAKE x \in S
  <2>1. x \in Nat /\ x <= b /\ b - x \in Nat /\ x + (b - x) = b /\ m \in Nat /\ Min(R) \in Nat
    BY <1>2, <1>3
  <2>2. b - x \in R
    BY <2>1
  <2>3. Min(R) <= b - x
    BY <1>2, <2>2
  <2> HIDE DEF R
  <2> QED
    BY <1>3, <2>1, <2>3
<1>5. \E y \in S : \A x \in S : y >= x
  BY <1>3, <1>4
<1> QED
  BY <1>5, Zenon DEF Max

(* Gcd divides every weight.                                                *)
LEMMA DivideExactly ==
    ASSUME NEW a \in Nat \ {0}, NEW g \in Nat \ {0}, a % g = 0
    PROVE  a \div g \in Nat \ {0} /\ a = g * (a \div g)
<1>1. a = g * (a \div g) + (a % g) /\ a \div g \in Int
  OBVIOUS
<1>2. a = g * (a \div g)
  BY <1>1
<1>3. a \div g \in Nat /\ a \div g # 0
  BY <1>1, <1>2
<1> QED
  BY <1>2, <1>3

(* Gcd divides every weight.                                               *)
LEMMA GcdDivides ==
    ASSUME NEW ws \in Seq(Nat \ {0}), ws # <<>>
    PROVE  /\ Gcd(ws) \in Nat \ {0}
           /\ \A i \in 1..Len(ws) : Turns(ws, i) \in Nat \ {0} /\ ws[i] = Gcd(ws) * Turns(ws, i)
<1> DEFINE M == Min(ToSet(ws))
           D == {g \in 1..M : \A i \in DOMAIN ws : ws[i] % g = 0}
<1>0. /\ Len(ws) \in Nat /\ Len(ws) # 0 /\ DOMAIN ws = 1..Len(ws) /\ 1 \in DOMAIN ws
      /\ \A i \in DOMAIN ws : ws[i] \in Nat \ {0}
  OBVIOUS
<1>1. ToSet(ws) \in SUBSET Nat /\ ToSet(ws) # {} /\ \A x \in ToSet(ws) : x # 0
  BY <1>0 DEF ToSet
<1>2. M \in Nat /\ M # 0
  BY <1>1, MinOfNaturals
<1>3. 1 \in D
  <2>1. \A i \in DOMAIN ws : ws[i] % 1 = 0
    BY <1>0
  <2> QED
    BY <1>2, <2>1
<1>4. D \in SUBSET Nat /\ \A x \in D : x <= M
  BY <1>2
<1>5. Max(D) \in D
  <2> HIDE DEF D, M
  <2> QED
    BY <1>2, <1>3, <1>4, MaxOfBounded, Zenon
<1>6. Gcd(ws) \in 1..M /\ \A i \in DOMAIN ws : ws[i] % Gcd(ws) = 0
  BY <1>5 DEF Gcd
<1>7. Gcd(ws) \in Nat \ {0}
  BY <1>2, <1>6
<1> QED
  BY <1>0, <1>6, <1>7, DivideExactly, Zenon DEF Turns

-----------------------------------------------------------------------------
(* FlattenSeq, list by list.                                                *)
UpTo(f, ll, n) == f = [i \in 1..n |-> IF i = 1 THEN ll[i] ELSE f[i - 1] \o ll[i]]

(* There is such a list of lists for every number of them.                 *)
LEMMA UpToExists ==
    ASSUME NEW ll
    PROVE  \A n \in Nat : \E f : UpTo(f, ll, n)
<1> DEFINE P == {n \in Nat : \E f : UpTo(f, ll, n)}
<1>1. 0 \in P
  <2>1. UpTo(<<>>, ll, 0)
    BY DEF UpTo
  <2> QED
    BY <2>1
<1>2. ASSUME NEW n \in Nat, n \in P PROVE n + 1 \in P
  <2>1. PICK f : UpTo(f, ll, n)
    BY <1>2
  <2> DEFINE g == [i \in 1..(n + 1) |-> IF i = 1 THEN ll[i] ELSE f[i - 1] \o ll[i]]
  <2>2. \A i \in 1..n : f[i] = IF i = 1 THEN ll[i] ELSE f[i - 1] \o ll[i]
    BY <2>1, Zenon DEF UpTo
  <2>3. \A i \in 1..n : g[i] = f[i]
    BY <2>2
  <2>4. \A i \in 1..(n + 1) : i # 1 => i - 1 \in 1..n
    OBVIOUS
  <2>5. \A i \in 1..(n + 1) : g[i] = IF i = 1 THEN ll[i] ELSE g[i - 1] \o ll[i]
    BY <2>3, <2>4, Zenon
  <2>6. UpTo(g, ll, n + 1)
    BY <2>5, Zenon DEF UpTo
  <2> QED
    BY <2>6
<1>3. \A n \in Nat : n \in P
  <2> HIDE DEF P
  <2> QED
    BY <1>1, <1>2, NumbersAll
<1> QED
  BY <1>3

(* The first n + 1 lists are the first n and one more.                      *)
LEMMA FlattenIsUpTo ==
    ASSUME NEW ll, Len(ll) \in Nat \ {0}, ll # <<>>
    PROVE  \E f : /\ FlattenSeq(ll) = f[Len(ll)] /\ f[1] = ll[1]
                  /\ \A i \in 2..Len(ll) : f[i] = f[i - 1] \o ll[i]
<1> DEFINE F == CHOOSE f : UpTo(f, ll, Len(ll))
<1>1. UpTo(F, ll, Len(ll))
  BY UpToExists, Zenon
<1>2. FlattenSeq(ll) = F[Len(ll)]
  BY Zenon DEF FlattenSeq, UpTo
<1> HIDE DEF F
<1>3. \A i \in 1..Len(ll) : F[i] = IF i = 1 THEN ll[i] ELSE F[i - 1] \o ll[i]
  BY <1>1, Zenon DEF UpTo
<1>4. 1 \in 1..Len(ll) /\ \A i \in 2..Len(ll) : i \in 1..Len(ll) /\ i # 1
  OBVIOUS
<1> QED
  BY <1>2, <1>3, <1>4, Zenon

(* Two lists, one behind the other.                                         *)
LEMMA OneBehindOther ==
    ASSUME NEW T, NEW s \in Seq(T), NEW t \in Seq(T)
    PROVE  /\ s \o t \in Seq(T) /\ DOMAIN (s \o t) = 1..(Len(s) + Len(t))
           /\ \A k \in 1..(Len(s) + Len(t)) :
                  (s \o t)[k] = IF k <= Len(s) THEN s[k] ELSE t[k - Len(s)]
  OBVIOUS

(* Slave i, c times.                                                       *)
Times(c, i) == [j \in 1..c |-> i]

(* A queue of the first n slaves, behind it the next slave c times.         *)
LEMMA NextSlave ==
    ASSUME NEW n \in Nat, NEW q \in Seq(1..n), NEW c \in Nat
    PROVE  /\ q \o Times(c, n + 1) \in Seq(1..(n + 1))
           /\ Occurrences(q \o Times(c, n + 1), n + 1) = c
           /\ \A i \in 1..n : Occurrences(q \o Times(c, n + 1), i) = Occurrences(q, i)
<1> DEFINE l == Len(q)
           t == Times(c, n + 1)
           r == q \o t
<1>1. l \in Nat /\ DOMAIN q = 1..l /\ \A k \in 1..l : q[k] \in 1..n
  OBVIOUS
<1>2. t \in Seq(1..(n + 1)) /\ Len(t) = c /\ \A k \in 1..c : t[k] = n + 1
  <2>1. t \in [1..c -> 1..(n + 1)] /\ \A k \in 1..c : t[k] = n + 1
    BY DEF Times
  <2> HIDE DEF t
  <2> QED
    BY <2>1
<1> HIDE DEF t
<1>3. q \in Seq(1..(n + 1))
  BY <1>1
<1>4. /\ r \in Seq(1..(n + 1)) /\ DOMAIN r = 1..(l + c)
      /\ \A k \in 1..(l + c) : r[k] = IF k <= l THEN q[k] ELSE t[k - l]
  <2>1. /\ r \in Seq(1..(n + 1)) /\ DOMAIN r = 1..(l + Len(t))
        /\ \A k \in 1..(l + Len(t)) : r[k] = IF k <= l THEN q[k] ELSE t[k - l]
    BY <1>2, <1>3, OneBehindOther, Zenon
  <2> QED
    BY <1>2, <2>1, Zenon
<1> HIDE DEF r, l
<1>5. \A k \in 1..(l + c) : r[k] = IF k <= l THEN q[k] ELSE n + 1
  <2> TAKE k \in 1..(l + c)
  <2>1. k \in Nat /\ (~ (k <= l) => k - l \in 1..c)
    BY <1>1
  <2> QED
    BY <1>2, <1>4, <2>1
<1>6. \A k \in 1..(l + c) : /\ k \in Nat /\ (k <= l => q[k] \in 1..n)
                            /\ r[k] = n + 1 <=> l < k
  BY <1>1, <1>5
<1>7. {k \in DOMAIN r : r[k] = n + 1} = (l + 1)..(l + c)
  <2>2. \A k : k \in (l + 1)..(l + c) <=> k \in 1..(l + c) /\ l < k
    BY <1>1
  <2> QED
    BY <1>4, <1>6, <2>2, Zenon
<1>8. Cardinality((l + 1)..(l + c)) = c
  <2>1. l + 1 \in Int /\ l + c \in Int
    BY <1>1
  <2>2. Cardinality((l + 1)..(l + c)) = IF l + 1 > l + c THEN 0 ELSE (l + c) - (l + 1) + 1
    BY <2>1, FS_Interval
  <2> QED
    BY <1>1, <2>2
<1>9. ASSUME NEW i \in 1..n PROVE Occurrences(r, i) = Occurrences(q, i)
  <2>1. i # n + 1
    OBVIOUS
  <2>2. \A k \in 1..(l + c) : r[k] = i <=> k <= l /\ q[k] = i
    BY <1>5, <2>1
  <2>3. \A k : k \in 1..l <=> k \in 1..(l + c) /\ k <= l
    BY <1>1
  <2>4. {k \in DOMAIN r : r[k] = i} = {k \in DOMAIN q : q[k] = i}
    BY <1>1, <1>4, <2>2, <2>3, Zenon
  <2> QED
    BY <2>4, Zenon DEF Occurrences
<1> QED
  BY <1>4, <1>7, <1>8, <1>9, Zenon DEF Occurrences, r, t

(* Expand: every slave has its turns.                                       *)
LEMMA ExpandTakesTurns ==
    ASSUME NEW ws \in Seq(Nat \ {0}), ws # <<>>
    PROVE  TakesTurns(Expand(ws), ws)
<1> DEFINE N == Len(ws)
           ll == [i \in DOMAIN ws |-> Times(Turns(ws, i), i)]
<1>0. N \in Nat /\ N # 0 /\ DOMAIN ws = 1..N /\ \A i \in 1..N : Turns(ws, i) \in Nat
  BY GcdDivides
<1>1. Len(ll) = N /\ ll # <<>> /\ \A i \in 1..N : ll[i] = Times(Turns(ws, i), i)
  BY <1>0
<1>2. Expand(ws) = FlattenSeq(ll)
  BY Zenon DEF Expand, Turns, Times
<1> HIDE DEF ll
<1>3. PICK f : /\ FlattenSeq(ll) = f[N] /\ f[1] = ll[1]
               /\ \A i \in 2..N : f[i] = f[i - 1] \o ll[i]
  <2>1. Len(ll) \in Nat \ {0}
    BY <1>0, <1>1
  <2>2. \E f : /\ FlattenSeq(ll) = f[Len(ll)] /\ f[1] = ll[1]
               /\ \A i \in 2..Len(ll) : f[i] = f[i - 1] \o ll[i]
    BY <1>1, <2>1, FlattenIsUpTo, Zenon
  <2> QED
    BY <1>1, <2>2, Zenon
<1> DEFINE Good(n) == f[n] \in Seq(1..n) /\ \A i \in 1..n : Occurrences(f[n], i) = Turns(ws, i)
           P == {n \in Nat : n + 1 <= N => Good(n + 1)}
<1>4. 0 \in P
  <2>1. 1 \in 1..N /\ ll[1] = Times(Turns(ws, 1), 0 + 1) /\ Turns(ws, 1) \in Nat
    BY <1>0, <1>1
  <2>2. <<>> \in Seq(1..0)
    OBVIOUS
  <2>3. /\ <<>> \o ll[1] \in Seq(1..(0 + 1))
        /\ Occurrences(<<>> \o ll[1], 0 + 1) = Turns(ws, 1)
    <3> DEFINE z == 0
               e == <<>>
    <3>1. z \in Nat /\ e \in Seq(1..z) /\ ll[1] = Times(Turns(ws, 1), z + 1)
      BY <2>1, <2>2
    <3> HIDE DEF z, e
    <3>2. /\ e \o Times(Turns(ws, 1), z + 1) \in Seq(1..(z + 1))
          /\ Occurrences(e \o Times(Turns(ws, 1), z + 1), z + 1) = Turns(ws, 1)
      BY <2>1, <3>1, NextSlave, Zenon
    <3> QED
      BY <3>1, <3>2, Zenon DEF z, e
  <2>4. ll[1] \in Seq({1})
    <3>1. ll[1] \in [1..Turns(ws, 1) -> {1}]
      BY <2>1 DEF Times
    <3> QED
      BY <2>1, <3>1
  <2>5. <<>> \o ll[1] = ll[1]
    BY <2>4
  <2>6. \A i \in 1..1 : i = 1
    OBVIOUS
  <2>7. 0 + 1 = 1
    OBVIOUS
  <2> QED
    BY <1>3, <2>3, <2>5, <2>6, <2>7
<1>5. ASSUME NEW n \in Nat, n \in P PROVE n + 1 \in P
  <2> SUFFICES ASSUME n + 2 <= N PROVE Good(n + 2)
    <3>1. (n + 1) + 1 = n + 2
      OBVIOUS
    <3> HIDE DEF Good
    <3> QED
      BY <3>1
  <2> DEFINE m == n + 1
             t == ll[m + 1]
  <2>0. m \in Nat /\ m + 1 = n + 2 /\ m + 1 \in 1..N /\ m + 1 \in 2..N /\ (m + 1) - 1 = m /\ m <= N
    BY <1>0
  <2>1. Good(m)
    BY <1>5, <2>0
  <2>2. t = Times(Turns(ws, m + 1), m + 1) /\ Turns(ws, m + 1) \in Nat
    BY <1>0, <1>1, <2>0
  <2>3. f[m + 1] = f[m] \o t
    BY <1>3, <2>0, Zenon
  <2> HIDE DEF t
  <2> HIDE DEF m
  <2>4. /\ f[m] \o t \in Seq(1..(m + 1)) /\ Occurrences(f[m] \o t, m + 1) = Turns(ws, m + 1)
        /\ \A i \in 1..m : Occurrences(f[m] \o t, i) = Occurrences(f[m], i)
    BY <2>0, <2>1, <2>2, NextSlave
  <2>5. \A i \in 1..(m + 1) : i \in 1..m \/ i = m + 1
    BY <2>0
  <2> QED
    BY <2>0, <2>1, <2>3, <2>4, <2>5, Zenon
<1>6. \A n \in Nat : n \in P
  <2> HIDE DEF P
  <2> QED
    BY <1>4, <1>5, NumbersAll, Zenon
<1>7. Good(N)
  <2>1. N - 1 \in Nat /\ (N - 1) + 1 = N
    BY <1>0
  <2>2. N - 1 \in P
    <3> HIDE DEF P
    <3> QED
      BY <1>6, <2>1
  <2> HIDE DEF Good
  <2>3. (N - 1) + 1 <= N => Good((N - 1) + 1)
    BY <2>2, Zenon
  <2> QED
    BY <1>0, <2>1, <2>3
<1> QED
  BY <1>2, <1>3, <1>7 DEF TakesTurns

-----------------------------------------------------------------------------
(* Swap exchanges two places: as many of every slave as before.             *)
LEMMA SwapTakesTurns ==
    ASSUME NEW n \in Nat, NEW q \in Seq(1..n), NEW x \in DOMAIN q
    PROVE  /\ Swap(q, x) \in Seq(1..n) /\ Len(Swap(q, x)) = Len(q)
           /\ \A i \in 1..n : Occurrences(Swap(q, x), i) = Occurrences(q, i)
<1> DEFINE l == Len(q)
           y == (l % x) + 1
           r == [q EXCEPT ![x] = q[y], ![y] = q[x]]
           f == [k \in 1..l |-> IF k = x THEN y ELSE IF k = y THEN x ELSE k]
<1>1. l \in Nat /\ DOMAIN q = 1..l /\ x \in 1..l /\ \A k \in 1..l : q[k] \in 1..n
  OBVIOUS
<1>2. y \in 1..l
  <2>1. l % x \in 0..(x - 1)
    BY <1>1
  <2> QED
    BY <1>1, <2>1
<1>3. Swap(q, x) = r
  BY Zenon DEF Swap
<1> HIDE DEF y, l
<1>4. /\ DOMAIN r = 1..l /\ r[x] = q[y] /\ r[y] = q[x]
      /\ \A k \in 1..l : k # x /\ k # y => r[k] = q[k]
  BY <1>1, <1>2, Zenon
<1> HIDE DEF r
<1>5. \A k \in 1..l : f[k] \in 1..l /\ f[f[k]] = k /\ r[k] = q[f[k]] /\ q[k] = r[f[k]]
  BY <1>1, <1>2, <1>4
<1>6. r \in Seq(1..n) /\ Len(r) = l
  <2>1. r = [k \in 1..l |-> r[k]]
    BY <1>1, <1>2, <1>4, Zenon DEF r
  <2>2. \A k \in 1..l : r[k] \in 1..n
    BY <1>1, <1>5, Zenon
  <2>3. l \in Nat /\ r \in [1..l -> 1..n]
    BY <1>1, <2>1, <2>2, Zenon
  <2> QED
    BY <2>3
<1> HIDE DEF f
<1>7. ASSUME NEW i \in 1..n PROVE Occurrences(r, i) = Occurrences(q, i)
  <2> DEFINE A == {k \in 1..l : q[k] = i}
             B == {k \in 1..l : r[k] = i}
             g == [k \in A |-> f[k]]
  <2>1. IsFiniteSet(A)
    <3>1. IsFiniteSet(1..l)
      BY <1>1, FS_Interval
    <3>2. A \in SUBSET (1..l)
      OBVIOUS
    <3> QED
      BY <3>1, <3>2, FS_Subset, Zenon
  <2>2. \A k \in A : g[k] \in B /\ f[g[k]] = k
    BY <1>5
  <2>3. \A k \in B : f[k] \in A /\ g[f[k]] = k
    BY <1>5
  <2>4. g \in [A -> B] /\ DOMAIN g = A
    BY <2>2, Zenon
  <2> HIDE DEF A, B, g
  <2>5. \A a, b \in A : g[a] = g[b] => a = b
    BY <2>2, Zenon
  <2>6. \A b \in B : \E a \in A : g[a] = b
    BY <2>3, Zenon
  <2>7. g \in Bijection(A, B)
    BY <2>4, <2>5, <2>6, Zenon DEF Bijection, Injection, Surjection, IsInjective
  <2>8. Cardinality(B) = Cardinality(A)
    BY <2>1, <2>7, FS_Bijection, Zenon DEF ExistsBijection
  <2> QED
    BY <1>1, <1>4, <2>8, Zenon DEF A, B, Occurrences
<1> QED
  BY <1>3, <1>6, <1>7, Zenon DEF l

(* Shuffles, swap by swap.                                                  *)
LEMMA SwapsHas ==
    ASSUME NEW Q, NEW X, NEW s \in Swaps(Q, X)
    PROVE  \E r \in Q, x \in X : s = Swap(r, x)
  BY DEF Swaps

(* Shuffles, swap by swap.                                                 *)
After(f, q, n) ==
    f = [k \in 0..n |-> IF k = 0 THEN {q} ELSE Swaps(f[k - 1], DOMAIN q)]

(* There is such a function for every number of swaps.                     *)
LEMMA AfterExists ==
    ASSUME NEW q
    PROVE  \A n \in Nat : \E f : After(f, q, n)
<1> DEFINE P == {n \in Nat : \E f : After(f, q, n)}
<1>1. 0 \in P
  <2> DEFINE g == [k \in 0..0 |-> {q}]
  <2>1. \A k \in 0..0 : k = 0
    OBVIOUS
  <2>2. g = [k \in 0..0 |-> IF k = 0 THEN {q} ELSE Swaps(g[k - 1], DOMAIN q)]
    BY <2>1, Zenon
  <2>3. After(g, q, 0)
    BY <2>2, Zenon DEF After
  <2> QED
    BY <2>3, Zenon
<1>2. ASSUME NEW n \in Nat, n \in P PROVE n + 1 \in P
  <2>1. PICK f : After(f, q, n)
    BY <1>2, Zenon
  <2> DEFINE g == [k \in 0..(n + 1) |-> IF k = 0 THEN {q} ELSE Swaps(f[k - 1], DOMAIN q)]
  <2>2. f = [k \in 0..n |-> IF k = 0 THEN {q} ELSE Swaps(f[k - 1], DOMAIN q)]
    BY <2>1, Zenon DEF After
  <2>3. \A k \in 0..n : f[k] = IF k = 0 THEN {q} ELSE Swaps(f[k - 1], DOMAIN q)
    BY <2>2, Zenon
  <2>4. \A k \in 0..n : k \in 0..(n + 1)
    OBVIOUS
  <2>5. \A k \in 0..n : g[k] = f[k]
    BY <2>3, <2>4, Zenon
  <2>6. \A k \in 0..(n + 1) : k # 0 => k - 1 \in 0..n
    OBVIOUS
  <2>7. \A k \in 0..(n + 1) : g[k] = IF k = 0 THEN {q} ELSE Swaps(g[k - 1], DOMAIN q)
    BY <2>5, <2>6, Zenon
  <2>8. g = [k \in 0..(n + 1) |-> IF k = 0 THEN {q} ELSE Swaps(g[k - 1], DOMAIN q)]
    <3>1. g = [k \in 0..(n + 1) |-> g[k]]
      BY Zenon
    <3> HIDE DEF g
    <3> QED
      BY <2>7, <3>1, Zenon
  <2>9. After(g, q, n + 1)
    <3> HIDE DEF g
    <3> QED
      BY <2>8, Zenon DEF After
  <2>10. n + 1 \in Nat
    OBVIOUS
  <2> QED
    BY <2>9, <2>10, Zenon
<1>3. \A n \in Nat : n \in P
  <2> HIDE DEF P
  <2> QED
    BY <1>1, <1>2, NumbersAll
<1> QED
  BY <1>3, Zenon

(* However the places fall, every slave keeps its turns.                    *)
LEMMA ShufflesTakeTurns ==
    ASSUME NEW n \in Nat, NEW q \in Seq(1..n), NEW r \in Shuffles(q)
    PROVE  /\ r \in Seq(1..n) /\ \A i \in 1..n : Occurrences(r, i) = Occurrences(q, i)
<1> DEFINE l == Len(q)
           F == CHOOSE f : After(f, q, l)
           Same(s) == /\ s \in Seq(1..n) /\ Len(s) = l
                      /\ \A i \in 1..n : Occurrences(s, i) = Occurrences(q, i)
           P == {k \in Nat : k <= l => \A s \in F[k] : Same(s)}
<1>0. l \in Nat /\ DOMAIN q = 1..l
  OBVIOUS
<1>1. After(F, q, l)
  BY <1>0, AfterExists, Zenon
<1>2. Shuffles(q) = F[l]
  BY Zenon DEF Shuffles, After
<1> HIDE DEF F, l
<1>3. \A k \in 0..l : F[k] = IF k = 0 THEN {q} ELSE Swaps(F[k - 1], DOMAIN q)
  BY <1>1, Zenon DEF After
<1>4. 0 \in P
  <2>1. 0 \in 0..l
    BY <1>0
  <2>2. F[0] = {q}
    BY <1>3, <2>1, Zenon
  <2>3. Same(q)
    BY Zenon DEF l
  <2> HIDE DEF Same
  <2> QED
    BY <2>2, <2>3
<1>5. ASSUME NEW k \in Nat, k \in P PROVE k + 1 \in P
  <2> SUFFICES ASSUME k + 1 <= l, NEW s \in F[k + 1] PROVE Same(s)
    <3> HIDE DEF Same
    <3> QED
      OBVIOUS
  <2>1. k + 1 \in 0..l /\ k + 1 # 0 /\ (k + 1) - 1 = k /\ k <= l
    BY <1>0
  <2>2. F[k + 1] = Swaps(F[k], DOMAIN q)
    BY <1>3, <2>1, Zenon
  <2>3. PICK u \in F[k], x \in DOMAIN q : s = Swap(u, x)
    <3>1. s \in Swaps(F[k], DOMAIN q)
      BY <2>2, Zenon
    <3> HIDE DEF P, Same
    <3> QED
      BY <3>1, SwapsHas
  <2>4. Same(u)
    <3> HIDE DEF Same
    <3> QED
      BY <1>5, <2>1, <2>3
  <2>5. u \in Seq(1..n) /\ Len(u) = l
    BY <2>4, Zenon
  <2>6. DOMAIN u = 1..l
    BY <2>5
  <2>7. x \in DOMAIN u
    BY <1>0, <2>3, <2>6, Zenon
  <2>8. /\ Swap(u, x) \in Seq(1..n) /\ Len(Swap(u, x)) = Len(u)
        /\ \A i \in 1..n : Occurrences(Swap(u, x), i) = Occurrences(u, i)
    BY <2>5, <2>7, SwapTakesTurns, Zenon
  <2> QED
    BY <2>3, <2>4, <2>5, <2>8, Zenon
<1>6. \A k \in Nat : k \in P
  <2> HIDE DEF P
  <2> QED
    BY <1>4, <1>5, NumbersAll, Zenon
<1>7. Same(r)
  <2> HIDE DEF Same
  <2> QED
    BY <1>0, <1>2, <1>6
<1> QED
  BY <1>7, Zenon

(* InitBalancer's queue, shuffled or not.                                   *)
LEMMA BalancedQueue ==
    ASSUME NEW ws \in Seq(Nat \ {0}), ws # <<>>, NEW q,
           q \in IF Len(ws) > 1 THEN Shuffles(Expand(ws)) ELSE {Expand(ws)}
    PROVE  TakesTurns(q, ws)
<1>1. TakesTurns(Expand(ws), ws) /\ Len(ws) \in Nat
  BY ExpandTakesTurns
<1>2. CASE q \in Shuffles(Expand(ws))
  <2>1. Expand(ws) \in Seq(1..Len(ws))
    BY <1>1, Zenon DEF TakesTurns
  <2>2. q \in Seq(1..Len(ws)) /\ \A i \in 1..Len(ws) : Occurrences(q, i) = Occurrences(Expand(ws), i)
    BY <1>1, <1>2, <2>1, ShufflesTakeTurns, Zenon
  <2> QED
    BY <1>1, <2>2, Zenon DEF TakesTurns
<1>3. CASE q = Expand(ws)
  BY <1>1, <1>3, Zenon
<1> QED
  BY <1>2, <1>3, Zenon

(* Such a queue holds every slave, in proportion to its weight.             *)
LEMMA TurnsAreShares ==
    ASSUME NEW ws \in Seq(Nat \ {0}), ws # <<>>, NEW q, TakesTurns(q, ws)
    PROVE  /\ ToSet(q) = 1..Len(ws)
           /\ \A i, j \in 1..Len(ws) : ws[i] * Occurrences(q, j) = ws[j] * Occurrences(q, i)
<1>1. /\ q \in Seq(1..Len(ws)) /\ \A i \in 1..Len(ws) : Occurrences(q, i) = Turns(ws, i)
  BY Zenon DEF TakesTurns
<1>2. /\ Gcd(ws) \in Nat
      /\ \A i \in 1..Len(ws) : Turns(ws, i) \in Nat \ {0} /\ ws[i] = Gcd(ws) * Turns(ws, i)
  BY GcdDivides
<1>3. \A x \in ToSet(q) : x \in 1..Len(ws)
  BY <1>1 DEF ToSet
<1>4. ASSUME NEW i \in 1..Len(ws) PROVE i \in ToSet(q)
  <2>1. Occurrences(q, i) # 0
    BY <1>1, <1>2
  <2>2. {k \in DOMAIN q : q[k] = i} # {}
    BY <2>1, FS_EmptySet, Zenon DEF Occurrences
  <2> QED
    BY <2>2 DEF ToSet
<1>5. ASSUME NEW i \in 1..Len(ws), NEW j \in 1..Len(ws)
      PROVE  ws[i] * Occurrences(q, j) = ws[j] * Occurrences(q, i)
  <2>1. ASSUME NEW g \in Nat, NEW c \in Nat, NEW d \in Nat PROVE (g * c) * d = (g * d) * c
    OBVIOUS
  <2>2. Turns(ws, i) \in Nat /\ Turns(ws, j) \in Nat
    BY <1>2
  <2>3. (Gcd(ws) * Turns(ws, i)) * Turns(ws, j) = (Gcd(ws) * Turns(ws, j)) * Turns(ws, i)
    BY <1>2, <2>1, <2>2, Zenon
  <2> QED
    BY <1>1, <1>2, <2>3, Zenon
<1> QED
  BY <1>3, <1>4, <1>5, Zenon

(* The balancer's invariant gives what TypeOK and SafeIndex say.            *)
LEMMA BalancerInvShows ==
    ASSUME BalancerInv, slaves \in Seq(DBs \cup {Nil})
    PROVE  queue \in Seq(Nat \ {0}) /\ SafeIndex
<1>1. CASE queue = <<>>
  BY <1>1 DEF SafeIndex
<1>2. CASE queue # <<>>
  <2>1. PICK m \in 1..Len(weights) : TakesTurns(queue, SubSeq(weights, 1, m))
    BY <1>2, Zenon DEF BalancerInv
  <2> DEFINE ws == SubSeq(weights, 1, m)
  <2>2. weights \in Seq(Nat \ {0}) /\ slaves # <<>>
    BY <1>2, Zenon DEF BalancerInv
  <2>3. ws \in Seq(Nat \ {0}) /\ Len(ws) = m /\ ws # <<>> /\ m \in Nat
    BY <2>2
  <2>4. TakesTurns(queue, ws)
    BY <2>1
  <2> HIDE DEF ws
  <2>5. ToSet(queue) = 1..m
    <3>1. ToSet(queue) = 1..Len(ws)
      BY <2>3, <2>4, TurnsAreShares, Zenon
    <3> QED
      BY <2>3, <3>1, Zenon
  <2>6. queue \in Seq(1..m)
    BY <2>3, <2>4, Zenon DEF TakesTurns
  <2>7. queue \in Seq(Nat \ {0})
    <3>1. \A k \in DOMAIN queue : queue[k] \in Nat \ {0}
      BY <2>3, <2>6
    <3> QED
      BY <2>6, <3>1
  <2>8. SafeIndex
    <3> SUFFICES ASSUME Len(queue) = 1 PROVE queue[1] <= Len(slaves)
      BY DEF SafeIndex
    <3>1. 1 \in ToSet(queue) /\ DOMAIN queue = {1}
      BY <2>3, <2>5, <2>6
    <3>2. queue[1] = 1
      BY <3>1 DEF ToSet
    <3>3. Len(slaves) \in Nat /\ Len(slaves) # 0
      BY <2>2
    <3> QED
      BY <3>2, <3>3
  <2> QED
    BY <2>7, <2>8
<1> QED
  BY <1>1, <1>2
-----------------------------------------------------------------------------
(* What Refs holds, before a step and after it.                             *)
LEMMA RefsHas ==
    /\ \A d : d \in Refs <=> /\ d # Nil
                             /\ \/ d = master \/ d = cur
                                \/ \E k \in DOMAIN slaves : slaves[k] = d
                                \/ \E k \in DOMAIN todo : todo[k] = d
                                \/ \E p \in Procs : job[p].ref = d
    /\ \A d : d \in Refs' <=> /\ d # Nil
                              /\ \/ d = master' \/ d = cur'
                                 \/ \E k \in DOMAIN slaves' : slaves'[k] = d
                                 \/ \E k \in DOMAIN todo' : todo'[k] = d
                                 \/ \E p \in Procs : job'[p].ref = d
  BY Zenon DEF Refs, ToSet

(* The step leaves the process with no DB in its hands.                     *)
Onward(p) ==
    /\ job' \in [Procs -> Task] /\ \A q \in Procs \ {p} : job'[q] = job[q]
    /\ job'[p].ref = Nil /\ job'[p].at \notin {"close", "mark", "install"}
    /\ cur' \in DBs \cup {Nil} /\ todo' \in Seq(DBs \cup {Nil})
    /\ job'[checker].at \notin {"idle", "ping", "snapshot"} => cur' # Nil
    /\ cur' \in {Nil, cur} \/ \E k \in DOMAIN todo : todo[k] = cur'
    /\ \A k \in DOMAIN todo' : \E m \in DOMAIN todo : todo[m] = todo'[k]

(* Advance: the checker takes its next DB from the list it copied.          *)
LEMMA AdvanceOnward ==
    ASSUME ListsOK, Advance
    PROVE  Onward(checker)
<1> DEFINE T == DBs \cup {Nil}
<1>1. checker \in Procs
  BY DEF Procs
<1>2. CASE todo # <<>>
  <2>1. /\ cur' = Head(todo) /\ todo' = Tail(todo)
        /\ job' = [job EXCEPT ![checker] = Job("ping", "slave", Nil, Nil)]
    BY <1>2 DEF Advance, Becomes
  <2>2. /\ cur' = todo[1] /\ 1 \in DOMAIN todo /\ cur' \in T /\ todo' \in Seq(T)
        /\ \A k \in DOMAIN todo' : k + 1 \in DOMAIN todo /\ todo'[k] = todo[k + 1]
    BY <1>2, <2>1, TailIsPart DEF ListsOK
  <2>3. Job("ping", "slave", Nil, Nil) \in Task
    BY DEF Job, Task, Places
  <2>4. job' \in [Procs -> Task] /\ job'[checker] = Job("ping", "slave", Nil, Nil)
        /\ \A q \in Procs \ {checker} : job'[q] = job[q]
    BY <1>1, <2>1, <2>3 DEF ListsOK
  <2> QED
    BY <2>2, <2>4 DEF Onward, Job
<1>3. CASE todo = <<>>
  <2> DEFINE j == IF job[checker].kind = "master"
                  THEN Job("snapshot", "master", Nil, Nil) ELSE Idle
  <2>1. cur' = Nil /\ todo' = <<>> /\ job' = [job EXCEPT ![checker] = j]
    BY <1>3 DEF Advance, Becomes
  <2>3. j \in Task /\ j.ref = Nil /\ j.at \in {"snapshot", "idle"}
    BY DEF Job, Task, Places, Idle
  <2> HIDE DEF j
  <2>4. job' \in [Procs -> Task] /\ job'[checker] = j
        /\ \A q \in Procs \ {checker} : job'[q] = job[q]
    BY <1>1, <2>1, <2>3 DEF ListsOK
  <2>5. todo' \in Seq(T) /\ DOMAIN todo' = {}
    BY <2>1
  <2> QED
    BY <2>1, <2>3, <2>4, <2>5 DEF Onward
<1> QED
  BY <1>2, <1>3

(* Return: the call is over, for an administrator or for the checker.       *)
LEMMA ReturnOnward ==
    ASSUME ListsOK, NEW p \in Procs, NEW r \in BOOLEAN, Return(p, r),
           job[p].at \notin {"idle", "ping", "snapshot"}
    PROVE  Onward(p)
<1>0. checker \in Procs
  BY DEF Procs
<1>1. ASSUME NEW j \in Task, job' = [job EXCEPT ![p] = j], UNCHANGED <<cur, todo>>,
             j.ref = Nil, j.at \notin {"close", "mark", "install"},
             p = checker \/ j = Idle
      PROVE  Onward(p)
  <2>1. job' \in [Procs -> Task] /\ job'[p] = j /\ \A q \in Procs \ {p} : job'[q] = job[q]
    BY <1>1 DEF ListsOK
  <2>2. job'[checker].at \notin {"idle", "ping", "snapshot"} => cur # Nil
    BY <1>0, <1>1, <2>1 DEF ListsOK
  <2>3. cur' = cur /\ todo' = todo
    BY <1>1
  <2> QED
    BY <1>1, <2>1, <2>2, <2>3 DEF Onward, ListsOK
<1>2. CASE p # checker
  <2>1. Idle \in Task /\ Idle.ref = Nil /\ Idle.at = "idle"
    BY DEF Idle, Job, Task, Places
  <2>2. job' = [job EXCEPT ![p] = Idle] /\ UNCHANGED <<cur, todo>>
    BY <1>2 DEF Return, Becomes
  <2> QED
    BY <1>1, <2>1, <2>2, Zenon
<1>3. CASE p = checker /\ r
  <2> DEFINE j == Job("refresh", job[p].kind, Nil, Nil)
  <2>1. j \in Task /\ j.ref = Nil /\ j.at = "refresh"
    BY DEF Job, Task, Places, ListsOK
  <2>2. job' = [job EXCEPT ![p] = j] /\ UNCHANGED <<cur, todo>>
    BY <1>3 DEF Return, Becomes
  <2> HIDE DEF j
  <2> QED
    BY <1>1, <1>3, <2>1, <2>2, Zenon
<1>4. CASE p = checker /\ ~r
  BY <1>4, AdvanceOnward DEF Return
<1> QED
  BY <1>2, <1>3, <1>4

(* Such a step refers to no DB that was not referred to before.             *)
LEMMA OnwardRefs ==
    ASSUME ListsOK, NEW p \in Procs, Onward(p), master' \in DBs, master' \in Refs,
           slaves' \in Seq(DBs \cup {Nil}), \A k \in DOMAIN slaves' : slaves'[k] \in Refs \cup {Nil}
    PROVE  ListsOK' /\ Refs' \subseteq Refs
<1>1. ListsOK'
  BY DEF ListsOK, Onward
<1>2. ASSUME NEW d \in Refs' PROVE d \in Refs
  <2>0. d # Nil
    BY <1>2, RefsHas
  <2>1. CASE d = master' \/ \E k \in DOMAIN slaves' : slaves'[k] = d
    BY <2>0, <2>1
  <2>2. CASE d = cur'
    <3>1. d = cur \/ \E k \in DOMAIN todo : todo[k] = d
      BY <2>0, <2>2 DEF Onward
    <3> QED
      BY <2>0, <3>1, RefsHas
  <2>3. CASE \E k \in DOMAIN todo' : todo'[k] = d
    <3>1. \E k \in DOMAIN todo : todo[k] = d
      BY <2>3 DEF Onward
    <3> QED
      BY <2>0, <3>1, RefsHas
  <2>4. CASE \E q \in Procs : job'[q].ref = d
    <3>1. PICK q \in Procs : job'[q].ref = d
      BY <2>4
    <3>2. job'[q] = job[q]
      BY <2>0, <3>1 DEF Onward
    <3> QED
      BY <2>0, <3>1, <3>2, RefsHas
  <2> QED
    BY <1>2, <2>1, <2>2, <2>3, <2>4, RefsHas
<1> QED
  BY <1>1, <1>2

(* Heap: the part of h that is still referred to.                           *)
LEMMA HeapStep ==
    ASSUME NEW h, Heap(h),
           \A d \in Refs' : /\ h[d] \in Entry
                            /\ h[d].state \in {"Down", "ManualDown"} => ~h[d].open
    PROVE  HeapOK' /\ DownIsClosed' /\ \A d \in Refs' : dbs'[d] = h[d]
  BY DEF Heap, HeapOK, DownIsClosed

(* A slave list that keeps its entries keeps them distinct.                 *)
LEMMA DistinctKept ==
    ASSUME HeapInv, slaves' = slaves,
           \A d \in Refs' \cap Refs : dbs'[d].addr = dbs[d].addr
    PROVE  Distinct'
<1>1. \A k \in DOMAIN slaves : slaves[k] # Nil => slaves[k] \in Refs \cap Refs'
  BY RefsHas
<1> QED
  BY <1>1 DEF Distinct, HeapInv

(* A step of one process: the DBs it keeps have the same address and, once  *)
(* closed, stay closed; a changed slave list is shown distinct apart.       *)
LEMMA ProcessStep ==
    ASSUME HeapInv, ListsOK', NEW h, Heap(h),
           \A d \in Refs' : /\ h[d] \in Entry
                            /\ h[d].state \in {"Down", "ManualDown"} => ~h[d].open,
           \A d \in Refs' \cap Refs : h[d].addr = dbs[d].addr /\ (~dbs[d].open => ~h[d].open),
           NEW p \in Procs, \A q \in Procs \ {p} : job'[q] = job[q], TaskOK(job'[p], h),
           slaves' = slaves \/ Distinct'
    PROVE  HeapInv'
<1>1. HeapOK' /\ DownIsClosed' /\ \A d \in Refs' : dbs'[d] = h[d]
  BY HeapStep
<1>2. Distinct'
  BY <1>1, DistinctKept
<1>3. \A q \in Procs : job'[q].ref # Nil => job'[q].ref \in Refs'
  BY RefsHas
<1>4. \A q \in Procs : job[q].ref # Nil => job[q].ref \in Refs
  BY RefsHas
<1>5. \A q \in Procs : TaskOK(job'[q], dbs')
  <2> TAKE q \in Procs
  <2>1. CASE q = p
    BY <1>1, <1>3, <2>1 DEF TaskOK
  <2>2. CASE q # p
    BY <1>1, <1>3, <1>4, <2>2 DEF TaskOK, HeapInv
  <2> QED
    BY <2>1, <2>2
<1> QED
  BY <1>1, <1>2, <1>5 DEF HeapInv

(* A step that drops DBs and changes none.                                  *)
LEMMA QuietStep ==
    ASSUME HeapInv, ListsOK', Refs' \subseteq Refs, Heap(dbs),
           NEW p \in Procs, \A q \in Procs \ {p} : job'[q] = job[q], TaskOK(job'[p], dbs),
           slaves' = slaves \/ Distinct'
    PROVE  HeapInv'
<1>1. \A d \in Refs' : /\ dbs[d] \in Entry
                       /\ dbs[d].state \in {"Down", "ManualDown"} => ~dbs[d].open
  BY DEF HeapInv, HeapOK, DownIsClosed
<1> QED
  BY <1>1, ProcessStep

(* The step after which the process holds no DB.                            *)
LEMMA OnwardStep ==
    ASSUME HeapInv, NEW p \in Procs, Onward(p), UNCHANGED <<master, slaves>>, Heap(dbs)
    PROVE  HeapInv'
<1>1. ListsOK' /\ Refs' \subseteq Refs
  <2>1. master' \in DBs /\ master' \in Refs /\ slaves' \in Seq(DBs \cup {Nil}) /\ ListsOK
    BY RefsHas, NodeHealthAssumption DEF HeapInv, ListsOK
  <2>2. \A k \in DOMAIN slaves' : slaves'[k] \in Refs \cup {Nil}
    BY RefsHas
  <2> QED
    BY <2>1, <2>2, OnwardRefs
<1>2. TaskOK(job'[p], dbs) /\ \A q \in Procs \ {p} : job'[q] = job[q]
  BY DEF Onward, TaskOK
<1> QED
  BY <1>1, <1>2, QuietStep

(* A step that refers to the same DBs may leave the heap as it is.          *)
LEMMA SameHeap ==
    ASSUME HeapInv, NEW h, DOMAIN h = Refs, h = [d \in DOMAIN h |-> h[d]], Refs' = Refs, dbs' = h
    PROVE  Heap(h)
  BY DEF Heap
-----------------------------------------------------------------------------
(* The checker's steps.                                                     *)
LEMMA checkMasterKeeps ==
    ASSUME HeapInv, checkMaster
    PROVE  HeapInv'
<1> DEFINE j == Job("ping", "master", Nil, Nil)
<1>1. checker \in Procs /\ ListsOK /\ Nil \notin DBs
  BY NodeHealthAssumption DEF Procs, HeapInv
<1>2. /\ job' = [job EXCEPT ![checker] = j] /\ cur' = master /\ Heap(dbs)
      /\ master' = master /\ slaves' = slaves /\ todo' = todo
  BY DEF checkMaster, Becomes
<1>3. j \in Task /\ j.ref = Nil /\ j.at = "ping"
  BY DEF Job, Task, Places
<1> HIDE DEF j
<1>4. /\ job' \in [Procs -> Task] /\ job'[checker] = j
      /\ \A q \in Procs \ {checker} : job'[q] = job[q]
  BY <1>1, <1>2, <1>3 DEF ListsOK
<1>5. ListsOK'
  BY <1>1, <1>2, <1>3, <1>4 DEF ListsOK
<1>6. Refs' \subseteq Refs
  BY <1>1, <1>2, <1>3, <1>4, RefsHas
<1>7. TaskOK(job'[checker], dbs)
  BY <1>3, <1>4 DEF TaskOK
<1> QED
  BY <1>1, <1>2, <1>4, <1>5, <1>6, <1>7, QuietStep

(* checkSlave: the copy of the list refers to what the list refers to.      *)
LEMMA checkSlaveKeeps ==
    ASSUME HeapInv, checkSlave
    PROVE  HeapInv'
<1> DEFINE j == IF slaves = <<>> THEN Idle ELSE Job("ping", "slave", Nil, Nil)
<1>1. checker \in Procs /\ ListsOK
  BY DEF Procs, HeapInv
<1>2. /\ job' = [job EXCEPT ![checker] = j] /\ Heap(dbs)
      /\ master' = master /\ slaves' = slaves
      /\ slaves = <<>> => cur' = cur /\ todo' = todo
      /\ slaves # <<>> => cur' = Head(slaves) /\ todo' = Tail(slaves)
  BY DEF checkSlave, Becomes
<1>3. j \in Task /\ j.ref = Nil /\ j.at \in {"idle", "ping"}
  BY DEF Job, Task, Places, Idle
<1> HIDE DEF j
<1>4. /\ job' \in [Procs -> Task] /\ job'[checker] = j
      /\ \A q \in Procs \ {checker} : job'[q] = job[q]
  BY <1>1, <1>2, <1>3 DEF ListsOK
<1>5. ASSUME slaves # <<>>
      PROVE  /\ cur' = slaves[1] /\ 1 \in DOMAIN slaves
             /\ cur' \in DBs \cup {Nil} /\ todo' \in Seq(DBs \cup {Nil})
             /\ \A k \in DOMAIN todo' : k + 1 \in DOMAIN slaves /\ todo'[k] = slaves[k + 1]
  <2>1. slaves \in Seq(DBs \cup {Nil})
    BY <1>1 DEF ListsOK
  <2> QED
    BY <1>2, <1>5, <2>1, TailIsPart
<1>6. cur' \in DBs \cup {Nil} /\ todo' \in Seq(DBs \cup {Nil})
  BY <1>1, <1>2, <1>5 DEF ListsOK
<1>7. ListsOK'
  BY <1>1, <1>2, <1>3, <1>4, <1>6 DEF ListsOK
<1>8. Refs' \subseteq Refs
  <2>1. CASE slaves = <<>>
    BY <1>2, <1>3, <1>4, <2>1, RefsHas
  <2>2. CASE slaves # <<>>
    BY <1>2, <1>3, <1>4, <1>5, <2>2, RefsHas
  <2> QED
    BY <2>1, <2>2
<1>9. TaskOK(job'[checker], dbs)
  BY <1>3, <1>4 DEF TaskOK
<1> QED
  BY <1>1, <1>2, <1>4, <1>7, <1>8, <1>9, QuietStep

(* A process that moves on with its hands empty before and after leaves the *)
(* heap and its references as they are.                                     *)
LEMMA EmptyHanded ==
    ASSUME HeapInv, NEW p \in Procs, NEW j \in Task, job[p].ref = Nil, j.ref = Nil,
           j.at \notin {"close", "mark"},
           p = checker /\ j.at \notin {"idle", "ping", "snapshot"} => cur # Nil,
           job' = [job EXCEPT ![p] = j], UNCHANGED <<master, slaves, cur, todo>>,
           dbs' = dbs \/ Heap(dbs)
    PROVE  HeapInv'
<1>1. /\ job' \in [Procs -> Task] /\ job'[p] = j
      /\ \A q \in Procs \ {p} : job'[q] = job[q]
  BY DEF HeapInv, ListsOK
<1>2. checker \in Procs
  BY DEF Procs
<1>3. ListsOK'
  BY <1>1, <1>2 DEF HeapInv, ListsOK
<1>4. Refs' = Refs
  BY <1>1, RefsHas
<1>5. Heap(dbs)
  BY <1>4, SameHeap DEF HeapInv, HeapOK
<1>6. TaskOK(job'[p], dbs)
  BY <1>1 DEF TaskOK
<1> QED
  BY <1>1, <1>3, <1>4, <1>5, <1>6, QuietStep

(* Ping: nothing changes hands.                                             *)
LEMMA PingKeeps ==
    ASSUME HeapInv, Ping
    PROVE  HeapInv'
<1>1. checker \in Procs /\ job[checker] \in Task
  BY DEF Procs, HeapInv, ListsOK
<1>2. job[checker].at = "ping" /\ job[checker].ref = Nil
  BY <1>1 DEF Ping, At, HeapInv, TaskOK
<1>3. CASE cur = Nil
  BY <1>3 DEF Ping, HeapInv, ListsOK, HeapOK, Refs, DownIsClosed, Distinct
<1>4. CASE cur # Nil
  <2> DEFINE at == IF dbs[cur].addr \in alive THEN "pinged" ELSE "failed"
             j == [job[checker] EXCEPT !.at = at]
  <2>1. at \in {"pinged", "failed"}
    OBVIOUS
  <2> HIDE DEF at
  <2>2. j \in Task /\ j.ref = Nil /\ j.at \notin {"close", "mark"}
    BY <1>1, <1>2, <2>1 DEF Task, Places
  <2>3. job' = [job EXCEPT ![checker] = j]
    BY <1>1, <1>4 DEF Ping, HeapInv, ListsOK, at
  <2>4. UNCHANGED <<master, slaves, cur, todo, dbs>>
    BY DEF Ping
  <2> HIDE DEF j
  <2> QED
    BY <1>1, <1>2, <1>4, <2>2, <2>3, <2>4, EmptyHanded, Zenon
<1> QED
  BY <1>3, <1>4

(* The DB being checked is in the heap.                                     *)
LEMMA CurInHeap ==
    ASSUME HeapInv, job[checker].at \notin {"idle", "ping", "snapshot"}
    PROVE  cur \in Refs /\ dbs[cur] \in Entry
  BY RefsHas DEF HeapInv, ListsOK, HeapOK

(* Answered: the DB is asked for its address, which a checked DB has.       *)
LEMMA AnsweredKeeps ==
    ASSUME HeapInv, Answered
    PROVE  HeapInv'
<1>1. checker \in Procs /\ job[checker] \in Task /\ job[checker].at = "pinged"
  BY DEF Procs, HeapInv, ListsOK, Answered, At
<1>2. job[checker].ref = Nil
  BY <1>1 DEF HeapInv, TaskOK
<1>3. cur # Nil /\ dbs[cur] \in Entry
  BY <1>1, CurInHeap, RefsHas
<1> DEFINE at == IF dbs[cur].state = "Down" THEN "open" ELSE "refresh"
           j == Job(at, job[checker].kind, dbs[cur].addr, Nil)
<1>4. j \in Task /\ j.ref = Nil /\ j.at \notin {"close", "mark"}
  BY <1>1, <1>3 DEF Job, Task, Places, Entry
<1>5. job' = [job EXCEPT ![checker] = j] /\ UNCHANGED <<master, slaves, cur, todo, dbs>>
  BY DEF Answered, Becomes
<1> HIDE DEF j
<1> QED
  BY <1>1, <1>2, <1>3, <1>4, <1>5, EmptyHanded, Zenon

(* NotAnswered: the address to look for, or the next DB.                    *)
LEMMA NotAnsweredKeeps ==
    ASSUME HeapInv, NotAnswered
    PROVE  HeapInv'
<1>1. checker \in Procs /\ job[checker] \in Task /\ job[checker].at = "failed"
  BY DEF Procs, HeapInv, ListsOK, NotAnswered, At
<1>2. job[checker].ref = Nil
  BY <1>1 DEF HeapInv, TaskOK
<1>3. cur # Nil /\ dbs[cur] \in Entry
  BY <1>1, CurInHeap, RefsHas, SMTT(30)
<1> DEFINE j == Job("find", job[checker].kind, dbs[cur].addr, Nil)
<1>4. Heap(dbs) /\ UNCHANGED <<master, slaves>>
  BY DEF NotAnswered
<1>5. CASE Becomes(checker, j) /\ UNCHANGED <<cur, todo>>
  <2>1. j \in Task /\ j.ref = Nil /\ j.at = "find"
    BY <1>1, <1>3 DEF Job, Task, Places, Entry
  <2>2. job' = [job EXCEPT ![checker] = j] /\ UNCHANGED <<master, slaves, cur, todo>>
    BY <1>4, <1>5 DEF Becomes
  <2> HIDE DEF j
  <2> QED
    BY <1>1, <1>2, <1>3, <1>4, <2>1, <2>2, EmptyHanded, Zenon
<1>6. CASE Advance
  BY <1>1, <1>4, <1>6, AdvanceOnward, OnwardStep DEF HeapInv
<1> QED
  BY <1>5, <1>6 DEF NotAnswered

(* NotManualDown: only the place of the checker changes.                    *)
LEMMA NotManualDownKeeps ==
    ASSUME HeapInv, NotManualDown
    PROVE  HeapInv'
<1>1. checker \in Procs /\ job[checker] \in Task /\ job[checker].at = "refresh"
  BY DEF Procs, HeapInv, ListsOK, NotManualDown, At
<1>2. job[checker].ref = Nil
  BY <1>1 DEF HeapInv, TaskOK
<1>3. cur # Nil
  BY <1>1, CurInHeap, RefsHas
<1>4. Heap(dbs) /\ UNCHANGED <<master, slaves>>
  BY DEF NotManualDown
<1>5. CASE Advance
  BY <1>1, <1>4, <1>5, AdvanceOnward, OnwardStep DEF HeapInv
<1>6. CASE job' = [job EXCEPT ![checker].at = "store"] /\ UNCHANGED <<cur, todo>>
  <2> DEFINE j == [job[checker] EXCEPT !.at = "store"]
  <2>1. j \in Task /\ j.ref = Nil /\ j.at = "store"
    BY <1>1, <1>2 DEF Task, Places
  <2>2. job' = [job EXCEPT ![checker] = j]
    BY <1>1, <1>6 DEF HeapInv, ListsOK
  <2> HIDE DEF j
  <2> QED
    BY <1>1, <1>2, <1>3, <1>4, <1>6, <2>1, <2>2, EmptyHanded, Zenon
<1> QED
  BY <1>5, <1>6 DEF NotManualDown

(* One field of one DB changes, and the process lets go of what it held.    *)
LEMMA StoreStep ==
    ASSUME HeapInv, NEW p \in Procs, Onward(p), UNCHANGED <<master, slaves>>,
           NEW d \in Refs, NEW st \in States, Heap([dbs EXCEPT ![d].state = st]),
           st \in {"Down", "ManualDown"} => ~dbs[d].open
    PROVE  HeapInv'
<1> DEFINE h == [dbs EXCEPT ![d].state = st]
<1>1. ListsOK' /\ Refs' \subseteq Refs
  <2>1. master' \in DBs /\ master' \in Refs /\ slaves' \in Seq(DBs \cup {Nil}) /\ ListsOK
    BY RefsHas, NodeHealthAssumption DEF HeapInv, ListsOK
  <2>2. \A k \in DOMAIN slaves' : slaves'[k] \in Refs \cup {Nil}
    BY RefsHas
  <2> QED
    BY <2>1, <2>2, OnwardRefs
<1>2. \A e \in Refs : /\ h[e] \in Entry /\ h[e].addr = dbs[e].addr /\ h[e].open = dbs[e].open
                      /\ h[e].state = IF e = d THEN st ELSE dbs[e].state
  BY DEF HeapInv, HeapOK, Entry
<1> HIDE DEF h
<1>3. \A e \in Refs : h[e].state \in {"Down", "ManualDown"} => ~h[e].open
  BY <1>2 DEF HeapInv, HeapOK, DownIsClosed
<1>4. TaskOK(job'[p], h) /\ \A q \in Procs \ {p} : job'[q] = job[q]
  BY DEF Onward, TaskOK
<1>5. Heap(h)
  BY DEF h
<1> QED
  BY <1>1, <1>2, <1>3, <1>4, <1>5, ProcessStep

(* StoreUp: Up is not a state that promises a closed pool.                  *)
LEMMA StoreUpKeeps ==
    ASSUME HeapInv, StoreUp
    PROVE  HeapInv'
<1>1. checker \in Procs /\ job[checker].at = "store"
  BY DEF Procs, StoreUp, At
<1>2. cur \in Refs /\ Onward(checker)
  BY <1>1, CurInHeap, AdvanceOnward DEF HeapInv, StoreUp
<1>3. Heap([dbs EXCEPT ![cur].state = "Up"]) /\ UNCHANGED <<master, slaves>> /\ "Up" \in States
  BY DEF StoreUp, States
<1> QED
  BY <1>1, <1>2, <1>3, StoreStep
-----------------------------------------------------------------------------
(* The calls of the checker and of the administrators.                      *)
LEMMA StoreDownKeeps ==
    ASSUME HeapInv, NEW p \in Procs, StoreDown(p)
    PROVE  HeapInv'
<1> DEFINE st == IF p = checker THEN "Down" ELSE "ManualDown"
<1>1. job[p].at = "mark" /\ Onward(p)
  BY ReturnOnward, Zenon DEF HeapInv, StoreDown, At
<1>2. job[p].ref \in Refs /\ ~dbs[job[p].ref].open
  BY <1>1, RefsHas DEF HeapInv, TaskOK
<1>3. Heap([dbs EXCEPT ![job[p].ref].state = st]) /\ UNCHANGED <<master, slaves>> /\ st \in States
  BY DEF StoreDown, States
<1> HIDE DEF st
<1> QED
  BY <1>1, <1>2, <1>3, StoreStep

(* CloseDB: from now on what the process holds is closed.                   *)
LEMMA CloseDBKeeps ==
    ASSUME HeapInv, NEW p \in Procs, CloseDB(p)
    PROVE  HeapInv'
<1> DEFINE r == job[p].ref
           h == [dbs EXCEPT ![r].open = FALSE]
           j == [job[p] EXCEPT !.at = "mark"]
<1>1. /\ job[p].at = "close" /\ job[p] \in Task /\ r # Nil /\ r \in Refs
      /\ p = checker => cur # Nil
  BY RefsHas DEF HeapInv, ListsOK, TaskOK, CloseDB, At
<1>2. j \in Task /\ j.ref = r /\ j.at = "mark"
  BY <1>1 DEF Task, Places
<1>3. UNCHANGED <<master, slaves, cur, todo>> /\ dbs' = h /\ job' = [job EXCEPT ![p] = j]
  BY DEF CloseDB, HeapInv, ListsOK
<1>4. /\ job' \in [Procs -> Task] /\ job'[p] = j
      /\ \A q \in Procs \ {p} : job'[q] = job[q]
  BY <1>2, <1>3 DEF HeapInv, ListsOK
<1>5. \A e \in Refs : /\ h[e] \in Entry /\ h[e].addr = dbs[e].addr /\ h[e].state = dbs[e].state
                      /\ h[e].open = IF e = r THEN FALSE ELSE dbs[e].open
  BY Zenon DEF HeapInv, HeapOK, Entry
<1>6. DOMAIN h = Refs /\ h = [d \in DOMAIN h |-> h[d]]
  BY Zenon DEF HeapInv, HeapOK
<1> HIDE DEF h, j
<1>7. ListsOK'
  BY <1>1, <1>2, <1>3, <1>4 DEF HeapInv, ListsOK
<1>8. Refs' = Refs
  <2>1. \A q \in Procs : job'[q].ref = job[q].ref
    BY <1>2, <1>4
  <2> QED
    BY <1>3, <2>1, RefsHas
<1>9. Heap(h)
  BY <1>3, <1>6, <1>8, SameHeap
<1>10. \A e \in Refs : /\ h[e].state \in {"Down", "ManualDown"} => ~h[e].open
                       /\ ~dbs[e].open => ~h[e].open
  BY <1>5, Zenon DEF HeapInv, HeapOK, DownIsClosed
<1>11. TaskOK(job'[p], h)
  BY <1>1, <1>2, <1>4, <1>5, Zenon DEF TaskOK
<1> QED
  BY <1>3, <1>4, <1>5, <1>7, <1>8, <1>9, <1>10, <1>11, ProcessStep, Zenon

(* A fresh object is none of those in use.                                  *)
LEMMA NewDBIsNew ==
    ASSUME HeapInv, DBs \ DOMAIN dbs # {}
    PROVE  NewDB \in DBs /\ NewDB \notin Refs /\ NewDB # Nil
<1>1. DBs \ DOMAIN dbs \in SUBSET Nat
  BY NodeHealthAssumption, Zenon
<1>2. NewDB \in DBs \ DOMAIN dbs
  BY <1>1, MinOfNaturals DEF NewDB
<1> QED
  BY <1>2, NodeHealthAssumption DEF HeapInv, HeapOK

(* The heap with a fresh object in it.                                      *)
LEMMA WithNew ==
    ASSUME HeapInv, NEW d, d \notin Refs, NEW a \in Addrs, NEW st \in {"Up", "Unknown"}
    PROVE  /\ \A e \in Refs \cup {d} :
                /\ With(d, a, st)[e] \in Entry
                /\ With(d, a, st)[e].state \in {"Down", "ManualDown"} => ~With(d, a, st)[e].open
           /\ \A e \in Refs : With(d, a, st)[e] = dbs[e]
           /\ With(d, a, st)[d].addr = a
<1> DEFINE h == With(d, a, st)
<1>1. h[d] = [addr |-> a, state |-> st, open |-> TRUE]
  BY DEF With
<1>2. \A e \in Refs : h[e] = dbs[e]
  BY DEF With, HeapInv, HeapOK
<1> HIDE DEF h
<1>3. h[d] \in Entry /\ h[d].addr = a /\ h[d].state \notin {"Down", "ManualDown"}
  BY <1>1 DEF Entry, States
<1>4. \A e \in Refs : h[e] \in Entry /\ (h[e].state \in {"Down", "ManualDown"} => ~h[e].open)
  BY <1>2 DEF HeapInv, HeapOK, DownIsClosed
<1> QED
  BY <1>2, <1>3, <1>4 DEF h

(* UpDB: the new DB is open, in no list yet, and has the address asked for. *)
LEMMA UpDBKeeps ==
    ASSUME HeapInv, alive \subseteq Addrs, NEW p \in Procs, UpDB(p)
    PROVE  HeapInv'
<1> DEFINE a == job[p].addr
<1>1. /\ job[p].at = "open" /\ job[p] \in Task /\ job[p].ref = Nil /\ a \in Addrs \cup {Nil}
      /\ p = checker => cur # Nil
  BY Zenon DEF HeapInv, ListsOK, TaskOK, UpDB, At, Task
<1>2. UNCHANGED <<master, slaves, cur, todo>> /\ DBs \ DOMAIN dbs # {}
  BY DEF UpDB
<1>3. CASE a \in alive
  <2> DEFINE j == Job("install", job[p].kind, a, NewDB)
             h == With(NewDB, a, "Up")
  <2>1. NewDB \in DBs /\ NewDB \notin Refs /\ NewDB # Nil
    BY <1>2, NewDBIsNew
  <2>2. job' = [job EXCEPT ![p] = j] /\ Heap(h)
    BY <1>3 DEF UpDB, Becomes
  <2>3. j \in Task /\ j.ref = NewDB /\ j.at = "install" /\ j.addr = a
    BY <1>1, <2>1 DEF Job, Task, Places
  <2>4. /\ \A e \in Refs \cup {NewDB} :
             h[e] \in Entry /\ (h[e].state \in {"Down", "ManualDown"} => ~h[e].open)
        /\ \A e \in Refs : h[e] = dbs[e]
        /\ h[NewDB].addr = a
    BY <1>3, <2>1, WithNew
  <2> HIDE DEF j, h
  <2>5. /\ job' \in [Procs -> Task] /\ job'[p] = j
        /\ \A q \in Procs \ {p} : job'[q] = job[q]
    BY <2>2, <2>3 DEF HeapInv, ListsOK
  <2>6. ListsOK'
    <3>1. job'[checker].at \notin {"idle", "ping", "snapshot"} => cur # Nil
      BY <1>1, <2>5 DEF HeapInv, ListsOK, Procs
    <3> QED
      BY <1>2, <2>5, <3>1, SMTT(30) DEF HeapInv, ListsOK
  <2>7. Refs' \subseteq Refs \cup {NewDB}
    BY <1>2, <2>3, <2>5, RefsHas, SMTT(30)
  <2>8. TaskOK(job'[p], h)
    BY <2>3, <2>4, <2>5 DEF TaskOK
  <2> QED
    BY <1>2, <2>2, <2>4, <2>5, <2>6, <2>7, <2>8, ProcessStep
<1>4. CASE a \notin alive
  <2> DEFINE j == Job("install", job[p].kind, a, Nil)
  <2>1. j \in Task /\ j.ref = Nil /\ j.at = "install"
    BY <1>1 DEF Job, Task, Places
  <2>2. job' = [job EXCEPT ![p] = j] /\ dbs' = dbs
    BY <1>4 DEF UpDB, Becomes
  <2> HIDE DEF j
  <2> QED
    BY <1>1, <1>2, <2>1, <2>2, EmptyHanded, Zenon
<1> QED
  BY <1>3, <1>4, SMTT(30)

(* UpMaster: n.Master becomes the DB that UpDB returned, never nil.         *)
LEMMA UpMasterKeeps ==
    ASSUME HeapInv, NEW p \in Procs, UpMaster(p)
    PROVE  HeapInv'
<1>1. job[p].at = "install" /\ Heap(dbs) /\ slaves' = slaves
  BY DEF UpMaster, At
<1>2. Onward(p) /\ (master' = master \/ (master' = job[p].ref /\ job[p].ref # Nil))
  BY <1>1, ReturnOnward, Zenon DEF UpMaster, HeapInv
<1>3. master' \in DBs /\ master' \in Refs /\ slaves' \in Seq(DBs \cup {Nil}) /\ ListsOK
  <2>1. master \in DBs /\ master # Nil /\ job[p].ref \in DBs \cup {Nil}
    BY NodeHealthAssumption DEF HeapInv, ListsOK, Task
  <2> QED
    BY <1>1, <1>2, <2>1, RefsHas DEF HeapInv, ListsOK
<1>4. \A k \in DOMAIN slaves' : slaves'[k] \in Refs \cup {Nil}
  BY <1>1, RefsHas
<1>5. ListsOK' /\ Refs' \subseteq Refs
  BY <1>2, <1>3, <1>4, OnwardRefs
<1>6. TaskOK(job'[p], dbs) /\ \A q \in Procs \ {p} : job'[q] = job[q]
  BY <1>2 DEF Onward, TaskOK
<1> QED
  BY <1>1, <1>5, <1>6, QuietStep

(* Stops(a) is empty: the list has no nil entry and no DB of a server a.    *)
LEMMA DistinctAppend ==
    ASSUME HeapInv, NEW a, Stops(a) = {}, NEW r, slaves' = Append(slaves, r),
           r # Nil => dbs'[r].addr = a,
           \A d \in Refs : d \in Refs' => dbs'[d].addr = dbs[d].addr
    PROVE  Distinct'
<1>1. slaves \in Seq(DBs \cup {Nil}) /\ Len(slaves) \in Nat
  BY DEF HeapInv, ListsOK
<1>2. /\ DOMAIN slaves' = DOMAIN slaves \cup {Len(slaves) + 1}
      /\ slaves'[Len(slaves) + 1] = r /\ \A k \in DOMAIN slaves : slaves'[k] = slaves[k]
  BY <1>1
<1>3. \A k \in DOMAIN slaves : slaves[k] # Nil /\ dbs[slaves[k]].addr # a
  BY DEF Stops
<1>4. \A k \in DOMAIN slaves : slaves[k] \in Refs \cap Refs'
  BY <1>2, <1>3, RefsHas
<1>5. \A k \in DOMAIN slaves : dbs'[slaves'[k]].addr = dbs[slaves[k]].addr
  BY <1>2, <1>4
<1>6. \A j, k \in DOMAIN slaves : dbs[slaves[j]].addr = dbs[slaves[k]].addr => j = k
  BY <1>3 DEF HeapInv, Distinct
<1> QED
  BY <1>2, <1>3, <1>5, <1>6 DEF Distinct

(* The first place where UpSlave's loop stops is taken by the new DB.       *)
LEMMA DistinctReplace ==
    ASSUME HeapInv, NEW a, Stops(a) # {}, slaves[Min(Stops(a))] # Nil,
           NEW r, slaves' = [slaves EXCEPT ![Min(Stops(a))] = r],
           r # Nil => dbs'[r].addr = a,
           \A d \in Refs : d \in Refs' => dbs'[d].addr = dbs[d].addr
    PROVE  Distinct'
<1> DEFINE m == Min(Stops(a))
<1>1. slaves \in Seq(DBs \cup {Nil}) /\ DOMAIN slaves \in SUBSET Nat
  BY SMTT(30) DEF HeapInv, ListsOK
<1>2. m \in DOMAIN slaves /\ dbs[slaves[m]].addr = a
  <2>1. Stops(a) \in SUBSET Nat /\ Stops(a) \in SUBSET (DOMAIN slaves)
    BY <1>1 DEF Stops
  <2>2. m \in Stops(a)
    BY <2>1, MinOfNaturals
  <2> QED
    BY <2>1, <2>2, Zenon DEF Stops
<1> HIDE DEF m
<1>3. /\ DOMAIN slaves' = DOMAIN slaves /\ slaves'[m] = r
      /\ \A k \in DOMAIN slaves : k # m => slaves'[k] = slaves[k]
  BY <1>1, <1>2 DEF m
<1>4. \A k \in DOMAIN slaves : k # m /\ slaves[k] # Nil =>
          slaves'[k] = slaves[k] /\ dbs'[slaves[k]].addr = dbs[slaves[k]].addr
  BY <1>3, RefsHas
<1>5. \A k \in DOMAIN slaves : k # m /\ slaves[k] # Nil => dbs[slaves[k]].addr # a
  BY <1>2 DEF HeapInv, Distinct, m
<1>6. \A j, k \in DOMAIN slaves :
          slaves[j] # Nil /\ slaves[k] # Nil /\ dbs[slaves[j]].addr = dbs[slaves[k]].addr => j = k
  BY DEF HeapInv, Distinct
<1>7. ASSUME NEW j \in DOMAIN slaves', NEW k \in DOMAIN slaves', slaves'[j] # Nil,
             slaves'[k] # Nil, dbs'[slaves'[j]].addr = dbs'[slaves'[k]].addr
      PROVE  j = k
  <2>1. CASE j # m /\ k # m
    BY <1>3, <1>4, <1>6, <1>7, <2>1
  <2>2. CASE j = m \/ k = m
    BY <1>3, <1>4, <1>5, <1>7, <2>2
  <2> QED
    BY <2>1, <2>2
<1> QED
  BY <1>7 DEF Distinct

(* Idle: the end of a call that panicked.                                   *)
LEMMA IdleOnward ==
    ASSUME ListsOK, NEW p \in Procs, Becomes(p, Idle), UNCHANGED <<cur, todo>>
    PROVE  Onward(p)
<1>1. Idle \in Task /\ Idle.ref = Nil /\ Idle.at = "idle" /\ checker \in Procs
  BY DEF Idle, Job, Task, Places, Procs
<1>2. job' \in [Procs -> Task] /\ job'[p] = Idle /\ \A q \in Procs \ {p} : job'[q] = job[q]
  BY <1>1 DEF ListsOK, Becomes
<1>3. job'[checker].at \notin {"idle", "ping", "snapshot"} => cur # Nil
  BY <1>1, <1>2 DEF ListsOK
<1> QED
  BY <1>1, <1>2, <1>3 DEF Onward, ListsOK

(* UpSlave: the DB replaces the one of its server, or is the only one.      *)
LEMMA UpSlaveKeeps ==
    ASSUME HeapInv, NEW p \in Procs, UpSlave(p)
    PROVE  HeapInv'
<1> DEFINE a == job[p].addr
           r == job[p].ref
           K == Stops(a)
<1>1. job[p].at = "install" /\ Heap(dbs) /\ master' = master /\ ListsOK
  BY DEF UpSlave, At, HeapInv
<1>2. CASE K # {} /\ slaves[Min(K)] = Nil
  <2>1. Becomes(p, Idle) /\ UNCHANGED <<slaves, cur, todo>>
    BY <1>2 DEF UpSlave
  <2> QED
    BY <1>1, <2>1, IdleOnward, OnwardStep, SMTT(30)
<1>3. CASE ~(K # {} /\ slaves[Min(K)] = Nil)
  <2>1. /\ Return(p, TRUE)
        /\ slaves' = IF K = {} THEN Append(slaves, r) ELSE [slaves EXCEPT ![Min(K)] = r]
    BY <1>3, Zenon DEF UpSlave
  <2>2. Onward(p)
    BY <1>1, <2>1, ReturnOnward, Zenon
  <2>3. /\ r \in Refs \cup {Nil} /\ r \in DBs \cup {Nil} /\ (r # Nil => dbs[r].addr = a)
        /\ slaves \in Seq(DBs \cup {Nil}) /\ \A k \in DOMAIN slaves : slaves[k] \in Refs \cup {Nil}
    BY <1>1, RefsHas DEF HeapInv, ListsOK, Task, TaskOK
  <2>4. slaves' \in Seq(DBs \cup {Nil}) /\ \A k \in DOMAIN slaves' : slaves'[k] \in Refs \cup {Nil}
    <3> HIDE DEF r, K
    <3> QED
      BY <2>1, <2>3
  <2>5. \E k \in DOMAIN slaves' : slaves'[k] = r
    <3>1. CASE K = {}
      BY <2>1, <2>3, <3>1
    <3>2. CASE K # {}
      <4>1. K \in SUBSET (DOMAIN slaves) /\ K \in SUBSET Nat
        BY <2>3 DEF Stops
      <4>2. Min(K) \in DOMAIN slaves
        BY <3>2, <4>1, MinOfNaturals
      <4> HIDE DEF r, K
      <4> QED
        BY <2>1, <2>3, <3>2, <4>2
    <3> QED
      BY <3>1, <3>2, SMTT(30)
  <2>6. master' \in DBs /\ master' \in Refs
    BY <1>1, RefsHas, NodeHealthAssumption DEF ListsOK
  <2>7. ListsOK' /\ Refs' \subseteq Refs
    BY <1>1, <2>2, <2>4, <2>6, OnwardRefs
  <2>8. \A d \in Refs' : dbs'[d] = dbs[d]
    BY <1>1 DEF Heap
  <2>9. r # Nil => dbs'[r].addr = a
    BY <2>3, <2>5, <2>8, RefsHas
  <2>10. Distinct'
    <3>1. CASE K = {}
      BY <2>1, <2>8, <2>9, <3>1, DistinctAppend
    <3>2. CASE K # {}
      BY <1>3, <2>1, <2>8, <2>9, <3>2, DistinctReplace, Zenon
    <3> QED
      BY <3>1, <3>2, SMTT(30)
  <2>11. TaskOK(job'[p], dbs) /\ \A q \in Procs \ {p} : job'[q] = job[q]
    BY <2>2 DEF Onward, TaskOK
  <2> QED
    BY <1>1, <2>7, <2>10, <2>11, QuietStep
<1> QED
  BY <1>2, <1>3

(* A process takes hold of a DB that is in the lists, to close it.          *)
LEMMA TakeStep ==
    ASSUME HeapInv, NEW p \in Procs, NEW kind \in {"master", "slave"},
           NEW r \in DBs, r \in Refs,
           Becomes(p, Job("close", kind, job[p].addr, r)), Heap(dbs),
           UNCHANGED <<master, slaves, cur, todo>>,
           job[p].at \notin {"idle", "ping", "snapshot"}
    PROVE  HeapInv'
<1> DEFINE j == Job("close", kind, job[p].addr, r)
<1>1. r # Nil /\ job[p] \in Task /\ (p = checker => cur # Nil)
  BY NodeHealthAssumption DEF HeapInv, ListsOK
<1>2. j \in Task /\ j.ref = r /\ j.at = "close"
  BY <1>1 DEF Job, Task, Places
<1>3. job' = [job EXCEPT ![p] = j]
  BY DEF Becomes
<1> HIDE DEF j
<1>4. /\ job' \in [Procs -> Task] /\ job'[p] = j
      /\ \A q \in Procs \ {p} : job'[q] = job[q]
  BY <1>2, <1>3 DEF HeapInv, ListsOK
<1>5. ListsOK'
  <2>1. job'[checker].at \notin {"idle", "ping", "snapshot"} => cur # Nil
    BY <1>1, <1>4 DEF HeapInv, ListsOK, Procs
  <2> QED
    BY <1>4, <2>1 DEF HeapInv, ListsOK
<1>6. Refs' \subseteq Refs
  BY <1>2, <1>4, RefsHas, SMTT(30)
<1>7. TaskOK(job'[p], dbs)
  BY <1>1, <1>2, <1>4, SMTT(30) DEF TaskOK
<1> QED
  BY <1>4, <1>5, <1>6, <1>7, QuietStep

(* FindMaster: the process takes hold of n.Master.                          *)
LEMMA FindMasterKeeps ==
    ASSUME HeapInv, NEW p \in Procs, FindMaster(p)
    PROVE  HeapInv'
<1>1. job[p].at = "find" /\ Heap(dbs) /\ UNCHANGED <<master, slaves>>
  BY DEF FindMaster, At
<1>2. master \in DBs /\ master \in Refs
  BY RefsHas, NodeHealthAssumption DEF HeapInv, ListsOK
<1>3. CASE Becomes(p, Job("close", "master", job[p].addr, master)) /\ UNCHANGED <<cur, todo>>
  BY <1>1, <1>2, <1>3, TakeStep, SMTT(30)
<1>4. CASE Return(p, FALSE)
  BY <1>1, <1>4, ReturnOnward, OnwardStep, Zenon DEF HeapInv
<1> QED
  BY <1>3, <1>4, Zenon DEF FindMaster

(* FindSlave: the process takes hold of an entry of n.Slave.                *)
LEMMA FindSlaveKeeps ==
    ASSUME HeapInv, NEW p \in Procs, FindSlave(p)
    PROVE  HeapInv'
<1> DEFINE K == Stops(job[p].addr)
<1>1. job[p].at = "find" /\ Heap(dbs) /\ UNCHANGED <<master, slaves>>
  BY DEF FindSlave, At
<1>2. CASE K # {} /\ slaves[Min(K)] # Nil
  <2>1. Becomes(p, Job("close", "slave", job[p].addr, slaves[Min(K)])) /\ UNCHANGED <<cur, todo>>
    BY <1>2 DEF FindSlave
  <2>2. slaves \in Seq(DBs \cup {Nil}) /\ K \in SUBSET (DOMAIN slaves) /\ K \in SUBSET Nat
    BY DEF HeapInv, ListsOK, Stops
  <2>3. Min(K) \in DOMAIN slaves
    BY <1>2, <2>2, MinOfNaturals
  <2>4. slaves[Min(K)] \in DBs /\ slaves[Min(K)] \in Refs
    BY <1>2, <2>2, <2>3, RefsHas, SMTT(30)
  <2> HIDE DEF K
  <2> QED
    BY <1>1, <2>1, <2>4, TakeStep, SMTT(30)
<1>3. CASE ~(K # {} /\ slaves[Min(K)] # Nil)
  <2>1. Return(p, FALSE)
    BY <1>3, Zenon DEF FindSlave
  <2> QED
    BY <1>1, <2>1, ReturnOnward, OnwardStep, Zenon DEF HeapInv
<1> QED
  BY <1>2, <1>3

(* Order: an administrator starts with empty hands.                         *)
LEMMA OrderKeeps ==
    ASSUME HeapInv, NEW p \in Admins, NEW o \in Orders, Order(p, o)
    PROVE  HeapInv'
<1> DEFINE j == Job(IF o.op = "up" THEN "open" ELSE "find", o.kind, o.addr, Nil)
<1>1. p \in Procs /\ p # checker /\ job[p].at = "idle" /\ job[p].ref = Nil
  BY DEF Order, At, Procs, HeapInv, TaskOK
<1>2. j \in Task /\ j.ref = Nil /\ j.at \notin {"close", "mark"}
  BY NodeHealthAssumption DEF Job, Task, Places
<1>3. job' = [job EXCEPT ![p] = j] /\ UNCHANGED <<master, slaves, cur, todo>> /\ dbs' = dbs
  BY DEF Order, Becomes
<1> HIDE DEF j
<1> QED
  BY <1>1, <1>2, <1>3, EmptyHanded, Zenon
-----------------------------------------------------------------------------
(* The steps that change the slave list only.                               *)
LEMMA AddSlaveKeeps ==
    ASSUME HeapInv, NEW a \in Addrs, NEW w, AddSlave(a, w)
    PROVE  HeapInv'
<1>1. /\ UNCHANGED <<master, job, cur, todo>> /\ Stops(a) = {} /\ DBs \ DOMAIN dbs # {}
      /\ slaves \in Seq(DBs \cup {Nil}) /\ checker \in Procs
  BY DEF AddSlave, HeapInv, ListsOK, Procs
<1>2. CASE a \notin alive
  <2>1. UNCHANGED <<dbs, master, slaves, job, cur, todo>>
    BY <1>2 DEF AddSlave
  <2> QED
    BY <2>1 DEF HeapInv, ListsOK, HeapOK, Refs, DownIsClosed, Distinct
<1>3. CASE a \in alive
  <2> DEFINE h == With(NewDB, a, "Unknown")
  <2>1. NewDB \in DBs /\ NewDB \notin Refs /\ NewDB # Nil
    BY <1>1, NewDBIsNew
  <2>2. slaves' = Append(slaves, NewDB) /\ Heap(h)
    BY <1>3 DEF AddSlave
  <2>3. /\ \A e \in Refs \cup {NewDB} :
             h[e] \in Entry /\ (h[e].state \in {"Down", "ManualDown"} => ~h[e].open)
        /\ \A e \in Refs : h[e] = dbs[e]
        /\ h[NewDB].addr = a
    BY <2>1, WithNew
  <2> HIDE DEF h
  <2>4. slaves' \in Seq(DBs \cup {Nil}) /\ DOMAIN slaves' = DOMAIN slaves \cup {Len(slaves) + 1}
        /\ slaves'[Len(slaves) + 1] = NewDB /\ \A k \in DOMAIN slaves : slaves'[k] = slaves[k]
    BY <1>1, <2>1, <2>2
  <2>5. ListsOK'
    BY <1>1, <2>4 DEF HeapInv, ListsOK
  <2>6. Refs' \subseteq Refs \cup {NewDB} /\ NewDB \in Refs'
    BY <1>1, <2>1, <2>4, RefsHas
  <2>7. \A d \in Refs' : dbs'[d] = h[d]
    BY <2>2 DEF Heap
  <2>8. Distinct'
    BY <1>1, <2>2, <2>3, <2>6, <2>7, DistinctAppend
  <2>9. TaskOK(job'[checker], h)
    <3>1. TaskOK(job[checker], dbs) /\ (job[checker].ref # Nil => job[checker].ref \in Refs)
      BY <1>1, RefsHas DEF HeapInv
    <3> QED
      BY <1>1, <2>3, <3>1, Zenon DEF TaskOK
  <2> QED
    BY <1>1, <2>2, <2>3, <2>5, <2>6, <2>8, <2>9, ProcessStep, Zenon
<1> QED
  BY <1>2, <1>3

(* DeleteSlave: the entries that stay were distinct before.                 *)
LEMMA DeleteSlaveKeeps ==
    ASSUME HeapInv, NEW a \in Addrs, DeleteSlave(a)
    PROVE  HeapInv'
<1>1. /\ UNCHANGED <<master, job, cur, todo>> /\ Heap(dbs)
      /\ slaves \in Seq(DBs \cup {Nil}) /\ checker \in Procs
  BY DEF DeleteSlave, HeapInv, ListsOK, Procs
<1> DEFINE K == Positions(a)
<1>2. K \in SUBSET (DOMAIN slaves)
  BY DEF Positions
<1>3. slaves' = <<>> \/ slaves' = Kept(slaves, K)
  BY DEF DeleteSlave
<1>4. PICK f : /\ slaves' \in Seq(DBs \cup {Nil})
               /\ \A i \in DOMAIN slaves' : f[i] \in DOMAIN slaves /\ slaves'[i] = slaves[f[i]]
               /\ \A i, j \in DOMAIN slaves' : f[i] = f[j] => i = j
  <2>1. CASE slaves' = <<>>
    BY <2>1
  <2>2. CASE slaves' = Kept(slaves, K)
    <3> DEFINE g == [i \in DOMAIN slaves' |-> Place(K, i)]
    <3>1. /\ slaves' \in Seq(DBs \cup {Nil})
          /\ \A i \in DOMAIN slaves' : Place(K, i) \in K /\ slaves'[i] = slaves[Place(K, i)]
          /\ \A i, j \in DOMAIN slaves' : Place(K, i) = Place(K, j) => i = j
      BY <1>1, <1>2, <2>2, KeptIsPart
    <3>2. \A i \in DOMAIN slaves' : g[i] = Place(K, i)
      OBVIOUS
    <3>3. /\ \A i \in DOMAIN slaves' : g[i] \in DOMAIN slaves /\ slaves'[i] = slaves[g[i]]
          /\ \A i, j \in DOMAIN slaves' : g[i] = g[j] => i = j
      <4> HIDE DEF g
      <4> QED
        BY <1>2, <3>1, <3>2, SMTT(30)
    <3> QED
      BY <3>1, <3>3, Zenon
  <2> QED
    BY <1>3, <2>1, <2>2
<1>5. ListsOK'
  BY <1>1, <1>4 DEF HeapInv, ListsOK
<1>6. Refs' \subseteq Refs
  BY <1>1, <1>4, RefsHas
<1>7. \A d \in Refs' : dbs'[d] = dbs[d]
  BY <1>1 DEF Heap
<1>8. Distinct'
  <2>1. \A i \in DOMAIN slaves' : slaves'[i] # Nil => slaves'[i] \in Refs'
    BY RefsHas
  <2>2. \A i, j \in DOMAIN slaves :
          slaves[i] # Nil /\ slaves[j] # Nil /\ dbs[slaves[i]].addr = dbs[slaves[j]].addr => i = j
    BY DEF HeapInv, Distinct
  <2> QED
    BY <1>4, <1>7, <2>1, <2>2, SMTT(30) DEF Distinct
<1>9. TaskOK(job'[checker], dbs)
  BY <1>1 DEF HeapInv
<1> QED
  BY <1>1, <1>5, <1>6, <1>8, <1>9, QuietStep
-----------------------------------------------------------------------------
(* ParseMaster and ParseSlave: every DB is open and used once.              *)
LEMMA InitHeapInv == Init => HeapInv
<1> SUFFICES ASSUME Init PROVE HeapInv
  OBVIOUS
<1>1. /\ Len(InitSlaves) \in Nat /\ DOMAIN InitSlaves = 1..Len(InitSlaves)
      /\ 0..Len(InitSlaves) \subseteq DBs /\ Nil \notin DBs
      /\ \A i \in 1..Len(InitSlaves) : InitSlaves[i].addr \in Addrs
  <2>1. InitSlaves \in Seq([addr : Addrs, weight : Nat \ {0}])
    BY NodeHealthAssumption
  <2>2. Len(InitSlaves) \in Nat /\ DOMAIN InitSlaves = 1..Len(InitSlaves)
    BY <2>1
  <2>3. \A i \in 1..Len(InitSlaves) : InitSlaves[i] \in [addr : Addrs, weight : Nat \ {0}]
    <3> DEFINE T == [addr : Addrs, weight : Nat \ {0}]
    <3> HIDE DEF T
    <3>1. InitSlaves \in Seq(T)
      BY <2>1 DEF T
    <3>2. \A i \in 1..Len(InitSlaves) : InitSlaves[i] \in T
      BY <3>1
    <3> QED
      BY <3>2 DEF T
  <2> QED
    BY <2>2, <2>3, NodeHealthAssumption
<1>2. /\ master = 0 /\ cur = Nil /\ todo = <<>> /\ slaves = [i \in 1..Len(InitSlaves) |-> i]
      /\ job = [p \in Procs |-> Idle]
  BY <1>1 DEF Init
<1>3. Idle \in Task /\ Idle.ref = Nil /\ Idle.at = "idle" /\ checker \in Procs
  BY DEF Idle, Job, Task, Places, Procs
<1>4. slaves \in Seq(DBs \cup {Nil}) /\ DOMAIN slaves = 1..Len(InitSlaves)
  <2>1. slaves \in [1..Len(InitSlaves) -> DBs \cup {Nil}]
    BY <1>1, <1>2
  <2> QED
    BY <1>1, <2>1
<1>5. ListsOK
  BY <1>1, <1>2, <1>3, <1>4 DEF ListsOK
<1>6. Refs = 0..Len(InitSlaves)
  <2>1. \A d \in Refs : d \in 0..Len(InitSlaves)
    BY <1>1, <1>2, <1>3, RefsHas
  <2>2. \A d \in 0..Len(InitSlaves) : d \in Refs
    <3> TAKE d \in 0..Len(InitSlaves)
    <3>1. d # Nil
      BY <1>1
    <3>2. CASE d = 0
      BY <1>2, <3>1, <3>2, RefsHas
    <3>3. CASE d # 0
      <4>1. d \in DOMAIN slaves /\ slaves[d] = d
        BY <1>1, <1>2, <3>3
      <4> QED
        BY <3>1, <4>1, RefsHas
    <3> QED
      BY <3>2, <3>3
  <2> QED
    BY <2>1, <2>2, Zenon
<1>7. \A d \in 0..Len(InitSlaves) :
         /\ dbs[d] = [addr |-> IF d = 0 THEN MasterAddr ELSE InitSlaves[d].addr,
                      state |-> "Unknown", open |-> TRUE]
         /\ dbs[d] \in Entry
  <2>1. MasterAddr \in Addrs /\ "Unknown" \in States
    BY NodeHealthAssumption DEF States
  <2> QED
    BY <1>1, <2>1 DEF Init, Entry
<1>8. HeapOK /\ DownIsClosed
  BY <1>6, <1>7, SMTT(30) DEF Init, HeapOK, DownIsClosed
<1>9. Distinct
  <2>1. \A k \in DOMAIN slaves : slaves[k] = k /\ dbs[slaves[k]].addr = InitSlaves[k].addr
    <3> TAKE k \in DOMAIN slaves
    <3>1. k \in 1..Len(InitSlaves) /\ k \in 0..Len(InitSlaves) /\ k # 0
      BY <1>1, <1>4
    <3>2. slaves[k] = k
      BY <1>2, <3>1
    <3>3. dbs[k] = [addr |-> InitSlaves[k].addr, state |-> "Unknown", open |-> TRUE]
      BY <1>7, <3>1
    <3>4. dbs[k].addr = InitSlaves[k].addr
      BY <3>3
    <3> QED
      BY <3>2, <3>4
  <2> QED
    BY <1>1, <1>4, <2>1, NodeHealthAssumption, SMTT(30) DEF Distinct
<1>10. \A p \in Procs : TaskOK(job[p], dbs)
  BY <1>2, <1>3 DEF TaskOK
<1> QED
  BY <1>5, <1>8, <1>9, <1>10 DEF HeapInv

(* Every step of the node keeps the invariant.                              *)
LEMMA NextHeapInv ==
    ASSUME HeapInv, alive \subseteq Addrs, [Next]_vars
    PROVE  HeapInv'
<1>1. CASE UNCHANGED <<dbs, master, slaves, job, cur, todo>>
  BY <1>1 DEF HeapInv, ListsOK, HeapOK, Refs, DownIsClosed, Distinct
<1>2. CASE Check
  BY <1>2, checkMasterKeeps, checkSlaveKeeps, PingKeeps, AnsweredKeeps, NotAnsweredKeeps,
     NotManualDownKeeps, StoreUpKeeps DEF Check
<1>3. ASSUME NEW p \in Procs, Call(p) PROVE HeapInv'
  BY <1>3, UpDBKeeps, UpMasterKeeps, UpSlaveKeeps, FindMasterKeeps, FindSlaveKeeps,
     CloseDBKeeps, StoreDownKeeps DEF Call
<1>4. ASSUME NEW p \in Admins, NEW o \in Orders, Order(p, o) PROVE HeapInv'
  BY <1>4, OrderKeeps
<1>5. ASSUME NEW s \in Additions, AddSlave(s.addr, s.weight) PROVE HeapInv'
  <2>1. s.addr \in Addrs
    BY NodeHealthAssumption
  <2> QED
    BY <1>5, <2>1, AddSlaveKeeps
<1>6. ASSUME NEW a \in Addrs, DeleteSlave(a) PROVE HeapInv'
  BY <1>6, DeleteSlaveKeeps
<1>7. CASE GetNextSlave
  BY <1>1, <1>7 DEF GetNextSlave
<1>8. ASSUME NEW a \in Flaky, Flaps(a) PROVE HeapInv'
  BY <1>1, <1>8 DEF Flaps
<1>9. CASE UNCHANGED vars
  BY <1>1, <1>9 DEF vars
<1> QED
  BY <1>2, <1>3, <1>4, <1>5, <1>6, <1>7, <1>8, <1>9 DEF Next

-----------------------------------------------------------------------------
(* A new queue, for the weights there are now.                              *)
LEMMA InitBalancerKeeps ==
    ASSUME NEW ws \in Seq(Nat \ {0}), ws # <<>>, weights' = ws, slaves' # <<>>, InitBalancer(ws)
    PROVE  BalancerInv'
<1>1. last' = 0 /\ TakesTurns(queue', ws)
  BY BalancedQueue, Zenon DEF InitBalancer
<1>2. Len(ws) \in 1..Len(ws) /\ SubSeq(ws, 1, Len(ws)) = ws
  OBVIOUS
<1>3. last' \in Nat /\ weights' \in Seq(Nat \ {0})
  BY <1>1
<1>4. \E m \in 1..Len(weights') : TakesTurns(queue', SubSeq(weights', 1, m))
  BY <1>1, <1>2, Zenon
<1> QED
  BY <1>3, <1>4, Zenon DEF BalancerInv

(* A step that leaves the balancer alone and does not empty n.Slave.        *)
LEMMA BalancerStays ==
    ASSUME BalancerInv, UNCHANGED balancer, slaves # <<>> => slaves' # <<>>
    PROVE  BalancerInv'
<1>1. weights' = weights /\ queue' = queue /\ last' = last
  BY DEF balancer
<1> QED
  BY <1>1, Zenon DEF BalancerInv

(* AddSlave: a new queue, or a weight that is not in the queue.             *)
LEMMA AddSlaveBalances ==
    ASSUME HeapInv, BalancerInv, NEW a, NEW w \in Nat \ {0}, AddSlave(a, w)
    PROVE  BalancerInv'
<1>1. /\ weights \in Seq(Nat \ {0}) /\ weights' = Append(weights, w)
      /\ slaves \in Seq(DBs \cup {Nil})
  BY Zenon DEF BalancerInv, AddSlave, HeapInv, ListsOK
<1>2. weights' \in Seq(Nat \ {0}) /\ weights' # <<>>
  BY <1>1
<1>3. CASE a \in alive
  <2>1. slaves' = Append(slaves, NewDB) /\ InitBalancer(weights')
    BY <1>3, Zenon DEF AddSlave
  <2>2. slaves' # <<>>
    BY <1>1, <2>1
  <2> QED
    BY <1>2, <2>1, <2>2, InitBalancerKeeps, Zenon
<1>4. CASE a \notin alive
  <2>1. slaves' = slaves /\ queue' = queue /\ last' = last
    BY <1>4, Zenon DEF AddSlave
  <2>2. ASSUME NEW m \in 1..Len(weights)
        PROVE  m \in 1..Len(weights') /\ SubSeq(weights', 1, m) = SubSeq(weights, 1, m)
    <3>1. m \in Nat /\ m <= Len(weights) /\ Len(weights) \in Nat /\ Len(weights') = Len(weights) + 1
      BY <1>1
    <3>2. \A k \in 1..m : weights'[k] = weights[k]
      BY <1>1, <3>1
    <3>3. SubSeq(weights', 1, m) = [k \in 1..m |-> weights'[k]]
      BY <1>2, <3>1
    <3>4. SubSeq(weights, 1, m) = [k \in 1..m |-> weights[k]]
      BY <1>1, <3>1
    <3>5. m \in 1..Len(weights')
      BY <3>1
    <3> QED
      BY <3>2, <3>3, <3>4, <3>5, Zenon
  <2>3. ASSUME queue' # <<>>
        PROVE  \E m \in 1..Len(weights') : TakesTurns(queue', SubSeq(weights', 1, m))
    <3>1. PICK m \in 1..Len(weights) : TakesTurns(queue, SubSeq(weights, 1, m))
      BY <2>1, <2>3, Zenon DEF BalancerInv
    <3> QED
      BY <2>1, <2>2, <3>1, Zenon
  <2> QED
    BY <1>2, <2>1, <2>3, Zenon DEF BalancerInv
<1> QED
  BY <1>3, <1>4

(* A part that keeps a place is not empty.                                  *)
LEMMA KeptSome ==
    ASSUME NEW s, NEW n \in Nat, NEW K \in SUBSET (1..n), K # {}
    PROVE  Kept(s, K) # <<>>
<1>1. IsFiniteSet(1..n)
  BY FS_Interval
<1>2. IsFiniteSet(K)
  BY <1>1, FS_Subset, Zenon
<1>3. Cardinality(K) \in Nat /\ Cardinality(K) # 0
  BY <1>2, FS_CardinalityType, FS_EmptySet
<1>4. DOMAIN Kept(s, K) = 1..Cardinality(K)
  BY Zenon DEF Kept
<1>5. 1 \in 1..Cardinality(K)
  BY <1>3
<1>6. DOMAIN <<>> = {}
  OBVIOUS
<1> QED
  BY <1>4, <1>5, <1>6, Zenon

(* DeleteSlave: only one of several slaves has the address, so some stay.   *)
LEMMA DeleteSlaveLeaves ==
    ASSUME HeapInv, NEW a, DeleteSlave(a), Len(slaves) # 1
    PROVE  slaves' # <<>> /\ Positions(a) # {}
<1> DEFINE K == Positions(a)
<1>1. slaves \in Seq(DBs \cup {Nil})
  BY Zenon DEF HeapInv, ListsOK
<1>2. Nil \notin ToSet(slaves) /\ slaves' = Kept(slaves, K) /\ Stops(a) # {}
  BY Zenon DEF DeleteSlave
<1>3. K \subseteq 1..Len(slaves) /\ Len(slaves) \in Nat /\ DOMAIN slaves = 1..Len(slaves)
  BY <1>1 DEF Positions
<1>4. \A k \in DOMAIN slaves : slaves[k] # Nil
  BY <1>2, Zenon DEF ToSet
<1>5. PICK k \in DOMAIN slaves : dbs[slaves[k]].addr = a
  BY <1>2, <1>4, Zenon DEF Stops
<1>6. PICK j \in DOMAIN slaves : j # k
  <2>1. k \in 1..Len(slaves)
    BY <1>3, <1>5, Zenon
  <2>2. \E j \in 1..Len(slaves) : j # k
    <3>1. 1 \in 1..Len(slaves) /\ 2 \in 1..Len(slaves)
      BY <1>3, <2>1
    <3> QED
      BY <3>1
  <2> QED
    BY <1>3, <2>2, Zenon
<1>7. dbs[slaves[j]].addr # a
  BY <1>4, <1>5, <1>6, Zenon DEF HeapInv, Distinct
<1>8. K # {}
  BY <1>6, <1>7, Zenon DEF Positions
<1> QED
  BY <1>2, <1>3, <1>8, KeptSome, Zenon

(* DeleteSlave: a new queue for the weights that stay.                      *)
LEMMA DeleteSlaveBalances ==
    ASSUME HeapInv, BalancerInv, NEW a, DeleteSlave(a)
    PROVE  BalancerInv'
<1>1. weights \in Seq(Nat \ {0}) /\ last \in Nat /\ slaves \in Seq(DBs \cup {Nil})
  BY Zenon DEF BalancerInv, HeapInv, ListsOK
<1>2. CASE Len(slaves) = 1
  <2>1. weights' = <<>> /\ queue' = <<>> /\ last' = last
    BY <1>2, Zenon DEF DeleteSlave
  <2>2. weights' \in Seq(Nat \ {0})
    BY <2>1
  <2> QED
    BY <1>1, <2>1, <2>2, Zenon DEF BalancerInv
<1>3. CASE Len(slaves) # 1
  <2> DEFINE K == Positions(a)
  <2>1. /\ Nil \notin ToSet(slaves) /\ K \subseteq DOMAIN weights
        /\ slaves' = Kept(slaves, K) /\ weights' = Kept(weights, K) /\ InitBalancer(weights')
        /\ Stops(a) # {}
    BY <1>3, Zenon DEF DeleteSlave
  <2>8. slaves' # <<>> /\ K # {}
    BY <1>3, DeleteSlaveLeaves, Zenon
  <2>9. Len(weights) \in Nat /\ DOMAIN weights = 1..Len(weights)
    BY <1>1
  <2>10. weights' # <<>>
    BY <2>1, <2>8, <2>9, KeptSome, Zenon
  <2>11. weights' \in Seq(Nat \ {0})
    BY <1>1, <2>1, KeptIsPart, Zenon
  <2> QED
    BY <2>1, <2>8, <2>10, <2>11, InitBalancerKeeps, Zenon
<1> QED
  BY <1>2, <1>3

(* UpSlave replaces an entry of n.Slave or appends one.                     *)
LEMMA UpSlaveBalances ==
    ASSUME HeapInv, BalancerInv, NEW p \in Procs, UpSlave(p)
    PROVE  BalancerInv'
<1> DEFINE K == Stops(job[p].addr)
           r == job[p].ref
<1>1. slaves \in Seq(DBs \cup {Nil})
  BY Zenon DEF HeapInv, ListsOK
<1>2. UNCHANGED balancer
  BY Zenon DEF UpSlave
<1>3. \/ slaves' = slaves \/ slaves' = Append(slaves, r)
      \/ slaves' = [slaves EXCEPT ![Min(K)] = r]
  BY Zenon DEF UpSlave
<1> HIDE DEF K, r
<1>4. slaves # <<>> => slaves' # <<>>
  <2>1. CASE slaves' = Append(slaves, r)
    BY <1>1, <2>1
  <2>2. CASE slaves' = [slaves EXCEPT ![Min(K)] = r]
    <3>1. DOMAIN slaves' = DOMAIN slaves
      BY <2>2, Zenon
    <3>2. slaves # <<>> => 1 \in DOMAIN slaves
      BY <1>1
    <3>3. DOMAIN <<>> = {}
      OBVIOUS
    <3> QED
      BY <3>1, <3>2, <3>3, Zenon
  <2> QED
    BY <1>3, <2>1, <2>2, Zenon
<1> QED
  BY <1>2, <1>4, BalancerStays, Zenon

(* GetNextSlave: the next place in the queue.                               *)
LEMMA GetNextSlaveBalances ==
    ASSUME HeapInv, BalancerInv, GetNextSlave
    PROVE  BalancerInv'
<1>1. UNCHANGED <<slaves, weights, queue>>
  BY Zenon DEF GetNextSlave
<1>2. last' \in Nat
  <2> DEFINE l == Len(queue)
             pos == last % l
  <2>1. queue \in Seq(Nat \ {0})
    BY BalancerInvShows, Zenon DEF HeapInv, ListsOK
  <2>2. l \in Nat /\ l > 1 /\ last \in Nat
    BY <2>1 DEF BalancerInv, GetNextSlave
  <2>3. last' = pos \/ last' = (pos + 1) % l
    BY Zenon DEF GetNextSlave
  <2> HIDE DEF l
  <2>4. pos \in Nat
    BY <2>2
  <2>5. (pos + 1) % l \in Nat
    <3> HIDE DEF pos
    <3> QED
      BY <2>2, <2>4
  <2> QED
    BY <2>3, <2>4, <2>5, Zenon
<1> QED
  BY <1>1, <1>2, Zenon DEF BalancerInv
-----------------------------------------------------------------------------
(* ParseSlave: a queue for the weights in the configuration.                *)
LEMMA InitBalancerInv == Init => BalancerInv
<1> SUFFICES ASSUME Init PROVE BalancerInv
  OBVIOUS
<1> DEFINE T == [addr : Addrs, weight : Nat \ {0}]
<1>1. weights \in Seq(Nat \ {0}) /\ (weights # <<>> => slaves # <<>>)
  <2>1. InitSlaves \in Seq(T)
    BY NodeHealthAssumption, Zenon
  <2>2. \A t \in T : t.weight \in Nat \ {0}
    OBVIOUS
  <2> HIDE DEF T
  <2>3. /\ Len(InitSlaves) \in Nat /\ DOMAIN InitSlaves = 1..Len(InitSlaves)
        /\ \A i \in DOMAIN InitSlaves : InitSlaves[i] \in T
    BY <2>1
  <2>4. weights = [i \in DOMAIN InitSlaves |-> InitSlaves[i].weight]
        /\ slaves = [i \in DOMAIN InitSlaves |-> i]
    BY Zenon DEF Init
  <2>5. weights \in [1..Len(InitSlaves) -> Nat \ {0}] /\ DOMAIN weights = DOMAIN slaves
    BY <2>2, <2>3, <2>4, Zenon
  <2>6. weights \in Seq(Nat \ {0})
    BY <2>3, <2>5
  <2>7. weights # <<>> => 1 \in DOMAIN weights
    BY <2>6
  <2>8. DOMAIN <<>> = {}
    OBVIOUS
  <2> QED
    BY <2>5, <2>6, <2>7, <2>8, Zenon
<1>2. last \in Nat
  BY DEF Init
<1>3. CASE weights = <<>>
  <2>1. queue = <<>>
    BY <1>3, Zenon DEF Init
  <2> QED
    BY <1>1, <1>2, <2>1, Zenon DEF BalancerInv
<1>4. CASE weights # <<>>
  <2>1. queue \in IF Len(weights) > 1 THEN Shuffles(Expand(weights)) ELSE {Expand(weights)}
    BY <1>4, Zenon DEF Init
  <2>2. TakesTurns(queue, weights)
    BY <1>1, <1>4, <2>1, BalancedQueue, Zenon
  <2>3. Len(weights) \in 1..Len(weights) /\ SubSeq(weights, 1, Len(weights)) = weights
    BY <1>1, <1>4
  <2>4. \E m \in 1..Len(weights) : TakesTurns(queue, SubSeq(weights, 1, m))
    BY <2>2, <2>3, Zenon
  <2> QED
    BY <1>1, <1>2, <1>4, <2>4, Zenon DEF BalancerInv
<1> QED
  BY <1>3, <1>4

(* Every other step leaves the balancer and n.Slave as they are.            *)
LEMMA NextBalancerInv ==
    ASSUME HeapInv, BalancerInv, [Next]_vars
    PROVE  BalancerInv'
<1>1. CASE UNCHANGED <<slaves, balancer>>
  <2>1. UNCHANGED balancer /\ slaves' = slaves
    BY <1>1, Zenon
  <2> QED
    BY <2>1, BalancerStays, Zenon
<1>2. CASE Check
  <2>1. UNCHANGED <<slaves, balancer>>
    BY <1>2, Zenon DEF Check, checkMaster, checkSlave, Ping, Answered, NotAnswered, NotManualDown,
                       StoreUp
  <2> QED
    BY <1>1, <2>1
<1>3. ASSUME NEW p \in Procs, Call(p) PROVE BalancerInv'
  <2>1. CASE UpSlave(p)
    BY <2>1, UpSlaveBalances, Zenon
  <2>2. CASE UpDB(p) \/ UpMaster(p) \/ FindMaster(p) \/ FindSlave(p) \/ CloseDB(p) \/ StoreDown(p)
    <3>1. UNCHANGED <<slaves, balancer>>
      BY <2>2, Zenon DEF UpDB, UpMaster, FindMaster, FindSlave, CloseDB, StoreDown
    <3> QED
      BY <1>1, <3>1
  <2> QED
    BY <1>3, <2>1, <2>2, Zenon DEF Call
<1>4. ASSUME NEW p \in Admins, NEW o \in Orders, Order(p, o) PROVE BalancerInv'
  <2>1. UNCHANGED <<slaves, balancer>>
    BY <1>4, Zenon DEF Order
  <2> QED
    BY <1>1, <2>1
<1>5. ASSUME NEW s \in Additions, AddSlave(s.addr, s.weight) PROVE BalancerInv'
  <2>1. s.weight \in Nat \ {0}
    BY NodeHealthAssumption
  <2> QED
    BY <1>5, <2>1, AddSlaveBalances, Zenon
<1>6. ASSUME NEW a \in Addrs, DeleteSlave(a) PROVE BalancerInv'
  BY <1>6, DeleteSlaveBalances, Zenon
<1>7. CASE GetNextSlave
  BY <1>7, GetNextSlaveBalances, Zenon
<1>8. ASSUME NEW a \in Flaky, Flaps(a) PROVE BalancerInv'
  <2>1. UNCHANGED <<slaves, balancer>>
    BY <1>8, Zenon DEF Flaps
  <2> QED
    BY <1>1, <2>1
<1>9. CASE UNCHANGED vars
  <2>1. UNCHANGED <<slaves, balancer>>
    BY <1>9, Zenon DEF vars, balancer
  <2> QED
    BY <1>1, <2>1
<1> QED
  BY <1>2, <1>3, <1>4, <1>5, <1>6, <1>7, <1>8, <1>9, Zenon DEF Next

(* The servers and the two flags.                                           *)
FlagsOK == alive \subseteq Addrs /\ crashed \in BOOLEAN /\ stuck \in BOOLEAN

(* Every step keeps the types of the remaining variables.                  *)
LEMMA NextFlagsOK ==
    ASSUME FlagsOK, [Next]_vars
    PROVE  FlagsOK'
<1>1. CASE UNCHANGED <<alive, crashed, stuck>>
  BY <1>1, Zenon DEF FlagsOK
<1>2. CASE Check
  <2>1. UNCHANGED <<alive, stuck>> /\ (crashed' = crashed \/ crashed' = TRUE)
    BY <1>2, Zenon DEF Check, checkMaster, checkSlave, Ping, Answered, NotAnswered, NotManualDown,
                       StoreUp
  <2> QED
    BY <2>1, Zenon DEF FlagsOK
<1>3. ASSUME NEW p \in Procs, Call(p) PROVE FlagsOK'
  <2>1. alive' = alive
    BY <1>3, Zenon DEF Call, UpDB, UpMaster, UpSlave, FindMaster, FindSlave, CloseDB, StoreDown
  <2>2. stuck' = stuck \/ stuck' = TRUE
    BY <1>3, Zenon DEF Call, UpDB, UpMaster, UpSlave, FindMaster, FindSlave, CloseDB, StoreDown
  <2>3. \/ crashed' = crashed \/ crashed' = (p = checker)
        \/ crashed' = (p = checker /\ Stops(job[p].addr) # {})
    BY <1>3, Zenon DEF Call, UpDB, UpMaster, UpSlave, FindMaster, FindSlave, CloseDB, StoreDown
  <2>4. crashed' \in BOOLEAN /\ stuck' \in BOOLEAN
    BY <2>2, <2>3, Zenon DEF FlagsOK
  <2> QED
    BY <2>1, <2>4, Zenon DEF FlagsOK
<1>4. ASSUME NEW a \in Flaky, Flaps(a) PROVE FlagsOK'
  <2>1. a \in Addrs
    BY NodeHealthAssumption, Zenon
  <2>2. (alive' = alive \ {a} \/ alive' = alive \cup {a}) /\ UNCHANGED <<crashed, stuck>>
    BY <1>4, Zenon DEF Flaps
  <2> QED
    BY <2>1, <2>2, Zenon DEF FlagsOK
<1>5. CASE UNCHANGED vars
  BY <1>1, <1>5, Zenon DEF vars
<1>6. ASSUME NEW p \in Admins, NEW o \in Orders, Order(p, o) PROVE FlagsOK'
  BY <1>1, <1>6, Zenon DEF Order
<1>7. ASSUME NEW s \in Additions, AddSlave(s.addr, s.weight) PROVE FlagsOK'
  BY <1>1, <1>7, Zenon DEF AddSlave
<1>8. ASSUME NEW a \in Addrs, DeleteSlave(a) PROVE FlagsOK'
  BY <1>1, <1>8, Zenon DEF DeleteSlave
<1>9. CASE GetNextSlave
  BY <1>1, <1>9, Zenon DEF GetNextSlave
<1> QED
  BY <1>2, <1>3, <1>4, <1>5, <1>6, <1>7, <1>8, <1>9, Zenon DEF Next

(* What holds of a node at all times.                                       *)
NodeInv == HeapInv /\ BalancerInv /\ FlagsOK

(* The parts of the inductive invariant hold together.                     *)
LEMMA NodeInvHolds == Spec => []NodeInv
<1>1. Init => NodeInv
  <2>1. Init => FlagsOK
    BY Zenon DEF Init, FlagsOK
  <2> QED
    BY <2>1, InitHeapInv, InitBalancerInv, Zenon DEF NodeInv
<1>2. NodeInv /\ [Next]_vars => NodeInv'
  <2> SUFFICES ASSUME NodeInv, [Next]_vars PROVE NodeInv'
    OBVIOUS
  <2>1. HeapInv /\ BalancerInv /\ FlagsOK /\ alive \subseteq Addrs
    BY Zenon DEF NodeInv, FlagsOK
  <2>2. HeapInv'
    BY <2>1, NextHeapInv, Zenon
  <2>3. BalancerInv'
    BY <2>1, NextBalancerInv, Zenon
  <2>4. FlagsOK'
    BY <2>1, NextFlagsOK, Zenon
  <2> QED
    BY <2>2, <2>3, <2>4, Zenon DEF NodeInv
<1> QED
  BY <1>1, <1>2, PTL DEF Spec

(* DownMaster and DownSlave close a DB before they mark it, and neither the *)
(* checker nor another administrator can have put an open one in its place: *)
(* at no time is a DB marked Down or ManualDown with its pool open.         *)
THEOREM DownDBsAreClosed == Spec => []DownIsClosed
<1>1. NodeInv => DownIsClosed
  BY DEF NodeInv, HeapInv
<1> QED
  BY <1>1, NodeInvHolds, PTL

(* UpSlave, AddSlave and DeleteSlave, of however many administrators and    *)
(* of the checker, never leave two entries of one server in n.Slave.        *)
THEOREM OneEntryPerServer == Spec => []Distinct
<1>1. NodeInv => Distinct
  BY DEF NodeInv, HeapInv
<1> QED
  BY <1>1, NodeInvHolds, PTL

(* The heap holds exactly the DBs in use, n.Master is never nil, and every  *)
(* variable stays within its type.                                          *)
THEOREM NodeTypes == Spec => []TypeOK
<1>1. NodeInv => TypeOK
  <2> SUFFICES ASSUME NodeInv PROVE TypeOK
    OBVIOUS
  <2>1. HeapInv /\ ListsOK /\ HeapOK /\ BalancerInv /\ FlagsOK
    BY Zenon DEF NodeInv, HeapInv
  <2>2. DOMAIN dbs = Refs /\ \A d \in DOMAIN dbs : dbs[d] \in Entry
    BY <2>1 DEF HeapOK
  <2>3. \A d \in Refs : d \in DBs
    <3>1. /\ master \in DBs /\ cur \in DBs \cup {Nil} /\ \A p \in Procs : job[p] \in Task
          /\ slaves \in Seq(DBs \cup {Nil}) /\ todo \in Seq(DBs \cup {Nil})
      BY <2>1 DEF ListsOK
    <3>2. \A p \in Procs : job[p].ref \in DBs \cup {Nil}
      BY <3>1 DEF Task
    <3>3. /\ \A k \in DOMAIN slaves : slaves[k] \in DBs \cup {Nil}
          /\ \A k \in DOMAIN todo : todo[k] \in DBs \cup {Nil}
      BY <3>1
    <3> TAKE d \in Refs
    <3>4. /\ d # Nil
          /\ \/ d = master \/ d = cur
             \/ \E k \in DOMAIN slaves : slaves[k] = d
             \/ \E k \in DOMAIN todo : todo[k] = d
             \/ \E p \in Procs : job[p].ref = d
      BY RefsHas, Zenon
    <3> QED
      BY <3>1, <3>2, <3>3, <3>4
  <2>4. queue \in Seq(Nat \ {0})
    BY <2>1, BalancerInvShows, Zenon DEF ListsOK
  <2> QED
    BY <2>1, <2>2, <2>3, <2>4, Zenon DEF TypeOK, ListsOK, Entry, Task, BalancerInv, FlagsOK
<1> QED
  BY <1>1, NodeInvHolds, PTL

(* GetNextSlave, which checks no bound when the queue has one element,      *)
(* finds the slave that this element names, after whatever additions,       *)
(* failed ones included, deletions and replacements.                        *)
THEOREM OneElementQueueIsSafe == Spec => []SafeIndex
<1>1. NodeInv => SafeIndex
  BY BalancerInvShows, Zenon DEF NodeInv, HeapInv, ListsOK
<1> QED
  BY <1>1, NodeInvHolds, PTL

-----------------------------------------------------------------------------
(* A DB keeps its address for as long as it is referred to.                 *)
LEMMA AddrsStay ==
    ASSUME HeapInv, alive \subseteq Addrs, [Next]_vars
    PROVE  \A d \in Refs \cap Refs' : dbs'[d].addr = dbs[d].addr
<1>1. ASSUME Heap(dbs) \/ dbs' = dbs
      PROVE  \A d \in Refs \cap Refs' : dbs'[d].addr = dbs[d].addr
  BY <1>1, Zenon DEF Heap
<1>2. ASSUME NEW x, NEW st, Heap([dbs EXCEPT ![x].state = st])
      PROVE  \A d \in Refs \cap Refs' : dbs'[d].addr = dbs[d].addr
  <2>1. \A d \in Refs : [dbs EXCEPT ![x].state = st][d].addr = dbs[d].addr
    BY Zenon DEF HeapInv, HeapOK, Entry
  <2> QED
    BY <1>2, <2>1, Zenon DEF Heap
<1>3. ASSUME NEW x, dbs' = [dbs EXCEPT ![x].open = FALSE]
      PROVE  \A d \in Refs \cap Refs' : dbs'[d].addr = dbs[d].addr
  BY <1>3, Zenon DEF HeapInv, HeapOK, Entry
<1>4. ASSUME NEW a \in Addrs, NEW st \in {"Up", "Unknown"}, DBs \ DOMAIN dbs # {},
             Heap(With(NewDB, a, st))
      PROVE  \A d \in Refs \cap Refs' : dbs'[d].addr = dbs[d].addr
  <2>1. NewDB \notin Refs
    BY <1>4, NewDBIsNew, Zenon
  <2>2. \A e \in Refs : With(NewDB, a, st)[e] = dbs[e]
    BY <2>1, WithNew, Zenon
  <2> QED
    BY <1>4, <2>2, Zenon DEF Heap
<1>5. CASE Check
  <2>1. CASE StoreUp
    BY <1>2, <2>1, Zenon DEF StoreUp
  <2>2. CASE checkMaster \/ checkSlave \/ Ping \/ Answered \/ NotAnswered \/ NotManualDown
    BY <1>1, <2>2, Zenon DEF checkMaster, checkSlave, Ping, Answered, NotAnswered, NotManualDown
  <2> QED
    BY <1>5, <2>1, <2>2, Zenon DEF Check
<1>6. ASSUME NEW p \in Procs, Call(p)
      PROVE  \A d \in Refs \cap Refs' : dbs'[d].addr = dbs[d].addr
  <2>1. CASE StoreDown(p)
    BY <1>2, <2>1, Zenon DEF StoreDown
  <2>2. CASE CloseDB(p)
    BY <1>3, <2>2, Zenon DEF CloseDB
  <2>3. CASE UpDB(p)
    <3>1. CASE job[p].addr \in alive
      BY <1>4, <2>3, <3>1, Zenon DEF UpDB
    <3>2. CASE job[p].addr \notin alive
      BY <1>1, <2>3, <3>2, Zenon DEF UpDB
    <3> QED
      BY <3>1, <3>2, Zenon
  <2>4. CASE UpMaster(p) \/ UpSlave(p) \/ FindMaster(p) \/ FindSlave(p)
    BY <1>1, <2>4, Zenon DEF UpMaster, UpSlave, FindMaster, FindSlave
  <2> QED
    BY <1>6, <2>1, <2>2, <2>3, <2>4, Zenon DEF Call
<1>7. ASSUME NEW s \in Additions, AddSlave(s.addr, s.weight)
      PROVE  \A d \in Refs \cap Refs' : dbs'[d].addr = dbs[d].addr
  <2>1. CASE s.addr \in alive
    BY <1>4, <1>7, <2>1, Zenon DEF AddSlave
  <2>2. CASE s.addr \notin alive
    BY <1>1, <1>7, <2>2, Zenon DEF AddSlave
  <2> QED
    BY <2>1, <2>2, Zenon
<1>8. ASSUME NEW a \in Addrs, DeleteSlave(a)
      PROVE  \A d \in Refs \cap Refs' : dbs'[d].addr = dbs[d].addr
  BY <1>1, <1>8, Zenon DEF DeleteSlave
<1>9. CASE GetNextSlave \/ (\E p \in Admins, o \in Orders : Order(p, o)) \/ (\E a \in Flaky : Flaps(a))
  BY <1>1, <1>9, Zenon DEF GetNextSlave, Order, Flaps
<1>10. CASE UNCHANGED vars
  BY <1>1, <1>10, Zenon DEF vars
<1> QED
  BY <1>5, <1>6, <1>7, <1>8, <1>9, <1>10, Zenon DEF Next

(* A slave list of which every entry stands for the server of one entry of  *)
(* the old list, with that entry's weight.                                  *)
LEMMA WeightsFollow ==
    ASSUME HeapInv, NEW f,
           \A k \in DOMAIN slaves' :
               slaves'[k] # Nil =>
                   \/ \A j \in DOMAIN slaves : slaves[j] # Nil => dbs[slaves[j]].addr # dbs'[slaves'[k]].addr
                   \/ /\ f[k] \in DOMAIN slaves /\ slaves[f[k]] # Nil
                      /\ dbs[slaves[f[k]]].addr = dbs'[slaves'[k]].addr
                      /\ weights'[k] = weights[f[k]]
    PROVE  KeepWeights
<1>1. \A j, k \in DOMAIN slaves :
        slaves[j] # Nil /\ slaves[k] # Nil /\ dbs[slaves[j]].addr = dbs[slaves[k]].addr => j = k
  BY Zenon DEF HeapInv, Distinct
<1> QED
  BY <1>1 DEF KeepWeights

(* The slaves before and after the step.                                    *)
LEMMA SlavesInHeap ==
    /\ \A k \in DOMAIN slaves : slaves[k] # Nil => slaves[k] \in Refs
    /\ \A k \in DOMAIN slaves' : slaves'[k] # Nil => slaves'[k] \in Refs'
  BY RefsHas

(* InitBalancer for weights as many as the slaves.                          *)
LEMMA BalancerTurns ==
    ASSUME weights' \in Seq(Nat \ {0}), weights' # <<>>, slaves' \in Seq(DBs \cup {Nil}),
           Len(slaves') = Len(weights'), InitBalancer(weights')
    PROVE  InTurn'
<1> DEFINE ws == weights'
<1>1. TakesTurns(queue', ws)
  BY BalancedQueue, Zenon DEF InitBalancer
<1>2. /\ ToSet(queue') = 1..Len(ws)
      /\ \A i, j \in 1..Len(ws) : ws[i] * Occurrences(queue', j) = ws[j] * Occurrences(queue', i)
  BY <1>1, TurnsAreShares, Zenon
<1>3. DOMAIN slaves' = 1..Len(ws)
  OBVIOUS
<1> QED
  BY <1>2, <1>3, Zenon DEF InTurn

(* Steps that leave the slaves and the balancer alone.                      *)
LEMMA TurnsStay ==
    ASSUME HeapInv, InTurn, UNCHANGED <<slaves, weights, queue>>,
           \A d \in Refs \cap Refs' : dbs'[d].addr = dbs[d].addr
    PROVE  InTurn' /\ KeepWeights
<1>1. slaves' = slaves /\ weights' = weights /\ queue' = queue
  OBVIOUS
<1>2. InTurn'
  BY <1>1, Zenon DEF InTurn
<1> DEFINE f == [k \in DOMAIN slaves |-> k]
<1>3. \A k \in DOMAIN slaves : f[k] = k
  BY Zenon
<1> HIDE DEF f
<1>4. KeepWeights
  BY <1>1, <1>3, SlavesInHeap, WeightsFollow
<1> QED
  BY <1>2, <1>4

(* AddSlave: the new slave comes last, with the last weight.                *)
LEMMA AddSlaveTurns ==
    ASSUME HeapInv, BalancerInv, InTurn, NEW a, NEW w \in Nat \ {0}, AddSlave(a, w),
           \A d \in Refs \cap Refs' : dbs'[d].addr = dbs[d].addr
    PROVE  (InTurn' /\ KeepWeights) \/ OneTooMany
<1>1. /\ weights \in Seq(Nat \ {0}) /\ weights' = Append(weights, w)
      /\ slaves \in Seq(DBs \cup {Nil}) /\ Stops(a) = {} /\ Len(slaves) = Len(weights)
  BY Zenon DEF BalancerInv, AddSlave, HeapInv, ListsOK, InTurn
<1>2. /\ weights' \in Seq(Nat \ {0}) /\ weights' # <<>> /\ Len(weights') = Len(weights) + 1
      /\ \A k \in DOMAIN slaves : weights'[k] = weights[k]
  BY <1>1
<1>3. CASE a \notin alive
  BY <1>2, <1>3, Zenon DEF AddSlave, OneTooMany
<1>4. CASE a \in alive
  <2>1. slaves' = Append(slaves, NewDB) /\ InitBalancer(weights') /\ Heap(With(NewDB, a, "Unknown"))
        /\ DBs \ DOMAIN dbs # {}
    BY <1>4, Zenon DEF AddSlave
  <2>2. NewDB \in DBs /\ NewDB \notin Refs /\ NewDB # Nil
    BY <2>1, NewDBIsNew, Zenon
  <2>3. slaves' \in Seq(DBs \cup {Nil}) /\ Len(slaves') = Len(weights')
        /\ DOMAIN slaves' = DOMAIN slaves \cup {Len(slaves) + 1}
        /\ slaves'[Len(slaves) + 1] = NewDB /\ \A k \in DOMAIN slaves : slaves'[k] = slaves[k]
    BY <1>1, <1>2, <2>1, <2>2
  <2>4. InTurn'
    BY <1>2, <2>1, <2>3, BalancerTurns, Zenon
  <2>5. dbs'[NewDB].addr = a
    <3>1. NewDB \in Refs'
      BY <2>2, <2>3, RefsHas
    <3>2. dbs'[NewDB] = With(NewDB, a, "Unknown")[NewDB]
      BY <2>1, <3>1, Zenon DEF Heap
    <3> QED
      BY <3>2 DEF With
  <2>6. \A j \in DOMAIN slaves : slaves[j] # Nil => dbs[slaves[j]].addr # a
    BY <1>1, Zenon DEF Stops
  <2> DEFINE f == [k \in DOMAIN slaves' |-> k]
  <2>7. \A k \in DOMAIN slaves' : f[k] = k
    BY Zenon
  <2> HIDE DEF f
  <2>8. KeepWeights
    <3>1. \A k \in DOMAIN slaves : slaves[k] # Nil => dbs'[slaves'[k]].addr = dbs[slaves[k]].addr
      BY <2>3, SlavesInHeap
    <3>2. ASSUME NEW k \in DOMAIN slaves', slaves'[k] # Nil
          PROVE  \/ \A j \in DOMAIN slaves :
                        slaves[j] # Nil => dbs[slaves[j]].addr # dbs'[slaves'[k]].addr
                 \/ /\ f[k] \in DOMAIN slaves /\ slaves[f[k]] # Nil
                    /\ dbs[slaves[f[k]]].addr = dbs'[slaves'[k]].addr
                    /\ weights'[k] = weights[f[k]]
      <4>1. CASE k \in DOMAIN slaves
        BY <1>2, <2>3, <2>7, <3>1, <3>2, <4>1, Zenon
      <4>2. CASE k = Len(slaves) + 1
        BY <2>3, <2>5, <2>6, <4>2, Zenon
      <4> QED
        BY <2>3, <3>2, <4>1, <4>2, Zenon
    <3> QED
      BY <3>2, WeightsFollow, Zenon
  <2> QED
    BY <2>4, <2>8
<1> QED
  BY <1>3, <1>4

(* DeleteSlave: the slaves that stay and their weights are taken from the   *)
(* same places.                                                             *)
LEMMA DeleteSlaveTurns ==
    ASSUME HeapInv, BalancerInv, InTurn, NEW a, DeleteSlave(a),
           \A d \in Refs \cap Refs' : dbs'[d].addr = dbs[d].addr
    PROVE  InTurn' /\ KeepWeights
<1>1. /\ weights \in Seq(Nat \ {0}) /\ slaves \in Seq(DBs \cup {Nil}) /\ Len(slaves) = Len(weights)
      /\ DOMAIN slaves = 1..Len(slaves) /\ DOMAIN weights = 1..Len(weights)
  BY DEF BalancerInv, HeapInv, ListsOK, InTurn
<1>2. CASE Len(slaves) = 1
  <2>1. slaves' = <<>> /\ weights' = <<>> /\ queue' = <<>>
    BY <1>2, Zenon DEF DeleteSlave
  <2> QED
    BY <2>1 DEF InTurn, KeepWeights, ToSet
<1>3. CASE Len(slaves) # 1
  <2> DEFINE K == Positions(a)
             f == [k \in DOMAIN slaves' |-> Place(K, k)]
  <2>1. /\ Nil \notin ToSet(slaves)
        /\ slaves' = Kept(slaves, K) /\ weights' = Kept(weights, K) /\ InitBalancer(weights')
    BY <1>3, Zenon DEF DeleteSlave
  <2>2. BalancerInv'
    BY DeleteSlaveBalances, Zenon
  <2>3. K \in SUBSET (DOMAIN slaves) /\ K \in SUBSET (DOMAIN weights)
    BY <1>1 DEF Positions
  <2>4. \A k \in DOMAIN slaves' : f[k] = Place(K, k)
    BY Zenon
  <2> HIDE DEF f, K
  <2>5. /\ slaves' \in Seq(DBs \cup {Nil})
        /\ \A i \in DOMAIN slaves' : Place(K, i) \in K /\ slaves'[i] = slaves[Place(K, i)]
    <3>1. slaves \in Seq(DBs \cup {Nil})
      BY <1>1, Zenon
    <3>2. K \in SUBSET (DOMAIN slaves)
      BY <2>3, Zenon
    <3>3. /\ Kept(slaves, K) \in Seq(DBs \cup {Nil})
          /\ \A i \in DOMAIN Kept(slaves, K) : Place(K, i) \in K /\ Kept(slaves, K)[i] = slaves[Place(K, i)]
      BY <3>1, <3>2, KeptIsPart, Zenon
    <3> QED BY <2>1, <3>3, Zenon
  <2>6. /\ weights' \in Seq(Nat \ {0})
        /\ \A i \in DOMAIN weights' : weights'[i] = weights[Place(K, i)]
    <3>1. weights \in Seq(Nat \ {0})
      BY <1>1, Zenon
    <3>2. K \in SUBSET (DOMAIN weights)
      BY <2>3, Zenon
    <3>3. /\ Kept(weights, K) \in Seq(Nat \ {0})
          /\ \A i \in DOMAIN Kept(weights, K) : Kept(weights, K)[i] = weights[Place(K, i)]
      BY <3>1, <3>2, KeptIsPart
    <3> QED BY <2>1, <3>3, Zenon
  <2>7. DOMAIN slaves' = DOMAIN weights'
    BY <2>1, Zenon DEF Kept
  <2>8. Len(slaves') = Len(weights')
    BY <2>5, <2>6, <2>7
  <2>9. \A k \in DOMAIN slaves : slaves[k] # Nil
    BY <2>1, Zenon DEF ToSet
  <2>10. KeepWeights
    <3>1. \A k \in DOMAIN slaves' :
            /\ f[k] \in DOMAIN slaves /\ slaves[f[k]] # Nil
            /\ slaves'[k] = slaves[f[k]] /\ weights'[k] = weights[f[k]]
      BY <2>3, <2>4, <2>5, <2>6, <2>7, <2>9, Zenon
    <3>2. \A k \in DOMAIN slaves' : dbs'[slaves'[k]].addr = dbs[slaves[f[k]]].addr
      BY <3>1, SlavesInHeap
    <3> QED
      BY <3>1, <3>2, WeightsFollow, Zenon
  <2>11. weights' # <<>>
    <3>1. slaves' # <<>>
      BY <1>3, DeleteSlaveLeaves, Zenon
    <3> QED
      BY <2>5, <2>6, <2>8, <3>1
  <2>12. InTurn'
    BY <2>1, <2>5, <2>6, <2>8, <2>11, BalancerTurns, Zenon
  <2> QED
    BY <2>10, <2>12
<1> QED
  BY <1>2, <1>3

(* UpSlave: the new DB has the address of the one it replaces.              *)
LEMMA UpSlaveTurns ==
    ASSUME HeapInv, BalancerInv, InTurn, NEW p \in Procs, UpSlave(p),
           \A d \in Refs \cap Refs' : dbs'[d].addr = dbs[d].addr
    PROVE  (InTurn' /\ KeepWeights) \/ OneTooMany
<1> DEFINE a == job[p].addr
           r == job[p].ref
           K == Stops(a)
<1>1. /\ slaves \in Seq(DBs \cup {Nil}) /\ UNCHANGED <<weights, queue>>
      /\ job[p].at = "install"
  BY Zenon DEF HeapInv, ListsOK, UpSlave, balancer, At
<1>2. r \in Refs \cup {Nil} /\ (r # Nil => dbs[r].addr = a)
  BY <1>1, RefsHas DEF HeapInv, TaskOK
<1>3. CASE slaves' = slaves
  BY <1>1, <1>3, TurnsStay, Zenon
<1>4. CASE slaves' = Append(slaves, r)
  BY <1>1, <1>4 DEF OneTooMany
<1>5. CASE K # {} /\ slaves[Min(K)] # Nil /\ slaves' = [slaves EXCEPT ![Min(K)] = r]
  <2>1. Min(K) \in K
    <3>1. K \in SUBSET Nat
      BY <1>1 DEF Stops
    <3> QED
      BY <1>5, <3>1, MinOfNaturals, Zenon
  <2>2. Min(K) \in DOMAIN slaves /\ dbs[slaves[Min(K)]].addr = a
    BY <1>5, <2>1, Zenon DEF Stops
  <2> DEFINE m == Min(K)
             f == [k \in DOMAIN slaves |-> k]
  <2> HIDE DEF K, r, m, a
  <2>3. /\ DOMAIN slaves' = DOMAIN slaves /\ slaves'[m] = r
        /\ \A k \in DOMAIN slaves : k # m => slaves'[k] = slaves[k]
    BY <1>5, <2>2, Zenon DEF m
  <2>4. Len(slaves') = Len(slaves)
    BY <1>1, <1>5
  <2>5. InTurn'
    BY <1>1, <2>3, <2>4, Zenon DEF InTurn
  <2>6. \A k \in DOMAIN slaves : f[k] = k
    BY Zenon
  <2> HIDE DEF f
  <2>7. KeepWeights
    <3>1. r # Nil => r \in Refs \cap Refs'
      BY <1>2, <2>2, <2>3, SlavesInHeap, Zenon DEF m
    <3>2. r # Nil => dbs'[r].addr = a
      BY <1>2, <3>1
    <3>3. m \in DOMAIN slaves /\ slaves[m] # Nil /\ dbs[slaves[m]].addr = a
      BY <1>5, <2>2 DEF m
    <3>4. ASSUME NEW k \in DOMAIN slaves', slaves'[k] # Nil
          PROVE  /\ f[k] \in DOMAIN slaves /\ slaves[f[k]] # Nil
                 /\ dbs[slaves[f[k]]].addr = dbs'[slaves'[k]].addr
                 /\ weights'[k] = weights[f[k]]
      <4>1. CASE k = m
        BY <1>1, <2>3, <2>6, <3>2, <3>3, <3>4, <4>1, Zenon
      <4>2. CASE k # m
        <5>1. k \in DOMAIN slaves /\ slaves'[k] = slaves[k] /\ weights'[k] = weights[k]
          BY <1>1, <2>3, <3>4, <4>2, Zenon
        <5>2. dbs'[slaves'[k]].addr = dbs[slaves[k]].addr
          BY <3>4, <5>1, SlavesInHeap
        <5> QED
          BY <2>6, <3>4, <5>1, <5>2, Zenon
      <4> QED
        BY <4>1, <4>2
    <3> QED
      BY <3>4, WeightsFollow, Zenon
  <2> QED
    BY <2>5, <2>7
<1>6. \/ slaves' = slaves \/ slaves' = Append(slaves, r)
      \/ K # {} /\ slaves[Min(K)] # Nil /\ slaves' = [slaves EXCEPT ![Min(K)] = r]
  BY Zenon DEF UpSlave
<1> QED
  BY <1>3, <1>4, <1>5, <1>6, Zenon

(* ParseSlave: as many weights as slaves, and a queue made for them.        *)
LEMMA InitInTurn == Init => InTurn
<1> SUFFICES ASSUME Init PROVE InTurn
  OBVIOUS
<1> DEFINE T == [addr : Addrs, weight : Nat \ {0}]
<1>1. InitSlaves \in Seq(T)
  BY NodeHealthAssumption, Zenon
<1> HIDE DEF T
<1>2. Len(InitSlaves) \in Nat /\ DOMAIN InitSlaves = 1..Len(InitSlaves)
  BY <1>1
<1>3. weights = [i \in DOMAIN InitSlaves |-> InitSlaves[i].weight]
      /\ slaves = [i \in DOMAIN InitSlaves |-> i]
  BY Zenon DEF Init
<1>4. weights \in Seq(Nat \ {0})
  BY InitBalancerInv, Zenon DEF BalancerInv
<1>5. DOMAIN slaves = 1..Len(weights) /\ Len(slaves) = Len(weights)
  BY <1>2, <1>3, <1>4
<1>6. CASE weights = <<>>
  <2>1. queue = <<>>
    BY <1>6, Zenon DEF Init
  <2>2. Len(weights) = 0
    BY <1>6
  <2>3. DOMAIN slaves = {} /\ ToSet(queue) = {}
    BY <1>5, <2>1, <2>2 DEF ToSet
  <2> QED
    BY <1>5, <2>3, Zenon DEF InTurn
<1>7. CASE weights # <<>>
  <2>1. queue \in IF Len(weights) > 1 THEN Shuffles(Expand(weights)) ELSE {Expand(weights)}
    BY <1>7, Zenon DEF Init
  <2>2. TakesTurns(queue, weights)
    BY <1>4, <1>7, <2>1, BalancedQueue, Zenon
  <2>3. /\ ToSet(queue) = 1..Len(weights)
        /\ \A i, j \in 1..Len(weights) :
              weights[i] * Occurrences(queue, j) = weights[j] * Occurrences(queue, i)
    BY <1>4, <1>7, <2>2, TurnsAreShares, Zenon
  <2> QED
    BY <1>5, <2>3, Zenon DEF InTurn
<1> QED
  BY <1>6, <1>7

(* Every step, from slaves in turn.                                         *)
LEMMA NextTurns ==
    ASSUME NodeInv, InTurn, [Next]_vars
    PROVE  (InTurn' /\ KeepWeights) \/ OneTooMany
<1>1. HeapInv /\ BalancerInv /\ alive \subseteq Addrs
  BY Zenon DEF NodeInv, FlagsOK
<1>2. \A d \in Refs \cap Refs' : dbs'[d].addr = dbs[d].addr
  BY <1>1, AddrsStay, Zenon
<1>3. CASE UNCHANGED <<slaves, balancer>>
  <2>1. UNCHANGED <<slaves, weights, queue>>
    BY <1>3, Zenon DEF balancer
  <2> QED
    BY <1>1, <1>2, <2>1, TurnsStay, Zenon
<1>4. CASE Check
  <2>1. UNCHANGED <<slaves, balancer>>
    BY <1>4, Zenon DEF Check, checkMaster, checkSlave, Ping, Answered, NotAnswered, NotManualDown,
                       StoreUp
  <2> QED
    BY <1>3, <2>1
<1>5. ASSUME NEW p \in Procs, Call(p) PROVE (InTurn' /\ KeepWeights) \/ OneTooMany
  <2>1. CASE UpSlave(p)
    BY <1>1, <1>2, <2>1, UpSlaveTurns, Zenon
  <2>2. CASE UpDB(p) \/ UpMaster(p) \/ FindMaster(p) \/ FindSlave(p) \/ CloseDB(p) \/ StoreDown(p)
    <3>1. UNCHANGED <<slaves, balancer>>
      BY <2>2, Zenon DEF UpDB, UpMaster, FindMaster, FindSlave, CloseDB, StoreDown
    <3> QED
      BY <1>3, <3>1
  <2> QED
    BY <1>5, <2>1, <2>2, Zenon DEF Call
<1>6. ASSUME NEW s \in Additions, AddSlave(s.addr, s.weight)
      PROVE  (InTurn' /\ KeepWeights) \/ OneTooMany
  <2>1. s.weight \in Nat \ {0}
    BY NodeHealthAssumption
  <2> QED
    BY <1>1, <1>2, <1>6, <2>1, AddSlaveTurns, Zenon
<1>7. ASSUME NEW a \in Addrs, DeleteSlave(a) PROVE (InTurn' /\ KeepWeights) \/ OneTooMany
  BY <1>1, <1>2, <1>7, DeleteSlaveTurns, Zenon
<1>8. CASE GetNextSlave
  <2>1. UNCHANGED <<slaves, weights, queue>>
    BY <1>8, Zenon DEF GetNextSlave
  <2> QED
    BY <1>1, <1>2, <2>1, TurnsStay, Zenon
<1>9. CASE (\E p \in Admins, o \in Orders : Order(p, o)) \/ (\E a \in Flaky : Flaps(a))
  BY <1>3, <1>9, Zenon DEF Order, Flaps
<1>10. CASE UNCHANGED vars
  BY <1>3, <1>10, Zenon DEF vars, balancer
<1> QED
  BY <1>4, <1>5, <1>6, <1>7, <1>8, <1>9, <1>10, Zenon DEF Next

(* Whatever the weights and however the swaps fall, every slave has turns   *)
(* in proportion to its own weight, through additions, deletions and        *)
(* replacements of any number of slaves, until a failed AddSlave leaves a   *)
(* weight or a late UpSlave a slave too many.                               *)
THEOREM SlavesTakeTurnsByWeight == Spec => TurnsByWeight
<1>1. Init => InTurn
  BY InitInTurn
<1>2. NodeInv /\ [Next]_vars => [InTurn => (InTurn' /\ KeepWeights) \/ OneTooMany]_vars
  BY NextTurns, Zenon
<1> QED
  BY <1>1, <1>2, NodeInvHolds, PTL DEF Spec, TurnsByWeight
=============================================================================
