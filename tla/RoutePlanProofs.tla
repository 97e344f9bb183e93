--------------------------- MODULE RoutePlanProofs ---------------------------
(***************************************************************************)
(* Routing loses no row: a condition on the key is sent to every sub-table *)
(* that may hold a row with a key that satisfies it, and so is a WHERE     *)
(* however it is nested; then what a plan covers, and what a statement     *)
(* does to the one table it is sent to.                                    *)
(***************************************************************************)
EXTENDS RuleProofs
-----------------------------------------------------------------------------
(* Conditions on the key. *)

(* A rule that parseRule has returned.                                     *)
GoodRule(r) ==
    /\ ParsedRule(r) /\ Increasing(r.subTables)
    /\ \A t \in ToSet(r.subTables) : t \in Nat

(* FindForKey returns an index or an error.                                *)
LEMMA IndexType ==
    ASSUME NEW r, GoodRule(r), NEW K, ValidKeys(r, K), NEW l \in K
    PROVE  /\ getTableIndexByValue(r, l) \in Nat \cup {Err}
           /\ getTableIndexByValue(r, l) \in Int
<1>0. SUFFICES getTableIndexByValue(r, l) \in Nat \cup {Err}
  BY <1>0 DEF Err
<1>1. CASE l.form = "bad"
  BY <1>1 DEF getTableIndexByValue
<1>2. CASE l.form # "bad"
  <2>0. getTableIndexByValue(r, l) = FindForKey(r, l)
    BY <1>2 DEF getTableIndexByValue
  <2>1. CASE r.type = "hash"
    <3>1. PICK n \in Nat \ {0} : HashRule(r, n)
      BY <2>1 DEF GoodRule, ParsedRule, DateRule, DateTypes
    <3>2. FindForKey(r, l) = HashValue(l) % n
      <4>1. FindForKey(r, l) = HashShardFind(r, l)
        BY <2>1, Zenon DEF FindForKey
      <4>2. Len(r.subTables) = n
        BY <3>1, MakeListLen DEF HashRule
      <4> QED BY <4>1, <4>2 DEF HashShardFind
    <3>3. HashValue(l) \in Nat
      BY <2>1 DEF ValidKeys
    <3>4. \A h \in Nat : h % n \in Nat
      OBVIOUS
    <3> QED BY <2>0, <3>2, <3>3, <3>4
  <2>2. CASE r.type = "range" /\ FindForKey(r, l) # Err
    <3>1. PICK n \in Nat, limit \in Nat \ {0} : RangeRule(r, n, limit)
      BY <2>2 DEF GoodRule, ParsedRule, DateRule, DateTypes
    <3>2. FindForKey(r, l) = NumRangeShardFind(r, l)
      BY <2>2, Zenon DEF FindForKey
    <3>3. Number(l)
      BY <2>2, <3>2 DEF NumRangeShardFind, RangesWith, Number, ValidKeys
    <3>4. FindForKey(r, l) \in 0..(n - 1)
      BY <2>2, <3>1, <3>3, RangeFound
    <3> QED BY <2>0, <3>4
  <2>3. CASE r.type \in DateTypes /\ FindForKey(r, l) # Err
    <3>1. DateRule(r)
      BY <2>3 DEF GoodRule, ParsedRule, DateTypes
    <3>2. Day(r, l)
      BY <2>0, <2>3 DEF Day, ValidKeys
    <3> QED BY <2>0, <3>1, <3>2, DateFindMonotone DEF Day
  <2> QED BY <2>0, <2>1, <2>2, <2>3 DEF GoodRule, ParsedRule, DateRule
<1> QED BY <1>1, <1>2

(* A key that has a table is a number or a date of the rule.               *)
LEMMA KeyWithTable ==
    ASSUME NEW r, GoodRule(r), NEW K, ValidKeys(r, K), NEW l \in K,
           getTableIndexByValue(r, l) # Err
    PROVE  /\ FindForKey(r, l) = getTableIndexByValue(r, l)
           /\ l.v \in Int
           /\ r.type = "range" => Number(l)
           /\ r.type \in DateTypes => Day(r, l)
<1>1. FindForKey(r, l) = getTableIndexByValue(r, l)
  BY DEF getTableIndexByValue
<1>2. l.v \in Int
  BY DEF ValidKeys
<1>3. ASSUME r.type = "range" PROVE Number(l)
  <2>1. FindForKey(r, l) = NumRangeShardFind(r, l)
    BY <1>3, Zenon DEF FindForKey
  <2> QED BY <1>1, <1>2, <2>1 DEF NumRangeShardFind, RangesWith, Number
<1>4. ASSUME r.type \in DateTypes PROVE Day(r, l)
  BY <1>4 DEF Day, ValidKeys
<1> QED BY <1>1, <1>2, <1>3, <1>4

(* key = literal and key <=> literal, for every kind of rule.              *)
LEMMA EqualReaches ==
    ASSUME NEW r, NEW K, ValidKeys(r, K),
           NEW x, x.op \in {"=", "<=>"}, x.lit \in K, x.rev \in BOOLEAN, OneTable(r, x).ok,
           NEW l \in K, Satisfies(x, l.v)
    PROVE  getTableIndexByValue(r, l) \in ToSet(OneTable(r, x).l)
<1>1. l.v = x.lit.v
  <2>1. IF x.rev THEN Compare(x.op, x.lit.v, l.v) ELSE Compare(x.op, l.v, x.lit.v)
    BY Zenon DEF Satisfies
  <2>2. \A a, b : Compare(x.op, a, b) => a = b
    BY Zenon DEF Compare
  <2>3. Compare(x.op, x.lit.v, l.v) \/ Compare(x.op, l.v, x.lit.v)
    BY <2>1, Zenon
  <2> QED BY <2>2, <2>3, Zenon
<1>2. getTableIndexByValue(r, l) = getTableIndexByValue(r, x.lit)
  BY <1>1 DEF ValidKeys
<1>3. OneTable(r, x).l = <<getTableIndexByValue(r, x.lit)>>
  BY DEF OneTable, Some, Failed
<1> QED BY <1>2, <1>3 DEF ToSet

(* key IN (literals): the tables are collected and sorted.                 *)
LEMMA TupleTables ==
    ASSUME NEW r, GoodRule(r), NEW K, ValidKeys(r, K), NEW lits \in SUBSET K
    PROVE  /\ Increasing(Ascending(IndexOf(r, lits)))
           /\ ToSet(Ascending(IndexOf(r, lits))) = IndexOf(r, lits)
<1>1. IndexOf(r, lits) \in SUBSET Int
  BY IndexType DEF IndexOf
<1>2. IsFiniteSet(lits)
  BY FS_Subset DEF ValidKeys
<1>3. IsFiniteSet(IndexOf(r, lits))
  <2> DEFINE f == [l \in lits |-> getTableIndexByValue(r, l)]
  <2>1. \A y \in IndexOf(r, lits) : \E l \in lits : f[l] = y
    BY DEF IndexOf
  <2>2. f \in [lits -> IndexOf(r, lits)]
    BY DEF IndexOf
  <2>3. f \in Surjection(lits, IndexOf(r, lits))
    BY <2>1, <2>2 DEF Surjection
  <2> QED BY <1>2, <2>3, FS_Surjection
<1> QED BY <1>1, <1>3, AscendingSorted

(* An IN reaches the table of every key in its list.                       *)
LEMMA TupleReaches ==
    ASSUME NEW r, GoodRule(r), NEW K, ValidKeys(r, K),
           NEW x, x.op = "in", x.lits \subseteq K, getTableIndexsByTuple(r, x.lits).ok,
           NEW l \in K, Satisfies(x, l.v)
    PROVE  getTableIndexByValue(r, l) \in ToSet(getTableIndexsByTuple(r, x.lits).l)
<1>1. l.v \in Values(x.lits)
  BY Zenon DEF Satisfies
<1>2. PICK m \in x.lits : l.v = m.v
  BY <1>1 DEF Values
<1>3. getTableIndexByValue(r, l) = getTableIndexByValue(r, m)
  BY <1>2 DEF ValidKeys
<1>4. getTableIndexByValue(r, m) \in IndexOf(r, x.lits)
  BY DEF IndexOf
<1>5. getTableIndexsByTuple(r, x.lits).l = Ascending(IndexOf(r, x.lits))
  BY DEF getTableIndexsByTuple, Some, Failed
<1> QED BY <1>3, <1>4, <1>5, TupleTables

(* NOT BETWEEN, with the ends in order.                                    *)
Outside(x) == x.op = "not between" /\ x.from.v <= x.to.v

(* What it says of a key.                                                  *)
LEMMA OutsideOp ==
    ASSUME NEW x, Outside(x)
    PROVE  /\ x.from.v <= x.to.v /\ x.op # "between"
           /\ \A k : Satisfies(x, k) => k \notin x.from.v..x.to.v
  BY Zenon DEF Outside, Satisfies

(* The two lists of NOT BETWEEN on a range rule.                           *)
LEMMA RangeNotBetween ==
    ASSUME NEW n \in Nat, NEW limit \in Nat \ {0}, NEW r, RangeRule(r, n, limit),
           NEW x, Outside(x), Number(x.from), Number(x.to),
           RangeBetween(r, x).ok
    PROVE  \E below \in Nat :
             /\ RangeBetween(r, x).l = unionList(makeList(0, below + 1), makeList(FindForKey(r, x.to), n))
             /\ below = adjustShardIndex(r, x.from, FindForKey(r, x.from))
             /\ FindForKey(r, x.from) # Err /\ FindForKey(r, x.to) # Err
             /\ FindForKey(r, x.from) \in 0..(n - 1) /\ FindForKey(r, x.to) \in 0..(n - 1)
<1> DEFINE from == FindForKey(r, x.from)
           to == FindForKey(r, x.to)
           below == adjustShardIndex(r, x.from, from)
<1>1. getTableIndexByValue(r, x.from) = from /\ getTableIndexByValue(r, x.to) = to
  BY DEF getTableIndexByValue, Number
<1>2. from # Err /\ to # Err
  BY <1>1 DEF RangeBetween, Failed
<1>3. from \in 0..(n - 1) /\ to \in 0..(n - 1) /\ from <= to
  BY <1>2, OutsideOp, RangeFound, RangeFindMonotone
<1>4. ~(to < from)
  BY <1>3
<1>5. below \in Int
  BY <1>3 DEF adjustShardIndex
<1>6. Len(r.subTables) = n
  BY MakeListLen DEF RangeRule
<1> HIDE DEF from, to, below
<1>7. RangeBetween(r, x) = IF below < 0 THEN Failed
                           ELSE Some(unionList(makeList(0, below + 1), makeList(to, n)))
  BY <1>1, <1>2, <1>4, <1>6, OutsideOp DEF RangeBetween, below
<1>8. ~(below < 0) /\ RangeBetween(r, x).l = unionList(makeList(0, below + 1), makeList(to, n))
  BY <1>7 DEF Some, Failed
<1>9. below \in Nat
  BY <1>5, <1>8
<1> QED BY <1>2, <1>3, <1>8, <1>9 DEF from, to, below

(* NOT BETWEEN reaches the tables of the keys on both sides.               *)
LEMMA RangeNotBetweenReaches ==
    ASSUME NEW n \in Nat, NEW limit \in Nat \ {0}, NEW r, RangeRule(r, n, limit),
           NEW x, Outside(x), Number(x.from), Number(x.to),
           RangeBetween(r, x).ok,
           NEW l, Number(l), FindForKey(r, l) # Err, Satisfies(x, l.v)
    PROVE  FindForKey(r, l) \in ToSet(RangeBetween(r, x).l)
<1> DEFINE from == FindForKey(r, x.from)
           to == FindForKey(r, x.to)
           found == FindForKey(r, l)
<1>1. PICK below \in Nat :
             /\ RangeBetween(r, x).l = unionList(makeList(0, below + 1), makeList(to, n))
             /\ below = adjustShardIndex(r, x.from, from)
             /\ from # Err /\ to # Err
             /\ from \in 0..(n - 1) /\ to \in 0..(n - 1)
  BY RangeNotBetween
<1>2. found \in 0..(n - 1)
  BY RangeFound
<1>3. l.v \notin x.from.v..x.to.v
  BY OutsideOp
<1>4. l.v < x.from.v \/ x.to.v < l.v
  BY <1>3 DEF Number
<1>5. l.v < x.from.v => found <= below
  <2> SUFFICES ASSUME l.v < x.from.v PROVE found <= below
    OBVIOUS
  <2>1. l.v <= x.from.v
    BY DEF Number
  <2>2. found <= from
    BY <1>1, <2>1, RangeFindMonotone
  <2>3. CASE below = from
    BY <2>2, <2>3
  <2>4. CASE below # from
    <3>1. EqualStart(r, x.from, from) /\ below = from - 1
      BY <1>1, <2>4 DEF adjustShardIndex
    <3>2. found + 1 \in RangesWith(r, l)
      BY RangeFound
    <3>3. r.ranges[found + 1].start <= l.v
      BY <3>2 DEF RangesWith, ContainsKey
    <3>4. r.ranges[from + 1].start = x.from.v
      BY <3>1 DEF EqualStart
    <3>5. found # from
      BY <3>3, <3>4 DEF Number
    <3> HIDE DEF from, found
    <3> QED BY <1>1, <1>2, <2>2, <3>1, <3>5
  <2> QED BY <2>3, <2>4
<1>6. x.to.v < l.v => to <= found
  <2> SUFFICES ASSUME x.to.v < l.v PROVE to <= found
    OBVIOUS
  <2>1. x.to.v <= l.v
    BY DEF Number
  <2> QED BY <1>1, <2>1, RangeFindMonotone
<1> HIDE DEF from, to, found
<1>7. found \in 0..((below + 1) - 1) \/ found \in to..(n - 1)
  BY <1>1, <1>2, <1>4, <1>5, <1>6
<1>8. 0 \in Int /\ below + 1 \in Int /\ to \in Int /\ n \in Int
  BY <1>1
<1>9. /\ Increasing(makeList(0, below + 1)) /\ Increasing(makeList(to, n))
      /\ found \in ToSet(makeList(0, below + 1)) \/ found \in ToSet(makeList(to, n))
  BY <1>7, <1>8, MakeListIncreasing
<1>10. found \in ToSet(unionList(makeList(0, below + 1), makeList(to, n)))
  BY <1>9, ListsAreSets
<1> QED BY <1>1, <1>10 DEF found

NotIn(x) == x.op = "not in"

(* The conditions that choose tables.                                      *)
LEMMA ConditionKinds ==
    ASSUME NEW r, NEW K, NEW x, ValidCondition(r, K, x), Routed(x)
    PROVE  \/ x.op \in {"=", "<=>"} /\ x.lit \in K /\ x.rev \in BOOLEAN
           \/ x.op \in {"<", "<=", ">", ">="} /\ x.lit \in K /\ x.rev \in BOOLEAN
           \/ x.op = "in" /\ x.lits \subseteq K
           \/ x.op = "between" /\ x.from \in K /\ x.to \in K
           \/ NotIn(x) /\ r.type \notin DateTypes
           \/ Outside(x) /\ x.from \in K /\ x.to \in K /\ r.type \notin DateTypes
  BY Zenon DEF ValidCondition, Routed, Comparisons, NotIn, Outside

(* Which function chooses them.                                            *)
LEMMA ConditionTables ==
    ASSUME NEW r, NEW x
    PROVE  LET res == getTableIndexs(r, x)
               date == r.type # "hash" /\ r.type # "range"
           IN  /\ x.op \in {"=", "<=>"} => res = OneTable(r, x)
               /\ x.op = "in" => res = getTableIndexsByTuple(r, x.lits)
               /\ r.type = "hash" /\ x.op \in {"<", "<=", ">", ">=", "between"} => res = Some(r.subTables)
               /\ r.type = "hash" /\ (NotIn(x) \/ Outside(x)) => res = Some(r.subTables)
               /\ r.type = "range" /\ x.op \in {"<", "<=", ">", ">="} => res = RangeCompare(r, x)
               /\ r.type = "range" /\ (x.op = "between" \/ Outside(x)) => res = RangeBetween(r, x)
               /\ r.type = "range" /\ NotIn(x) => res = Some(r.subTables)
               /\ date /\ x.op \in {"<", "<=", ">", ">="} => res = DateCompare(r, x)
               /\ date /\ x.op = "between" => res = DateBetween(r, x)
<1> DEFINE h == getHashShardTableIndex(r, x)
           g == getRangeShardTableIndex(r, x)
           d == getDateShardTableIndex(r, x)
<1>1. /\ r.type = "hash" => getTableIndexs(r, x) = h
      /\ r.type = "range" => getTableIndexs(r, x) = g
      /\ r.type # "hash" /\ r.type # "range" => getTableIndexs(r, x) = d
  BY Zenon DEF getTableIndexs
<1>2. x.op \in {"=", "<=>"} => h = OneTable(r, x) /\ g = OneTable(r, x) /\ d = OneTable(r, x)
  BY Zenon DEF getHashShardTableIndex, getRangeShardTableIndex, getDateShardTableIndex
<1>3. x.op = "in" => /\ h = getTableIndexsByTuple(r, x.lits)
                     /\ g = getTableIndexsByTuple(r, x.lits)
                     /\ d = getTableIndexsByTuple(r, x.lits)
  BY Zenon DEF getHashShardTableIndex, getRangeShardTableIndex, getDateShardTableIndex
<1>4. /\ x.op \in {"<", "<=", ">", ">=", "between"} => h = Some(r.subTables)
      /\ NotIn(x) \/ Outside(x) => h = Some(r.subTables)
  BY Zenon DEF getHashShardTableIndex, NotIn, Outside
<1>5. /\ x.op \in {"<", "<=", ">", ">="} => g = RangeCompare(r, x)
      /\ x.op = "between" \/ Outside(x) => g = RangeBetween(r, x)
      /\ NotIn(x) => g = Some(r.subTables)
  BY Zenon DEF getRangeShardTableIndex, NotIn, Outside
<1>6. /\ x.op \in {"<", "<=", ">", ">="} => d = DateCompare(r, x)
      /\ x.op = "between" => d = DateBetween(r, x)
  BY Zenon DEF getDateShardTableIndex
<1> HIDE DEF h, g, d
<1> QED BY <1>1, <1>2, <1>3, <1>4, <1>5, <1>6, Zenon

(* What has to be shown of a condition: its tables are in increasing order *)
(* and reach every key that satisfies it, or there are none, which a date  *)
(* rule without a table for a bound is refused for.                        *)
Bounded(r, x) ==
    /\ x.op \in {"<", "<=", ">", ">="} => Known(r, x.lit)
    /\ x.op = "between" => Known(r, x.from) /\ Known(r, x.to)

Reaches(r, K, x, res) ==
    /\ Increasing(res.l)
    /\ \A l \in K : res.ok /\ getTableIndexByValue(r, l) \in ToSet(r.subTables) /\ Satisfies(x, l.v) =>
          \/ getTableIndexByValue(r, l) \in ToSet(res.l)
          \/ res.l = <<>> /\ r.type \in DateTypes /\ ~Bounded(r, x)

(* The list of one table, and of none.                                     *)
LEMMA ShortIncreasing ==
    Increasing(<<>>) /\ \A i \in Int : Increasing(<<i>>)
<1>1. Increasing(<<>>)
  BY DEF Increasing
<1>2. \A i \in Int : <<i>> \in Seq(Int) /\ Len(<<i>>) = 1 /\ 1..1 = {1}
  OBVIOUS
<1>3. \A i \in Int : Increasing(<<i>>)
  BY <1>2 DEF Increasing
<1> QED BY <1>1, <1>3

(* =, <=> and IN.                                                          *)
LEMMA ListedReach ==
    ASSUME NEW r, GoodRule(r), NEW K, ValidKeys(r, K), NEW x
    PROVE  /\ x.op \in {"=", "<=>"} /\ x.lit \in K /\ x.rev \in BOOLEAN =>
                  Reaches(r, K, x, OneTable(r, x))
           /\ x.op = "in" /\ x.lits \subseteq K =>
                  Reaches(r, K, x, getTableIndexsByTuple(r, x.lits))
<1>1. ASSUME x.op \in {"=", "<=>"}, x.lit \in K, x.rev \in BOOLEAN
      PROVE  Reaches(r, K, x, OneTable(r, x))
  <2>1. getTableIndexByValue(r, x.lit) \in Int
    BY <1>1, IndexType
  <2>2. Increasing(OneTable(r, x).l)
    BY <2>1, ShortIncreasing DEF OneTable, Some, Failed
  <2>3. \A l \in K : OneTable(r, x).ok /\ Satisfies(x, l.v) =>
                        getTableIndexByValue(r, l) \in ToSet(OneTable(r, x).l)
    BY <1>1, EqualReaches
  <2> QED BY <2>2, <2>3, Zenon DEF Reaches
<1>2. ASSUME x.op = "in", x.lits \subseteq K
      PROVE  Reaches(r, K, x, getTableIndexsByTuple(r, x.lits))
  <2>1. Increasing(getTableIndexsByTuple(r, x.lits).l)
    BY <1>2, TupleTables, ShortIncreasing DEF getTableIndexsByTuple, Some, Failed
  <2>2. \A l \in K : getTableIndexsByTuple(r, x.lits).ok /\ Satisfies(x, l.v) =>
                        getTableIndexByValue(r, l) \in ToSet(getTableIndexsByTuple(r, x.lits).l)
    BY <1>2, TupleReaches
  <2> QED BY <2>1, <2>2, Zenon DEF Reaches
<1> QED BY <1>1, <1>2

(* All tables reach every key.                                             *)
LEMMA AllReach ==
    ASSUME NEW r, GoodRule(r), NEW K, NEW x
    PROVE  Reaches(r, K, x, Some(r.subTables))
  BY DEF Reaches, GoodRule, Some

(* Comparisons, BETWEEN and NOT BETWEEN on a range rule.                   *)
LEMMA RangeReach ==
    ASSUME NEW r, GoodRule(r), r.type = "range", NEW K, ValidKeys(r, K), NEW x
    PROVE  /\ x.op \in {"<", "<=", ">", ">="} /\ x.lit \in K /\ x.rev \in BOOLEAN =>
                  Reaches(r, K, x, RangeCompare(r, x))
           /\ x.op = "between" /\ x.from \in K /\ x.to \in K => Reaches(r, K, x, RangeBetween(r, x))
           /\ Outside(x) /\ x.from \in K /\ x.to \in K => Reaches(r, K, x, RangeBetween(r, x))
<1>1. PICK n \in Nat, limit \in Nat \ {0} : RangeRule(r, n, limit)
  BY DEF GoodRule, ParsedRule, DateRule, DateTypes
<1>2. Len(r.subTables) = n
  BY <1>1, MakeListLen DEF RangeRule
<1>3. \A l \in K : getTableIndexByValue(r, l) \in Int
  BY IndexType
<1>4. \A l \in K : getTableIndexByValue(r, l) # Err => Number(l) /\ FindForKey(r, l) = getTableIndexByValue(r, l)
  BY KeyWithTable
<1>5. \A l \in K : getTableIndexByValue(r, l) \in ToSet(r.subTables) => getTableIndexByValue(r, l) # Err
  BY DEF GoodRule, Err
<1>6. ASSUME x.op \in {"<", "<=", ">", ">="}, x.lit \in K, x.rev \in BOOLEAN
      PROVE  Reaches(r, K, x, RangeCompare(r, x))
  <2>1. Increasing(RangeCompare(r, x).l)
    <3> DEFINE index == getTableIndexByValue(r, x.lit)
               last == IF x.op \in {"<", ">"} THEN adjustShardIndex(r, x.lit, index) ELSE index
    <3>1. index \in Int /\ last \in Int /\ last + 1 \in Int /\ n \in Int /\ 0 \in Int
      BY <1>3, <1>6 DEF adjustShardIndex
    <3>2. \/ RangeCompare(r, x).l = <<>>
          \/ RangeCompare(r, x).l = makeList(index, n)
          \/ RangeCompare(r, x).l = makeList(0, last + 1)
      BY <1>2 DEF RangeCompare, Some, Failed
    <3> HIDE DEF index, last
    <3> QED BY <3>1, <3>2, ShortIncreasing, MakeListIncreasing
  <2>2. RangeCompare(r, x).ok => Number(x.lit)
    <3>1. RangeCompare(r, x).ok => getTableIndexByValue(r, x.lit) # Err
      BY DEF RangeCompare, Failed
    <3> QED BY <1>4, <1>6, <3>1
  <2>3. ASSUME NEW l \in K, RangeCompare(r, x).ok,
               getTableIndexByValue(r, l) \in ToSet(r.subTables), Satisfies(x, l.v)
        PROVE  getTableIndexByValue(r, l) \in ToSet(RangeCompare(r, x).l)
    <3>1. Number(l) /\ FindForKey(r, l) = getTableIndexByValue(r, l) /\ FindForKey(r, l) # Err
      BY <1>4, <1>5, <2>3
    <3> QED BY <1>1, <1>6, <2>2, <2>3, <3>1, RangeCompareReaches
  <2> QED BY <2>1, <2>3, Zenon DEF Reaches
<1>7. ASSUME x.op = "between", x.from \in K, x.to \in K
      PROVE  Reaches(r, K, x, RangeBetween(r, x))
  <2>1. Increasing(RangeBetween(r, x).l)
    <3> DEFINE from == getTableIndexByValue(r, x.from)
               to == getTableIndexByValue(r, x.to)
    <3>1. from \in Int /\ to \in Int /\ from + 1 \in Int /\ to + 1 \in Int
      BY <1>3, <1>7
    <3>2. \/ RangeBetween(r, x).l = <<>>
          \/ RangeBetween(r, x).l = makeList(from, to + 1)
          \/ RangeBetween(r, x).l = makeList(to, from + 1)
      BY <1>7 DEF RangeBetween, Some, Failed
    <3> HIDE DEF from, to
    <3> QED BY <3>1, <3>2, ShortIncreasing, MakeListIncreasing
  <2>2. RangeBetween(r, x).ok => Number(x.from) /\ Number(x.to)
    <3>1. RangeBetween(r, x).ok =>
              getTableIndexByValue(r, x.from) # Err /\ getTableIndexByValue(r, x.to) # Err
      BY DEF RangeBetween, Failed
    <3> QED BY <1>4, <1>7, <3>1
  <2>3. ASSUME NEW l \in K, RangeBetween(r, x).ok,
               getTableIndexByValue(r, l) \in ToSet(r.subTables), Satisfies(x, l.v)
        PROVE  getTableIndexByValue(r, l) \in ToSet(RangeBetween(r, x).l)
    <3>1. Number(l) /\ FindForKey(r, l) = getTableIndexByValue(r, l) /\ FindForKey(r, l) # Err
      BY <1>4, <1>5, <2>3
    <3> QED BY <1>1, <1>7, <2>2, <2>3, <3>1, RangeBetweenReaches
  <2> QED BY <2>1, <2>3, Zenon DEF Reaches
<1>8. ASSUME Outside(x), x.from \in K, x.to \in K
      PROVE  Reaches(r, K, x, RangeBetween(r, x))
  <2>2. RangeBetween(r, x).ok => Number(x.from) /\ Number(x.to)
    <3>1. RangeBetween(r, x).ok =>
              getTableIndexByValue(r, x.from) # Err /\ getTableIndexByValue(r, x.to) # Err
      BY DEF RangeBetween, Failed
    <3> QED BY <1>4, <1>8, <3>1
  <2>1. Increasing(RangeBetween(r, x).l)
    <3>1. CASE RangeBetween(r, x).ok
      <4>1. PICK below \in Nat :
              /\ RangeBetween(r, x).l = unionList(makeList(0, below + 1), makeList(FindForKey(r, x.to), n))
              /\ FindForKey(r, x.to) \in 0..(n - 1)
        BY <1>1, <1>8, <2>2, <3>1, RangeNotBetween
      <4>2. 0 \in Int /\ below + 1 \in Int /\ FindForKey(r, x.to) \in Int /\ n \in Int
        BY <4>1
      <4>3. Increasing(makeList(0, below + 1)) /\ Increasing(makeList(FindForKey(r, x.to), n))
        BY <4>2, MakeListIncreasing
      <4> QED BY <4>1, <4>3, ListsAreSets
    <3>2. CASE ~RangeBetween(r, x).ok
      <4>1. \A l : Some(l).ok
        BY DEF Some
      <4>2. RangeBetween(r, x) = Failed
        BY <3>2, <4>1, Zenon DEF RangeBetween
      <4> QED BY <4>2, ShortIncreasing DEF Failed
    <3> QED BY <3>1, <3>2
  <2>3. ASSUME NEW l \in K, RangeBetween(r, x).ok,
               getTableIndexByValue(r, l) \in ToSet(r.subTables), Satisfies(x, l.v)
        PROVE  getTableIndexByValue(r, l) \in ToSet(RangeBetween(r, x).l)
    <3>1. Number(l) /\ FindForKey(r, l) = getTableIndexByValue(r, l) /\ FindForKey(r, l) # Err
      BY <1>4, <1>5, <2>3
    <3> QED BY <1>1, <1>8, <2>2, <2>3, <3>1, RangeNotBetweenReaches
  <2> QED BY <2>1, <2>3, Zenon DEF Reaches
<1> QED BY <1>6, <1>7, <1>8

(* Comparisons and BETWEEN on a date rule.                                 *)
LEMMA DateReach ==
    ASSUME NEW r, GoodRule(r), r.type \in DateTypes, NEW K, ValidKeys(r, K), NEW x
    PROVE  /\ x.op \in {"<", "<=", ">", ">="} /\ x.lit \in K /\ x.rev \in BOOLEAN =>
                  Reaches(r, K, x, DateCompare(r, x))
           /\ x.op = "between" /\ x.from \in K /\ x.to \in K => Reaches(r, K, x, DateBetween(r, x))
<1> DEFINE s == r.subTables
           G(l) == getTableIndexByValue(r, l)
<1>0. r.type # "hash" /\ r.type # "range"
  BY DEF DateTypes
<1>1. DateRule(r)
  BY DEF GoodRule, ParsedRule, DateTypes
<1>2. \A l \in K : G(l) \in Nat \cup {Err}
  BY IndexType
<1>3. \A l \in K : G(l) # Err => Day(r, l) /\ FindForKey(r, l) = G(l)
  BY KeyWithTable
<1>4. \A l \in K : G(l) \in ToSet(s) => G(l) # Err
  BY DEF GoodRule, Err
<1>5. \A v : v \notin ToSet(s) => At(v, s) = {}
  BY DEF At, ToSet
<1>6. s \in Seq(Nat) /\ Len(s) \in Nat /\ DOMAIN s = 1..Len(s) /\ Increasing(s)
  BY <1>1 DEF DateRule, GoodRule
<1>7. \A v : At(v, s) # {} => Min(At(v, s)) \in 1..Len(s)
  <2> SUFFICES ASSUME NEW v, NEW p \in At(v, s) PROVE Min(At(v, s)) \in 1..Len(s)
    OBVIOUS
  <2>1. p \in DOMAIN s /\ s[p] = v
    BY DEF At
  <2>2. Min(At(v, s)) = p
    BY <1>1, <2>1, OnePlace
  <2> QED BY <1>6, <2>1, <2>2
<1>8. ASSUME x.op \in {"<", "<=", ">", ">="}, x.lit \in K, x.rev \in BOOLEAN
      PROVE  Reaches(r, K, x, DateCompare(r, x))
  <2> DEFINE res == DateCompare(r, x)
             v == G(x.lit)
  <2>0. res = IF v = Err THEN Failed
              ELSE Some(IF KeyBelow(x) THEN makeLeList(v, s) ELSE makeGeList(v, s))
    BY DEF DateCompare
  <2>1. getTableIndexs(r, x) = res
    BY <1>0, <1>8, ConditionTables
  <2>2. /\ makeLeList(v, s) = IF At(v, s) = {} THEN <<>> ELSE SubSeq(s, 1, Min(At(v, s)))
        /\ makeGeList(v, s) = IF At(v, s) = {} THEN <<>> ELSE SubSeq(s, Min(At(v, s)), Len(s))
    BY DEF makeLeList, makeGeList
  <2>3. Increasing(res.l)
    <3>1. Increasing(makeLeList(v, s)) /\ Increasing(makeGeList(v, s))
      <4> HIDE DEF s, v, G
      <4>1. CASE At(v, s) = {}
        BY <2>2, <4>1, ShortIncreasing
      <4>2. CASE At(v, s) # {}
        <5>1. /\ 1 \in Int /\ Len(s) \in Int /\ Min(At(v, s)) \in Int
              /\ 1 <= 1 /\ Len(s) <= Len(s) /\ 1 <= Min(At(v, s)) /\ Min(At(v, s)) <= Len(s)
          BY <1>6, <1>7, <4>2
        <5> QED BY <1>6, <2>2, <4>2, <5>1, SubSeqIncreasing
      <4> QED BY <4>1, <4>2
    <3> QED BY <2>0, <3>1, ShortIncreasing DEF Some, Failed
  <2>4. ASSUME NEW l \in K, res.ok, G(l) \in ToSet(s), Satisfies(x, l.v)
        PROVE  G(l) \in ToSet(res.l) \/ (res.l = <<>> /\ ~Bounded(r, x))
    <3>1. v # Err
      BY <2>0, <2>4 DEF Failed
    <3>2. Day(r, l) /\ FindForKey(r, l) = G(l) /\ Day(r, x.lit) /\ FindForKey(r, x.lit) = v
      BY <1>3, <1>4, <1>8, <2>4, <3>1
    <3>3. CASE v \in ToSet(s)
      <4>1. HasTable(r, l) /\ HasTable(r, x.lit)
        BY <2>4, <3>2, <3>3 DEF HasTable
      <4>2. DateCondition(r, x)
        BY <1>8, <3>2, <4>1 DEF DateCondition
      <4>3. FindForKey(r, l) \in ToSet(getTableIndexs(r, x).l)
        BY <1>1, <2>4, <3>2, <4>1, <4>2, DateRouting
      <4> QED BY <2>1, <3>2, <4>3
    <3>4. CASE v \notin ToSet(s)
      <4>1. res.l = <<>>
        BY <1>5, <2>0, <2>2, <3>1, <3>4 DEF Some
      <4>2. ~Bounded(r, x)
        BY <1>8, <3>1, <3>4 DEF Bounded, Known
      <4> QED BY <4>1, <4>2
    <3> QED BY <3>3, <3>4
  <2> HIDE DEF res
  <2> QED BY <2>3, <2>4, Zenon DEF Reaches, res
<1>9. ASSUME x.op = "between", x.from \in K, x.to \in K
      PROVE  Reaches(r, K, x, DateBetween(r, x))
  <2> DEFINE res == DateBetween(r, x)
             a == G(x.from)
             b == G(x.to)
             lo == Min({a, b})
             hi == Max({a, b})
  <2>0. res = IF Err \in {a, b} THEN Failed ELSE Some(makeBetweenList(lo, hi, s))
    BY <1>9 DEF DateBetween
  <2>1. getTableIndexs(r, x) = res
    BY <1>0, <1>9, ConditionTables
  <2>2. makeBetweenList(lo, hi, s) = IF At(lo, s) = {} \/ At(hi, s) = {} THEN <<>>
                                     ELSE SubSeq(s, Min(At(lo, s)), Min(At(hi, s)))
    BY DEF makeBetweenList
  <2>3. Increasing(res.l)
    <3>1. Increasing(makeBetweenList(lo, hi, s))
      <4> HIDE DEF s, lo, hi
      <4>1. CASE At(lo, s) = {} \/ At(hi, s) = {}
        BY <2>2, <4>1, ShortIncreasing
      <4>2. CASE At(lo, s) # {} /\ At(hi, s) # {}
        <5>1. /\ Min(At(lo, s)) \in Int /\ Min(At(hi, s)) \in Int
              /\ 1 <= Min(At(lo, s)) /\ Min(At(hi, s)) <= Len(s)
          BY <1>6, <1>7, <4>2
        <5> QED BY <1>6, <2>2, <4>2, <5>1, SubSeqIncreasing
      <4> QED BY <4>1, <4>2
    <3> QED BY <2>0, <3>1, ShortIncreasing DEF Some, Failed
  <2>4. ASSUME NEW l \in K, res.ok, G(l) \in ToSet(s), Satisfies(x, l.v)
        PROVE  G(l) \in ToSet(res.l) \/ (res.l = <<>> /\ ~Bounded(r, x))
    <3>1. a # Err /\ b # Err
      BY <2>0, <2>4 DEF Failed
    <3>2. /\ Day(r, l) /\ FindForKey(r, l) = G(l)
          /\ Day(r, x.from) /\ FindForKey(r, x.from) = a /\ Day(r, x.to) /\ FindForKey(r, x.to) = b
      BY <1>3, <1>4, <1>9, <2>4, <3>1
    <3>3. CASE a \in ToSet(s) /\ b \in ToSet(s)
      <4>1. HasTable(r, l) /\ HasTable(r, x.from) /\ HasTable(r, x.to)
        BY <2>4, <3>2, <3>3 DEF HasTable
      <4>2. DateCondition(r, x)
        BY <1>9, <3>2, <4>1 DEF DateCondition
      <4>3. FindForKey(r, l) \in ToSet(getTableIndexs(r, x).l)
        BY <1>1, <2>4, <3>2, <4>1, <4>2, DateRouting
      <4> QED BY <2>1, <3>2, <4>3
    <3>4. CASE ~(a \in ToSet(s) /\ b \in ToSet(s))
      <4>1. {lo, hi} = {a, b}
        <5>1. a \in Nat /\ b \in Nat
          BY <1>2, <1>9, <3>1
        <5>2. CASE a <= b
          <6>1. lo = a /\ hi = b
            BY <5>1, <5>2 DEF Min, Max
          <6> QED BY <6>1
        <5>3. CASE b <= a
          <6>1. lo = b /\ hi = a
            BY <5>1, <5>3 DEF Min, Max
          <6> QED BY <6>1
        <5> QED BY <5>1, <5>2, <5>3
      <4>2. At(lo, s) = {} \/ At(hi, s) = {}
        <5> HIDE DEF lo, hi
        <5> QED BY <1>5, <3>4, <4>1
      <4>3. res.l = <<>>
        <5> HIDE DEF res, lo, hi, a, b
        <5>1. res = Some(makeBetweenList(lo, hi, s)) /\ makeBetweenList(lo, hi, s) = <<>>
          BY <2>0, <2>2, <3>1, <4>2
        <5> QED BY <5>1 DEF Some
      <4>4. ~Bounded(r, x)
        BY <1>9, <3>1, <3>4 DEF Bounded, Known
      <4> QED BY <4>3, <4>4
    <3> QED BY <3>3, <3>4
  <2> HIDE DEF res
  <2> QED BY <2>3, <2>4, Zenon DEF Reaches, res
<1> QED BY <1>8, <1>9

(* Every condition on the key.                                             *)
LEMMA ConditionReach ==
    ASSUME NEW r, GoodRule(r), NEW K, ValidKeys(r, K),
           NEW x, ValidCondition(r, K, x), Routed(x)
    PROVE  Reaches(r, K, x, getTableIndexs(r, x))
<1>1. r.type = "hash" \/ r.type = "range" \/ r.type \in DateTypes
  BY DEF GoodRule, ParsedRule, DateRule
<1>2. r.type \in DateTypes => r.type # "hash" /\ r.type # "range"
  BY DEF DateTypes
<1>3. CASE x.op \in {"=", "<=>"} /\ x.lit \in K /\ x.rev \in BOOLEAN
  BY <1>3, ListedReach, ConditionTables
<1>4. CASE x.op \in {"<", "<=", ">", ">="} /\ x.lit \in K /\ x.rev \in BOOLEAN
  <2>1. CASE r.type = "hash"
    BY <1>4, <2>1, AllReach, ConditionTables
  <2>2. CASE r.type = "range"
    BY <1>4, <2>2, RangeReach, ConditionTables
  <2>3. CASE r.type \in DateTypes
    BY <1>2, <1>4, <2>3, DateReach, ConditionTables
  <2> QED BY <1>1, <2>1, <2>2, <2>3
<1>5. CASE x.op = "in" /\ x.lits \subseteq K
  BY <1>5, ListedReach, ConditionTables
<1>6. CASE x.op = "between" /\ x.from \in K /\ x.to \in K
  <2>1. CASE r.type = "hash"
    BY <1>6, <2>1, AllReach, ConditionTables
  <2>2. CASE r.type = "range"
    BY <1>6, <2>2, RangeReach, ConditionTables
  <2>3. CASE r.type \in DateTypes
    BY <1>2, <1>6, <2>3, DateReach, ConditionTables
  <2> QED BY <1>1, <2>1, <2>2, <2>3
<1>7. CASE NotIn(x) /\ r.type \notin DateTypes
  BY <1>1, <1>7, AllReach, ConditionTables
<1>8. CASE Outside(x) /\ x.from \in K /\ x.to \in K /\ r.type \notin DateTypes
  <2>1. CASE r.type = "hash"
    BY <1>8, <2>1, AllReach, ConditionTables
  <2>2. CASE r.type = "range"
    BY <1>8, <2>2, RangeReach, ConditionTables
  <2> QED BY <1>1, <1>8, <2>1, <2>2
<1> QED BY <1>3, <1>4, <1>5, <1>6, <1>7, <1>8, ConditionKinds
-----------------------------------------------------------------------------
(* The WHERE expression. *)

(* The operands of AND, OR and NOT stand before them.                      *)
WellFormed(w) ==
    /\ w \in Seq(ToSet(w))
    /\ \A i \in DOMAIN w :
          /\ w[i].op \in {"and", "or"} => w[i].size \in 1..(i - 2)
          /\ w[i].op = "not" => w[i].size \in 1..(i - 1)

(* Only AND and OR have tables from their operands.                        *)
LEMMA TablesForLeaf ==
    ASSUME NEW r, NEW x
    PROVE  /\ \A a, b, c, d : x.op \notin {"and", "or"} => TablesFor(r, x, a, b) = TablesFor(r, x, c, d)
           /\ \A a, b, c : x.op = "not" => TablesFor(r, x, a, b) = TablesFor(r, x, c, b)
  BY Zenon DEF TablesFor

(* Only AND, OR and NOT have a value from their operands, NOT from one.    *)
LEMMA MatchesAtLeaf ==
    ASSUME NEW w, NEW i, NEW q, NEW group
    PROVE  /\ \A a, b, c, d : w[i].op \notin {"and", "or", "not"} =>
                  MatchesAt(w, i, q, group, a, b) = MatchesAt(w, i, q, group, c, d)
           /\ \A a, b, c : w[i].op = "not" =>
                  MatchesAt(w, i, q, group, a, b) = MatchesAt(w, i, q, group, c, b)
  BY Zenon DEF MatchesAt

(* The walk of getTableIndexByBoolExpr visits every node once, operands      *)
(* first.                                                                  *)
LEMMA VisitNodes ==
    ASSUME NEW r, NEW w, WellFormed(w), w # <<>>
    PROVE  \E f : /\ \A i \in 1..Len(w) : f[i] = TablesFor(r, w[i], f[LeftOf(w, i)], f[i - 1])
                  /\ getTableIndexByBoolExpr(r, w) = f[Len(w)]
<1> DEFINE N == Len(w)
           Def(f, n) == f = [i \in 1..n |-> TablesFor(r, w[i], f[LeftOf(w, i)], f[i - 1])]
           P == {n \in Nat : n <= N => \E f : Def(f, n)}
<1>1. N \in Nat /\ DOMAIN w = 1..N
  BY DEF WellFormed
<1> HIDE DEF N
<1>2. 0 \in P
  <2> DEFINE f == [i \in 1..0 |-> 0]
  <2>1. Def(f, 0)
    OBVIOUS
  <2> QED BY <2>1, Zenon
<1>3. ASSUME NEW n \in Nat, n \in P PROVE n + 1 \in P
  <2> SUFFICES ASSUME n + 1 <= N PROVE \E f : Def(f, n + 1)
    <3> HIDE DEF Def
    <3> QED OBVIOUS
  <2>1. n <= N
    BY <1>1
  <2>2. PICK f : Def(f, n)
    <3> HIDE DEF Def
    <3> QED BY <1>3, <2>1
  <2> DEFINE new == TablesFor(r, w[n + 1], f[LeftOf(w, n + 1)], f[n])
             g == [i \in 1..(n + 1) |-> IF i = n + 1 THEN new ELSE f[i]]
  <2>3. /\ \A i \in 1..(n + 1) : g[i] = IF i = n + 1 THEN new ELSE f[i]
        /\ \A i \in 1..n : g[i] = f[i]
    OBVIOUS
  <2>4. \A i \in 1..n : f[i] = TablesFor(r, w[i], f[LeftOf(w, i)], f[i - 1])
    BY <2>2
  <2>5. DOMAIN g = 1..(n + 1) /\ g = [i \in 1..(n + 1) |-> g[i]]
    OBVIOUS
  <2>6. ASSUME NEW i \in 1..(n + 1)
        PROVE  g[i] = TablesFor(r, w[i], g[LeftOf(w, i)], g[i - 1])
    <3>1. g[i] = TablesFor(r, w[i], f[LeftOf(w, i)], f[i - 1])
      <4>1. i = n + 1 \/ (i # n + 1 /\ i \in 1..n)
        OBVIOUS
      <4>2. i = n + 1 => i - 1 = n
        OBVIOUS
      <4> HIDE DEF g
      <4> QED BY <2>3, <2>4, <4>1, <4>2
    <3>2. CASE w[i].op \in {"and", "or"}
      <4>1. i \in 1..N
        BY <1>1
      <4>2. LeftOf(w, i) \in 0..n /\ i - 1 \in 1..n /\ (w[i].op # "not" => LeftOf(w, i) \in 1..n)
        <5>1. \/ w[i].size \in 1..(i - 2)
              \/ w[i].op = "not" /\ w[i].size \in 1..(i - 1)
          BY <1>1, <3>2, <4>1 DEF WellFormed
        <5> QED BY <5>1 DEF LeftOf
      <4> HIDE DEF g
      <4>3. g[i - 1] = f[i - 1] /\ (w[i].op # "not" => g[LeftOf(w, i)] = f[LeftOf(w, i)])
        BY <2>3, <4>2
      <4> QED BY <3>1, <3>2, <4>3, TablesForLeaf
    <3>3. CASE w[i].op \notin {"and", "or"}
      BY <3>1, <3>3, TablesForLeaf
    <3> QED BY <3>2, <3>3
  <2>7. Def(g, n + 1)
    <3> HIDE DEF g
    <3> QED BY <2>5, <2>6, Zenon
  <2> QED BY <2>7, Zenon
<1>4. \E f : Def(f, N)
  <2> HIDE DEF Def
  <2>1. \A n \in Nat : n \in P
    <3> HIDE DEF P
    <3> QED BY <1>2, <1>3, SetInduction
  <2> QED BY <1>1, <2>1
<1> DEFINE D == DOMAIN w
           F == CHOOSE f : f = [i \in D |-> TablesFor(r, w[i], f[LeftOf(w, i)], f[i - 1])]
<1>5. D = 1..N
  BY <1>1
<1> HIDE DEF D
<1>6. F = [i \in D |-> TablesFor(r, w[i], F[LeftOf(w, i)], F[i - 1])]
  BY <1>4, <1>5, Zenon
<1>7. getTableIndexByBoolExpr(r, w) = F[Len(w)]
  BY Zenon DEF getTableIndexByBoolExpr, D
<1> HIDE DEF F
<1>8. \A i \in 1..N : F[i] = TablesFor(r, w[i], F[LeftOf(w, i)], F[i - 1])
  BY <1>5, <1>6, Zenon
<1> QED BY <1>7, <1>8, Zenon DEF N

(* So does MySQL when it evaluates the condition on a row.                  *)
LEMMA MatchNodes ==
    ASSUME NEW q, NEW group, NEW w, WellFormed(w), w # <<>>
    PROVE  \E f : /\ \A i \in 1..Len(w) : f[i] = MatchesAt(w, i, q, group, f[LeftOf(w, i)], f[i - 1])
                  /\ Matches(w, q, group) <=> f[Len(w)]
<1> DEFINE N == Len(w)
           Def(f, n) == f = [i \in 1..n |-> MatchesAt(w, i, q, group, f[LeftOf(w, i)], f[i - 1])]
           P == {n \in Nat : n <= N => \E f : Def(f, n)}
<1>1. N \in Nat /\ DOMAIN w = 1..N
  BY DEF WellFormed
<1> HIDE DEF N
<1>2. 0 \in P
  <2> DEFINE f == [i \in 1..0 |-> 0]
  <2>1. Def(f, 0)
    OBVIOUS
  <2> QED BY <2>1, Zenon
<1>3. ASSUME NEW n \in Nat, n \in P PROVE n + 1 \in P
  <2> SUFFICES ASSUME n + 1 <= N PROVE \E f : Def(f, n + 1)
    <3> HIDE DEF Def
    <3> QED OBVIOUS
  <2>1. n <= N
    BY <1>1
  <2>2. PICK f : Def(f, n)
    <3> HIDE DEF Def
    <3> QED BY <1>3, <2>1
  <2> DEFINE new == MatchesAt(w, n + 1, q, group, f[LeftOf(w, n + 1)], f[n])
             g == [i \in 1..(n + 1) |-> IF i = n + 1 THEN new ELSE f[i]]
  <2>3. /\ \A i \in 1..(n + 1) : g[i] = IF i = n + 1 THEN new ELSE f[i]
        /\ \A i \in 1..n : g[i] = f[i]
    OBVIOUS
  <2>4. \A i \in 1..n : f[i] = MatchesAt(w, i, q, group, f[LeftOf(w, i)], f[i - 1])
    BY <2>2
  <2>5. DOMAIN g = 1..(n + 1) /\ g = [i \in 1..(n + 1) |-> g[i]]
    OBVIOUS
  <2>6. ASSUME NEW i \in 1..(n + 1)
        PROVE  g[i] = MatchesAt(w, i, q, group, g[LeftOf(w, i)], g[i - 1])
    <3>1. g[i] = MatchesAt(w, i, q, group, f[LeftOf(w, i)], f[i - 1])
      <4>1. i = n + 1 \/ (i # n + 1 /\ i \in 1..n)
        OBVIOUS
      <4>2. i = n + 1 => i - 1 = n
        OBVIOUS
      <4> HIDE DEF g
      <4> QED BY <2>3, <2>4, <4>1, <4>2
    <3>2. CASE w[i].op \in {"and", "or", "not"}
      <4>1. i \in 1..N
        BY <1>1
      <4>2. LeftOf(w, i) \in 0..n /\ i - 1 \in 1..n /\ (w[i].op # "not" => LeftOf(w, i) \in 1..n)
        <5>1. \/ w[i].size \in 1..(i - 2)
              \/ w[i].op = "not" /\ w[i].size \in 1..(i - 1)
          BY <1>1, <3>2, <4>1 DEF WellFormed
        <5> QED BY <5>1 DEF LeftOf
      <4> HIDE DEF g
      <4>3. g[i - 1] = f[i - 1] /\ (w[i].op # "not" => g[LeftOf(w, i)] = f[LeftOf(w, i)])
        BY <2>3, <4>2
      <4> QED BY <3>1, <3>2, <4>3, MatchesAtLeaf
    <3>3. CASE w[i].op \notin {"and", "or", "not"}
      BY <3>1, <3>3, MatchesAtLeaf
    <3> QED BY <3>2, <3>3
  <2>7. Def(g, n + 1)
    <3> HIDE DEF g
    <3> QED BY <2>5, <2>6, Zenon
  <2> QED BY <2>7, Zenon
<1>4. \E f : Def(f, N)
  <2> HIDE DEF Def
  <2>1. \A n \in Nat : n \in P
    <3> HIDE DEF P
    <3> QED BY <1>2, <1>3, SetInduction
  <2> QED BY <1>1, <2>1
<1> DEFINE D == DOMAIN w
           F == CHOOSE f : f = [i \in D |-> MatchesAt(w, i, q, group, f[LeftOf(w, i)], f[i - 1])]
<1>5. D = 1..N
  BY <1>1
<1> HIDE DEF D
<1>6. F = [i \in D |-> MatchesAt(w, i, q, group, F[LeftOf(w, i)], F[i - 1])]
  BY <1>4, <1>5, Zenon
<1>7. Matches(w, q, group) <=> F[Len(w)]
  BY Zenon DEF Matches, D
<1> HIDE DEF F
<1>8. \A i \in 1..N : F[i] = MatchesAt(w, i, q, group, F[LeftOf(w, i)], F[i - 1])
  BY <1>5, <1>6, Zenon
<1> QED BY <1>7, <1>8, Zenon DEF N

(* A valid WHERE is well formed.                                           *)
LEMMA ValidIsWellFormed ==
    ASSUME NEW r, NEW K, NEW w, ValidWhere(r, K, w)
    PROVE  /\ WellFormed(w)
           /\ \A i \in DOMAIN w : w[i].op \notin {"and", "or", "not"} => ValidCondition(r, K, w[i])
           /\ r.type \in DateTypes /\ (\E i \in DOMAIN w : w[i].op = "or") =>
                  \A i \in DOMAIN w : Bounded(r, w[i])
<1>1. \A x : ValidCondition(r, K, x) => x.op \notin {"and", "or", "not"}
  BY Zenon DEF ValidCondition, Comparisons
<1>2. w \in Seq(ToSet(w))
  BY DEF ValidWhere
<1>3. ASSUME NEW i \in DOMAIN w
      PROVE  \/ w[i].op \in {"and", "or"} /\ w[i].size \in 1..(i - 2)
             \/ w[i].op = "not" /\ w[i].size \in 1..(i - 1)
             \/ ValidCondition(r, K, w[i])
  BY Zenon DEF ValidWhere
<1>4. ASSUME r.type \in DateTypes, NEW j \in DOMAIN w, w[j].op = "or", NEW i \in DOMAIN w
      PROVE  Bounded(r, w[i])
  BY <1>4, Zenon DEF ValidWhere, Bounded
<1>5. \A i \in DOMAIN w :
          /\ w[i].op \in {"and", "or"} => w[i].size \in 1..(i - 2)
          /\ w[i].op = "not" => w[i].size \in 1..(i - 1)
          /\ w[i].op \notin {"and", "or", "not"} => ValidCondition(r, K, w[i])
  BY <1>1, <1>3, Zenon
<1> QED BY <1>2, <1>4, <1>5, Zenon DEF WellFormed

(* The tables of a node from those of its operands.                        *)
LEMMA TablesForNode ==
    ASSUME NEW r, NEW x, NEW a, NEW b
    PROVE  LET res == TablesFor(r, x, a, b)
           IN  /\ x.op = "and" => (res.ok => a.ok /\ b.ok) /\ res.l = interList(a.l, b.l)
               /\ x.op = "or" => (res.ok => a.ok /\ b.ok) /\ res.l = unionList(a.l, b.l)
               /\ Routed(x) => res = getTableIndexs(r, x)
               /\ ~Routed(x) /\ x.op \notin {"and", "or"} => res = Some(r.subTables)
<1>1. Routed(x) => x.op \notin {"and", "or"}
  BY Zenon DEF Routed, Comparisons
<1>2. /\ x.op = "and" => TablesFor(r, x, a, b) = [ok |-> a.ok /\ b.ok, l |-> interList(a.l, b.l)]
      /\ x.op = "or" => TablesFor(r, x, a, b) = [ok |-> a.ok /\ b.ok, l |-> unionList(a.l, b.l)]
      /\ Routed(x) => TablesFor(r, x, a, b) = getTableIndexs(r, x)
      /\ ~Routed(x) /\ x.op \notin {"and", "or"} => TablesFor(r, x, a, b) = Some(r.subTables)
  BY <1>1, Zenon DEF TablesFor
<1>3. \A d : [ok |-> a.ok /\ b.ok, l |-> d].ok => a.ok /\ b.ok
  BY Zenon
<1>4. \A d : [ok |-> a.ok /\ b.ok, l |-> d].l = d
  OBVIOUS
<1> QED BY <1>2, <1>3, <1>4, Zenon

(* Whether a row satisfies a node from whether it satisfies its operands.  *)
LEMMA MatchesNode ==
    ASSUME NEW w, NEW i, NEW q, NEW a, NEW b, MatchesAt(w, i, q, {}, a, b)
    PROVE  /\ w[i].op = "and" => a /\ b
           /\ w[i].op = "or" => a \/ b
           /\ w[i].op \notin {"and", "or", "not", "other"} => Satisfies(w[i], q.k)
  BY Zenon DEF MatchesAt

(* getTableIndexByBoolExpr: for every rule and every WHERE, however AND,   *)
(* OR and NOT are nested, a row that satisfies the WHERE is in one of the  *)
(* tables the statement is sent to, if it is sent anywhere; and those      *)
(* tables are listed in increasing order, none of them twice.              *)
THEOREM WhereReaches ==
    ASSUME NEW r, GoodRule(r), NEW K, ValidKeys(r, K), NEW w, ValidWhere(r, K, w), w # <<>>
    PROVE  /\ Increasing(getTableIndexByBoolExpr(r, w).l)
           /\ getTableIndexByBoolExpr(r, w).ok /\ getTableIndexByBoolExpr(r, w).l # <<>> =>
                 \A l \in K : \A q :
                    getTableIndexByValue(r, l) \in ToSet(r.subTables) /\ q.k = l.v /\ Matches(w, q, {}) =>
                        getTableIndexByValue(r, l) \in ToSet(getTableIndexByBoolExpr(r, w).l)
<1>1. /\ WellFormed(w)
      /\ \A i \in DOMAIN w : w[i].op \notin {"and", "or", "not"} => ValidCondition(r, K, w[i])
      /\ r.type \in DateTypes /\ (\E i \in DOMAIN w : w[i].op = "or") =>
             \A i \in DOMAIN w : Bounded(r, w[i])
  BY ValidIsWellFormed
<1>2. Len(w) \in Nat /\ Len(w) # 0 /\ DOMAIN w = 1..Len(w)
  BY <1>1 DEF WellFormed
<1>3. PICK v : /\ \A i \in 1..Len(w) : v[i] = TablesFor(r, w[i], v[LeftOf(w, i)], v[i - 1])
               /\ getTableIndexByBoolExpr(r, w) = v[Len(w)]
  BY <1>1, VisitNodes
<1>4. \A i \in 1..Len(w) : w[i].op \in {"and", "or"} =>
          LeftOf(w, i) \in 1..Len(w) /\ LeftOf(w, i) < i /\ i - 1 \in 1..Len(w)
  <2> SUFFICES ASSUME NEW i \in 1..Len(w), w[i].op \in {"and", "or"}
               PROVE  LeftOf(w, i) \in 1..Len(w) /\ LeftOf(w, i) < i /\ i - 1 \in 1..Len(w)
    OBVIOUS
  <2>1. w[i].size \in 1..(i - 2)
    BY <1>1, <1>2 DEF WellFormed
  <2> QED BY <1>2, <2>1 DEF LeftOf
<1>5. \A i \in 1..Len(w) : Routed(w[i]) =>
          w[i].op \notin {"and", "or", "not", "other"} /\ Reaches(r, K, w[i], getTableIndexs(r, w[i]))
  <2>1. \A x : Routed(x) => x.op \notin {"and", "or", "not", "other"}
    BY Zenon DEF Routed, Comparisons
  <2> QED BY <1>1, <1>2, <2>1, ConditionReach
<1>6. Increasing(r.subTables) /\ Some(r.subTables).l = r.subTables
  BY DEF GoodRule, Some
<1> DEFINE S == {i \in 1..Len(w) : Increasing(v[i].l)}
<1>7. ASSUME NEW i \in 1..Len(w), \A j \in 1..(i - 1) : j \in S PROVE i \in S
  <2>1. ASSUME w[i].op \in {"and", "or"}
        PROVE  Increasing(v[LeftOf(w, i)].l) /\ Increasing(v[i - 1].l)
    <3>1. LeftOf(w, i) \in 1..(i - 1) /\ i - 1 \in 1..(i - 1)
      BY <1>4, <2>1
    <3> QED BY <1>7, <3>1
  <2>2. CASE w[i].op \in {"and", "or"}
    BY <1>3, <2>1, <2>2, TablesForNode, ListsAreSets
  <2>3. CASE Routed(w[i])
    BY <1>3, <1>5, <2>3, TablesForNode DEF Reaches
  <2>4. CASE ~Routed(w[i]) /\ w[i].op \notin {"and", "or"}
    BY <1>3, <1>6, <2>4, TablesForNode
  <2> QED BY <2>2, <2>3, <2>4
<1>8. \A i \in 1..Len(w) : Increasing(v[i].l)
  <2>1. 1..Len(w) \subseteq S
    <3> HIDE DEF S
    <3> QED BY <1>2, <1>7, StrongInduction, Zenon
  <2> QED BY <2>1
<1>9. Len(w) \in 1..Len(w)
  BY <1>2
<1>10. Increasing(getTableIndexByBoolExpr(r, w).l)
  BY <1>3, <1>8, <1>9
<1>11. ASSUME NEW l \in K, NEW q, getTableIndexByValue(r, l) \in ToSet(r.subTables), q.k = l.v,
              Matches(w, q, {}), v[Len(w)].ok, v[Len(w)].l # <<>>
       PROVE  getTableIndexByValue(r, l) \in ToSet(v[Len(w)].l)
  <2> DEFINE t == getTableIndexByValue(r, l)
             Skipped == \A j \in DOMAIN w : w[j].op # "or"
             Kept(i) == t \in ToSet(v[i].l) \/ (v[i].l = <<>> /\ Skipped)
  <2>1. PICK m : /\ \A i \in 1..Len(w) : m[i] = MatchesAt(w, i, q, {}, m[LeftOf(w, i)], m[i - 1])
                 /\ Matches(w, q, {}) <=> m[Len(w)]
    BY <1>1, MatchNodes
  <2> DEFINE H == {i \in 1..Len(w) : m[i] /\ v[i].ok => Kept(i)}
  <2>2. \A i \in 1..Len(w) : m[i] =>
           /\ w[i].op = "and" => m[LeftOf(w, i)] /\ m[i - 1]
           /\ w[i].op = "or" => m[LeftOf(w, i)] \/ m[i - 1]
           /\ w[i].op \notin {"and", "or", "not", "other"} => Satisfies(w[i], q.k)
    <3> SUFFICES ASSUME NEW i \in 1..Len(w), m[i]
                 PROVE  /\ w[i].op = "and" => m[LeftOf(w, i)] /\ m[i - 1]
                        /\ w[i].op = "or" => m[LeftOf(w, i)] \/ m[i - 1]
                        /\ w[i].op \notin {"and", "or", "not", "other"} => Satisfies(w[i], q.k)
      BY Zenon
    <3>1. MatchesAt(w, i, q, {}, m[LeftOf(w, i)], m[i - 1])
      BY <2>1, Zenon
    <3> QED BY <3>1, MatchesNode, Zenon
  <2>3. \A i \in 1..Len(w) : v[i].ok => (w[i].op \in {"and", "or"} => v[LeftOf(w, i)].ok /\ v[i - 1].ok)
    BY <1>3, TablesForNode
  <2>4. \A i \in 1..Len(w) :
           /\ w[i].op = "and" => v[i].l = interList(v[LeftOf(w, i)].l, v[i - 1].l)
           /\ w[i].op = "or" => v[i].l = unionList(v[LeftOf(w, i)].l, v[i - 1].l)
    BY <1>3, TablesForNode
  <2>5. \A i \in 1..Len(w) : w[i].op \in {"and", "or"} =>
           /\ ToSet(interList(v[LeftOf(w, i)].l, v[i - 1].l)) = ToSet(v[LeftOf(w, i)].l) \cap ToSet(v[i - 1].l)
           /\ ToSet(unionList(v[LeftOf(w, i)].l, v[i - 1].l)) = ToSet(v[LeftOf(w, i)].l) \cup ToSet(v[i - 1].l)
    BY <1>4, <1>8, ListsAreSets
  <2>6. ASSUME NEW i \in 1..Len(w), \A j \in 1..(i - 1) : j \in H, m[i], v[i].ok PROVE Kept(i)
    <3>1. ASSUME w[i].op \in {"and", "or"}
          PROVE  /\ m[LeftOf(w, i)] => Kept(LeftOf(w, i))
                 /\ m[i - 1] => Kept(i - 1)
      <4>1. LeftOf(w, i) \in 1..(i - 1) /\ i - 1 \in 1..(i - 1)
        BY <1>4, <3>1
      <4>2. v[LeftOf(w, i)].ok /\ v[i - 1].ok
        BY <2>3, <2>6, <3>1
      <4> HIDE DEF Kept
      <4> QED BY <2>6, <4>1, <4>2, Zenon
    <3>2. CASE w[i].op = "and"
      <4>1. Kept(LeftOf(w, i)) /\ Kept(i - 1)
        BY <2>2, <2>6, <3>1, <3>2, Zenon
      <4>2. v[i].l = interList(v[LeftOf(w, i)].l, v[i - 1].l)
        BY <2>4, <3>2
      <4>3. ToSet(v[i].l) = ToSet(v[LeftOf(w, i)].l) \cap ToSet(v[i - 1].l)
        BY <2>5, <3>2, <4>2
      <4>4. \A k : v[k].l = <<>> => ToSet(v[k].l) = {}
        BY DEF ToSet
      <4>5. ToSet(v[i].l) = {} => v[i].l = <<>>
        <5>1. v[i].l \in Seq(Int)
          BY <1>8 DEF Increasing
        <5> QED BY <5>1, NoElements
      <4>6. CASE t \in ToSet(v[LeftOf(w, i)].l) /\ t \in ToSet(v[i - 1].l)
        BY <4>3, <4>6
      <4>7. CASE t \notin ToSet(v[LeftOf(w, i)].l) \/ t \notin ToSet(v[i - 1].l)
        <5>1. Skipped /\ (v[LeftOf(w, i)].l = <<>> \/ v[i - 1].l = <<>>)
          <6> HIDE DEF t, Skipped
          <6> QED BY <4>1, <4>7, Zenon
        <5>2. ToSet(v[i].l) = {}
          <6> HIDE DEF t, Skipped, Kept
          <6> QED BY <4>3, <4>4, <5>1, Zenon
        <5> HIDE DEF t, Skipped
        <5> QED BY <4>5, <5>1, <5>2, Zenon
      <4> QED BY <4>6, <4>7, Zenon
    <3>3. CASE w[i].op = "or"
      <4>1. Kept(LeftOf(w, i)) \/ Kept(i - 1)
        BY <2>2, <2>6, <3>1, <3>3, Zenon
      <4>2. ~Skipped
        BY <1>2, <3>3
      <4>3. v[i].l = unionList(v[LeftOf(w, i)].l, v[i - 1].l)
        BY <2>4, <3>3
      <4>4. ToSet(v[i].l) = ToSet(v[LeftOf(w, i)].l) \cup ToSet(v[i - 1].l)
        BY <2>5, <3>3, <4>3
      <4> QED BY <4>1, <4>2, <4>4
    <3>4. CASE Routed(w[i])
      <4>1. Satisfies(w[i], l.v)
        BY <1>5, <1>11, <2>2, <2>6, <3>4
      <4>2. v[i] = getTableIndexs(r, w[i])
        BY <1>3, <3>4, TablesForNode
      <4>3. t \in ToSet(v[i].l) \/ (v[i].l = <<>> /\ r.type \in DateTypes /\ ~Bounded(r, w[i]))
        BY <1>5, <1>11, <2>6, <3>4, <4>1, <4>2 DEF Reaches
      <4>4. r.type \in DateTypes /\ ~Bounded(r, w[i]) => Skipped
        BY <1>1, <1>2
      <4> QED BY <4>3, <4>4
    <3>5. CASE ~Routed(w[i]) /\ w[i].op \notin {"and", "or"}
      <4>1. v[i] = Some(r.subTables)
        <5>1. v[i] = TablesFor(r, w[i], v[LeftOf(w, i)], v[i - 1])
          BY <1>3, Zenon
        <5> QED BY <3>5, <5>1, TablesForNode
      <4>2. v[i].l = r.subTables
        BY <1>6, <4>1, Zenon
      <4> QED BY <1>11, <4>2
    <3> QED BY <3>2, <3>3, <3>4, <3>5
  <2>7. Kept(Len(w))
    <3>1. ASSUME NEW i \in 1..Len(w), \A j \in 1..(i - 1) : j \in H PROVE i \in H
      <4> HIDE DEF Kept
      <4> QED BY <2>6, <3>1, Zenon
    <3>2. 1..Len(w) \subseteq H
      <4> HIDE DEF H
      <4> QED BY <1>2, <3>1, StrongInduction, Zenon
    <3> HIDE DEF Kept
    <3>3. m[Len(w)]
      BY <1>11, <2>1, Zenon
    <3> QED BY <1>9, <1>11, <3>2, <3>3, Zenon
  <2> QED BY <1>11, <2>7
<1> QED BY <1>3, <1>10, <1>11, Zenon
-----------------------------------------------------------------------------
(* Plans. *)

(* The plan is an error, or visits no table twice and every table with a   *)
(* row of the keys K that s can touch.                                     *)
Covers(r, K, s, vals, plan) ==
    \/ plan = NoPlan
    \/ /\ plan.ok /\ Distinct(plan.tables)
       /\ \A l \in K : getTableIndexByValue(r, l) \in ToSet(r.subTables) =>
              \/ getTableIndexByValue(r, l) \in ToSet(plan.tables)
              \/ Untouched(s, l.v, vals)

(* The fields of a plan.                                                   *)
LEMMA PlanFields ==
    ASSUME NEW r, NEW l, NEW ns
    PROVE  Plan(r, l, ns).ok /\ Plan(r, l, ns).tables = l /\ Plan(r, l, ns).nodes = ns
  BY DEF Plan

(* A plan of all tables covers every statement.                            *)
LEMMA AllTablesCover ==
    ASSUME NEW r, GoodRule(r), NEW K, NEW s, NEW vals
    PROVE  Covers(r, K, s, vals, AllTables(r))
<1>1. CASE r.subTables = <<>>
  BY <1>1, Zenon DEF AllTables, Covers
<1>2. CASE r.subTables # <<>>
  <2>1. AllTables(r).ok /\ AllTables(r).tables = r.subTables
    BY <1>2, PlanFields DEF AllTables
  <2>2. Distinct(r.subTables)
    BY IncreasingDistinct DEF GoodRule
  <2> QED BY <2>1, <2>2 DEF Covers
<1> QED BY <1>1, <1>2, Zenon

(* calRouteIndexs: so does the plan for a WHERE.                           *)
LEMMA WhereCovers ==
    ASSUME NEW r, GoodRule(r), NEW K, ValidKeys(r, K), NEW s, NEW vals,
           s.kind \notin {"insert", "replace", "truncate"}, ValidWhere(r, K, s.where)
    PROVE  Covers(r, K, s, vals, calRouteIndexs(r, s.where))
<1> DEFINE w == s.where
           res == getTableIndexByBoolExpr(r, w)
<1>1. CASE w = <<>>
  <2>1. calRouteIndexs(r, w) = AllTables(r)
    BY <1>1, Zenon DEF calRouteIndexs
  <2> QED BY <2>1, AllTablesCover
<1>2. CASE w # <<>> /\ (~res.ok \/ res.l = <<>>)
  <2>1. calRouteIndexs(r, w) = NoPlan
    BY <1>2, Zenon DEF calRouteIndexs
  <2> QED BY <2>1 DEF Covers
<1>3. CASE w # <<>> /\ res.ok /\ res.l # <<>>
  <2>1. calRouteIndexs(r, w) = Plan(r, res.l, TindexsToNindexs(r, ToSet(res.l)))
    BY <1>3, Zenon DEF calRouteIndexs
  <2>2. calRouteIndexs(r, w).ok /\ calRouteIndexs(r, w).tables = res.l
    BY <2>1, PlanFields
  <2>3. /\ Increasing(res.l)
        /\ \A l \in K : \A q : getTableIndexByValue(r, l) \in ToSet(r.subTables) /\ q.k = l.v /\ Matches(w, q, {}) =>
               getTableIndexByValue(r, l) \in ToSet(res.l)
    BY <1>3, WhereReaches
  <2>4. Distinct(res.l)
    BY <2>3, IncreasingDistinct
  <2> HIDE DEF res
  <2>5. ASSUME NEW l \in K, getTableIndexByValue(r, l) \in ToSet(r.subTables),
               getTableIndexByValue(r, l) \notin ToSet(res.l)
        PROVE  Untouched(s, l.v, vals)
    <3>1. \A v \in vals : ~Matches(w, [k |-> l.v, val |-> v], {})
      <4>1. \A v : [k |-> l.v, val |-> v].k = l.v
        OBVIOUS
      <4> QED BY <2>3, <2>5, <4>1, Zenon
    <3> QED BY <3>1, Zenon DEF Untouched
  <2> QED BY <2>2, <2>4, <2>5 DEF Covers
<1> QED BY <1>1, <1>2, <1>3

(* getInsertTableIndex: so does the plan for the rows of an INSERT.        *)
LEMMA InsertCovers ==
    ASSUME NEW r, GoodRule(r), NEW K, ValidKeys(r, K), NEW s, NEW vals,
           s.kind \in {"insert", "replace"}, \A n \in s.rows : n.lit \in K,
           NEW plan \in getInsertTableIndex(r, s)
    PROVE  Covers(r, K, s, vals, plan)
<1> DEFINE L == {n.lit : n \in s.rows}
           T == IndexOf(r, L)
<1>1. CASE plan = NoPlan
  BY <1>1 DEF Covers
<1>2. CASE plan # NoPlan
  <2>1. PICK l \in SetToSeqs(T) : plan = Plan(r, l, TindexsToNindexs(r, T))
    BY <1>2, Zenon DEF getInsertTableIndex
  <2>2. T \in SUBSET Int /\ IsFiniteSet(T)
    <3>1. L \in SUBSET K
      OBVIOUS
    <3>2. IsFiniteSet(L)
      BY <3>1, FS_Subset DEF ValidKeys
    <3> DEFINE f == [x \in L |-> getTableIndexByValue(r, x)]
    <3>3. f \in Surjection(L, T)
      <4> HIDE DEF L
      <4> QED BY DEF Surjection, IndexOf
    <3>4. IsFiniteSet(T)
      <4> HIDE DEF f, T
      <4> QED BY <3>2, <3>3, FS_Surjection
    <3>5. \A x \in L : getTableIndexByValue(r, x) \in Int
      BY <3>1, IndexType
    <3> QED BY <3>4, <3>5 DEF IndexOf
  <2>3. Distinct(l) /\ ToSet(l) = T
    <3> HIDE DEF T
    <3> QED BY <2>2, ListsOfSet
  <2>4. plan.ok /\ plan.tables = l
    BY <2>1, PlanFields
  <2>5. ASSUME NEW x \in K, getTableIndexByValue(r, x) \notin T
        PROVE  Untouched(s, x.v, vals)
    <3>1. \A n \in s.rows : getTableIndexByValue(r, n.lit) \in T
      BY DEF IndexOf
    <3>2. ASSUME NEW n \in s.rows PROVE n.lit.v # x.v
      <4>1. n.lit \in K
        OBVIOUS
      <4>2. getTableIndexByValue(r, n.lit) # getTableIndexByValue(r, x)
        BY <2>5, <3>1
      <4> QED BY <4>1, <4>2 DEF ValidKeys
    <3>3. x.v \notin {n.lit.v : n \in s.rows}
      BY <3>2
    <3> QED BY <3>3, Zenon DEF Untouched
  <2> HIDE DEF T
  <2> QED BY <2>3, <2>4, <2>5 DEF Covers
<1> QED BY <1>1, <1>2

(* RewrittenSqls's loop over the tables of the plan puts those of node n   *)
(* on its list.                                                            *)
LEMMA SqlsOfNode ==
    ASSUME NEW r, NEW schema, NEW plan, Distinct(plan.tables),
           NEW n \in {NodeName(r, schema, t) : t \in ToSet(plan.tables)}
    PROVE  LET l == RewrittenSqls(r, schema, plan)[n]
           IN  Distinct(l) /\ ToSet(l) = {t \in ToSet(plan.tables) : NodeName(r, schema, t) = n}
<1> DEFINE l == plan.tables
           N == Len(l)
           Name(t) == NodeName(r, schema, t)
           Def(f, m) == f = [i \in 0..m |-> IF i = 0 THEN <<>>
                                            ELSE IF Name(l[i]) = n THEN Append(f[i - 1], l[i]) ELSE f[i - 1]]
           P == {m \in Nat : m <= N => \E f : Def(f, m)}
<1>1. N \in Nat /\ DOMAIN l = 1..N /\ \A i \in 1..N : l[i] \in Int
  BY DEF Distinct
<1>2. \A i, j \in 1..N : l[i] = l[j] => i = j
  BY <1>1, Zenon DEF Distinct
<1> DEFINE F == CHOOSE f : Def(f, N)
<1>3. RewrittenSqls(r, schema, plan)[n] = F[N]
  BY Zenon DEF RewrittenSqls
<1>4. ToSet(l) = {l[i] : i \in 1..N}
  BY <1>1 DEF ToSet
<1> HIDE DEF F, l, N, Name
<1>5. 0 \in P
  <2> DEFINE f == [i \in 0..0 |-> <<>>]
  <2>1. Def(f, 0)
    <3>1. \A i \in 0..0 : i = 0
      OBVIOUS
    <3> QED BY <3>1
  <2> QED BY <2>1, Zenon
<1>6. ASSUME NEW m \in Nat, m \in P PROVE m + 1 \in P
  <2> SUFFICES ASSUME m + 1 <= N PROVE \E f : Def(f, m + 1)
    <3> HIDE DEF Def
    <3> QED OBVIOUS
  <2>1. m <= N
    BY <1>1
  <2>2. PICK f : Def(f, m)
    <3> HIDE DEF Def
    <3> QED BY <1>6, <2>1
  <2> DEFINE Turn(i, x) == IF Name(l[i]) = n THEN Append(x, l[i]) ELSE x
             g == [i \in 0..(m + 1) |-> IF i = m + 1 THEN Turn(i, f[m]) ELSE f[i]]
  <2>3. ASSUME NEW i \in 0..(m + 1) PROVE g[i] = IF i = 0 THEN <<>> ELSE Turn(i, g[i - 1])
    <3> HIDE DEF Turn
    <3>1. CASE i = m + 1
      <4>1. i # 0 /\ i - 1 = m /\ m \in 0..(m + 1) /\ m # m + 1
        BY <3>1
      <4> QED BY <3>1, <4>1
    <3>2. CASE i # m + 1
      <4>1. i \in 0..m /\ g[i] = f[i] /\ (i # 0 => i - 1 \in 0..(m + 1) /\ i - 1 # m + 1)
        BY <3>2
      <4>2. f[i] = IF i = 0 THEN <<>> ELSE Turn(i, f[i - 1])
        BY <2>2, <4>1, Zenon DEF Turn
      <4> QED BY <4>1, <4>2
    <3> QED BY <3>1, <3>2
  <2>4. g = [i \in 0..(m + 1) |-> g[i]]
    OBVIOUS
  <2>5. Def(g, m + 1)
    <3> HIDE DEF g
    <3> QED BY <2>3, <2>4, Zenon
  <2> QED BY <2>5, Zenon
<1>7. \E f : Def(f, N)
  <2> HIDE DEF Def
  <2>1. \A m \in Nat : m \in P
    <3> HIDE DEF P
    <3> QED BY <1>5, <1>6, SetInduction
  <2> QED BY <1>1, <2>1
<1>8. Def(F, N)
  BY <1>7, Zenon DEF F
<1>9. F[0] = <<>> /\ \A i \in 1..N : F[i] = IF Name(l[i]) = n THEN Append(F[i - 1], l[i]) ELSE F[i - 1]
  <2>1. 0 \in 0..N /\ \A i \in 1..N : i \in 0..N /\ i # 0
    BY <1>1
  <2> QED BY <1>8, <2>1, Zenon
<1> DEFINE Had(m) == {l[i] : i \in {j \in 1..m : Name(l[j]) = n}}
           Q == {m \in Nat : m <= N => Distinct(F[m]) /\ ToSet(F[m]) = Had(m)}
<1>10. 0 \in Q
  <2>1. Distinct(<<>>) /\ ToSet(<<>>) = {}
    BY DEF Distinct, ToSet
  <2> QED BY <1>9, <2>1
<1>11. ASSUME NEW m \in Nat, m \in Q PROVE m + 1 \in Q
  <2> SUFFICES ASSUME m + 1 <= N PROVE Distinct(F[m + 1]) /\ ToSet(F[m + 1]) = Had(m + 1)
    OBVIOUS
  <2>1. m <= N /\ m + 1 \in 1..N /\ (m + 1) - 1 = m
    BY <1>1
  <2>2. Distinct(F[m]) /\ ToSet(F[m]) = Had(m)
    BY <1>11, <2>1
  <2>3. F[m + 1] = IF Name(l[m + 1]) = n THEN Append(F[m], l[m + 1]) ELSE F[m]
    BY <1>9, <2>1
  <2>4. \A i : i \in 1..(m + 1) <=> i \in 1..m \/ i = m + 1
    OBVIOUS
  <2>5. CASE Name(l[m + 1]) # n
    <3>1. Had(m + 1) = Had(m)
      BY <2>4, <2>5
    <3> QED BY <2>2, <2>3, <2>5, <3>1
  <2>6. CASE Name(l[m + 1]) = n
    <3>1. Had(m + 1) = Had(m) \cup {l[m + 1]}
      BY <2>4, <2>6
    <3>2. l[m + 1] \notin Had(m)
      <4>1. \A i \in 1..m : i \in 1..N /\ i # m + 1
        BY <1>1, <2>1
      <4> QED BY <1>2, <2>1, <4>1
    <3>3. l[m + 1] \in Int
      BY <1>1, <2>1
    <3> HIDE DEF Had
    <3>4. l[m + 1] \notin ToSet(F[m])
      BY <2>2, <3>2, Zenon
    <3>5. Distinct(Append(F[m], l[m + 1])) /\ ToSet(Append(F[m], l[m + 1])) = ToSet(F[m]) \cup {l[m + 1]}
      BY <2>2, <3>3, <3>4, AppendDistinct, Zenon
    <3> QED BY <2>2, <2>3, <2>6, <3>1, <3>5, Zenon
  <2> QED BY <2>5, <2>6
<1>12. N \in Q
  <2> HIDE DEF Q
  <2> QED BY <1>1, <1>10, <1>11, SetInduction, Zenon
<1>13. Had(N) = {t \in ToSet(l) : Name(t) = n}
  BY <1>4
<1> QED BY <1>1, <1>3, <1>12, <1>13 DEF l, N, Name
-----------------------------------------------------------------------------
(* The statement at one table. *)

(* rewriteWhereIn: the literals it leaves out of the IN of the SELECT for  *)
(* a table are the key of no row of that table.                            *)
LEMMA GroupOfTable ==
    ASSUME NEW r, NEW K, ValidKeys(r, K), NEW s, ValidWhere(r, K, s.where),
           NEW l \in K, rewriteWhereIn(r, s, getTableIndexByValue(r, l)) # {}
    PROVE  LET p == LastIn(s.where)
           IN  /\ p \in DOMAIN s.where /\ s.where[p].op = "in"
               /\ l.v \in Values(rewriteWhereIn(r, s, getTableIndexByValue(r, l))) <=>
                  l.v \in Values(s.where[p].lits)
<1> DEFINE w == s.where
           t == getTableIndexByValue(r, l)
           In == {i \in Positive(w) : w[i].op = "in"}
           G == {i \in Positive(w) : SetsGroups(r, w[i])}
           p == LastIn(w)
<1>1. rewriteWhereIn(r, s, t) = {m \in SubTableValueGroups(r, w) : getTableIndexByValue(r, m) = t} /\ p # 0
  BY Zenon DEF rewriteWhereIn
<1>2. /\ WellFormed(w)
      /\ \A i \in DOMAIN w : w[i].op \notin {"and", "or", "not"} => ValidCondition(r, K, w[i])
  BY ValidIsWellFormed
<1>3. Len(w) \in Nat /\ DOMAIN w = 1..Len(w)
  BY <1>2 DEF WellFormed
<1>4. Positive(w) \subseteq DOMAIN w
  BY DEF Positive
<1>5. G = In
  <2>1. ASSUME NEW i \in Positive(w) PROVE SetsGroups(r, w[i]) <=> w[i].op = "in"
    <3>1. CASE NotIn(w[i])
      <4>1. w[i].op \notin {"and", "or", "not", "in"}
        BY <3>1, Zenon DEF NotIn
      <4>2. ValidCondition(r, K, w[i])
        BY <1>2, <1>4, <4>1
      <4>3. r.type \notin DateTypes
        BY <3>1, <4>2, Zenon DEF ValidCondition, NotIn, Comparisons
      <4> QED BY <4>3, Zenon DEF SetsGroups
    <3>2. CASE ~NotIn(w[i])
      BY <3>2, Zenon DEF SetsGroups, NotIn
    <3> QED BY <3>1, <3>2
  <2> QED BY <2>1
<1>6. In \subseteq 1..Len(w) /\ IsFiniteSet(In)
  <2>1. IsFiniteSet(1..Len(w))
    <3>1. 1 \in Int /\ Len(w) \in Int
      BY <1>3
    <3> QED BY <3>1, FS_Interval
  <2>2. In \in SUBSET (1..Len(w))
    BY <1>3, <1>4
  <2> HIDE DEF In
  <2> QED BY <2>1, <2>2, FS_Subset, Zenon
<1> HIDE DEF In
<1>7. p \in {0} \cup In /\ \A x \in {0} \cup In : x <= p
  <2>1. IsFiniteSet(In \cup {0})
    BY <1>6, FS_AddElement
  <2>2. {0} \cup In = In \cup {0} /\ {0} \cup In \in SUBSET Int /\ {0} \cup In # {}
    BY <1>3, <1>6
  <2>3. p = Max({0} \cup In)
    BY Zenon DEF LastIn, In
  <2> HIDE DEF p
  <2> QED BY <2>1, <2>2, <2>3, GreatestInteger
<1>8. p \in In /\ p = Max(In)
  <2>1. p \in In
    BY <1>1, <1>7
  <2>2. Max(In) \in In /\ \A x \in In : x <= Max(In)
    <3>1. In \in SUBSET Int /\ In # {}
      BY <1>3, <1>6, <2>1
    <3> QED BY <1>6, <3>1, GreatestInteger
  <2>3. \A x \in In : x \in Int
    BY <1>3, <1>6
  <2> DEFINE m == Max(In)
  <2> HIDE DEF p, m
  <2>4. m \in In /\ p <= m /\ m <= p
    <3>1. m \in In /\ \A x \in In : x <= m
      BY <2>2 DEF m
    <3> QED BY <1>7, <2>1, <3>1
  <2>5. p = m
    BY <2>1, <2>3, <2>4
  <2> QED BY <2>1, <2>5 DEF m
<1>9. w[p].op = "in" /\ p \in DOMAIN w
  BY <1>4, <1>8 DEF In
<1>10. SubTableValueGroups(r, w) = w[p].lits
  BY <1>5, <1>8, Zenon DEF SubTableValueGroups
<1>11. w[p].lits \subseteq K
  <2>1. ValidCondition(r, K, w[p])
    BY <1>2, <1>9
  <2> QED BY <1>9, <2>1, Zenon DEF ValidCondition, Comparisons
<1> HIDE DEF p, t, w
<1>12. l.v \in Values(rewriteWhereIn(r, s, t)) <=> l.v \in Values(w[p].lits)
  <2>1. \A m \in w[p].lits : m.v = l.v => getTableIndexByValue(r, m) = t
    BY <1>11 DEF ValidKeys, t
  <2> QED BY <1>1, <1>10, <2>1 DEF Values
<1> QED BY <1>9, <1>12 DEF p, t, w

(* So the row satisfies the SELECT for its table if and only if it         *)
(* satisfies the client's.                                                 *)
LEMMA GroupMatches ==
    ASSUME NEW r, NEW K, ValidKeys(r, K), NEW s, ValidWhere(r, K, s.where),
           NEW l \in K, NEW q, q.k = l.v
    PROVE  Matches(s.where, q, rewriteWhereIn(r, s, getTableIndexByValue(r, l))) <=>
           Matches(s.where, q, {})
<1> DEFINE w == s.where
           g == rewriteWhereIn(r, s, getTableIndexByValue(r, l))
<1>1. CASE w = <<>> \/ g = {}
  <2>1. CASE w = <<>>
    BY <2>1, Zenon DEF Matches
  <2>2. CASE g = {}
    BY <2>2, Zenon
  <2> QED BY <1>1, <2>1, <2>2
<1>2. CASE w # <<>> /\ g # {}
  <2>1. WellFormed(w)
    BY ValidIsWellFormed
  <2>2. Len(w) \in Nat /\ Len(w) # 0 /\ DOMAIN w = 1..Len(w)
    BY <1>2, <2>1 DEF WellFormed
  <2>3. /\ w[LastIn(w)].op = "in"
        /\ q.k \in Values(g) <=> q.k \in Values(w[LastIn(w)].lits)
    BY <1>2, GroupOfTable
  <2> HIDE DEF g
  <2>4. ASSUME NEW i \in DOMAIN w, w[i].op \notin {"and", "or", "not"}, NEW a, NEW b, NEW c, NEW d
        PROVE  MatchesAt(w, i, q, g, a, b) <=> MatchesAt(w, i, q, {}, c, d)
    <3>1. MatchesAt(w, i, q, g, a, b) <=> MatchesAt(w, i, q, {}, a, b)
      <4>1. CASE i # LastIn(w)
        BY <4>1, Zenon DEF MatchesAt
      <4>2. CASE i = LastIn(w)
        <5>1. w[i].op \notin {"and", "or", "not", "other"}
          BY <2>3, <4>2
        <5>2. MatchesAt(w, i, q, g, a, b) <=> q.k \in Values(g)
          BY <1>2, <4>2, <5>1, Zenon DEF MatchesAt
        <5>3. MatchesAt(w, i, q, {}, a, b) <=> Satisfies(w[i], q.k)
          BY <5>1, Zenon DEF MatchesAt
        <5>4. Satisfies(w[i], q.k) <=> q.k \in Values(w[i].lits)
          BY <2>3, <4>2, Zenon DEF Satisfies
        <5> QED BY <2>3, <4>2, <5>2, <5>3, <5>4, Zenon
      <4> QED BY <4>1, <4>2
    <3>2. MatchesAt(w, i, q, {}, a, b) <=> MatchesAt(w, i, q, {}, c, d)
      BY <2>4, Zenon DEF MatchesAt
    <3> QED BY <3>1, <3>2, Zenon
  <2>5. PICK f : /\ \A i \in 1..Len(w) : f[i] = MatchesAt(w, i, q, g, f[LeftOf(w, i)], f[i - 1])
                 /\ Matches(w, q, g) <=> f[Len(w)]
    BY <1>2, <2>1, MatchNodes
  <2>6. PICK h : /\ \A i \in 1..Len(w) : h[i] = MatchesAt(w, i, q, {}, h[LeftOf(w, i)], h[i - 1])
                 /\ Matches(w, q, {}) <=> h[Len(w)]
    BY <1>2, <2>1, MatchNodes
  <2> DEFINE S == {i \in 1..Len(w) : f[i] <=> h[i]}
  <2>7. ASSUME NEW i \in 1..Len(w), \A j \in 1..(i - 1) : j \in S PROVE f[i] <=> h[i]
    <3>1. /\ f[i] <=> MatchesAt(w, i, q, g, f[LeftOf(w, i)], f[i - 1])
          /\ h[i] <=> MatchesAt(w, i, q, {}, h[LeftOf(w, i)], h[i - 1])
      BY <2>5, <2>6, Zenon
    <3>2. CASE w[i].op \notin {"and", "or", "not"}
      BY <2>2, <2>4, <3>1, <3>2, Zenon
    <3>3. CASE w[i].op \in {"and", "or", "not"}
      <4>1. i - 1 \in 1..(i - 1) /\ (w[i].op # "not" => LeftOf(w, i) \in 1..(i - 1))
        <5>1. \/ w[i].size \in 1..(i - 2)
              \/ w[i].op = "not" /\ w[i].size \in 1..(i - 1)
          BY <2>1, <2>2, <3>3 DEF WellFormed
        <5> QED BY <2>2, <5>1 DEF LeftOf
      <4>2. /\ f[i - 1] <=> h[i - 1]
            /\ w[i].op # "not" => (f[LeftOf(w, i)] <=> h[LeftOf(w, i)])
        BY <2>7, <4>1, Zenon
      <4> QED BY <3>1, <3>3, <4>2, Zenon DEF MatchesAt
    <3> QED BY <3>2, <3>3
  <2>8. 1..Len(w) \subseteq S
    <3>1. \A i \in 1..Len(w) : (\A j \in 1..(i - 1) : j \in S) => i \in S
      BY <2>7, Zenon
    <3> HIDE DEF S
    <3> QED BY <2>2, <3>1, StrongInduction, Zenon
  <2>9. f[Len(w)] <=> h[Len(w)]
    <3>1. Len(w) \in 1..Len(w)
      BY <2>2
    <3> QED BY <2>8, <3>1, Zenon
  <2> QED BY <2>5, <2>6, <2>9, Zenon DEF g
<1> QED BY <1>1, <1>2

(* The rows S are those of the rows rs whose key is in KT.                 *)
PartOf(rs, S, A, KT) ==
    /\ S \subseteq rs /\ KT \subseteq A
    /\ \A q \in rs : q \in S <=> q.k \in KT

(* The rows S satisfy the WHERE with the group g if they satisfy it.       *)
SameMatches(s, S, g) ==
    s.kind # "truncate" => \A q \in S : Matches(s.where, q, g) <=> Matches(s.where, q, {})

(* The statement is none that brings rows, and leaves the keys alone.      *)
ByWhere(s) ==
    /\ s.kind \in {"select", "delete", "truncate", "update"}
    /\ s.kind = "update" => s.sets = "val"

(* A statement with a WHERE does to a part of the table what it does to    *)
(* the rows of that part in the whole table.                               *)
LEMMA WhereAtTable ==
    ASSUME NEW s, NEW rs, NEW S, NEW A, NEW KT, NEW g, PartOf(rs, S, A, KT),
           ByWhere(s), SameMatches(s, S, g)
    PROVE  /\ ~Refused(s, S, A) /\ ~Refused(s, rs, KT)
           /\ s.kind # "truncate" => Hit(s, S, A, g) = Hit(s, rs, KT, {})
           /\ After(s, rs, KT, {}) = (rs \ S) \cup After(s, S, A, g)
<1>1. ~Refused(s, S, A) /\ ~Refused(s, rs, KT)
  <2>1. s.kind # "insert" /\ (s.kind = "update" => s.sets = "val")
    BY DEF ByWhere
  <2> QED BY <2>1, Zenon DEF Refused
<1>2. ASSUME s.kind # "truncate" PROVE Hit(s, S, A, g) = Hit(s, rs, KT, {})
  <2>1. \A q : q \in S /\ q.k \in A /\ Matches(s.where, q, g) <=> q \in rs /\ q.k \in KT /\ Matches(s.where, q, {})
    BY <1>2, Zenon DEF PartOf, SameMatches
  <2> QED BY <2>1, Zenon DEF Hit
<1>3. Hit(s, S, A, g) \subseteq S
  BY DEF Hit
<1>4. S \subseteq rs
  BY DEF PartOf
<1>5. CASE s.kind = "select"
  <2>1. After(s, rs, KT, {}) = rs /\ After(s, S, A, g) = S
    BY <1>5, Zenon DEF After
  <2> QED BY <1>1, <1>2, <1>4, <1>5, <2>1
<1>6. CASE s.kind = "delete"
  <2>1. /\ After(s, rs, KT, {}) = rs \ Hit(s, rs, KT, {})
        /\ After(s, S, A, g) = S \ Hit(s, S, A, g)
    BY <1>6, Zenon DEF After
  <2> QED BY <1>1, <1>2, <1>3, <1>4, <1>6, <2>1
<1>7. CASE s.kind = "truncate"
  <2>1. /\ After(s, rs, KT, {}) = {q \in rs : q.k \notin KT}
        /\ After(s, S, A, g) = {q \in S : q.k \notin A}
    BY <1>7, Zenon DEF After
  <2>2. {q \in rs : q.k \notin KT} = (rs \ S) \cup {q \in S : q.k \notin A}
    BY DEF PartOf
  <2> QED BY <1>1, <1>7, <2>1, <2>2
<1>8. CASE s.kind = "update"
  <2>1. /\ After(s, rs, KT, {}) = (rs \ Hit(s, rs, KT, {})) \cup {Updated(s, q) : q \in Hit(s, rs, KT, {})}
        /\ After(s, S, A, g) = (S \ Hit(s, S, A, g)) \cup {Updated(s, q) : q \in Hit(s, S, A, g)}
    BY <1>8, Zenon DEF After
  <2> DEFINE H == Hit(s, S, A, g)
             U == {Updated(s, q) : q \in H}
  <2>2. After(s, rs, KT, {}) = (rs \ H) \cup U /\ After(s, S, A, g) = (S \ H) \cup U
    BY <1>2, <1>8, <2>1, Zenon
  <2>3. H \subseteq S
    BY <1>3
  <2>4. Hit(s, S, A, g) = Hit(s, rs, KT, {})
    BY <1>2, <1>8
  <2> HIDE DEF H, U
  <2>5. (rs \ H) \cup U = (rs \ S) \cup ((S \ H) \cup U)
    BY <1>4, <2>3
  <2> QED BY <1>1, <1>8, <2>2, <2>4, <2>5
<1> QED BY <1>5, <1>6, <1>7, <1>8 DEF ByWhere

(* So does an INSERT or REPLACE of the rows of that part.                  *)
LEMMA RowsAtTable ==
    ASSUME NEW s, NEW u, NEW rs, NEW S, NEW A, NEW KT, NEW g, PartOf(rs, S, A, KT),
           s.kind \in {"insert", "replace"}, u.kind = s.kind,
           s.kind = "insert" => u.onDup = s.onDup /\ (s.onDup => s.sets = "val" /\ u.sets = s.sets /\ u.val = s.val),
           NewRows(u, A) = NewRows(s, KT)
    PROVE  /\ Refused(u, S, A) <=> Refused(s, rs, KT)
           /\ ~Refused(s, rs, KT) => After(s, rs, KT, {}) = (rs \ S) \cup After(u, S, A, g)
<1> DEFINE N == NewRows(s, KT)
<1>1. \A n \in N : n.k \in KT
  BY DEF NewRows
<1>2. NewRows(u, A) = N
  OBVIOUS
<1> HIDE DEF N
<1>3. \A k \in KT : k \in Keys(S) <=> k \in Keys(rs)
  BY DEF PartOf, Keys
<1>4. \A k \in Keys(N) : k \in KT
  BY <1>1 DEF Keys
<1>5. Keys(N) \cap Keys(S) = Keys(N) \cap Keys(rs)
  BY <1>3, <1>4
<1>6. Refused(u, S, A) <=> Refused(s, rs, KT)
  <2>1. s.kind # "update" /\ u.kind # "update"
    OBVIOUS
  <2>2. Refused(u, S, A) <=> s.kind = "insert" /\ ~u.onDup /\ Keys(N) \cap Keys(S) # {}
    BY <1>2, <2>1, Zenon DEF Refused
  <2>3. Refused(s, rs, KT) <=> s.kind = "insert" /\ ~s.onDup /\ Keys(N) \cap Keys(rs) # {}
    BY <2>1, Zenon DEF Refused, N
  <2> QED BY <1>5, <2>2, <2>3
<1>7. {q \in rs : q.k \notin Keys(N)} = (rs \ S) \cup {q \in S : q.k \notin Keys(N)}
  BY <1>4 DEF PartOf
<1>8. CASE s.kind = "replace"
  <2>1. After(s, rs, KT, {}) = {q \in rs : q.k \notin Keys(N)} \cup N
    BY <1>8, Zenon DEF After, N
  <2>2. After(u, S, A, g) = {q \in S : q.k \notin Keys(N)} \cup N
    BY <1>2, <1>8, Zenon DEF After
  <2> QED BY <1>6, <1>7, <2>1, <2>2
<1>9. CASE s.kind = "insert"
  <2> SUFFICES ASSUME ~Refused(s, rs, KT)
               PROVE  After(s, rs, KT, {}) = (rs \ S) \cup After(u, S, A, g)
    BY <1>6, Zenon
  <2> DEFINE X == {IF n.k \in Keys(rs) THEN Updated(s, n) ELSE n : n \in N}
             Y == {IF n.k \in Keys(S) THEN Updated(u, n) ELSE n : n \in N}
  <2>1. After(s, rs, KT, {}) = {q \in rs : q.k \notin Keys(N)} \cup X
    BY <1>9, Zenon DEF After, N
  <2>2. After(u, S, A, g) = {q \in S : q.k \notin Keys(N)} \cup Y
    BY <1>2, <1>9, Zenon DEF After
  <2>3. ASSUME NEW n \in N
        PROVE  (IF n.k \in Keys(rs) THEN Updated(s, n) ELSE n) = (IF n.k \in Keys(S) THEN Updated(u, n) ELSE n)
    <3>1. n.k \in Keys(rs) <=> n.k \in Keys(S)
      BY <1>1, <1>3
    <3>2. CASE n.k \in Keys(rs)
      <4>1. n.k \in Keys(N)
        BY DEF Keys
      <4>2. s.onDup
        BY <1>9, <3>2, <4>1 DEF Refused, N
      <4>3. Updated(s, n) = Updated(u, n)
        BY <1>9, <4>2 DEF Updated
      <4> QED BY <3>1, <4>3
    <3>3. CASE n.k \notin Keys(rs)
      BY <3>1, <3>3
    <3> QED BY <3>2, <3>3
  <2>4. X = Y
    BY <2>3
  <2> HIDE DEF X, Y
  <2> QED BY <1>7, <2>1, <2>2, <2>4
<1> QED BY <1>8, <1>9

(* A statement leaves rows of the part's keys only, with values of V.      *)
LEMMA RowsAfter ==
    ASSUME NEW u, NEW A, NEW KT, NEW V, NEW S \in SUBSET [k : KT, val : V], NEW g,
           u.kind \in {"select", "delete", "truncate", "update", "insert", "replace"},
           u.kind = "update" => u.sets = "val" /\ u.val \in V,
           u.kind = "insert" => (~Refused(u, S, A) /\ ~u.onDup) \/ (u.sets = "val" /\ u.val \in V),
           u.kind \in {"insert", "replace"} => NewRows(u, A) \subseteq [k : KT, val : V]
    PROVE  After(u, S, A, g) \subseteq [k : KT, val : V]
<1> DEFINE H == Hit(u, S, A, g)
           N == NewRows(u, A)
<1>1. H \subseteq S
  BY DEF Hit
<1>2. CASE u.kind = "select"
  <2>1. After(u, S, A, g) = S
    BY <1>2, Zenon DEF After
  <2> QED BY <2>1
<1>3. CASE u.kind = "delete"
  <2>1. After(u, S, A, g) = S \ H
    BY <1>3, Zenon DEF After
  <2> QED BY <2>1
<1>4. CASE u.kind = "truncate"
  <2>1. After(u, S, A, g) = {q \in S : q.k \notin A}
    BY <1>4, Zenon DEF After
  <2> QED BY <2>1
<1>5. CASE u.kind = "update"
  <2>1. After(u, S, A, g) = (S \ H) \cup {Updated(u, q) : q \in H}
    BY <1>5, Zenon DEF After
  <2> HIDE DEF H
  <2>2. \A q \in [k : KT, val : V] : Updated(u, q) \in [k : KT, val : V]
    BY <1>5 DEF Updated
  <2> QED BY <1>1, <2>1, <2>2
<1>6. CASE u.kind = "replace"
  <2>1. After(u, S, A, g) = {q \in S : q.k \notin Keys(N)} \cup N
    BY <1>6, Zenon DEF After
  <2> HIDE DEF N
  <2>2. N \subseteq [k : KT, val : V]
    BY <1>6 DEF N
  <2> QED BY <2>1, <2>2
<1>7. CASE u.kind = "insert"
  <2>1. After(u, S, A, g) = {q \in S : q.k \notin Keys(N)} \cup {IF n.k \in Keys(S) THEN Updated(u, n) ELSE n : n \in N}
    BY <1>7, Zenon DEF After
  <2>2. N \subseteq [k : KT, val : V]
    BY <1>7
  <2>3. ASSUME NEW n \in N PROVE (IF n.k \in Keys(S) THEN Updated(u, n) ELSE n) \in [k : KT, val : V]
    <3>1. CASE n.k \in Keys(S)
      <4>1. n.k \in Keys(N)
        BY DEF Keys
      <4>2. u.sets = "val" /\ u.val \in V
        BY <1>7, <3>1, <4>1 DEF Refused
      <4> QED BY <2>2, <4>2 DEF Updated
    <3>2. CASE n.k \notin Keys(S)
      BY <2>2, <3>2
    <3> QED BY <3>1, <3>2
  <2> HIDE DEF N
  <2> QED BY <2>1, <2>3
<1> QED BY <1>2, <1>3, <1>4, <1>5, <1>6, <1>7

(* The keys, of the literals K, that are in table t.                       *)
KeysAt(r, K, t) == {l.v : l \in {m \in K : getTableIndexByValue(r, m) \in {t}}}

(* StmtForTable: the rows an INSERT brings to table t are those whose key  *)
(* is in t, and the rest of the statement is the client's.                 *)
LEMMA StmtAtTable ==
    ASSUME NEW r, NEW K, ValidKeys(r, K), NEW t, NEW V, NEW s,
           s.kind \in {"insert", "replace"}, {"kind", "rows"} \subseteq DOMAIN s,
           s.rows \subseteq [lit : K, val : V]
    PROVE  LET u == StmtForTable(r, s, t)
           IN  /\ \A x \in DOMAIN s : x # "rows" => u[x] = s[x]
               /\ NewRows(u, Values(K)) = NewRows(s, KeysAt(r, K, t))
               /\ NewRows(s, KeysAt(r, K, t)) \subseteq [k : KeysAt(r, K, t), val : V]
<1> DEFINE u == StmtForTable(r, s, t)
           KT == KeysAt(r, K, t)
<1>1. u = [s EXCEPT !.rows = {n \in s.rows : getTableIndexByValue(r, n.lit) = t}]
  BY DEF StmtForTable
<1>2. u.rows = {n \in s.rows : getTableIndexByValue(r, n.lit) = t}
  BY <1>1
<1>3. \A x \in DOMAIN s : x # "rows" => u[x] = s[x]
  BY <1>1
<1> HIDE DEF u
<1>4. ASSUME NEW n \in s.rows PROVE n.lit.v \in KT <=> getTableIndexByValue(r, n.lit) = t
  <2>1. n.lit \in K
    OBVIOUS
  <2>2. ASSUME n.lit.v \in KT PROVE getTableIndexByValue(r, n.lit) = t
    <3>1. PICK l \in K : getTableIndexByValue(r, l) = t /\ l.v = n.lit.v
      BY <2>2 DEF KeysAt
    <3> QED BY <2>1, <3>1 DEF ValidKeys
  <2>3. getTableIndexByValue(r, n.lit) = t => n.lit.v \in KT
    BY <2>1 DEF KeysAt
  <2> QED BY <2>2, <2>3
<1> HIDE DEF KT
<1>5. {m \in u.rows : m.lit.v \in Values(K)} = {m \in s.rows : m.lit.v \in KT}
  <2>1. \A n \in s.rows : n.lit \in K /\ n.lit.v \in Values(K)
    BY DEF Values
  <2> QED BY <1>2, <1>4, <2>1
<1>6. NewRows(u, Values(K)) = NewRows(s, KT)
  BY <1>5, Zenon DEF NewRows
<1>7. NewRows(s, KT) \subseteq [k : KT, val : V]
  BY DEF NewRows
<1> QED BY <1>3, <1>6, <1>7 DEF u, KT
=============================================================================
