-------------------------- MODULE ProxyServerProofs --------------------------
(***************************************************************************)
(* What sessions may rely on while operators change the settings.  A new   *)
(* session is let in only if its address was in a list in force, or about  *)
(* to be, since it began to be checked: for every file, every set of       *)
(* commands and any number of operators and sessions.  A statement runs    *)
(* only if it was not in such a blacklist at some moment since it came:    *)
(* the same, but for one operator, because two can make sqlsLen differ     *)
(* from the list it counts.                                                *)
(***************************************************************************)
EXTENDS ProxyServer, FiniteSetTheorems, TLAPS

Commands == UNION {Menus[m] : m \in DOMAIN Menus}
Files == {First} \cup {c.v : c \in {d \in Commands : d.opt = "edit"}}

(* The addresses that can get into the list.                               *)
Addresses ==
    (UNION {ToSet(f.allow_ip) : f \in Files}) \cup {c.v : c \in {d \in Commands : d.k = "allow_ip"}}

FileOK(f) ==
    /\ DOMAIN f = {"users", "schemas", "allow_ip", "bls", "black_sql",
                   "slow_log_time", "log_sql", "slaves"}
    /\ f.allow_ip \in Seq(Addresses)
    /\ IsFiniteSet(f.black_sql)

(* A slice lies within its array.                                          *)
SliceOK(a, vec) == vec.arr \in 1..Len(a) /\ vec.len \in 0..Len(a[vec.arr])

ArraysOK(a, slices) ==
    /\ a \in Seq(Seq(Addresses))
    /\ DOMAIN slices = {0, 1}
    /\ \A i \in {0, 1} : DOMAIN slices[i] = {"arr", "len"} /\ SliceOK(a, slices[i])

ListsOK(lists, refs) ==
    /\ Len(lists) \in Nat /\ lists = [l \in 1..Len(lists) |-> lists[l]]
    /\ \A l \in 1..Len(lists) :
          /\ DOMAIN lists[l] = {"sqls", "sqlsLen"}
          /\ IsFiniteSet(lists[l].sqls) /\ lists[l].sqlsLen \in Int
    /\ DOMAIN refs = {0, 1} /\ \A i \in {0, 1} : refs[i] \in 1..Len(lists)

Shape(s) ==
    /\ DOMAIN s = {"cfg", "idx", "slot", "arrays", "lists", "slaves", "users", "schemas",
                   "ver", "locked", "running", "closing", "listening"}
    /\ s.idx \in [Names -> {0, 1}]
    /\ DOMAIN s.slot = Names /\ \A k \in Names : DOMAIN s.slot[k] = {0, 1}

SrvOK(s) ==
    /\ Shape(s) /\ FileOK(s.cfg)
    /\ ArraysOK(s.arrays, s.slot["allow_ip"]) /\ ListsOK(s.lists, s.slot["black_sql"])

(* The i-th step that the command has still to take, and the one after it. *)
StepOK(p, i) ==
    /\ p.todo[i][1] \in {"ips", "newips"} => i < Len(p.todo) /\ p.todo[i + 1] = <<"flip", "allow_ip">>
    /\ p.todo[i][1] = "sqls" => i < Len(p.todo) /\ p.todo[i + 1] = <<"len", "black_sql">>
    /\ i < Len(p.todo) /\ p.todo[i + 1][1] = "len" => p.todo[i][1] = "sqls"
    /\ p.todo[i][1] \in {"len", "newlist"} => i < Len(p.todo) /\ p.todo[i + 1] = <<"flip", "black_sql">>
    /\ p.todo[i][1] \in {"sqls", "len"} => p.cmd.k = "black_sql"
    /\ p.todo[i][1] \in {"lock", "newips", "newlist", "file"} => FileOK(p.cmd.v)
    /\ p.todo[i][1] = "slot" => p.todo[i][2] \in {"proxy", "log_sql", "slow_log_time"}
    /\ p.todo[i][1] = "flip" => p.todo[i][2] \in Names
    /\ p.todo[i][1] = "ips" => p.cmd.v \in Addresses
    /\ p.todo[i][1] = "cfg" => /\ p.todo[i][2] \in {"allow_ip", "slave", "proxy", "log_sql", "slow_log_time"}
                               /\ p.todo[i][2] = "allow_ip" => p.cmd.v \in Addresses

Words == {"slot", "flip", "cfg", "ips", "sqls", "len", "slave", "create", "file", "lock",
          "newlist", "newips", "users", "nodes", "schemas", "ver"}
Pairs == Words \X (Names \cup {"config"} \cup {c.k : c \in Commands})

OpOK(p) ==
    /\ DOMAIN p = {"cmd", "todo", "to", "ips"}
    /\ p.todo \in Seq(Pairs) /\ p.to \in {0, 1} /\ p.ips \in Seq(Addresses)
    /\ \A i \in 1..Len(p.todo) : StepOK(p, i)

ConnOK(c) ==
    /\ DOMAIN conn[c] = {"pc", "ver", "schema", "index", "vec", "pos", "sql"}
    /\ conn[c].pc # "none" => run = "running"
    /\ conn[c].index \in {0, 1}
    /\ conn[c].pc = "match" =>
          SliceOK(srv.arrays, conn[c].vec) /\ conn[c].pos \in 1..conn[c].vec.len

TypeOK ==
    /\ SrvOK(srv)
    /\ FileOK(file)
    /\ DOMAIN op = Operators /\ \A o \in Operators : OpOK(op[o])
    /\ DOMAIN conn = Sessions /\ \A c \in Sessions : ConnOK(c)
    /\ DOMAIN grace = Sessions
    /\ menu \in DOMAIN Menus

(* The slice would let c in.                                               *)
Opens(c, vec) == vec.len = 0 \/ AddrOf[c] \in Entries(vec)

Allowed(c) ==
    /\ conn[c].pc \in Checking /\ MayPass(c) => grace[c]
    /\ conn[c].pc = "slice" /\ Opens(c, srv.slot["allow_ip"][conn[c].index]) => grace[c]
    /\ conn[c].pc = "match" /\ AddrOf[c] \in Entries(conn[c].vec) => grace[c]

AllowedInv == TypeOK /\ \A c \in Sessions : Allowed(c)

(* sqlsLen counts the list, except where a command has changed the list    *)
(* and has still to change the count.                                      *)
Counted(r) == r.sqlsLen = Cardinality(r.sqls)
OffByOne(r, added) == r.sqlsLen = Cardinality(r.sqls) + IF added THEN -1 ELSE 1
Owes(o, l) == At(o, "len") /\ l = srv.slot["black_sql"][op[o].to]

LenInv ==
    /\ run = "stopped" => \A o \in Operators : op[o].todo = <<>>
    /\ \A l \in 1..Len(srv.lists) :
          /\ (\A o \in Operators : ~Owes(o, l)) => Counted(srv.lists[l])
          /\ \A o \in Operators : Owes(o, l) => OffByOne(srv.lists[l], Adds(o))
-----------------------------------------------------------------------------
(* Lists of addresses. *)

In(a, vec) == ToSet(SubSeq(a[vec.arr], 1, vec.len))

(* What a slice holds: the entries of its array up to its length.          *)
LEMMA InSlice ==
    ASSUME NEW a, a \in Seq(Seq(Addresses)), NEW vec, SliceOK(a, vec)
    PROVE  \A x : x \in In(a, vec) <=> \E j \in 1..vec.len : a[vec.arr][j] = x
<1>1. a[vec.arr] \in Seq(Addresses) /\ vec.len \in Nat /\ vec.len <= Len(a[vec.arr])
  BY DEF SliceOK
<1> DEFINE l == a[vec.arr]
           q == SubSeq(l, 1, vec.len)
<1>2. DOMAIN q = 1..vec.len /\ \A j \in 1..vec.len : q[j] = l[j]
  BY <1>1
<1> HIDE DEF q
<1>3. \A x : x \in ToSet(q) <=> \E j \in DOMAIN q : q[j] = x
  BY DEF ToSet
<1> QED BY <1>2, <1>3, Zenon DEF In, q

(* The length of a slice is a number.                                      *)
LEMMA SliceLength ==
    ASSUME NEW a, a \in Seq(Seq(Addresses)), NEW vec, SliceOK(a, vec)
    PROVE  vec.len \in Nat
<1>1. a[vec.arr] \in Seq(Addresses) /\ vec.len \in 0..Len(a[vec.arr])
  BY DEF SliceOK
<1> QED BY <1>1

(* append to a slice of a longer array writes into that array.             *)
Appended(l, n, v) == SubSeq(l, 1, n) \o <<v>> \o SubSeq(l, n + 2, Len(l))

(* It changes at most the entry behind the slice.                          *)
LEMMA EntryWritten ==
    ASSUME NEW l \in Seq(Addresses), NEW n \in 0..Len(l), NEW v \in Addresses
    PROVE  /\ Appended(l, n, v) \in Seq(Addresses)
           /\ Len(Appended(l, n, v)) >= Len(l) /\ Len(Appended(l, n, v)) >= n + 1
           /\ Appended(l, n, v)[n + 1] = v
           /\ \A j \in 1..Len(l) : Appended(l, n, v)[j] = l[j] \/ Appended(l, n, v)[j] = v
<1> DEFINE front == SubSeq(l, 1, n)
           back == SubSeq(l, n + 2, Len(l))
           begin == front \o <<v>>
           new == begin \o back
<1>1. Len(l) \in Nat /\ n \in Nat
  OBVIOUS
<1>2. front \in Seq(Addresses) /\ Len(front) = n /\ \A j \in 1..n : front[j] = l[j]
  <2>1. \A j \in 1..n : l[j] \in Addresses
    BY <1>1
  <2> QED BY <1>1, <2>1
<1>3. back \in Seq(Addresses) /\ Len(back) \in Nat /\ (n + 2 <= Len(l) => Len(back) = Len(l) - n - 1)
  <2>1. back \in Seq(Addresses)
    BY <1>1
  <2>2. n + 2 <= Len(l) => Len(back) = Len(l) - n - 1
    BY <1>1
  <2> HIDE DEF back
  <2> QED BY <2>1, <2>2
<1>4. ASSUME n + 2 <= Len(l), NEW j \in 1..Len(back) PROVE back[j] = l[n + 1 + j]
  BY <1>1, <1>4
<1> HIDE DEF front, back
<1>5. /\ begin \in Seq(Addresses) /\ Len(begin) = n + 1 /\ begin[n + 1] = v
      /\ \A j \in 1..n : begin[j] = l[j]
  BY <1>1, <1>2
<1> HIDE DEF begin
<1>6. /\ new \in Seq(Addresses) /\ Len(new) = n + 1 + Len(back)
      /\ \A j \in 1..(n + 1) : new[j] = begin[j]
      /\ \A j \in 1..Len(back) : new[n + 1 + j] = back[j]
  BY <1>1, <1>3, <1>5
<1> HIDE DEF new
<1>7. ASSUME NEW j \in 1..Len(l) PROVE new[j] = l[j] \/ new[j] = v
  <2>1. CASE j <= n + 1
    BY <1>1, <1>5, <1>6, <2>1
  <2>2. CASE j > n + 1
    <3>1. n + 2 <= Len(l) /\ j - (n + 1) \in 1..Len(back) /\ n + 1 + (j - (n + 1)) = j
      BY <1>1, <1>3, <2>2
    <3>2. back[j - (n + 1)] = l[n + 1 + (j - (n + 1))]
      BY <1>4, <3>1
    <3> QED BY <1>6, <3>1, <3>2
  <2> QED BY <1>1, <2>1, <2>2
<1>8. Len(new) >= Len(l) /\ Len(new) >= n + 1
  BY <1>1, <1>3, <1>6
<1>9. new[n + 1] = v
  BY <1>1, <1>5, <1>6
<1> QED BY <1>6, <1>7, <1>8, <1>9, Zenon DEF new, begin, front, back, Appended

(* AddAllowIP: the entry behind the slice is the new one.                  *)
LEMMA IpAppended ==
    ASSUME NEW a, NEW sl, ArraysOK(a, sl), NEW i \in {0, 1}, NEW v \in Addresses
    PROVE  LET cur == sl[i]
               na == [a EXCEPT ![cur.arr] = Appended(a[cur.arr], cur.len, v)]
               nsl == [sl EXCEPT ![1 - i] = [cur EXCEPT !.len = @ + 1]]
           IN  /\ ArraysOK(na, nsl)
               /\ v \in In(na, nsl[1 - i])
               /\ \A vec : SliceOK(a, vec) =>
                     SliceOK(na, vec) /\ \A x \in In(na, vec) : x \in In(a, vec) \/ x = v
<1> DEFINE cur == sl[i]
           array == a[cur.arr]
           new == Appended(array, cur.len, v)
           na == [a EXCEPT ![cur.arr] = new]
           nsl == [sl EXCEPT ![1 - i] = [cur EXCEPT !.len = @ + 1]]
<1>1. /\ a \in Seq(Seq(Addresses)) /\ cur.arr \in 1..Len(a) /\ array \in Seq(Addresses)
      /\ cur.len \in 0..Len(array) /\ Len(array) \in Nat
  BY DEF ArraysOK, SliceOK
<1>2. /\ SliceOK(a, cur) /\ DOMAIN cur = {"arr", "len"}
      /\ DOMAIN nsl = {0, 1} /\ nsl[i] = cur /\ DOMAIN nsl[1 - i] = {"arr", "len"}
      /\ nsl[1 - i].arr = cur.arr /\ nsl[1 - i].len = cur.len + 1
  BY DEF ArraysOK
<1> HIDE DEF nsl, cur
<1>3. cur.len \in Nat /\ Len(a) \in Nat
  BY <1>1
<1>5. /\ new \in Seq(Addresses) /\ Len(new) >= Len(array) /\ Len(new) >= cur.len + 1
      /\ new[cur.len + 1] = v
      /\ \A j \in 1..Len(array) : new[j] = array[j] \/ new[j] = v
  <2>1. array \in Seq(Addresses) /\ cur.len \in 0..Len(array)
    BY <1>1
  <2> DEFINE P(l, n) == /\ Appended(l, n, v) \in Seq(Addresses)
                        /\ Len(Appended(l, n, v)) >= Len(l) /\ Len(Appended(l, n, v)) >= n + 1
                        /\ Appended(l, n, v)[n + 1] = v
                        /\ \A j \in 1..Len(l) : Appended(l, n, v)[j] = l[j] \/ Appended(l, n, v)[j] = v
  <2>2. ASSUME NEW l \in Seq(Addresses), NEW n \in 0..Len(l) PROVE P(l, n)
    BY EntryWritten
  <2> HIDE DEF array, P
  <2>3. P(array, cur.len)
    BY <2>1, <2>2
  <2> QED BY <2>3 DEF P
<1> HIDE DEF new
<1>6. /\ na \in Seq(Seq(Addresses)) /\ Len(na) = Len(a) /\ na[cur.arr] = new
      /\ \A k \in 1..Len(a) : k # cur.arr => na[k] = a[k]
  BY <1>1, <1>5
<1> HIDE DEF na
<1>7. ASSUME NEW vec, SliceOK(a, vec)
      PROVE  SliceOK(na, vec) /\ \A x \in In(na, vec) : x \in In(a, vec) \/ x = v
  <2>1. vec.arr \in 1..Len(a) /\ vec.len \in 0..Len(a[vec.arr])
    BY <1>7 DEF SliceOK
  <2>2. Len(a[vec.arr]) \in Nat /\ Len(na[vec.arr]) \in Nat /\ Len(a[vec.arr]) <= Len(na[vec.arr])
    <3>1. CASE vec.arr = cur.arr
      BY <1>1, <1>5, <1>6, <3>1
    <3>2. CASE vec.arr # cur.arr
      <4>1. na[vec.arr] = a[vec.arr]
        BY <1>6, <2>1, <3>2, Zenon
      <4>2. a[vec.arr] \in Seq(Addresses)
        BY <1>1, <2>1
      <4>3. Len(a[vec.arr]) \in Nat
        BY <4>2
      <4> QED BY <4>1, <4>3
    <3> QED BY <3>1, <3>2
  <2>3. SliceOK(na, vec)
    BY <1>6, <2>1, <2>2 DEF SliceOK
  <2>4. ASSUME NEW j \in 1..vec.len PROVE na[vec.arr][j] = a[vec.arr][j] \/ na[vec.arr][j] = v
    <3>1. j \in 1..Len(a[vec.arr])
      BY <2>1, <2>2
    <3>2. CASE vec.arr = cur.arr
      BY <1>5, <1>6, <3>1, <3>2
    <3>3. CASE vec.arr # cur.arr
      BY <1>6, <2>1, <3>3
    <3> QED BY <3>2, <3>3
  <2>5. \A x : x \in In(a, vec) <=> \E j \in 1..vec.len : a[vec.arr][j] = x
    BY <1>1, <1>7, InSlice
  <2>6. \A x : x \in In(na, vec) <=> \E j \in 1..vec.len : na[vec.arr][j] = x
    BY <1>6, <2>3, InSlice
  <2> QED BY <2>3, <2>4, <2>5, <2>6
<1>9. SliceOK(na, nsl[1 - i])
  <2>1. cur.arr \in 1..Len(na) /\ na[cur.arr] = new
    BY <1>1, <1>6, Zenon
  <2>2. cur.len + 1 \in 0..Len(new)
    BY <1>3, <1>5
  <2> QED BY <1>2, <2>1, <2>2, Zenon DEF SliceOK
<1>10. SliceOK(na, nsl[i]) /\ DOMAIN nsl[i] = {"arr", "len"}
  BY <1>2, <1>7
<1>11. ArraysOK(na, nsl)
  <2>1. \A k \in {0, 1} : k = i \/ k = 1 - i
    OBVIOUS
  <2> QED BY <1>2, <1>6, <1>9, <1>10, <2>1 DEF ArraysOK
<1>12. v \in In(na, nsl[1 - i])
  <2>1. cur.len + 1 \in 1..nsl[1 - i].len /\ na[nsl[1 - i].arr][cur.len + 1] = v
    BY <1>2, <1>3, <1>5, <1>6
  <2> QED BY <1>6, <1>9, <2>1, InSlice
<1> QED BY <1>7, <1>11, <1>12, Zenon DEF na, nsl, new, cur

(* Of the first n entries, those behind the deleted one move down.         *)
Deleted(l, n, from) == [j \in DOMAIN l |-> IF j \in from..(n - 1) THEN l[j + 1] ELSE l[j]]

(* DelAllowIP: in place.                                                   *)
LEMMA IpDeleted ==
    ASSUME NEW a, NEW sl, ArraysOK(a, sl), NEW i \in {0, 1},
           NEW from \in Int, from >= 1, from <= sl[i].len
    PROVE  LET cur == sl[i]
               na == [a EXCEPT ![cur.arr] = Deleted(a[cur.arr], cur.len, from)]
               nsl == [sl EXCEPT ![1 - i] = [cur EXCEPT !.len = @ - 1]]
           IN  /\ ArraysOK(na, nsl)
               /\ \A vec : SliceOK(a, vec) =>
                     SliceOK(na, vec) /\ \A x \in In(na, vec) : x \in In(a, vec) \/ x \in In(a, cur)
<1> DEFINE cur == sl[i]
           array == a[cur.arr]
           new == Deleted(array, cur.len, from)
           na == [a EXCEPT ![cur.arr] = new]
           nsl == [sl EXCEPT ![1 - i] = [cur EXCEPT !.len = @ - 1]]
<1>1. /\ a \in Seq(Seq(Addresses)) /\ cur.arr \in 1..Len(a) /\ array \in Seq(Addresses)
      /\ cur.len \in 0..Len(array) /\ Len(array) \in Nat
  BY DEF ArraysOK, SliceOK
<1>2. /\ SliceOK(a, cur) /\ DOMAIN cur = {"arr", "len"}
      /\ DOMAIN nsl = {0, 1} /\ nsl[i] = cur /\ DOMAIN nsl[1 - i] = {"arr", "len"}
      /\ nsl[1 - i].arr = cur.arr /\ nsl[1 - i].len = cur.len - 1
  BY DEF ArraysOK
<1>3. cur.len \in Nat /\ Len(a) \in Nat /\ from <= cur.len
  BY <1>1
<1> HIDE DEF nsl, cur
<1>5. /\ new \in Seq(Addresses) /\ Len(new) = Len(array)
      /\ \A j \in 1..Len(array) : new[j] = array[j] \/ \E k \in 1..cur.len : new[j] = array[k]
  <2> HIDE DEF array
  <2>1. DOMAIN array = 1..Len(array) /\ \A j \in 1..Len(array) : array[j] \in Addresses
    BY <1>1
  <2>2. \A j \in from..(cur.len - 1) : j + 1 \in 1..cur.len /\ j + 1 \in 1..Len(array)
    BY <1>1, <1>3
  <2>3. new \in [1..Len(array) -> Addresses]
    BY <2>1, <2>2 DEF Deleted
  <2>4. new \in Seq(Addresses) /\ Len(new) = Len(array)
    <3>1. ASSUME NEW n \in Nat, NEW f \in [1..n -> Addresses] PROVE f \in Seq(Addresses) /\ Len(f) = n
      OBVIOUS
    <3> HIDE DEF new
    <3> QED BY <1>1, <2>3, <3>1, Zenon
  <2> QED BY <2>1, <2>2, <2>4 DEF Deleted
<1> HIDE DEF new
<1>6. /\ na \in Seq(Seq(Addresses)) /\ Len(na) = Len(a) /\ na[cur.arr] = new
      /\ \A k \in 1..Len(a) : k # cur.arr => na[k] = a[k]
  BY <1>1, <1>5
<1> HIDE DEF na
<1>7. ASSUME NEW vec, SliceOK(a, vec)
      PROVE  SliceOK(na, vec) /\ \A x \in In(na, vec) : x \in In(a, vec) \/ x \in In(a, cur)
  <2>1. vec.arr \in 1..Len(a) /\ vec.len \in 0..Len(a[vec.arr])
    BY <1>7 DEF SliceOK
  <2>2. Len(na[vec.arr]) = Len(a[vec.arr]) /\ Len(a[vec.arr]) \in Nat
    <3>1. a[vec.arr] \in Seq(Addresses)
      BY <1>1, <2>1
    <3>2. Len(a[vec.arr]) \in Nat
      BY <3>1
    <3> QED BY <1>5, <1>6, <2>1, <3>2, Zenon
  <2>3. SliceOK(na, vec)
    BY <1>6, <2>1, <2>2 DEF SliceOK
  <2>4. ASSUME NEW j \in 1..vec.len
        PROVE  na[vec.arr][j] = a[vec.arr][j] \/ \E k \in 1..cur.len : na[vec.arr][j] = a[cur.arr][k]
    <3>1. j \in 1..Len(a[vec.arr])
      BY <2>1, <2>2
    <3>2. CASE vec.arr = cur.arr
      BY <1>5, <1>6, <3>1, <3>2
    <3>3. CASE vec.arr # cur.arr
      BY <1>6, <2>1, <3>3
    <3> QED BY <3>2, <3>3
  <2>5. \A x : x \in In(a, vec) <=> \E j \in 1..vec.len : a[vec.arr][j] = x
    BY <1>1, <1>7, InSlice
  <2>6. \A x : x \in In(na, vec) <=> \E j \in 1..vec.len : na[vec.arr][j] = x
    BY <1>6, <2>3, InSlice
  <2>7. \A x : x \in In(a, cur) <=> \E j \in 1..cur.len : a[cur.arr][j] = x
    <3>1. a \in Seq(Seq(Addresses)) /\ SliceOK(a, cur)
      BY <1>1, <1>2
    <3> QED BY <3>1, InSlice
  <2> QED BY <2>3, <2>4, <2>5, <2>6, <2>7
<1>9. SliceOK(na, nsl[1 - i])
  <2>1. cur.arr \in 1..Len(na) /\ Len(na[cur.arr]) = Len(array)
    BY <1>1, <1>5, <1>6, Zenon
  <2>2. cur.len - 1 \in 0..Len(array)
    <3> HIDE DEF array
    <3> QED BY <1>1, <1>3
  <2> QED BY <1>2, <2>1, <2>2, Zenon DEF SliceOK
<1>10. SliceOK(na, nsl[i]) /\ DOMAIN nsl[i] = {"arr", "len"}
  BY <1>2, <1>7
<1>11. ArraysOK(na, nsl)
  <2>1. \A k \in {0, 1} : k = i \/ k = 1 - i
    OBVIOUS
  <2> QED BY <1>2, <1>6, <1>9, <1>10, <2>1 DEF ArraysOK
<1> QED BY <1>7, <1>11, Zenon DEF na, nsl, new, cur

(* UpdateConfig: a new array, and a slice of the whole of it.              *)
LEMMA IpsReplaced ==
    ASSUME NEW a, NEW sl, ArraysOK(a, sl), NEW i \in {0, 1}, NEW ips \in Seq(Addresses)
    PROVE  LET na == Append(a, ips)
               nsl == [sl EXCEPT ![i] = [arr |-> Len(a) + 1, len |-> Len(ips)]]
           IN  /\ ArraysOK(na, nsl)
               /\ \A vec : SliceOK(a, vec) => SliceOK(na, vec) /\ In(na, vec) = In(a, vec)
<1> DEFINE na == Append(a, ips)
           new == [arr |-> Len(a) + 1, len |-> Len(ips)]
           nsl == [sl EXCEPT ![i] = new]
<1>1. a \in Seq(Seq(Addresses)) /\ Len(a) \in Nat /\ Len(ips) \in Nat
  BY DEF ArraysOK
<1>2. /\ na \in Seq(Seq(Addresses)) /\ Len(na) = Len(a) + 1 /\ na[Len(a) + 1] = ips
      /\ \A k \in 1..Len(a) : na[k] = a[k]
  BY <1>1
<1> HIDE DEF na
<1>3. ASSUME NEW vec, SliceOK(a, vec) PROVE SliceOK(na, vec) /\ In(na, vec) = In(a, vec)
  <2>1. vec.arr \in 1..Len(a) /\ na[vec.arr] = a[vec.arr]
    BY <1>2, <1>3 DEF SliceOK
  <2>2. vec.arr \in 1..Len(na)
    BY <1>1, <1>2, <2>1
  <2> QED BY <1>3, <2>1, <2>2 DEF SliceOK, In
<1>4. SliceOK(na, new) /\ DOMAIN new = {"arr", "len"}
  BY <1>1, <1>2 DEF SliceOK
<1>5. \A k \in {0, 1} : DOMAIN sl[k] = {"arr", "len"} /\ SliceOK(na, sl[k])
  BY <1>3 DEF ArraysOK
<1> HIDE DEF new
<1>6. DOMAIN nsl = {0, 1} /\ \A k \in {0, 1} : nsl[k] = IF k = i THEN new ELSE sl[k]
  BY DEF ArraysOK
<1> HIDE DEF nsl
<1>7. ArraysOK(na, nsl)
  BY <1>2, <1>4, <1>5, <1>6 DEF ArraysOK
<1> QED BY <1>3, <1>7 DEF na, nsl, new

-----------------------------------------------------------------------------
(* Types. *)

(* Every file the proxy can be given has its fields.                       *)
LEMMA FilesAreOK == \A f \in Files : FileOK(f)
<1> SUFFICES ASSUME NEW f \in Files PROVE FileOK(f)
  OBVIOUS
<1>1. ValidFile(f)
  BY ProxyServerAssumption DEF Files, Commands, ValidCommand
<1>2. ToSet(f.allow_ip) \subseteq Addresses
  BY DEF Addresses
<1>3. f.allow_ip \in Seq(Addresses)
  <2>1. f.allow_ip \in Seq(ToSet(f.allow_ip))
    BY <1>1 DEF ValidFile
  <2> QED BY <1>2, <2>1
<1> QED BY <1>1, <1>3 DEF ValidFile, FileOK

(* So has every command, and the file or the address it carries.           *)
LEMMA CommandsAreOK ==
    ASSUME NEW c \in Commands
    PROVE  /\ DOMAIN c = {"opt", "k", "v"} /\ c.opt \in STRING /\ c.k \in STRING
           /\ c.opt = "edit" => FileOK(c.v)
           /\ c.k = "allow_ip" => c.v \in Addresses
<1>1. ValidCommand(c)
  BY ProxyServerAssumption DEF Commands
<1>2. c.opt = "edit" => FileOK(c.v)
  BY FilesAreOK DEF Files
<1>3. ASSUME c.k = "allow_ip" PROVE c.v \in Addresses
  <2>1. c \in {d \in Commands : d.k = "allow_ip"}
    BY <1>3
  <2>2. c.v \in {d.v : d \in {e \in Commands : e.k = "allow_ip"}}
    BY <2>1
  <2> QED BY <2>2 DEF Addresses
<1> QED BY <1>1, <1>2, <1>3 DEF ValidCommand

(* parseBlackListSqls counts the statements it lists.                      *)
LEMMA ParsedIsOK ==
    ASSUME NEW f, FileOK(f)
    PROVE  LET q == parseBlackListSqls(f)
           IN  /\ DOMAIN q = {"sqls", "sqlsLen"} /\ q.sqlsLen = Cardinality(q.sqls)
               /\ IsFiniteSet(q.sqls) /\ q.sqlsLen \in Int
<1> DEFINE q == parseBlackListSqls(f)
<1>1. DOMAIN q = {"sqls", "sqlsLen"} /\ q.sqlsLen = Cardinality(q.sqls)
  BY DEF parseBlackListSqls
<1>2. q.sqls = f.black_sql \/ q.sqls = {}
  BY DEF parseBlackListSqls
<1>3. IsFiniteSet(q.sqls)
  BY <1>2, FS_EmptySet, Zenon DEF FileOK
<1>4. q.sqlsLen \in Int
  BY <1>1, <1>3, FS_CardinalityType
<1> QED BY <1>1, <1>3, <1>4

(* NewServer makes a server of any configuration.                          *)
LEMMA ServerIsOK ==
    ASSUME NEW f, FileOK(f)
    PROVE  /\ SrvOK(NewServer(f))
           /\ SrvOK([NewServer(f) EXCEPT !.listening = FALSE])
<1> DEFINE s == NewServer(f)
           ips == [arr |-> 1, len |-> Len(f.allow_ip)]
           arrays == <<f.allow_ip>>
           lists == <<parseBlackListSqls(f)>>
<1>1. /\ s.cfg = f /\ s.arrays = arrays /\ s.lists = lists
      /\ DOMAIN s = {"cfg", "idx", "slot", "arrays", "lists", "slaves", "users", "schemas",
                     "ver", "locked", "running", "closing", "listening"}
  BY DEF NewServer
<1>2. s.idx \in [Names -> {0, 1}]
  BY DEF NewServer
<1>3. s.slot = [k \in Names |-> [i \in 0..1 |->
                  CASE k = "allow_ip" -> ips
                    [] k = "black_sql" -> 1
                    [] k = "proxy" -> "online"
                    [] OTHER -> f[k]]]
  BY Zenon DEF NewServer
<1>4. /\ DOMAIN s.slot = Names /\ \A k \in Names : DOMAIN s.slot[k] = {0, 1}
      /\ \A i \in {0, 1} : s.slot["allow_ip"][i] = ips /\ s.slot["black_sql"][i] = 1
  <2>1. 0..1 = {0, 1}
    OBVIOUS
  <2> DEFINE V(k) == CASE k = "allow_ip" -> ips
                      [] k = "black_sql" -> 1
                      [] k = "proxy" -> "online"
                      [] OTHER -> f[k]
  <2>2. V("allow_ip") = ips /\ V("black_sql") = 1
    <3> HIDE DEF ips
    <3> QED OBVIOUS
  <2> HIDE DEF ips, s, V
  <2>3. s.slot = [k \in Names |-> [i \in {0, 1} |-> V(k)]]
    BY <1>3, <2>1, Zenon DEF V
  <2>4. DOMAIN s.slot = Names /\ \A k \in Names : DOMAIN s.slot[k] = {0, 1}
    BY <2>3
  <2>5. \A i \in {0, 1} : s.slot["allow_ip"][i] = ips /\ s.slot["black_sql"][i] = 1
    BY <2>2, <2>3 DEF Names
  <2> QED BY <2>4, <2>5
<1>5. Shape(s)
  BY <1>1, <1>2, <1>4 DEF Shape
<1>6. ArraysOK(arrays, s.slot["allow_ip"])
  <2>1. f.allow_ip \in Seq(Addresses) /\ Len(f.allow_ip) \in Nat
    BY DEF FileOK
  <2>2. arrays \in Seq(Seq(Addresses)) /\ Len(arrays) = 1 /\ arrays[1] = f.allow_ip
    BY <2>1
  <2> HIDE DEF arrays
  <2>3. SliceOK(arrays, ips) /\ DOMAIN ips = {"arr", "len"}
    BY <2>1, <2>2 DEF SliceOK
  <2>4. DOMAIN s.slot["allow_ip"] = {0, 1}
    BY <1>4 DEF Names
  <2> HIDE DEF s, ips
  <2> QED BY <1>4, <2>2, <2>3, <2>4 DEF ArraysOK
<1>7. ListsOK(lists, s.slot["black_sql"])
  <2> DEFINE q == parseBlackListSqls(f)
  <2>1. DOMAIN q = {"sqls", "sqlsLen"} /\ IsFiniteSet(q.sqls) /\ q.sqlsLen \in Int
    BY ParsedIsOK
  <2>2. DOMAIN s.slot["black_sql"] = {0, 1}
    BY <1>4 DEF Names
  <2> HIDE DEF q, s
  <2>3. Len(<<q>>) = 1 /\ <<q>> = [l \in 1..1 |-> <<q>>[l]] /\ <<q>>[1] = q
    OBVIOUS
  <2> QED BY <1>4, <2>1, <2>2, <2>3 DEF ListsOK, q
<1>8. SrvOK(s)
  <2> HIDE DEF arrays, lists, s
  <2> QED BY <1>1, <1>5, <1>6, <1>7 DEF SrvOK
<1>9. SrvOK([s EXCEPT !.listening = FALSE])
  <2> HIDE DEF s
  <2> QED BY <1>8 DEF SrvOK, Shape
<1> QED BY <1>8, <1>9

(* The commands that get as far as the server.                             *)
LEMMA Kinds ==
    ASSUME NEW c, Supported(c), Changeable(c)
    PROVE  \/ c.opt = "change" /\ c.k \in {"proxy", "log_sql", "slow_log_time"}
           \/ c.opt \in {"add", "del"} /\ c.k \in {"allow_ip", "black_sql", "slave"}
           \/ c.opt = "save"
           \/ c.opt = "reload"
<1>1. c.opt = "change" => c.k \in {"proxy", "log_sql", "slow_log_time"}
  BY DEF Changeable, ChangeProxyStatus, WebSlowSQL
<1>2. c.opt \in {"change", "add", "del", "save", "reload"}
  BY DEF Supported, handleServerCmd, handleAdminChange, handleAdminAdd, handleAdminDelete, handleAdminSave,
         handleNodeCmd, AddOrDeleteDatabase, WebApi, WebAllowIps, WebSlave, WebBlackSQL,
         ChangeProxyStatus, WebSlowSQL, SaveProxyConfig
<1>3. c.opt \in {"add", "del"} => c.k \in {"allow_ip", "black_sql", "slave"}
  BY DEF Supported, handleServerCmd, handleAdminChange, handleAdminAdd, handleAdminDelete, handleAdminSave,
         handleNodeCmd, AddOrDeleteDatabase, WebApi, WebAllowIps, WebSlave, WebBlackSQL,
         ChangeProxyStatus, WebSlowSQL, SaveProxyConfig
<1> QED BY <1>1, <1>2, <1>3

(* Short lists.                                                            *)
LEMMA TwoSteps ==
    ASSUME NEW S, NEW t, NEW a \in S, NEW b \in S, t = <<a, b>>
    PROVE  t \in Seq(S) /\ Len(t) = 2 /\ t[1] = a /\ t[2] = b
  OBVIOUS

(* Three steps in order.                                                   *)
LEMMA ThreeSteps ==
    ASSUME NEW S, NEW t, NEW a \in S, NEW b \in S, NEW d \in S, t = <<a, b, d>>
    PROVE  t \in Seq(S) /\ Len(t) = 3 /\ t[1] = a /\ t[2] = b /\ t[3] = d
  OBVIOUS

(* Four steps in order.                                                    *)
LEMMA FourSteps ==
    ASSUME NEW S, NEW t, NEW a \in S, NEW b \in S, NEW d \in S, NEW e \in S, t = <<a, b, d, e>>
    PROVE  t \in Seq(S) /\ Len(t) = 4 /\ t[1] = a /\ t[2] = b /\ t[3] = d /\ t[4] = e
  OBVIOUS

(* A command is a sequence of steps in the right order.                    *)
LEMMA BegunIsOK ==
    ASSUME NEW c \in Commands, Supported(c), Changeable(c), NEW f, FileOK(f),
           NEW g, FileOK(g),
           NEW cmd, cmd = CASE c.opt = "reload" -> [c EXCEPT !.v = f]
                            [] c.opt = "save" -> [c EXCEPT !.v = g]
                            [] OTHER -> c,
           NEW ips \in Seq(Addresses)
    PROVE  OpOK([Rest EXCEPT !.cmd = cmd, !.todo = StepsOf(c), !.ips = ips])
<1> DEFINE t == StepsOf(c)
           p == [Rest EXCEPT !.cmd = cmd, !.todo = t, !.ips = ips]
<1>1. (c.k = "allow_ip" => c.v \in Addresses) /\ DOMAIN c = {"opt", "k", "v"}
  BY CommandsAreOK
<1>2. /\ cmd.k = c.k /\ (c.opt = "reload" => cmd.v = f) /\ (c.opt = "save" => cmd.v = g)
      /\ c.opt \notin {"reload", "save"} => cmd.v = c.v
  BY <1>1
<1>3. DOMAIN p = {"cmd", "todo", "to", "ips"} /\ p.cmd = cmd /\ p.todo = t /\ p.to = 0 /\ p.ips = ips
  <2> HIDE DEF t
  <2> QED BY DEF Rest
<1>4. /\ \A w \in Words : <<w, c.k>> \in Pairs
      /\ \A w \in Words, k \in Names \cup {"config"} : <<w, k>> \in Pairs
  BY DEF Pairs
<1>5. CASE c.opt = "change" /\ c.k \in {"proxy", "log_sql", "slow_log_time"}
  <2>1. t = <<<<"slot", c.k>>, <<"flip", c.k>>, <<"cfg", c.k>>>>
    BY <1>5, Zenon DEF StepsOf
  <2> HIDE DEF t, p
  <2>2. /\ t \in Seq(Pairs) /\ Len(t) = 3
        /\ t[1] = <<"slot", c.k>> /\ t[2] = <<"flip", c.k>> /\ t[3] = <<"cfg", c.k>>
    <3>1. <<"slot", c.k>> \in Pairs /\ <<"flip", c.k>> \in Pairs /\ <<"cfg", c.k>> \in Pairs
      BY <1>4 DEF Words
    <3> QED BY <2>1, <3>1, ThreeSteps, Zenon
  <2>3. \A i \in 1..3 : StepOK(p, i)
    BY <1>3, <1>5, <2>2 DEF StepOK, Names
  <2>4. OpOK(p)
    BY <1>3, <2>2, <2>3 DEF OpOK
  <2> QED BY <2>4 DEF p, t
<1>6. CASE c.opt \in {"add", "del"} /\ c.k = "allow_ip"
  <2>1. t = <<<<"ips", c.k>>, <<"flip", c.k>>, <<"cfg", c.k>>>>
    BY <1>6 DEF StepsOf
  <2> HIDE DEF t, p
  <2>2. /\ t \in Seq(Pairs) /\ Len(t) = 3
        /\ t[1] = <<"ips", c.k>> /\ t[2] = <<"flip", c.k>> /\ t[3] = <<"cfg", c.k>>
    <3>1. <<"ips", c.k>> \in Pairs /\ <<"flip", c.k>> \in Pairs /\ <<"cfg", c.k>> \in Pairs
      BY <1>4 DEF Words
    <3> QED BY <2>1, <3>1, ThreeSteps, Zenon
  <2>3. \A i \in 1..3 : StepOK(p, i)
    BY <1>1, <1>2, <1>3, <1>6, <2>2 DEF StepOK, Names
  <2>4. OpOK(p)
    BY <1>3, <2>2, <2>3 DEF OpOK
  <2> QED BY <2>4 DEF p, t
<1>7. CASE c.opt \in {"add", "del"} /\ c.k = "black_sql"
  <2>1. t = <<<<"sqls", c.k>>, <<"len", c.k>>, <<"flip", c.k>>>>
    BY <1>7 DEF StepsOf
  <2> HIDE DEF t, p
  <2>2. /\ t \in Seq(Pairs) /\ Len(t) = 3
        /\ t[1] = <<"sqls", c.k>> /\ t[2] = <<"len", c.k>> /\ t[3] = <<"flip", c.k>>
    <3>1. <<"sqls", c.k>> \in Pairs /\ <<"len", c.k>> \in Pairs /\ <<"flip", c.k>> \in Pairs
      BY <1>4 DEF Words
    <3> QED BY <2>1, <3>1, ThreeSteps, Zenon
  <2>3. \A i \in 1..3 : StepOK(p, i)
    BY <1>1, <1>2, <1>3, <1>7, <2>2 DEF StepOK, Names
  <2>4. OpOK(p)
    BY <1>3, <2>2, <2>3 DEF OpOK
  <2> QED BY <2>4 DEF p, t
<1>8. CASE c.opt \in {"add", "del"} /\ c.k = "slave"
  <2>1. t = <<<<"slave", c.k>>, <<"cfg", c.k>>>>
    BY <1>8 DEF StepsOf
  <2> HIDE DEF t, p
  <2>2. /\ t \in Seq(Pairs) /\ Len(t) = 2
        /\ t[1] = <<"slave", c.k>> /\ t[2] = <<"cfg", c.k>>
    <3>1. <<"slave", c.k>> \in Pairs /\ <<"cfg", c.k>> \in Pairs
      BY <1>4 DEF Words
    <3> QED BY <2>1, <3>1, TwoSteps, Zenon
  <2>3. \A i \in 1..2 : StepOK(p, i)
    BY <1>1, <1>2, <1>3, <1>8, <2>2 DEF StepOK, Names
  <2>4. OpOK(p)
    BY <1>3, <2>2, <2>3 DEF OpOK
  <2> QED BY <2>4 DEF p, t
<1>9. CASE c.opt = "save"
  <2>1. t = <<<<"create", "config">>, <<"file", "config">>, <<"create", "black_sql">>, <<"file", "black_sql">>>>
    BY <1>9 DEF StepsOf
  <2> HIDE DEF t, p
  <2>2. /\ t \in Seq(Pairs) /\ Len(t) = 4
        /\ t[1] = <<"create", "config">> /\ t[2] = <<"file", "config">>
        /\ t[3] = <<"create", "black_sql">> /\ t[4] = <<"file", "black_sql">>
    <3>1. /\ <<"create", "config">> \in Pairs /\ <<"file", "config">> \in Pairs
          /\ <<"create", "black_sql">> \in Pairs /\ <<"file", "black_sql">> \in Pairs
      BY <1>4 DEF Words, Names
    <3> QED BY <2>1, <3>1, FourSteps, Zenon
  <2>3. \A i \in 1..4 : StepOK(p, i)
    BY <1>1, <1>2, <1>3, <1>9, <2>2 DEF StepOK, Names
  <2>4. OpOK(p)
    BY <1>3, <2>2, <2>3 DEF OpOK
  <2> QED BY <2>4 DEF p, t
<1>10. CASE c.opt = "reload"
  <2>1. t = <<<<"lock", c.k>>, <<"newlist", "black_sql">>, <<"flip", "black_sql">>,
              <<"newips", "allow_ip">>, <<"flip", "allow_ip">>, <<"users", c.k>>,
              <<"slot", "slow_log_time">>, <<"flip", "slow_log_time">>,
              <<"nodes", c.k>>, <<"schemas", c.k>>, <<"ver", c.k>>>>
    BY <1>10 DEF StepsOf
  <2> HIDE DEF t, p
  <2>2. Len(t) = 11 /\ t \in Seq(Pairs)
    <3>1. /\ <<"lock", c.k>> \in Pairs /\ <<"newlist", "black_sql">> \in Pairs
          /\ <<"flip", "black_sql">> \in Pairs /\ <<"newips", "allow_ip">> \in Pairs
          /\ <<"flip", "allow_ip">> \in Pairs /\ <<"users", c.k>> \in Pairs
          /\ <<"slot", "slow_log_time">> \in Pairs /\ <<"flip", "slow_log_time">> \in Pairs
          /\ <<"nodes", c.k>> \in Pairs /\ <<"schemas", c.k>> \in Pairs /\ <<"ver", c.k>> \in Pairs
      BY <1>4 DEF Words, Names
    <3> QED BY <2>1, <3>1
  <2>3. /\ t[1] = <<"lock", c.k>> /\ t[2] = <<"newlist", "black_sql">> /\ t[3] = <<"flip", "black_sql">>
        /\ t[4] = <<"newips", "allow_ip">> /\ t[5] = <<"flip", "allow_ip">> /\ t[6] = <<"users", c.k>>
        /\ t[7] = <<"slot", "slow_log_time">> /\ t[8] = <<"flip", "slow_log_time">>
        /\ t[9] = <<"nodes", c.k>> /\ t[10] = <<"schemas", c.k>> /\ t[11] = <<"ver", c.k>>
    BY <2>1
  <2>4. \A i \in 1..11 : StepOK(p, i)
    <3>1. StepOK(p, 1) /\ StepOK(p, 2) /\ StepOK(p, 3) /\ StepOK(p, 4)
      BY <1>2, <1>3, <1>10, <2>2, <2>3 DEF StepOK, Names
    <3>2. StepOK(p, 5) /\ StepOK(p, 6) /\ StepOK(p, 7) /\ StepOK(p, 8)
      BY <1>2, <1>3, <1>10, <2>2, <2>3 DEF StepOK, Names
    <3>3. StepOK(p, 9) /\ StepOK(p, 10) /\ StepOK(p, 11)
      BY <1>2, <1>3, <1>10, <2>2, <2>3 DEF StepOK, Names
    <3> QED BY <3>1, <3>2, <3>3
  <2>5. OpOK(p)
    BY <1>3, <2>2, <2>4 DEF OpOK
  <2> QED BY <2>5 DEF p, t
<1> QED BY <1>5, <1>6, <1>7, <1>8, <1>9, <1>10, Kinds

(* An operator between two commands.                                       *)
LEMMA RestIsOK == OpOK(Rest)
  BY DEF Rest, OpOK

(* The command without its next step is still in the right order.          *)
LEMMA DoneIsOK ==
    ASSUME NEW o, OpOK(op[o]), op[o].todo # <<>>, NEW i \in {0, 1}
    PROVE  OpOK(Done(o)) /\ OpOK([Done(o) EXCEPT !.to = i]) /\ OpOK(Rest)
<1> DEFINE t == op[o].todo
           q == [op[o] EXCEPT !.todo = Tail(@)]
<1>1. OpOK(Rest) /\ OpOK([Rest EXCEPT !.to = i])
  BY DEF Rest, OpOK
<1>2. t \in Seq(Pairs) /\ Len(t) \in Nat /\ Len(t) # 0
  BY DEF OpOK
<1>3. /\ Tail(t) \in Seq(Pairs) /\ Len(Tail(t)) = Len(t) - 1
      /\ \A j \in 1..(Len(t) - 1) : Tail(t)[j] = t[j + 1]
  BY <1>2
<1>4. /\ DOMAIN q = {"cmd", "todo", "to", "ips"} /\ q.cmd = op[o].cmd /\ q.todo = Tail(t)
      /\ q.to \in {0, 1} /\ q.ips \in Seq(Addresses)
  BY DEF OpOK
<1> HIDE DEF q
<1>5. ASSUME NEW j \in 1..(Len(t) - 1) PROVE StepOK(q, j)
  <2>1. j + 1 \in 1..Len(t) /\ Tail(t)[j] = t[j + 1]
    BY <1>2, <1>3
  <2>2. StepOK(op[o], j + 1)
    BY <2>1 DEF OpOK
  <2>3. /\ j + 1 < Len(t) => j < Len(Tail(t)) /\ Tail(t)[j + 1] = t[(j + 1) + 1]
        /\ j < Len(Tail(t)) => j + 1 < Len(t)
    BY <1>2, <1>3
  <2>4. /\ q.cmd = op[o].cmd /\ q.todo[j] = t[j + 1]
        /\ j < Len(q.todo) <=> j + 1 < Len(t)
        /\ j < Len(q.todo) => q.todo[j + 1] = t[(j + 1) + 1]
    BY <1>4, <2>1, <2>3
  <2> QED BY <2>2, <2>4, ZenonT(30) DEF StepOK
<1>6. OpOK(q)
  BY <1>3, <1>4, <1>5 DEF OpOK
<1>7. OpOK([q EXCEPT !.to = i])
  <2> DEFINE r == [q EXCEPT !.to = i]
  <2>1. DOMAIN r = {"cmd", "todo", "to", "ips"} /\ r.cmd = q.cmd /\ r.todo = q.todo /\ r.ips = q.ips /\ r.to = i
    BY <1>4
  <2> HIDE DEF r
  <2>2. \A j \in 1..Len(q.todo) : StepOK(r, j)
    <3>1. ASSUME NEW j, StepOK(q, j) PROVE StepOK(r, j)
      BY <2>1, <3>1, Zenon DEF StepOK
    <3> QED BY <1>6, <3>1, Zenon DEF OpOK
  <2>3. OpOK(r)
    BY <1>6, <2>1, <2>2 DEF OpOK
  <2> QED BY <2>3 DEF r
<1> QED BY <1>1, <1>6, <1>7, Zenon DEF Done, q

OpsOK == DOMAIN op = Operators /\ \A o \in Operators : OpOK(op[o])

(* Whichever way an operator goes on.                                      *)
LEMMA OpsKept ==
    ASSUME OpsOK, NEW o \in Operators, op[o].todo # <<>>, NEW i \in {0, 1},
           \/ op' = [op EXCEPT ![o] = Done(o)]
           \/ op' = [op EXCEPT ![o] = [Done(o) EXCEPT !.to = i]]
           \/ op' = [op EXCEPT ![o] = Rest]
    PROVE  OpsOK'
<1>1. OpOK(Done(o)) /\ OpOK([Done(o) EXCEPT !.to = i]) /\ OpOK(Rest)
  BY DoneIsOK, Zenon DEF OpsOK
<1> QED BY <1>1 DEF OpsOK

(* The next step of a command is in its place.                             *)
LEMMA HeadIsOK ==
    ASSUME OpsOK, NEW o \in Operators, op[o].todo # <<>>
    PROVE  Head(op[o].todo) = op[o].todo[1] /\ StepOK(op[o], 1)
<1>1. OpOK(op[o]) /\ op[o].todo \in Seq(Pairs)
  BY DEF OpsOK, OpOK
<1>2. Len(op[o].todo) \in Nat /\ Len(op[o].todo) # 0 /\ Head(op[o].todo) = op[o].todo[1]
  BY <1>1
<1> QED BY <1>1, <1>2 DEF OpOK
-----------------------------------------------------------------------------
(* What a step of an operator leaves of the list of addresses. *)

(* An entry is new in a slice only if it was in, or is in, one of the      *)
(* slices in force or about to be; and so is a slice that is new in a slot.*)
SlicesKept ==
    \A vec : SliceOK(srv.arrays, vec) =>
        /\ SliceOK(srv'.arrays, vec)
        /\ \A x \in In(srv'.arrays, vec) :
              \/ x \in In(srv.arrays, vec)
              \/ \E w \in AllowIpSlices : x \in In(srv.arrays, w)
              \/ \E w \in AllowIpSlices' : x \in In(srv'.arrays, w)

SlotsKept ==
    \A i \in {0, 1} :
        \/ srv'.slot["allow_ip"][i] = srv.slot["allow_ip"][i]
        \/ srv'.slot["allow_ip"][i] \in AllowIpSlices'

Kept == SrvOK(srv') /\ SlicesKept /\ SlotsKept

(* A step that writes neither the arrays nor the slots.                    *)
LEMMA Untouched ==
    ASSUME srv'.arrays = srv.arrays, srv'.slot["allow_ip"] = srv.slot["allow_ip"]
    PROVE  SlicesKept /\ SlotsKept
  BY DEF SlicesKept, SlotsKept

(* The slot in use, and the slot a command is about to put in use.         *)
LEMMA InForceIsSlice ==
    ASSUME SrvOK(srv)
    PROVE  /\ srv.idx["allow_ip"] \in {0, 1} /\ another("allow_ip") \in {0, 1}
           /\ another("allow_ip") # srv.idx["allow_ip"]
           /\ Get("allow_ip") \in AllowIpSlices
  BY DEF SrvOK, Shape, Names, another, AllowIpSlices

(* After the write of the slice comes the flip to it.                      *)
LEMMA AboutToBe ==
    ASSUME NEW o \in Operators, DOMAIN op = Operators, OpOK(op[o]),
           op[o].todo # <<>>, Head(op[o].todo)[1] \in {"ips", "newips"},
           NEW i \in {0, 1}, op' = [op EXCEPT ![o] = [Done(o) EXCEPT !.to = i]]
    PROVE  srv'.slot["allow_ip"][i] \in AllowIpSlices'
<1> DEFINE t == op[o].todo
<1>1. t \in Seq(Pairs) /\ Len(t) \in Nat /\ Len(t) # 0 /\ Head(t) = t[1]
  BY DEF OpOK
<1>2. 1 < Len(t) /\ t[2] = <<"flip", "allow_ip">>
  <2>1. StepOK(op[o], 1)
    BY <1>1 DEF OpOK
  <2> QED BY <1>1, <2>1 DEF StepOK
<1>3. Tail(t) \in Seq(Pairs) /\ Tail(t) # <<>> /\ Head(Tail(t)) = t[2]
  <2> HIDE DEF t
  <2>1. Tail(t) \in Seq(Pairs) /\ Len(Tail(t)) = Len(t) - 1 /\ Tail(t)[1] = t[2]
    BY <1>1, <1>2
  <2>2. Tail(t) # <<>>
    <3> DEFINE u == Tail(t)
    <3>1. Len(u) # 0
      BY <1>1, <1>2, <2>1
    <3> HIDE DEF u
    <3>2. u # <<>>
      BY <3>1
    <3> QED BY <3>2 DEF u
  <2>3. Head(Tail(t)) = Tail(t)[1]
    BY <2>1, <2>2
  <2> QED BY <2>1, <2>2, <2>3
<1>4. Done(o) = [op[o] EXCEPT !.todo = Tail(@)]
  BY <1>2 DEF Done
<1>5. op'[o].todo = Tail(t) /\ op'[o].to = i
  BY <1>4 DEF OpOK
<1>6. At(o, "flip")' /\ Setting(o)' = "allow_ip"
  <2>1. op'[o].todo # <<>> /\ Head(op'[o].todo) = <<"flip", "allow_ip">>
    BY <1>2, <1>3, <1>5, Zenon
  <2> QED BY <2>1 DEF At, Setting
<1> QED BY <1>5, <1>6 DEF AllowIpSlices

(* The place of an entry in a list.                                        *)
LEMMA LeastPlace ==
    ASSUME NEW n \in Nat, NEW S \in SUBSET (1..n), S # {}
    PROVE  Min(S) \in S /\ Min(S) \in 1..n
<1>1. S \in SUBSET Nat
  OBVIOUS
<1>2. PICK m \in S : \A y \in S : ~ (<<y, m>> \in OpToRel(<, Nat))
  BY <1>1, NatLessThanWellFounded, WFMin, Zenon
<1>3. ASSUME NEW y \in S PROVE m <= y
  <2>1. m \in Nat /\ y \in Nat
    BY <1>1
  <2>2. <<y, m>> \in Nat \X Nat /\ ~ (<<y, m>> \in OpToRel(<, Nat))
    BY <1>2, <2>1, Zenon
  <2>3. ~ (y < m)
    BY <2>2 DEF OpToRel
  <2> QED BY <2>1, <2>3
<1>4. Min(S) \in S
  BY <1>3, Zenon DEF Min
<1> QED BY <1>4, Zenon

(* AddAllowIP and DelAllowIP.                                              *)
LEMMA WriteAllowIpsKeeps ==
    ASSUME SrvOK(srv), OpsOK, NEW o \in Operators, WriteAllowIps(o)
    PROVE  Kept /\ OpsOK' /\ UNCHANGED <<run, file, conn>>
<1> DEFINE v == op[o].cmd.v
           i == srv.idx["allow_ip"]
           a == srv.arrays
           sl == srv.slot["allow_ip"]
           cur == sl[i]
           array == a[cur.arr]
           at == {j \in 1..cur.len : array[j] = v}
           shifted == [j \in DOMAIN array |->
                          IF j \in Min(at)..(cur.len - 1) THEN array[j + 1] ELSE array[j]]
<1>1. /\ i \in {0, 1} /\ 1 - i \in {0, 1} /\ another("allow_ip") = 1 - i /\ Get("allow_ip") = cur
      /\ cur \in AllowIpSlices /\ ArraysOK(a, sl) /\ ListsOK(srv.lists, srv.slot["black_sql"])
      /\ Shape(srv) /\ FileOK(srv.cfg)
  BY InForceIsSlice DEF SrvOK, another, Get
<1>2. /\ op[o].todo # <<>> /\ Head(op[o].todo)[1] = "ips" /\ OpOK(op[o]) /\ DOMAIN op = Operators
  BY DEF WriteAllowIps, At, OpsOK
<1>3. v \in Addresses
  BY <1>2, HeadIsOK DEF StepOK
<1> HIDE DEF a, sl, i
<1>4. /\ cur.len \in Nat /\ a \in Seq(Seq(Addresses)) /\ DOMAIN sl = {0, 1} /\ SliceOK(a, cur)
      /\ cur.arr \in 1..Len(a)
  <2>1. /\ a \in Seq(Seq(Addresses)) /\ cur.arr \in 1..Len(a)
        /\ cur.len \in 0..Len(array) /\ SliceOK(a, cur) /\ DOMAIN sl = {0, 1}
    BY <1>1, Zenon DEF ArraysOK, SliceOK
  <2>2. Len(array) \in Nat
    BY <2>1
  <2> QED BY <2>1, <2>2
<1>5. CASE /\ Adds(o) /\ at = {}
           /\ srv' = [srv EXCEPT !.arrays[cur.arr] = SubSeq(array, 1, cur.len) \o <<v>>
                                                       \o SubSeq(array, cur.len + 2, Len(array)),
                                 !.slot["allow_ip"][1 - i] = [cur EXCEPT !.len = @ + 1]]
           /\ StepTo(o, 1 - i)
  <2> DEFINE na == [a EXCEPT ![cur.arr] = Appended(array, cur.len, v)]
             nsl == [sl EXCEPT ![1 - i] = [cur EXCEPT !.len = @ + 1]]
  <2>1. /\ ArraysOK(na, nsl) /\ v \in In(na, nsl[1 - i])
        /\ \A vec : SliceOK(a, vec) =>
              SliceOK(na, vec) /\ \A x \in In(na, vec) : x \in In(a, vec) \/ x = v
    <3> HIDE DEF v, at
    <3>1. ArraysOK(a, sl) /\ i \in {0, 1} /\ v \in Addresses
      BY <1>1, <1>3, Zenon
    <3> QED BY <3>1, IpAppended, Zenon
  <2>2. srv' = [srv EXCEPT !.arrays = na, !.slot = [srv.slot EXCEPT !["allow_ip"] = nsl]]
    BY <1>5, Zenon DEF Appended, a, sl
  <2>3. nsl[i] = sl[i]
    BY <1>1, <1>4
  <2>4. op' = [op EXCEPT ![o] = [Done(o) EXCEPT !.to = 1 - i]] /\ UNCHANGED <<run, file, conn>>
    BY <1>5 DEF StepTo
  <2> HIDE DEF na, nsl, v, at
  <2>5. srv'.arrays = na /\ srv'.slot["allow_ip"] = nsl /\ SrvOK(srv')
    BY <1>1, <2>1, <2>2 DEF SrvOK, Shape, Names, ArraysOK, a, sl
  <2>6. srv'.slot["allow_ip"][1 - i] \in AllowIpSlices'
    BY <1>1, <1>2, <2>4, AboutToBe, Zenon
  <2>7. SlicesKept
    BY <2>1, <2>5, <2>6 DEF SlicesKept, a
  <2>8. SlotsKept
    BY <1>1, <2>3, <2>5, <2>6 DEF SlotsKept, sl
  <2>9. OpsOK'
    BY <1>1, <1>2, <2>4, OpsKept, Zenon
  <2> QED BY <2>4, <2>5, <2>7, <2>8, <2>9 DEF Kept
<1>6. CASE Adds(o) /\ at # {} /\ Return(o) /\ UNCHANGED srv
  <2>1. op' = [op EXCEPT ![o] = Rest] /\ UNCHANGED <<run, file, conn>>
    BY <1>6 DEF Return
  <2>2. OpsOK'
    BY <1>1, <1>2, <2>1, OpsKept, Zenon
  <2> QED BY <1>6, <2>1, <2>2, Untouched DEF Kept
<1>7. CASE /\ ~Adds(o) /\ at # {}
           /\ srv' = [srv EXCEPT !.arrays[cur.arr] = shifted,
                                 !.slot["allow_ip"][1 - i] = [cur EXCEPT !.len = @ - 1]]
           /\ StepTo(o, 1 - i)
  <2> DEFINE from == Min(at)
             na == [a EXCEPT ![cur.arr] = Deleted(array, cur.len, from)]
             nsl == [sl EXCEPT ![1 - i] = [cur EXCEPT !.len = @ - 1]]
  <2>1. from \in Int /\ from >= 1 /\ from <= sl[i].len
    <3>1. at \in SUBSET (1..cur.len) /\ at # {}
      BY <1>7
    <3>2. Min(at) \in 1..cur.len
      BY <1>4, <3>1, LeastPlace, Zenon
    <3> HIDE DEF at
    <3> QED BY <1>4, <3>2
  <2>2. srv' = [srv EXCEPT !.arrays = na, !.slot = [srv.slot EXCEPT !["allow_ip"] = nsl]]
    BY <1>7, Zenon DEF Deleted, a, sl
  <2> HIDE DEF from, at, v
  <2>3. /\ ArraysOK(na, nsl)
        /\ \A vec : SliceOK(a, vec) =>
              SliceOK(na, vec) /\ \A x \in In(na, vec) : x \in In(a, vec) \/ x \in In(a, cur)
    BY <1>1, <2>1, IpDeleted, Zenon
  <2>4. nsl[i] = sl[i]
    BY <1>1, <1>4
  <2>5. op' = [op EXCEPT ![o] = [Done(o) EXCEPT !.to = 1 - i]] /\ UNCHANGED <<run, file, conn>>
    BY <1>7 DEF StepTo
  <2> HIDE DEF na, nsl
  <2>6. srv'.arrays = na /\ srv'.slot["allow_ip"] = nsl /\ SrvOK(srv')
    BY <1>1, <2>2, <2>3 DEF SrvOK, Shape, Names, ArraysOK, a, sl
  <2>7. srv'.slot["allow_ip"][1 - i] \in AllowIpSlices'
    BY <1>1, <1>2, <2>5, AboutToBe, Zenon
  <2>8. SlicesKept
    BY <1>1, <2>3, <2>6 DEF SlicesKept, a
  <2>9. SlotsKept
    BY <1>1, <2>4, <2>6, <2>7 DEF SlotsKept, sl
  <2>10. OpsOK'
    BY <1>1, <1>2, <2>5, OpsKept, Zenon
  <2> QED BY <2>5, <2>6, <2>8, <2>9, <2>10 DEF Kept
<1>8. CASE ~Adds(o) /\ at = {} /\ srv' = [srv EXCEPT !.slot["allow_ip"][1 - i] = cur] /\ Return(o)
  <2> DEFINE nsl == [sl EXCEPT ![1 - i] = cur]
  <2>1. srv' = [srv EXCEPT !.slot = [srv.slot EXCEPT !["allow_ip"] = nsl]]
    BY <1>8 DEF sl
  <2>2. DOMAIN nsl = {0, 1} /\ nsl[i] = cur /\ nsl[1 - i] = cur
    BY <1>1, <1>4
  <2>3. ArraysOK(a, nsl)
    BY <1>1, <2>2 DEF ArraysOK
  <2> HIDE DEF nsl, at, v
  <2>4. /\ srv'.arrays = a /\ srv'.slot["allow_ip"] = nsl /\ SrvOK(srv') /\ srv'.idx = srv.idx
    BY <1>1, <2>1, <2>3 DEF SrvOK, Shape, Names, ArraysOK, a, sl
  <2>5. cur \in AllowIpSlices'
    BY <2>2, <2>4 DEF AllowIpSlices, Get, i
  <2>6. SlicesKept
    BY <2>4 DEF SlicesKept, a
  <2>7. SlotsKept
    BY <1>1, <2>2, <2>4, <2>5 DEF SlotsKept, sl
  <2>8. op' = [op EXCEPT ![o] = Rest] /\ UNCHANGED <<run, file, conn>>
    BY <1>8 DEF Return
  <2>9. OpsOK'
    BY <1>1, <1>2, <2>8, OpsKept, Zenon
  <2> QED BY <2>4, <2>6, <2>7, <2>8, <2>9 DEF Kept
<1> QED BY <1>5, <1>6, <1>7, <1>8, Zenon DEF WriteAllowIps, Get, another, a, sl, i

(* UpdateConfig: a new array and a slice of the whole of it.               *)
LEMMA NewAllowIpsKeeps ==
    ASSUME SrvOK(srv), OpsOK, NEW o \in Operators, NewAllowIps(o)
    PROVE  Kept /\ OpsOK' /\ UNCHANGED <<run, file, conn>>
<1> DEFINE ips == op[o].cmd.v.allow_ip
           i == srv.idx["allow_ip"]
           a == srv.arrays
           sl == srv.slot["allow_ip"]
           na == Append(a, ips)
           nsl == [sl EXCEPT ![1 - i] = [arr |-> Len(a) + 1, len |-> Len(ips)]]
<1>1. /\ i \in {0, 1} /\ 1 - i \in {0, 1}
      /\ ArraysOK(a, sl) /\ ListsOK(srv.lists, srv.slot["black_sql"])
      /\ Shape(srv) /\ FileOK(srv.cfg)
  BY InForceIsSlice DEF SrvOK, another
<1>2. /\ op[o].todo # <<>> /\ Head(op[o].todo)[1] = "newips" /\ OpOK(op[o]) /\ DOMAIN op = Operators
  BY DEF NewAllowIps, At, OpsOK
<1>3. ips \in Seq(Addresses)
  BY <1>2, HeadIsOK DEF StepOK, FileOK
<1>4. /\ srv' = [srv EXCEPT !.arrays = na, !.slot = [srv.slot EXCEPT !["allow_ip"] = nsl]]
      /\ op' = [op EXCEPT ![o] = [Done(o) EXCEPT !.to = 1 - i]] /\ UNCHANGED <<run, file, conn>>
  BY DEF NewAllowIps, StepTo, another
<1> HIDE DEF a, sl, i, ips
<1>5. /\ ArraysOK(na, nsl)
      /\ \A vec : SliceOK(a, vec) => SliceOK(na, vec) /\ In(na, vec) = In(a, vec)
  BY <1>1, <1>3, IpsReplaced, Zenon
<1>6. nsl[i] = sl[i]
  BY <1>1 DEF ArraysOK
<1> HIDE DEF na, nsl
<1>7. srv'.arrays = na /\ srv'.slot["allow_ip"] = nsl /\ SrvOK(srv')
  BY <1>1, <1>4, <1>5 DEF SrvOK, Shape, Names, ArraysOK
<1>8. srv'.slot["allow_ip"][1 - i] \in AllowIpSlices'
  BY <1>1, <1>2, <1>4, AboutToBe, Zenon
<1>9. SlicesKept
  BY <1>5, <1>7 DEF SlicesKept, a
<1>10. SlotsKept
  BY <1>1, <1>6, <1>7, <1>8 DEF SlotsKept, sl
<1>11. OpsOK'
  BY <1>1, <1>2, <1>4, OpsKept, Zenon
<1> QED BY <1>4, <1>7, <1>9, <1>10, <1>11 DEF Kept

(* The settings that are single values, and the index of any setting.      *)
LEMMA SlotKeeps ==
    ASSUME SrvOK(srv), OpsOK, NEW o \in Operators, WriteSlot(o) \/ Flip(o)
    PROVE  Kept /\ OpsOK' /\ UNCHANGED <<run, file, conn>>
<1> DEFINE k == Setting(o)
<1>1. op[o].todo # <<>> /\ OpOK(op[o])
  BY DEF WriteSlot, Flip, At, OpsOK
<1>2. CASE WriteSlot(o)
  <2> DEFINE v == IF op[o].cmd.opt = "reload" THEN op[o].cmd.v[k] ELSE op[o].cmd.v
  <2>1. k \in {"proxy", "log_sql", "slow_log_time"}
    BY <1>1, <1>2, HeadIsOK, Zenon DEF StepOK, WriteSlot, At, Setting
  <2>2. /\ srv' = [srv EXCEPT !.slot[k][another(k)] = v]
        /\ op' = [op EXCEPT ![o] = [Done(o) EXCEPT !.to = another(k)]] /\ UNCHANGED <<run, file, conn>>
    BY <1>2 DEF WriteSlot, StepTo
  <2>3. another(k) \in {0, 1}
    BY <2>1 DEF SrvOK, Shape, Names, another
  <2> HIDE DEF k, v
  <2>4. /\ srv'.arrays = srv.arrays /\ srv'.lists = srv.lists /\ srv'.cfg = srv.cfg
        /\ srv'.slot["allow_ip"] = srv.slot["allow_ip"] /\ srv'.slot["black_sql"] = srv.slot["black_sql"]
    BY <2>1, <2>2 DEF SrvOK, Shape, Names
  <2>5. Shape(srv')
    BY <2>1, <2>2, <2>3 DEF SrvOK, Shape, Names
  <2>6. SrvOK(srv')
    BY <2>4, <2>5 DEF SrvOK
  <2>7. OpsOK'
    BY <1>1, <2>2, <2>3, OpsKept, Zenon
  <2> QED BY <2>2, <2>4, <2>6, <2>7, Untouched DEF Kept
<1>3. CASE Flip(o)
  <2>1. k \in Names /\ op[o].to \in {0, 1}
    BY <1>1, <1>3, HeadIsOK, Zenon DEF StepOK, Flip, At, Setting, OpOK
  <2>2. /\ srv' = [srv EXCEPT !.idx[k] = op[o].to]
        /\ op' = [op EXCEPT ![o] = Done(o)] /\ UNCHANGED <<run, file, conn>>
    BY <1>3 DEF Flip, Step
  <2> HIDE DEF k
  <2>3. /\ srv'.arrays = srv.arrays /\ srv'.lists = srv.lists /\ srv'.cfg = srv.cfg
        /\ srv'.slot = srv.slot
    BY <2>1, <2>2 DEF SrvOK, Shape
  <2>4. Shape(srv')
    BY <2>1, <2>2 DEF SrvOK, Shape
  <2>5. SrvOK(srv')
    BY <2>3, <2>4 DEF SrvOK
  <2>6. OpsOK'
    BY <1>1, <2>2, OpsKept, Zenon
  <2> QED BY <2>2, <2>3, <2>5, <2>6, Untouched DEF Kept
<1> QED BY <1>2, <1>3

(* The blacklist: a list is written, or one is added.                      *)
LEMMA ListWritten ==
    ASSUME NEW lists, NEW refs, ListsOK(lists, refs),
           NEW r, DOMAIN r = {"sqls", "sqlsLen"}, IsFiniteSet(r.sqls), r.sqlsLen \in Int,
           NEW l \in 1..Len(lists), NEW i \in {0, 1}
    PROVE  /\ ListsOK([lists EXCEPT ![l] = r], refs)
           /\ ListsOK([lists EXCEPT ![l] = r], [refs EXCEPT ![i] = l])
           /\ ListsOK(Append(lists, r), [refs EXCEPT ![i] = Len(lists) + 1])
<1> DEFINE n == Len(lists)
           new == [lists EXCEPT ![l] = r]
           more == Append(lists, r)
<1>1. /\ n \in Nat /\ lists = [k \in 1..n |-> lists[k]] /\ DOMAIN lists = 1..n
      /\ DOMAIN refs = {0, 1} /\ \A k \in {0, 1} : refs[k] \in 1..n
      /\ \A k \in 1..n : /\ DOMAIN lists[k] = {"sqls", "sqlsLen"}
                         /\ IsFiniteSet(lists[k].sqls) /\ lists[k].sqlsLen \in Int
  BY DEF ListsOK
<1> HIDE DEF n
<1>2. /\ DOMAIN new = 1..n /\ new = [k \in 1..n |-> new[k]] /\ new[l] = r
      /\ \A k \in 1..n : k # l => new[k] = lists[k]
  BY <1>1, Zenon DEF n
<1> HIDE DEF new
<1>3. Len(new) = n
  BY <1>1, <1>2
<1>4. \A k \in 1..n : /\ DOMAIN new[k] = {"sqls", "sqlsLen"}
                      /\ IsFiniteSet(new[k].sqls) /\ new[k].sqlsLen \in Int
  BY <1>1, <1>2, Zenon
<1>5. ListsOK(new, refs) /\ ListsOK(new, [refs EXCEPT ![i] = l])
  BY <1>1, <1>2, <1>3, <1>4, Zenon DEF ListsOK, n
<1>6. /\ Len(more) = n + 1 /\ DOMAIN more = 1..(n + 1) /\ more = [k \in 1..(n + 1) |-> more[k]]
      /\ more[n + 1] = r /\ \A k \in 1..n : more[k] = lists[k]
  <2> DEFINE S == {lists[k] : k \in 1..n} \cup {r}
  <2>1. lists \in [1..n -> S]
    BY <1>1
  <2>2. r \in S
    OBVIOUS
  <2> HIDE DEF S
  <2>3. lists \in Seq(S) /\ Len(lists) = n
    BY <1>1, <2>1
  <2> QED BY <1>1, <2>2, <2>3
<1> HIDE DEF more
<1>7. \A k \in 1..(n + 1) : /\ DOMAIN more[k] = {"sqls", "sqlsLen"}
                            /\ IsFiniteSet(more[k].sqls) /\ more[k].sqlsLen \in Int
  <2>1. n \in Nat
    BY <1>1
  <2>2. \A k \in 1..(n + 1) : k = n + 1 \/ k \in 1..n
    BY <2>1
  <2> QED BY <1>1, <1>6, <2>2, Zenon
<1>8. ListsOK(more, [refs EXCEPT ![i] = n + 1])
  <2> DEFINE nrefs == [refs EXCEPT ![i] = n + 1]
  <2>1. DOMAIN nrefs = {0, 1} /\ \A k \in {0, 1} : nrefs[k] \in 1..(n + 1)
    BY <1>1
  <2>2. n + 1 \in Nat
    BY <1>1
  <2> HIDE DEF nrefs
  <2>3. ListsOK(more, nrefs)
    BY <1>6, <1>7, <2>1, <2>2 DEF ListsOK
  <2> QED BY <2>3 DEF nrefs
<1> QED BY <1>5, <1>8 DEF n, new, more

(* What is written of the blacklist does not touch the addresses.          *)
LEMMA ListsTouched ==
    ASSUME SrvOK(srv), NEW lists, NEW refs, ListsOK(lists, refs),
           \/ srv' = [srv EXCEPT !.lists = lists, !.slot = [srv.slot EXCEPT !["black_sql"] = refs]]
           \/ srv' = [srv EXCEPT !.lists = lists] /\ refs = srv.slot["black_sql"]
    PROVE  Kept
<1>1. /\ srv'.arrays = srv.arrays /\ srv'.lists = lists /\ srv'.cfg = srv.cfg
      /\ srv'.slot["allow_ip"] = srv.slot["allow_ip"] /\ srv'.slot["black_sql"] = refs
      /\ Shape(srv')
  <2>1. DOMAIN refs = {0, 1}
    BY DEF ListsOK
  <2>2. CASE srv' = [srv EXCEPT !.lists = lists, !.slot = [srv.slot EXCEPT !["black_sql"] = refs]]
    BY <2>1, <2>2 DEF SrvOK, Shape, Names
  <2>3. CASE srv' = [srv EXCEPT !.lists = lists] /\ refs = srv.slot["black_sql"]
    BY <2>3 DEF SrvOK, Shape
  <2> QED BY <2>2, <2>3
<1>2. SrvOK(srv')
  BY <1>1 DEF SrvOK
<1> QED BY <1>1, <1>2, Untouched DEF Kept

(* AddBlackSql, DelBlackSql, and the list of UpdateConfig.                 *)
LEMMA SqlsKeep ==
    ASSUME SrvOK(srv), OpsOK, NEW o \in Operators, WriteBlackSqls(o) \/ WriteSqlsLen(o) \/ NewList(o)
    PROVE  Kept /\ OpsOK' /\ UNCHANGED <<run, file, conn>>
<1> DEFINE i == srv.idx["black_sql"]
           lists == srv.lists
           refs == srv.slot["black_sql"]
           cur == refs[i]
<1>1. op[o].todo # <<>> /\ OpOK(op[o]) /\ op[o].to \in {0, 1}
  BY Zenon DEF WriteBlackSqls, WriteSqlsLen, NewList, At, OpsOK, OpOK
<1>2. /\ ListsOK(lists, refs) /\ DOMAIN refs = {0, 1} /\ i \in {0, 1} /\ 1 - i \in {0, 1}
      /\ \A k \in {0, 1} : refs[k] \in 1..Len(lists)
      /\ \A l \in 1..Len(lists) : /\ DOMAIN lists[l] = {"sqls", "sqlsLen"}
                                  /\ IsFiniteSet(lists[l].sqls) /\ lists[l].sqlsLen \in Int
      /\ DOMAIN lists = 1..Len(lists) /\ DOMAIN srv.slot = Names
  <2>1. ListsOK(lists, refs) /\ srv.idx \in [Names -> {0, 1}] /\ DOMAIN srv.slot = Names
    BY Zenon DEF SrvOK, Shape
  <2>2. i \in {0, 1}
    BY <2>1 DEF Names
  <2> HIDE DEF i, lists, refs
  <2>3. 1 - i \in {0, 1}
    BY <2>2
  <2>4. DOMAIN lists = 1..Len(lists)
    BY <2>1, Zenon DEF ListsOK
  <2> QED BY <2>1, <2>2, <2>3, <2>4, Zenon DEF ListsOK
<1>3. CASE WriteBlackSqls(o)
  <2> DEFINE v == op[o].cmd.v
             known == v \in lists[cur].sqls
             r == [lists[cur] EXCEPT !.sqls = IF known THEN @ \ {v} ELSE @ \cup {v}]
             nl == [lists EXCEPT ![cur] = r]
             nr == [refs EXCEPT ![1 - i] = cur]
  <2>1. CASE Return(o) /\ UNCHANGED srv
    <3>1. op' = [op EXCEPT ![o] = Rest] /\ UNCHANGED <<run, file, conn>>
      BY <2>1 DEF Return
    <3>2. OpsOK'
      BY <1>1, <3>1, OpsKept, Zenon
    <3> QED BY <2>1, <3>1, <3>2, Untouched DEF Kept
  <2>2. CASE /\ srv' = [srv EXCEPT !.slot["black_sql"][1 - i] = cur,
                                   !.lists[cur].sqls = IF known THEN @ \ {v} ELSE @ \cup {v}]
             /\ StepTo(o, 1 - i)
    <3>1. op' = [op EXCEPT ![o] = [Done(o) EXCEPT !.to = 1 - i]] /\ UNCHANGED <<run, file, conn>>
      BY <2>2, Zenon DEF StepTo
    <3>2. srv' = [srv EXCEPT !.lists = nl, !.slot = [srv.slot EXCEPT !["black_sql"] = nr]]
      BY <2>2, Zenon
    <3> HIDE DEF i, refs, lists, v
    <3>3. DOMAIN r = {"sqls", "sqlsLen"} /\ IsFiniteSet(r.sqls) /\ r.sqlsLen \in Int
      <4>1. IsFiniteSet(lists[cur].sqls) /\ cur \in 1..Len(lists)
        BY <1>2
      <4>2. IsFiniteSet(lists[cur].sqls \ {v}) /\ IsFiniteSet(lists[cur].sqls \cup {v})
        BY <4>1, FS_AddElement, FS_RemoveElement, Zenon
      <4> QED BY <1>2, <4>1, <4>2
    <3> HIDE DEF r
    <3>4. ListsOK(nl, nr)
      BY <1>2, <3>3, ListWritten, Zenon
    <3> HIDE DEF nl, nr
    <3>5. Kept
      BY <3>2, <3>4, ListsTouched, Zenon
    <3>6. OpsOK'
      BY <1>1, <1>2, <3>1, OpsKept, Zenon
    <3> QED BY <3>1, <3>5, <3>6
  <2> QED BY <1>3, <2>1, <2>2, Zenon DEF WriteBlackSqls, Get, another
<1>4. CASE WriteSqlsLen(o)
  <2> DEFINE l == refs[op[o].to]
             r == [lists[l] EXCEPT !.sqlsLen = IF Adds(o) THEN @ + 1 ELSE @ - 1]
             nl == [lists EXCEPT ![l] = r]
  <2>1. op' = [op EXCEPT ![o] = Done(o)] /\ UNCHANGED <<run, file, conn>>
    BY <1>4, Zenon DEF WriteSqlsLen, Step
  <2>2. srv' = [srv EXCEPT !.lists = nl]
    BY <1>4, Zenon DEF WriteSqlsLen
  <2> HIDE DEF i, refs, lists
  <2>3. /\ DOMAIN lists[l] = {"sqls", "sqlsLen"} /\ IsFiniteSet(lists[l].sqls) /\ lists[l].sqlsLen \in Int
        /\ l \in 1..Len(lists)
    BY <1>1, <1>2
  <2> HIDE DEF l
  <2>7. DOMAIN r = {"sqls", "sqlsLen"} /\ IsFiniteSet(r.sqls) /\ r.sqlsLen \in Int
    BY <2>3
  <2> HIDE DEF r
  <2>4. ListsOK(nl, refs)
    BY <1>2, <2>3, <2>7, ListWritten, Zenon
  <2> HIDE DEF nl
  <2>5. Kept
    BY <2>2, <2>4, ListsTouched, Zenon DEF refs
  <2>6. OpsOK'
    BY <1>1, <1>2, <2>1, OpsKept, Zenon
  <2> QED BY <2>1, <2>5, <2>6
<1>5. CASE NewList(o)
  <2> DEFINE r == parseBlackListSqls(op[o].cmd.v)
             nl == Append(lists, r)
             nr == [refs EXCEPT ![1 - i] = Len(lists) + 1]
  <2>1. op' = [op EXCEPT ![o] = [Done(o) EXCEPT !.to = 1 - i]] /\ UNCHANGED <<run, file, conn>>
    BY <1>5 DEF NewList, StepTo, another
  <2>2. srv' = [srv EXCEPT !.lists = nl, !.slot = [srv.slot EXCEPT !["black_sql"] = nr]]
    BY <1>5 DEF NewList, another
  <2>3. FileOK(op[o].cmd.v)
    BY <1>1, <1>5, HeadIsOK DEF StepOK, NewList, At
  <2>4. DOMAIN r = {"sqls", "sqlsLen"} /\ IsFiniteSet(r.sqls) /\ r.sqlsLen \in Int
    BY <2>3, ParsedIsOK
  <2> HIDE DEF i, refs, lists, r
  <2>5. ListsOK(nl, nr)
    BY <1>2, <2>4, ListWritten, Zenon
  <2> HIDE DEF nl, nr
  <2>6. Kept
    BY <2>2, <2>5, ListsTouched, Zenon
  <2>7. OpsOK'
    BY <1>1, <1>2, <2>1, OpsKept, Zenon
  <2> QED BY <2>1, <2>6, <2>7
<1> QED BY <1>3, <1>4, <1>5

(* A list of addresses without one of them.                                *)
LEMMA RemovedAddress ==
    ASSUME NEW l \in Seq(Addresses), NEW n \in 1..Len(l)
    PROVE  RemoveAt(l, n) \in Seq(Addresses)
<1>1. Len(l) \in Nat /\ n \in Nat /\ n - 1 \in Int /\ n + 1 \in Int
  OBVIOUS
<1>2. SubSeq(l, 1, n - 1) \in Seq(Addresses)
  <2>1. \A j \in 1..(n - 1) : l[j] \in Addresses
    BY <1>1
  <2> QED BY <1>1, <2>1
<1>3. SubSeq(l, n + 1, Len(l)) \in Seq(Addresses)
  <2>1. \A j \in (n + 1)..Len(l) : l[j] \in Addresses
    BY <1>1
  <2> QED BY <1>1, <2>1
<1> QED BY <1>2, <1>3 DEF RemoveAt

(* The configuration, and what else is not a slot.                         *)
LEMMA OthersTouched ==
    ASSUME SrvOK(srv), DOMAIN srv' = DOMAIN srv, FileOK(srv'.cfg), srv'.idx = srv.idx,
           srv'.slot = srv.slot, srv'.arrays = srv.arrays, srv'.lists = srv.lists
    PROVE  Kept
<1>1. SrvOK(srv')
  BY DEF SrvOK, Shape
<1> QED BY <1>1, Untouched DEF Kept

(* The write into s.cfg that ends a command.                               *)
LEMMA SyncConfigKeeps ==
    ASSUME SrvOK(srv), OpsOK, NEW o \in Operators, SyncConfig(o)
    PROVE  Kept /\ OpsOK' /\ UNCHANGED <<run, file, conn>>
<1> DEFINE k == Setting(o)
           v == op[o].cmd.v
           ips == op[o].ips
           at == PlaceOf(ips, v)
           others == SelectSeq(srv.cfg.slaves, LAMBDA x : x # v)
           f == srv.cfg
<1>1. /\ op[o].todo # <<>> /\ OpOK(op[o]) /\ ips \in Seq(Addresses)
      /\ op' = [op EXCEPT ![o] = Done(o)] /\ UNCHANGED <<run, file, conn>>
  BY DEF SyncConfig, At, Step, OpsOK, OpOK
<1>2. OpsOK'
  BY <1>1, OpsKept, Zenon
<1>3. k \in {"allow_ip", "slave", "proxy", "log_sql", "slow_log_time"} /\ (k = "allow_ip" => v \in Addresses)
  BY <1>1, HeadIsOK, Zenon DEF StepOK, SyncConfig, At, Setting
<1>4. /\ FileOK(f) /\ f.allow_ip \in Seq(Addresses)
      /\ DOMAIN f = {"users", "schemas", "allow_ip", "bls", "black_sql", "slow_log_time", "log_sql", "slaves"}
  BY DEF SrvOK, FileOK
<1>5. at # 0 => RemoveAt(ips, at) \in Seq(Addresses)
  <2> DEFINE S == {j \in 1..Len(ips) : ips[j] = v}
  <2>1. at = IF S = {} THEN 0 ELSE Min(S)
    BY Zenon DEF PlaceOf
  <2>2. S \in SUBSET (1..Len(ips)) /\ Len(ips) \in Nat
    BY <1>1
  <2> HIDE DEF S, at, ips
  <2>3. at # 0 => at \in 1..Len(ips)
    BY <2>1, <2>2, LeastPlace
  <2> QED BY <1>1, <2>3, RemovedAddress
<1>6. ASSUME NEW cfg, FileOK(cfg), srv' = [srv EXCEPT !.cfg = cfg] PROVE Kept
  BY <1>6, OthersTouched DEF SrvOK, Shape
<1>7. CASE k = "allow_ip"
  <2> DEFINE ai == IF Adds(o) THEN Append(f.allow_ip, v) ELSE IF at = 0 THEN f.allow_ip ELSE RemoveAt(ips, at)
  <2>1. srv' = [srv EXCEPT !.cfg = [f EXCEPT !.allow_ip = ai]]
    BY <1>7, Zenon DEF SyncConfig
  <2>2. ai \in Seq(Addresses)
    BY <1>3, <1>4, <1>5, <1>7
  <2> HIDE DEF ai, f
  <2>3. FileOK([f EXCEPT !.allow_ip = ai])
    BY <1>4, <2>2 DEF FileOK
  <2> QED BY <1>1, <1>2, <1>6, <2>1, <2>3
<1>8. CASE k = "slave"
  <2> DEFINE sl == IF Adds(o) THEN Append(f.slaves, v) ELSE IF others = <<>> THEN <<Empty>> ELSE others
  <2>1. srv' = [srv EXCEPT !.cfg = [f EXCEPT !.slaves = sl]]
    BY <1>8, Zenon DEF SyncConfig
  <2> HIDE DEF sl, f
  <2>2. FileOK([f EXCEPT !.slaves = sl])
    BY <1>4 DEF FileOK
  <2> QED BY <1>1, <1>2, <1>6, <2>1, <2>2
<1>9. CASE k = "proxy"
  <2>1. srv' = srv
    BY <1>9 DEF SyncConfig
  <2> QED BY <1>1, <1>2, <2>1, Untouched DEF Kept
<1>10. CASE k \in {"log_sql", "slow_log_time"}
  <2>1. srv' = [srv EXCEPT !.cfg = [f EXCEPT ![k] = v]]
    BY <1>10 DEF SyncConfig
  <2> HIDE DEF k, f
  <2>2. FileOK([f EXCEPT ![k] = v])
    BY <1>4, <1>10 DEF FileOK
  <2> QED BY <1>1, <1>2, <1>6, <2>1, <2>2
<1> QED BY <1>3, <1>7, <1>8, <1>9, <1>10

(* WriteProxyConfig, and the locked part of a reload.                      *)
LEMMA RestKeeps ==
    ASSUME SrvOK(srv), OpsOK, FileOK(file), NEW o \in Operators, WriteSlaves(o) \/ CreateFile(o) \/ WriteFile(o) \/ Lock(o) \/ Install(o)
    PROVE  Kept /\ OpsOK' /\ UNCHANGED <<run, conn>> /\ FileOK(file')
<1>1. op[o].todo # <<>>
  BY DEF WriteSlaves, CreateFile, WriteFile, Lock, Install, At
<1>2. \/ op' = [op EXCEPT ![o] = Done(o)]
      \/ op' = [op EXCEPT ![o] = Rest]
      \/ op' = op
  BY Zenon DEF WriteSlaves, CreateFile, WriteFile, Lock, Install, Step, Return
<1>3. OpsOK'
  <2>1. CASE op' = op
    BY <2>1 DEF OpsOK
  <2> QED BY <1>1, <1>2, <2>1, OpsKept
<1>4. FileOK(srv.cfg)
  BY DEF SrvOK
<1>5. CASE WriteFile(o)
  <2>1. UNCHANGED <<srv, run, conn>>
    BY <1>5 DEF WriteFile
  <2>3. FileOK(file')
    <3> DEFINE f == op[o].cmd.v
               left == BlackSqls \ file.black_sql
    <3>1. FileOK(f)
      BY <1>1, <1>5, HeadIsOK, Zenon DEF WriteFile, At, StepOK
    <3> HIDE DEF f
    <3>2. FileOK([f EXCEPT !.black_sql = file.black_sql])
      BY <3>1 DEF FileOK
    <3>3. FileOK([file EXCEPT !.users = f.users])
      BY DEF FileOK
    <3>4. ASSUME NEW q PROVE FileOK([file EXCEPT !.black_sql = @ \cup {q}])
      <4>1. IsFiniteSet(file.black_sql \cup {q})
        BY FS_AddElement, Zenon DEF FileOK
      <4> QED BY <4>1 DEF FileOK
    <3>5. \/ file' = [f EXCEPT !.black_sql = file.black_sql]
          \/ file' \in {file, [file EXCEPT !.users = f.users]}
          \/ \E q \in left : file' = [file EXCEPT !.black_sql = @ \cup {q}]
      BY <1>5, Zenon DEF WriteFile, f
    <3> QED BY <3>2, <3>3, <3>4, <3>5, Zenon
  <2> QED BY <1>3, <2>1, <2>3, Untouched DEF Kept
<1>9. CASE CreateFile(o)
  <2>1. UNCHANGED <<srv, run, conn>>
    BY <1>9 DEF CreateFile
  <2>2. FileOK([Blank EXCEPT !.black_sql = file.black_sql])
    BY DEF FileOK, Blank
  <2>3. FileOK([file EXCEPT !.black_sql = {}])
    BY FS_EmptySet DEF FileOK
  <2>4. FileOK(file')
    BY <1>9, <2>2, <2>3, Zenon DEF CreateFile
  <2> QED BY <1>3, <2>1, <2>4, Untouched DEF Kept
<1>6. CASE WriteSlaves(o)
  <2>1. UNCHANGED <<run, file, conn>>
    BY <1>6 DEF WriteSlaves, Step, Return
  <2>2. CASE UNCHANGED srv
    BY <1>3, <2>1, <2>2, Untouched DEF Kept
  <2>3. ASSUME NEW s, srv' = [srv EXCEPT !.slaves = s] PROVE Kept
    BY <1>4, <2>3, OthersTouched DEF SrvOK, Shape
  <2> QED BY <1>3, <1>6, <2>1, <2>2, <2>3 DEF WriteSlaves
<1>7. CASE Lock(o)
  <2>1. UNCHANGED <<run, file, conn>> /\ FileOK(op[o].cmd.v)
    BY <1>1, <1>7, HeadIsOK DEF Lock, Step, Return, At, StepOK
  <2>2. CASE UNCHANGED srv
    BY <1>3, <2>1, <2>2, Untouched DEF Kept
  <2>3. CASE srv' = [srv EXCEPT !.locked = o, !.cfg = op[o].cmd.v]
    <3>1. Kept
      BY <2>1, <2>3, OthersTouched DEF SrvOK, Shape
    <3> QED BY <1>3, <2>1, <3>1
  <2> QED BY <1>7, <2>2, <2>3 DEF Lock
<1>8. CASE Install(o)
  <2>1. UNCHANGED <<run, file, conn>>
    BY <1>8 DEF Install, Step
  <2>2. Kept
    BY <1>4, <1>8, OthersTouched, Zenon DEF Install, SrvOK, Shape
  <2> QED BY <1>3, <2>1, <2>2
<1> QED BY <1>5, <1>6, <1>7, <1>8, <1>9

(* Every step of an operator.                                              *)
LEMMA OperateKeeps ==
    ASSUME SrvOK(srv), OpsOK, FileOK(file), NEW o \in Operators, Operate(o)
    PROVE  Kept /\ OpsOK' /\ UNCHANGED <<run, conn>> /\ FileOK(file')
<1>1. CASE WriteAllowIps(o)
  BY <1>1, WriteAllowIpsKeeps
<1>2. CASE NewAllowIps(o)
  BY <1>2, NewAllowIpsKeeps
<1>3. CASE WriteSlot(o) \/ Flip(o)
  BY <1>3, SlotKeeps
<1>4. CASE WriteBlackSqls(o) \/ WriteSqlsLen(o) \/ NewList(o)
  BY <1>4, SqlsKeep
<1>5. CASE SyncConfig(o)
  BY <1>5, SyncConfigKeeps
<1>6. CASE WriteSlaves(o) \/ CreateFile(o) \/ WriteFile(o) \/ Lock(o) \/ Install(o)
  BY <1>6, RestKeeps
<1> QED BY <1>1, <1>2, <1>3, <1>4, <1>5, <1>6 DEF Operate
-----------------------------------------------------------------------------
(* Sessions. *)

ServerOK == SrvOK(srv) /\ FileOK(file) /\ OpsOK /\ DOMAIN grace = Sessions /\ menu \in DOMAIN Menus

(* The types of the server, and the types of its sessions.                 *)
LEMMA TypesSplit == TypeOK <=> ServerOK /\ DOMAIN conn = Sessions /\ \A c \in Sessions : ConnOK(c)
  BY DEF TypeOK, ServerOK, OpsOK

(* NewServer.                                                              *)
LEMMA TypeInit == Init => TypeOK
<1> SUFFICES ASSUME Init PROVE TypeOK
  OBVIOUS
<1>1. FileOK(First) /\ file = First
  BY FilesAreOK DEF Files, Init
<1>2. SrvOK(srv)
  BY <1>1, ServerIsOK, Zenon DEF Init
<1>3. OpsOK
  BY RestIsOK DEF Init, OpsOK
<1>4. DOMAIN conn = Sessions /\ \A c \in Sessions : ConnOK(c)
  BY DEF Init, ConnOK, NoConn
<1>5. DOMAIN grace = Sessions /\ menu \in DOMAIN Menus
  BY DEF Init
<1> QED BY <1>1, <1>2, <1>3, <1>4, <1>5, TypesSplit DEF ServerOK

(* A session that no step concerns.                                        *)
LEMMA ConnKept ==
    ASSUME NEW c, ConnOK(c), conn'[c] = conn[c], run' = run,
           SlicesKept \/ srv'.arrays = srv.arrays
    PROVE  ConnOK(c)'
  BY DEF ConnOK, SlicesKept

(* A step of a session: what it leaves alone, and what it leads to.        *)
LEMMA SessionKeeps ==
    ASSUME TypeOK, NEW c \in Sessions, Serve(c) \/ Client(c)
    PROVE  /\ UNCHANGED <<srv, run, file, op>>
           /\ DOMAIN conn' = Sessions /\ ConnOK(c)'
           /\ \A d \in Sessions : d # c => conn'[d] = conn[d]
           /\ conn[c].pc \in {"slice", "match"} => ReadSlice(c) \/ Match(c)
           /\ conn'[c].pc = "slice" => ReadIndex(c)
           /\ conn'[c].pc = "match" => ReadSlice(c) \/ Match(c)
           /\ conn'[c].pc \in {"count", "lookup"} => ReadSqlsIndex(c)
<1> DEFINE Goal ==
           /\ UNCHANGED <<srv, run, file, op>>
           /\ DOMAIN conn' = Sessions /\ ConnOK(c)'
           /\ \A d \in Sessions : d # c => conn'[d] = conn[d]
           /\ conn[c].pc \in {"slice", "match"} => ReadSlice(c) \/ Match(c)
           /\ conn'[c].pc = "slice" => ReadIndex(c)
           /\ conn'[c].pc = "match" => ReadSlice(c) \/ Match(c)
           /\ conn'[c].pc \in {"count", "lookup"} => ReadSqlsIndex(c)
           Entered == {"slice", "match", "count", "lookup"}
<1>1. DOMAIN conn = Sessions /\ ConnOK(c) /\ SrvOK(srv)
  BY DEF TypeOK
<1> DEFINE Plain == /\ UNCHANGED <<srv, run, file, op>> /\ run = "running" /\ DOMAIN conn' = Sessions
                    /\ \A d \in Sessions : d # c => conn'[d] = conn[d]
                    /\ DOMAIN conn'[c] = {"pc", "ver", "schema", "index", "vec", "pos", "sql"}
                    /\ conn'[c].index \in {0, 1}
<1>2. ASSUME Plain, conn'[c].pc \notin Entered,
             conn[c].pc \notin {"slice", "match"} \/ ReadSlice(c) \/ Match(c)
      PROVE  Goal
  BY <1>2, Zenon DEF ConnOK
<1> SUFFICES Goal
  BY Zenon
<1> HIDE DEF Goal, Plain, Entered
<1>3. CASE newClientConn(c)
  <2>1. Plain /\ conn'[c].pc \notin Entered /\ conn[c].pc \notin {"slice", "match"}
    BY <1>1, <1>3 DEF ConnOK, newClientConn, Session, NoConn, Plain, Entered
  <2> QED BY <1>2, <2>1, Zenon
<1>4. CASE readHandshakeResponse(c)
  <2>1. Plain /\ conn'[c].pc \notin Entered /\ conn[c].pc \notin {"slice", "match"}
    BY <1>1, <1>4 DEF ConnOK, readHandshakeResponse, Session, Goto, Close, NoConn, Plain, Entered
  <2> QED BY <1>2, <2>1, Zenon
<1>5. CASE GetSchema(c)
  <2>1. Plain /\ conn'[c].pc \notin Entered /\ conn[c].pc \notin {"slice", "match"}
    BY <1>1, <1>5 DEF ConnOK, GetSchema, Session, Plain, Entered
  <2> QED BY <1>2, <2>1, Zenon
<1>6. CASE readPacket(c)
  <2>1. Plain /\ conn'[c].pc \notin Entered /\ conn[c].pc \notin {"slice", "match"}
    <3>1. PICK q \in Sqls, to \in {"reload", "len"} : conn' = [conn EXCEPT ![c].sql = q, ![c].pc = to]
      BY <1>6, Zenon DEF readPacket
    <3>2. conn[c].pc = "ready" /\ UNCHANGED <<srv, run, file, op>>
      BY <1>6, Zenon DEF readPacket
    <3> QED BY <1>1, <3>1, <3>2 DEF ConnOK, Plain, Entered
  <2> QED BY <1>2, <2>1, Zenon
<1>7. CASE reloadConfig(c)
  <2>1. Plain /\ conn'[c].pc \notin Entered /\ conn[c].pc \notin {"slice", "match"}
    BY <1>1, <1>7 DEF ConnOK, reloadConfig, Session, Close, NoConn, Plain, Entered
  <2> QED BY <1>2, <2>1, Zenon
<1>8. CASE SetVersion(c)
  <2>1. Plain /\ conn'[c].pc \notin Entered /\ conn[c].pc \notin {"slice", "match"}
    BY <1>1, <1>8 DEF ConnOK, SetVersion, Session, Plain, Entered
  <2> QED BY <1>2, <2>1, Zenon
<1>9. CASE CheckSqlsLen(c)
  <2>1. Plain /\ conn'[c].pc \notin Entered /\ conn[c].pc \notin {"slice", "match"}
    BY <1>1, <1>9 DEF ConnOK, CheckSqlsLen, Session, Goto, Plain, Entered
  <2> QED BY <1>2, <2>1, Zenon
<1>10. CASE isBlacklistSql(c)
  <2>1. Plain /\ conn'[c].pc \notin Entered /\ conn[c].pc \notin {"slice", "match"}
    BY <1>1, <1>10 DEF ConnOK, isBlacklistSql, Session, Goto, Answer, Plain, Entered
  <2> QED BY <1>2, <2>1, Zenon
<1>11. CASE dispatch(c)
  <2>1. Plain /\ conn'[c].pc \notin Entered /\ conn[c].pc \notin {"slice", "match"}
    BY <1>1, <1>11 DEF ConnOK, dispatch, Session, Answer, Plain, Entered
  <2> QED BY <1>2, <2>1, Zenon
<1>12. CASE Leave(c)
  <2>1. Plain /\ conn'[c].pc \notin Entered /\ conn[c].pc \notin {"slice", "match"}
    BY <1>1, <1>12 DEF ConnOK, Leave, Session, Close, NoConn, Plain, Entered
  <2> QED BY <1>2, <2>1, Zenon
<1>13. CASE ReadIndex(c)
  <2>1. Plain /\ conn'[c].pc = "slice" /\ conn[c].pc = "index"
    BY <1>1, <1>13 DEF ConnOK, ReadIndex, Session, SrvOK, Shape, Names, Plain
  <2> QED BY <1>13, <2>1, Zenon DEF ConnOK, Plain, Goal
<1>14. CASE ReadSlice(c)
  <2> DEFINE vec == srv.slot["allow_ip"][conn[c].index]
  <2>1. CASE Admit(c)
    <3>1. Plain /\ conn'[c].pc \notin Entered
      BY <1>1, <1>14, <2>1 DEF ConnOK, ReadSlice, Admit, NoConn, Session, Plain, Entered
    <3> QED BY <1>2, <1>14, <3>1, Zenon
  <2>2. CASE vec.len # 0 /\ conn' = [conn EXCEPT ![c].vec = vec, ![c].pos = 1, ![c].pc = "match"] /\ Session
    <3>1. SliceOK(srv.arrays, vec) /\ vec.len \in Nat
      BY <1>1, SliceLength, Zenon DEF ConnOK, SrvOK, ArraysOK
    <3> HIDE DEF vec
    <3>2. /\ Plain /\ conn'[c].pc = "match" /\ conn'[c].vec = vec /\ conn'[c].pos = 1
      BY <1>1, <1>14, <2>2 DEF ConnOK, ReadSlice, Session, Plain
    <3>3. 1 \in 1..vec.len
      BY <2>2, <3>1
    <3> QED BY <1>14, <3>1, <3>2, <3>3, Zenon DEF ConnOK, Plain, Goal
  <2> QED BY <1>14, <2>1, <2>2, Zenon DEF ReadSlice
<1>15. CASE Match(c)
  <2>1. CASE Admit(c) \/ Close(c)
    <3>1. Plain /\ conn'[c].pc \notin Entered
      <4>1. CASE Admit(c)
        BY <1>1, <1>15, <4>1 DEF ConnOK, Match, Admit, NoConn, Session, Plain, Entered
      <4>2. CASE Close(c)
        BY <1>1, <1>15, <4>2 DEF ConnOK, Match, Close, NoConn, Session, Plain, Entered
      <4> QED BY <2>1, <4>1, <4>2, Zenon
    <3> QED BY <1>2, <1>15, <3>1, Zenon
  <2>2. CASE conn[c].pos < conn[c].vec.len /\ conn' = [conn EXCEPT ![c].pos = @ + 1] /\ Session
    <3>1. SliceOK(srv.arrays, conn[c].vec) /\ conn[c].pos \in 1..conn[c].vec.len /\ conn[c].pc = "match"
      BY <1>1, <1>15 DEF ConnOK, Match
    <3>2. Plain /\ conn'[c].pc = "match" /\ conn'[c].vec = conn[c].vec /\ conn'[c].pos = conn[c].pos + 1
      BY <1>1, <2>2, <3>1 DEF ConnOK, Session, Plain
    <3>3. conn[c].pos + 1 \in 1..conn[c].vec.len
      <4>1. conn[c].vec.len \in Nat
        BY <1>1, <3>1, SliceLength, Zenon DEF SrvOK, ArraysOK
      <4> QED BY <2>2, <3>1, <4>1
    <3> QED BY <1>15, <3>1, <3>2, <3>3, Zenon DEF ConnOK, Plain, Goal
  <2> QED BY <1>15, <2>1, <2>2, Zenon DEF Match
<1>16. CASE ReadSqlsIndex(c)
  <2>1. Plain /\ conn'[c].pc \in {"count", "lookup"} /\ conn[c].pc \in {"len", "map"}
    BY <1>1, <1>16 DEF ConnOK, ReadSqlsIndex, Session, SrvOK, Shape, Names, Plain
  <2> QED BY <1>16, <2>1, Zenon DEF ConnOK, Plain, Goal
<1> QED BY <1>3, <1>4, <1>5, <1>6, <1>7, <1>8, <1>9, <1>10, <1>11, <1>12, <1>13, <1>14, <1>15, <1>16, Zenon
        DEF Serve, Client

(* A command begins: only the operator's own record changes.               *)
LEMMA BeginKeeps ==
    ASSUME TypeOK, NEW o \in Operators, Begin(o)
    PROVE  OpsOK' /\ UNCHANGED <<srv, run, file, conn>>
<1>1. UNCHANGED <<srv, run, file, conn>> /\ OpsOK
  BY DEF Begin, TypeOK, OpsOK
<1>2. PICK c \in Menus[menu] :
          op' = IF Supported(c) /\ Changeable(c)
                THEN [op EXCEPT ![o] =
                         [Rest EXCEPT !.cmd = CASE c.opt = "reload" -> [c EXCEPT !.v = file]
                                                [] c.opt = "save" -> [c EXCEPT !.v = srv.cfg]
                                                [] OTHER -> c,
                                      !.todo = StepsOf(c),
                                      !.ips = IF c.k = "allow_ip" THEN srv.cfg.allow_ip ELSE <<>>]]
                ELSE op
  BY Zenon DEF Begin
<1>3. CASE ~(Supported(c) /\ Changeable(c))
  BY <1>1, <1>2, <1>3 DEF OpsOK
<1>4. CASE Supported(c) /\ Changeable(c)
  <2> DEFINE cmd == CASE c.opt = "reload" -> [c EXCEPT !.v = file]
                     [] c.opt = "save" -> [c EXCEPT !.v = srv.cfg]
                     [] OTHER -> c
             ips == IF c.k = "allow_ip" THEN srv.cfg.allow_ip ELSE <<>>
             t == StepsOf(c)
             p == [Rest EXCEPT !.cmd = cmd, !.todo = t, !.ips = ips]
  <2>1. op' = [op EXCEPT ![o] = p]
    BY <1>2, <1>4
  <2>2. c \in Commands
    BY DEF TypeOK, Commands
  <2>3. ips \in Seq(Addresses)
    <3>1. srv.cfg.allow_ip \in Seq(Addresses)
      BY Zenon DEF TypeOK, SrvOK, FileOK
    <3> QED BY <3>1
  <2>4. OpOK(p)
    <3>1. /\ FileOK(file) /\ FileOK(srv.cfg)
          /\ cmd = CASE c.opt = "reload" -> [c EXCEPT !.v = file]
                      [] c.opt = "save" -> [c EXCEPT !.v = srv.cfg]
                      [] OTHER -> c
      BY Zenon DEF TypeOK, SrvOK
    <3> HIDE DEF cmd, ips
    <3> QED BY <1>4, <2>2, <2>3, <3>1, BegunIsOK, Zenon
  <2> HIDE DEF p
  <2> QED BY <1>1, <2>1, <2>4 DEF OpsOK
<1> QED BY <1>3, <1>4

(* The process starts or is told to stop; the file is edited.              *)
LEMMA ProcessKeeps ==
    ASSUME TypeOK, EditFile \/ Run \/ Signal \/ CloseListener
    PROVE  /\ SrvOK(srv') /\ OpsOK' /\ FileOK(file') /\ UNCHANGED conn
           /\ srv'.arrays = srv.arrays /\ srv'.slot = srv.slot
           /\ run' = run \/ run = "starting"
<1>1. SrvOK(srv) /\ OpsOK /\ FileOK(file)
  BY DEF TypeOK, OpsOK
<1>2. CASE EditFile
  <2>1. UNCHANGED <<srv, run, op, conn>>
    BY <1>2 DEF EditFile
  <2>2. FileOK(file')
    <3>1. PICK c \in Menus[menu] : c.opt = "edit" /\ file' = c.v
      BY <1>2 DEF EditFile
    <3>2. c \in Commands
      BY DEF TypeOK, Commands
    <3> QED BY <3>1, <3>2, CommandsAreOK
  <2> QED BY <1>1, <2>1, <2>2 DEF OpsOK
<1>3. CASE Run \/ Signal \/ CloseListener
  <2>1. UNCHANGED <<file, op, conn>> /\ (run' = run \/ run = "starting")
    BY <1>3 DEF Run, Signal, CloseListener
  <2>2. /\ DOMAIN srv' = DOMAIN srv /\ srv'.cfg = srv.cfg /\ srv'.idx = srv.idx
        /\ srv'.slot = srv.slot /\ srv'.arrays = srv.arrays /\ srv'.lists = srv.lists
    <3>1. CASE Run
      BY <1>1, <3>1 DEF Run, SrvOK, Shape
    <3>2. CASE Signal
      BY <1>1, <3>2 DEF Signal, SrvOK, Shape
    <3>3. CASE CloseListener
      BY <1>1, <3>3 DEF CloseListener, SrvOK, Shape
    <3> QED BY <1>3, <3>1, <3>2, <3>3
  <2>3. SrvOK(srv')
    BY <1>1, <2>2 DEF SrvOK, Shape
  <2> QED BY <1>1, <2>1, <2>2, <2>3 DEF OpsOK
<1> QED BY <1>2, <1>3

(* The process ends or is started again: no session, no command.           *)
LEMMA LifeKeeps ==
    ASSUME TypeOK, RunReturns \/ Crash \/ Restart
    PROVE  /\ SrvOK(srv') /\ OpsOK' /\ FileOK(file') /\ DOMAIN conn' = Sessions
           /\ \A c \in Sessions : ConnOK(c)' /\ conn'[c].pc = "none"
<1>1. FileOK(file) /\ OpsOK /\ FileOK(First) /\ file' = file
  BY FilesAreOK DEF TypeOK, OpsOK, Files, RunReturns, Crash, Exit, Restart
<1>2. CASE Exit
  <2>1. SrvOK(srv')
    BY <1>1, <1>2, ServerIsOK DEF Exit
  <2>2. OpsOK'
    BY <1>2, RestIsOK DEF Exit, OpsOK
  <2>3. /\ DOMAIN conn' = Sessions
        /\ \A c \in Sessions : conn'[c] = NoConn
    BY <1>2 DEF Exit
  <2>4. ASSUME NEW c \in Sessions PROVE ConnOK(c)' /\ conn'[c].pc = "none"
    BY <2>3 DEF ConnOK, NoConn
  <2> QED BY <1>1, <2>1, <2>2, <2>3, <2>4
<1>3. CASE Restart
  <2>1. run = "stopped" /\ srv' = NewServer(file) /\ UNCHANGED <<op, conn>>
    BY <1>3 DEF Restart
  <2>2. SrvOK(srv') /\ OpsOK'
    BY <1>1, <2>1, ServerIsOK, Zenon DEF OpsOK
  <2>3. ASSUME NEW c \in Sessions PROVE ConnOK(c)' /\ conn'[c].pc = "none"
    BY <2>1 DEF TypeOK, ConnOK
  <2> QED BY <1>1, <2>1, <2>2, <2>3 DEF TypeOK
<1> QED BY <1>2, <1>3 DEF RunReturns, Crash

(* What a step does to one session d that is not its own.                  *)
Bystander(d) == conn'[d] = conn[d] /\ SlicesKept /\ SlotsKept

(* A step keeps the types; for a session it is its own, or one that leaves *)
(* what the session reads, or its end.                                     *)
LEMMA TypeStep ==
    ASSUME TypeOK, Next
    PROVE  /\ TypeOK'
           /\ \A d \in Sessions :
                 \/ Bystander(d)
                 \/ srv' = srv /\ op' = op /\ (Serve(d) \/ Client(d))
                 \/ conn'[d].pc = "none"
<1>1. /\ ServerOK /\ SrvOK(srv) /\ OpsOK /\ FileOK(file)
      /\ DOMAIN conn = Sessions /\ \A c \in Sessions : ConnOK(c)
  BY TypesSplit DEF ServerOK
<1>2. DOMAIN grace' = Sessions /\ menu' \in DOMAIN Menus
  BY <1>1 DEF Next, History, ServerOK
<1>3. ASSUME SrvOK(srv'), OpsOK', FileOK(file'), DOMAIN conn' = Sessions, \A c \in Sessions : ConnOK(c)'
      PROVE  TypeOK'
  BY <1>2, <1>3 DEF TypeOK, OpsOK
<1>4. ASSUME NEW o \in Operators, Operate(o) PROVE TypeOK' /\ \A d \in Sessions : Bystander(d)
  <2>1. Kept /\ OpsOK' /\ UNCHANGED <<run, conn>> /\ FileOK(file')
    BY <1>1, <1>4, OperateKeeps
  <2>2. \A c \in Sessions : ConnOK(c)'
    BY <1>1, <2>1, ConnKept DEF Kept
  <2> QED BY <1>1, <1>3, <2>1, <2>2 DEF Kept, Bystander
<1>5. ASSUME NEW o \in Operators, Begin(o) PROVE TypeOK' /\ \A d \in Sessions : Bystander(d)
  <2>1. OpsOK' /\ UNCHANGED <<srv, run, file, conn>>
    BY <1>5, BeginKeeps
  <2>2. \A c \in Sessions : ConnOK(c)'
    BY <1>1, <2>1, ConnKept
  <2>3. SlicesKept /\ SlotsKept
    BY <2>1, Untouched
  <2> QED BY <1>1, <1>3, <2>1, <2>2, <2>3 DEF Bystander
<1>6. ASSUME EditFile \/ Run \/ Signal \/ CloseListener PROVE TypeOK' /\ \A d \in Sessions : Bystander(d)
  <2>1. /\ SrvOK(srv') /\ OpsOK' /\ FileOK(file') /\ UNCHANGED conn
        /\ srv'.arrays = srv.arrays /\ srv'.slot = srv.slot
        /\ run' = run \/ run = "starting"
    BY <1>6, ProcessKeeps
  <2>2. ASSUME NEW c \in Sessions PROVE ConnOK(c)'
    BY <1>1, <2>1 DEF ConnOK
  <2>3. SlicesKept /\ SlotsKept
    BY <2>1, Untouched
  <2> QED BY <1>1, <1>3, <2>1, <2>2, <2>3 DEF Bystander
<1>7. ASSUME RunReturns \/ Crash \/ Restart PROVE TypeOK' /\ \A d \in Sessions : conn'[d].pc = "none"
  BY <1>3, <1>7, LifeKeeps
<1>8. ASSUME NEW c \in Sessions, Serve(c) \/ Client(c)
      PROVE  TypeOK' /\ srv' = srv /\ op' = op /\ \A d \in Sessions : d = c \/ Bystander(d)
  <2>1. /\ UNCHANGED <<srv, run, file, op>>
        /\ DOMAIN conn' = Sessions /\ ConnOK(c)'
        /\ \A d \in Sessions : d # c => conn'[d] = conn[d]
    BY <1>8, SessionKeeps
  <2>2. \A d \in Sessions : ConnOK(d)'
    BY <1>1, <2>1, ConnKept
  <2>3. SlicesKept /\ SlotsKept
    BY <2>1, Untouched
  <2>4. SrvOK(srv') /\ OpsOK' /\ FileOK(file')
    BY <1>1, <2>1 DEF OpsOK
  <2> QED BY <1>3, <2>1, <2>2, <2>3, <2>4 DEF Bystander
<1> HIDE DEF Bystander
<1> QED BY <1>4, <1>5, <1>6, <1>7, <1>8 DEF Next

(* History remembers.                                                      *)
LEMMA GraceStep ==
    ASSUME History, NEW c \in Sessions
    PROVE  /\ conn'[c].pc \in Checking /\ MayPass(c)' => grace'[c]
           /\ conn'[c].pc \in Checking /\ conn[c].pc \in Checking /\ grace[c] => grace'[c]
  BY Zenon DEF History

(* A slice among those in force or about to be lets c pass.                *)
LEMMA SlicePasses ==
    ASSUME NEW c, conn[c].pc \in {"index", "slice", "match"}, NEW vec \in AllowIpSlices, Opens(c, vec)
    PROVE  MayPass(c)
  BY DEF MayPass, Opens

(* A session keeps what its check may rely on.                             *)
LEMMA BystanderAllowed ==
    ASSUME AllowedInv, NEW d \in Sessions, Bystander(d), History
    PROVE  Allowed(d)'
<1>1. /\ conn'[d] = conn[d] /\ SlicesKept /\ SlotsKept
      /\ Allowed(d) /\ ConnOK(d) /\ SrvOK(srv)
  BY DEF Bystander, AllowedInv, TypeOK
<1>2. ASSUME conn[d].pc \in {"slice", "match"}, NEW vec, SliceOK(srv.arrays, vec),
             AddrOf[d] \in In(srv'.arrays, vec),
             AddrOf[d] \in In(srv.arrays, vec) => grace[d]
      PROVE  grace'[d]
  <2>1. conn'[d].pc \in Checking /\ conn[d].pc \in Checking /\ conn[d].pc \in {"index", "slice", "match"}
    BY <1>1, <1>2 DEF Checking
  <2>2. CASE AddrOf[d] \in In(srv.arrays, vec)
    BY <1>2, <2>1, <2>2, GraceStep
  <2>3. CASE \E w \in AllowIpSlices : AddrOf[d] \in In(srv.arrays, w)
    <3>1. MayPass(d)
      BY <2>1, <2>3, SlicePasses DEF Opens, Entries, In
    <3> QED BY <1>1, <2>1, <3>1, GraceStep DEF Allowed
  <2>4. CASE \E w \in AllowIpSlices' : AddrOf[d] \in In(srv'.arrays, w)
    <3>1. MayPass(d)'
      BY <1>1, <2>1, <2>4, Zenon DEF MayPass, Entries, In
    <3> QED BY <2>1, <3>1, GraceStep
  <2> QED BY <1>1, <1>2, <2>2, <2>3, <2>4 DEF SlicesKept
<1>3. ASSUME conn'[d].pc \in Checking, MayPass(d)' PROVE grace'[d]
  BY <1>3, GraceStep
<1>4. ASSUME conn'[d].pc = "slice", Opens(d, srv.slot["allow_ip"][conn[d].index])' PROVE grace'[d]
  <2> DEFINE i == conn[d].index
             vec == srv.slot["allow_ip"][i]
  <2>1. i \in {0, 1} /\ SliceOK(srv.arrays, vec) /\ conn[d].pc = "slice" /\ conn'[d].index = i
    BY <1>1, <1>4, Zenon DEF ConnOK, SrvOK, ArraysOK
  <2>2. conn'[d].pc \in Checking /\ conn[d].pc \in Checking /\ conn'[d].pc \in {"index", "slice", "match"}
    BY <1>4, <2>1 DEF Checking
  <2>3. CASE srv'.slot["allow_ip"][i] \in AllowIpSlices'
    <3>1. MayPass(d)'
      BY <1>4, <2>1, <2>2, <2>3 DEF MayPass, Opens
    <3> QED BY <2>2, <3>1, GraceStep
  <2>4. CASE srv'.slot["allow_ip"][i] = vec
    <3>1. Opens(d, vec) => grace[d]
      BY <1>1, <2>1 DEF Allowed
    <3>2. CASE vec.len = 0
      BY <2>2, <3>1, <3>2, GraceStep DEF Opens
    <3>3. CASE vec.len # 0
      <4>1. AddrOf[d] \in In(srv'.arrays, vec)
        BY <1>4, <2>1, <2>4, <3>3, Zenon DEF Opens, Entries, In
      <4>2. AddrOf[d] \in In(srv.arrays, vec) => grace[d]
        BY <3>1, Zenon DEF Opens, Entries, In
      <4> QED BY <1>2, <2>1, <4>1, <4>2, Zenon
    <3> QED BY <3>2, <3>3
  <2> QED BY <1>1, <2>1, <2>3, <2>4 DEF SlotsKept
<1>5. ASSUME conn'[d].pc = "match", (AddrOf[d] \in Entries(conn[d].vec))' PROVE grace'[d]
  <2>1. SliceOK(srv.arrays, conn[d].vec) /\ conn[d].pc = "match"
    BY <1>1, <1>5 DEF ConnOK
  <2>2. AddrOf[d] \in In(srv'.arrays, conn[d].vec)
    BY <1>1, <1>5 DEF Entries, In
  <2>3. AddrOf[d] \in In(srv.arrays, conn[d].vec) => grace[d]
    BY <1>1, <2>1 DEF Allowed, Entries, In
  <2> QED BY <1>2, <2>1, <2>2, <2>3
<1> QED BY <1>3, <1>4, <1>5 DEF Allowed

(* A session's own step.                                                   *)
LEMMA OwnStepAllowed ==
    ASSUME AllowedInv, NEW c \in Sessions, srv' = srv, op' = op, History,
           Serve(c) \/ Client(c)
    PROVE  Allowed(c)'
<1>1. TypeOK /\ Allowed(c) /\ SrvOK(srv) /\ DOMAIN conn = Sessions /\ ConnOK(c)
  BY DEF AllowedInv, TypeOK
<1>2. /\ conn'[c].pc = "slice" => ReadIndex(c)
      /\ conn'[c].pc = "match" => ReadSlice(c) \/ Match(c)
  BY <1>1, SessionKeeps
<1>3. AllowIpSlices' = AllowIpSlices
  BY Zenon DEF AllowIpSlices, Get, At, Setting
<1>4. ASSUME conn'[c].pc \in Checking, MayPass(c)' PROVE grace'[c]
  BY <1>4, GraceStep
<1>5. ASSUME conn'[c].pc = "slice", Opens(c, srv.slot["allow_ip"][conn[c].index])' PROVE grace'[c]
  <2>1. conn'[c].index = srv.idx["allow_ip"]
    BY <1>1, <1>2, <1>5 DEF ReadIndex, ConnOK
  <2>2. srv'.slot["allow_ip"][conn'[c].index] \in AllowIpSlices'
    BY <1>1, <1>3, <2>1, InForceIsSlice DEF Get
  <2>3. MayPass(c)'
    BY <1>5, <2>2 DEF MayPass, Opens
  <2> QED BY <1>5, <2>3, GraceStep DEF Checking
<1>6. ASSUME conn'[c].pc = "match", (AddrOf[c] \in Entries(conn[c].vec))' PROVE grace'[c]
  <2>1. CASE ReadSlice(c)
    <3>1. conn'[c].vec = srv.slot["allow_ip"][conn[c].index] /\ conn[c].pc = "slice"
      <4> DEFINE vec == srv.slot["allow_ip"][conn[c].index]
      <4>1. ~Admit(c)
        BY <1>1, <1>6, Zenon DEF Admit, NoConn
      <4>2. conn[c].pc = "slice" /\ conn' = [conn EXCEPT ![c].vec = vec, ![c].pos = 1, ![c].pc = "match"]
        BY <2>1, <4>1, Zenon DEF ReadSlice
      <4> HIDE DEF vec
      <4>3. conn'[c].vec = vec
        BY <1>1, <4>2 DEF ConnOK
      <4> QED BY <4>2, <4>3 DEF vec
    <3>2. Opens(c, srv.slot["allow_ip"][conn[c].index])
      BY <1>6, <3>1, Zenon DEF Opens, Entries
    <3>3. grace[c]
      BY <1>1, <3>1, <3>2, Zenon DEF Allowed
    <3> QED BY <1>6, <3>1, <3>3, GraceStep DEF Checking
  <2>2. CASE Match(c)
    <3>1. conn'[c].vec = conn[c].vec /\ conn[c].pc = "match"
      <4>1. ~Admit(c)
        BY <1>1, <1>6, Zenon DEF Admit, NoConn
      <4>2. ~Close(c)
        BY <1>1, <1>6 DEF Close, NoConn
      <4>3. conn[c].pc = "match" /\ conn' = [conn EXCEPT ![c].pos = @ + 1]
        BY <2>2, <4>1, <4>2, Zenon DEF Match
      <4> QED BY <1>1, <4>3 DEF ConnOK
    <3>2. grace[c]
      BY <1>1, <1>6, <3>1, Zenon DEF Allowed, Entries
    <3> QED BY <1>6, <3>1, <3>2, GraceStep DEF Checking
  <2> QED BY <1>2, <1>6, <2>1, <2>2
<1> QED BY <1>4, <1>5, <1>6 DEF Allowed

(* The invariant holds: the check finds nothing in the arrays, whatever is *)
(* moved in them, that was not in force or about to be while it went on.   *)
LEMMA AllowedInvariant == Spec => []AllowedInv
<1>1. Init => AllowedInv
  <2> SUFFICES ASSUME Init PROVE AllowedInv
    OBVIOUS
  <2>1. \A c \in Sessions : Allowed(c)
    BY Zenon DEF Init, Allowed, NoConn, Checking
  <2> QED BY <2>1, TypeInit DEF AllowedInv
<1>2. AllowedInv /\ [Next]_vars => AllowedInv'
  <2> SUFFICES ASSUME AllowedInv, [Next]_vars PROVE AllowedInv'
    OBVIOUS
  <2>1. CASE UNCHANGED vars
    <3>1. UNCHANGED <<srv, run, file, op, conn, grace, menu>>
      BY <2>1 DEF vars
    <3>2. TypeOK'
      BY <3>1 DEF AllowedInv, TypeOK, ConnOK
    <3>3. ASSUME NEW c \in Sessions PROVE Allowed(c)'
      <4>1. AllowIpSlices' = AllowIpSlices /\ SqlLists' = SqlLists /\ \A vec : Entries(vec)' = Entries(vec)
        BY <3>1, Zenon DEF AllowIpSlices, Get, At, Setting, SqlLists, Entries
      <4>2. MayPass(c)' <=> MayPass(c)
        BY <3>1, <4>1 DEF MayPass
      <4>3. Allowed(c)
        BY DEF AllowedInv
      <4> QED BY <3>1, <4>1, <4>2, <4>3, Zenon DEF Allowed, Opens
    <3> QED BY <3>2, <3>3 DEF AllowedInv
  <2>2. CASE Next
    <3>1. TypeOK /\ History
      BY <2>2 DEF AllowedInv, Next
    <3>2. TypeOK'
      BY <2>2, <3>1, TypeStep
    <3>3. ASSUME NEW d \in Sessions PROVE Allowed(d)'
      <4>1. CASE Bystander(d)
        BY <3>1, <4>1, BystanderAllowed
      <4>2. CASE srv' = srv /\ op' = op /\ (Serve(d) \/ Client(d))
        BY <3>1, <4>2, OwnStepAllowed
      <4>3. CASE conn'[d].pc = "none"
        BY <4>3 DEF Allowed, Checking
      <4> QED BY <2>2, <3>1, <4>1, <4>2, <4>3, TypeStep
    <3> QED BY <3>2, <3>3 DEF AllowedInv
  <2> QED BY <2>1, <2>2
<1> QED BY <1>1, <1>2, PTL DEF Spec

(* A client is let in only if, at some moment of IsAllowConnect, its       *)
(* address was in the list, or the list was empty, that was in force or    *)
(* about to be: for any number of sessions, operators and commands.        *)
THEOREM OnlyAllowedClientsEnter == Spec => OnlyAllowedEnter
<1> DEFINE Enters == \A c \in Sessions :
               conn[c].pc \in {"slice", "match"} /\ conn'[c].pc = "handshake" => grace[c]
<1>1. AllowedInv /\ [Next]_vars => [Enters]_vars
  <2> SUFFICES ASSUME AllowedInv, Next,
                      NEW c \in Sessions, conn[c].pc \in {"slice", "match"}, conn'[c].pc = "handshake"
               PROVE  grace[c]
    OBVIOUS
  <2>1. TypeOK /\ Allowed(c) /\ ConnOK(c) /\ SrvOK(srv) /\ DOMAIN conn = Sessions
    BY DEF AllowedInv, TypeOK
  <2>2. Serve(c) \/ Client(c)
    BY <2>1, TypeStep DEF Bystander
  <2>3. ReadSlice(c) \/ Match(c)
    <3>1. conn[c].pc \in {"slice", "match"} => ReadSlice(c) \/ Match(c)
      <4> HIDE DEF Enters
      <4> QED BY <2>1, <2>2, SessionKeeps, Zenon
    <3> QED BY <3>1, Zenon
  <2>4. CASE ReadSlice(c)
    <3>1. srv.slot["allow_ip"][conn[c].index].len = 0 /\ conn[c].pc = "slice"
      BY <2>1, <2>4 DEF ReadSlice, ConnOK
    <3> QED BY <2>1, <3>1 DEF Allowed, Opens
  <2>5. CASE Match(c)
    <3>1. conn[c].pc = "match" /\ srv.arrays[conn[c].vec.arr][conn[c].pos] = AddrOf[c]
      BY <2>1, <2>5 DEF Match, Close, NoConn, ConnOK
    <3>2. SliceOK(srv.arrays, conn[c].vec) /\ conn[c].pos \in 1..conn[c].vec.len
      BY <2>1, <3>1, Zenon DEF ConnOK
    <3>3. AddrOf[c] \in In(srv.arrays, conn[c].vec)
      <4> DEFINE a == srv.arrays
                 vec == conn[c].vec
                 p == conn[c].pos
                 x == AddrOf[c]
      <4>1. a \in Seq(Seq(Addresses))
        BY <2>1, Zenon DEF SrvOK, ArraysOK
      <4>2. SliceOK(a, vec) /\ p \in 1..vec.len /\ a[vec.arr][p] = x
        BY <3>1, <3>2, Zenon
      <4> HIDE DEF a, vec, p, x
      <4>3. x \in In(a, vec)
        BY <4>1, <4>2, InSlice
      <4> QED BY <4>3, Zenon DEF a, vec, x
    <3> QED BY <2>1, <3>1, <3>3 DEF Allowed, Entries, In
  <2> QED BY <2>3, <2>4, <2>5
<1>2. OnlyAllowedEnter <=> [][Enters]_vars
  BY DEF OnlyAllowedEnter
<1> QED BY <1>1, <1>2, AllowedInvariant, PTL DEF Spec

-----------------------------------------------------------------------------
(* The count of the blacklist, with one operator. *)

OneOperator == \A o, p \in Operators : o = p

(* How a step leaves its operator: with the next step to take, or at rest. *)
Advances(o) ==
    \/ op' = [op EXCEPT ![o] = Done(o)]
    \/ \E i \in {0, 1} : op' = [op EXCEPT ![o] = [Done(o) EXCEPT !.to = i]]
    \/ op' = [op EXCEPT ![o] = Rest]
    \/ op' = op /\ ~At(o, "len")

(* The count is changed right after the list, and at no other time.        *)
LEMMA LenAfterSqls ==
    ASSUME OpsOK, NEW o \in Operators, op[o].todo # <<>>, Advances(o)
    PROVE  At(o, "len")' => At(o, "sqls")
<1> DEFINE t == op[o].todo
<1>1. t \in Seq(Pairs) /\ Len(t) \in Nat /\ Len(t) # 0 /\ DOMAIN op = Operators /\ DOMAIN op[o] = {"cmd", "todo", "to", "ips"}
  BY DEF OpsOK, OpOK
<1>2. Head(t) = t[1] /\ StepOK(op[o], 1)
  BY HeadIsOK
<1>3. ASSUME ~(op' = op /\ ~At(o, "len"))
      PROVE  op'[o].todo = <<>> \/ (Len(t) # 1 /\ op'[o].todo = Tail(t))
  <2>1. op'[o] = Done(o) \/ op'[o] = Rest \/ \E i \in {0, 1} : op'[o] = [Done(o) EXCEPT !.to = i]
    BY <1>1, <1>3 DEF Advances
  <2>2. DOMAIN Done(o) = {"cmd", "todo", "to", "ips"}
    BY <1>1 DEF Done, Rest
  <2>3. \A i : [Done(o) EXCEPT !.to = i].todo = Done(o).todo
    BY <2>2
  <2>4. op'[o].todo = Done(o).todo \/ op'[o].todo = <<>>
    <3>1. Rest.todo = <<>>
      BY DEF Rest
    <3> QED BY <2>1, <2>3, <3>1, Zenon
  <2>5. Done(o).todo = <<>> \/ (Len(t) # 1 /\ Done(o).todo = Tail(t))
    BY <1>1 DEF Done, Rest
  <2> QED BY <2>4, <2>5
<1>4. ASSUME Len(t) # 1, op'[o].todo = Tail(t), At(o, "len")' PROVE At(o, "sqls")
  <2>1. Len(t) > 1 /\ Head(Tail(t)) = t[1 + 1]
    <3> HIDE DEF t
    <3>1. Len(t) > 1
      <4> DEFINE n == Len(t)
      <4>1. n \in Nat /\ n # 0 /\ n # 1
        BY <1>1, <1>4
      <4> HIDE DEF n
      <4>2. n > 1
        BY <4>1
      <4> QED BY <4>2 DEF n
    <3>2. Tail(t) \in Seq(Pairs) /\ Len(Tail(t)) = Len(t) - 1 /\ Tail(t)[1] = t[2]
      BY <1>1, <3>1
    <3>3. Head(Tail(t)) = Tail(t)[1]
      BY <3>1, <3>2
    <3> QED BY <3>1, <3>2, <3>3
  <2>2. t[1 + 1][1] = "len"
    BY <1>4, <2>1 DEF At
  <2>3. t[1][1] = "sqls"
    BY <1>2, <2>1, <2>2, Zenon DEF StepOK
  <2> QED BY <1>2, <2>3 DEF At
<1>5. CASE op' = op /\ ~At(o, "len")
  BY <1>5 DEF At
<1> QED BY <1>3, <1>4, <1>5 DEF At

(* After the list comes the count.                                         *)
LEMMA SqlsThenLen ==
    ASSUME OpsOK, NEW o \in Operators, At(o, "sqls"),
           NEW i, op' = [op EXCEPT ![o] = [Done(o) EXCEPT !.to = i]]
    PROVE  At(o, "len")' /\ op'[o].to = i /\ op'[o].cmd = op[o].cmd
<1> DEFINE t == op[o].todo
<1>1. /\ t \in Seq(Pairs) /\ Len(t) \in Nat /\ Len(t) # 0
      /\ DOMAIN op = Operators /\ DOMAIN op[o] = {"cmd", "todo", "to", "ips"}
  BY DEF OpsOK, OpOK, At
<1>2. t[1][1] = "sqls" /\ StepOK(op[o], 1)
  BY HeadIsOK DEF At
<1>3. 1 < Len(t) /\ t[2] = <<"len", "black_sql">>
  BY <1>2 DEF StepOK
<1>4. Tail(t) # <<>> /\ Head(Tail(t)) = t[2]
  <2> HIDE DEF t
  <2>1. Tail(t) \in Seq(Pairs) /\ Len(Tail(t)) = Len(t) - 1 /\ Tail(t)[1] = t[2]
    BY <1>1, <1>3
  <2>2. Tail(t) # <<>>
    <3> DEFINE u == Tail(t)
    <3>1. Len(u) # 0
      BY <1>1, <1>3, <2>1
    <3> HIDE DEF u
    <3>2. u # <<>>
      BY <3>1
    <3> QED BY <3>2 DEF u
  <2>3. Head(Tail(t)) = Tail(t)[1]
    BY <2>1, <2>2
  <2> QED BY <2>1, <2>2, <2>3
<1>5. Done(o) = [op[o] EXCEPT !.todo = Tail(@)]
  BY <1>3 DEF Done
<1>6. op'[o].todo = Tail(t) /\ op'[o].to = i /\ op'[o].cmd = op[o].cmd
  BY <1>1, <1>5
<1>7. op'[o].todo # <<>> /\ Head(op'[o].todo)[1] = "len"
  <2>1. op'[o].todo # <<>> /\ Head(op'[o].todo) = t[2]
    <3> HIDE DEF t
    <3> QED BY <1>4, <1>6, Zenon
  <2>2. t[2][1] = "len"
    BY <1>3
  <2> QED BY <2>1, <2>2, Zenon
<1> QED BY <1>6, <1>7 DEF At

(* While the one operator is not about to write a count, all are right.    *)
LEMMA AllCounted ==
    ASSUME OneOperator, LenInv, NEW o \in Operators, ~At(o, "len")
    PROVE  \A l \in 1..Len(srv.lists) : Counted(srv.lists[l])
<1>1. \A p \in Operators : ~At(p, "len")
  BY DEF OneOperator
<1> QED BY <1>1 DEF LenInv, Owes

(* And the other way round.                                                *)
LEMMA CountsStay ==
    ASSUME OneOperator, NEW o \in Operators, ~At(o, "len")', run' # "stopped",
           \A l \in 1..Len(srv'.lists) : Counted(srv'.lists[l])
    PROVE  LenInv'
<1>1. \A p \in Operators : ~At(p, "len")'
  BY Zenon DEF OneOperator
<1> QED BY <1>1, Zenon DEF LenInv, Owes

(* What leaves the lists alone.                                            *)
Aside(o) == Advances(o) /\ srv'.lists = srv.lists /\ srv'.slot["black_sql"] = srv.slot["black_sql"]

(* Every step of an operator but the three that write the blacklist.       *)
LEMMA ListsLeft ==
    ASSUME SrvOK(srv), OpsOK, NEW o \in Operators,
           \/ WriteSlot(o) \/ Flip(o) \/ WriteAllowIps(o) \/ NewAllowIps(o) \/ SyncConfig(o)
           \/ WriteSlaves(o) \/ CreateFile(o) \/ WriteFile(o) \/ Lock(o) \/ Install(o)
    PROVE  Aside(o) /\ op[o].todo # <<>> /\ ~At(o, "sqls")
<1>1. Shape(srv) /\ op[o].todo # <<>> /\ ~At(o, "sqls")
  BY Zenon DEF SrvOK, WriteSlot, Flip, WriteAllowIps, NewAllowIps, SyncConfig, WriteSlaves, CreateFile,
         WriteFile, Lock, Install, At
<1>2. CASE WriteSlot(o)
  <2>1. Setting(o) \in {"proxy", "log_sql", "slow_log_time"}
    BY <1>1, <1>2, HeadIsOK, Zenon DEF StepOK, WriteSlot, At, Setting
  <2>2. another(Setting(o)) \in {0, 1}
    BY <1>1, <2>1 DEF Shape, Names, another
  <2>3. Advances(o)
    BY <1>2, <2>2, Zenon DEF WriteSlot, StepTo, Advances
  <2>4. srv'.lists = srv.lists /\ srv'.slot["black_sql"] = srv.slot["black_sql"]
    BY <1>1, <1>2, <2>1 DEF WriteSlot, Shape, Names
  <2> QED BY <1>1, <2>3, <2>4, Zenon DEF Aside
<1>3. CASE Flip(o)
  <2>1. Advances(o)
    BY <1>3 DEF Flip, Step, Advances
  <2>2. srv'.lists = srv.lists /\ srv'.slot["black_sql"] = srv.slot["black_sql"]
    BY <1>1, <1>3 DEF Flip, Shape, Names
  <2> QED BY <1>1, <2>1, <2>2, Zenon DEF Aside
<1>4. CASE WriteAllowIps(o) \/ NewAllowIps(o)
  <2>1. another("allow_ip") \in {0, 1}
    BY <1>1 DEF Shape, Names, another
  <2>2. Advances(o)
    BY <1>4, <2>1, Zenon DEF WriteAllowIps, NewAllowIps, StepTo, Return, Advances
  <2>3. srv'.lists = srv.lists /\ srv'.slot["black_sql"] = srv.slot["black_sql"]
    <3>1. CASE NewAllowIps(o)
      BY <1>1, <3>1 DEF NewAllowIps, Shape, Names
    <3>2. CASE WriteAllowIps(o)
      <4>1. \/ srv' = srv
            \/ \E a, i, v : srv' = [srv EXCEPT !.arrays = a, !.slot["allow_ip"][i] = v]
            \/ \E i, v : srv' = [srv EXCEPT !.slot["allow_ip"][i] = v]
        BY <3>2, Zenon DEF WriteAllowIps
      <4>2. ASSUME NEW a, NEW i, NEW v, srv' = [srv EXCEPT !.arrays = a, !.slot["allow_ip"][i] = v]
            PROVE  srv'.lists = srv.lists /\ srv'.slot["black_sql"] = srv.slot["black_sql"]
        BY <1>1, <4>2 DEF Shape, Names
      <4>3. ASSUME NEW i, NEW v, srv' = [srv EXCEPT !.slot["allow_ip"][i] = v]
            PROVE  srv'.lists = srv.lists /\ srv'.slot["black_sql"] = srv.slot["black_sql"]
        BY <1>1, <4>3 DEF Shape, Names
      <4> QED BY <4>1, <4>2, <4>3, Zenon
    <3> QED BY <1>4, <3>1, <3>2
  <2> QED BY <1>1, <2>2, <2>3, Zenon DEF Aside
<1>5. CASE SyncConfig(o)
  <2>1. Advances(o)
    BY <1>5 DEF SyncConfig, Step, Advances
  <2>2. srv'.lists = srv.lists /\ srv'.slot["black_sql"] = srv.slot["black_sql"]
    BY <1>1, <1>5 DEF SyncConfig, Shape
  <2> QED BY <1>1, <2>1, <2>2 DEF Aside
<1>6. CASE WriteSlaves(o) \/ CreateFile(o) \/ WriteFile(o) \/ Lock(o) \/ Install(o)
  <2>1. Advances(o)
    BY <1>6, Zenon DEF WriteSlaves, CreateFile, WriteFile, Lock, Install, Step, Return, Advances, At
  <2>2. srv'.lists = srv.lists /\ srv'.slot["black_sql"] = srv.slot["black_sql"]
    BY <1>1, <1>6, Zenon DEF WriteSlaves, CreateFile, WriteFile, Lock, Install, Shape
  <2> QED BY <1>1, <2>1, <2>2 DEF Aside
<1> QED BY <1>2, <1>3, <1>4, <1>5, <1>6, Zenon

(* A list that is changed is off by one, by the statement that is new in   *)
(* it or that it has no more.                                              *)
LEMMA ListChanged ==
    ASSUME NEW S, IsFiniteSet(S), NEW v, NEW n, n = Cardinality(S)
    PROVE  /\ v \notin S => n = Cardinality(S \cup {v}) + (-1)
           /\ v \in S => n = Cardinality(S \ {v}) + 1
<1>1. Cardinality(S) \in Nat
  BY FS_CardinalityType
<1>2. ASSUME v \notin S PROVE n = Cardinality(S \cup {v}) + (-1)
  <2>1. Cardinality(S \cup {v}) = Cardinality(S) + 1
    BY <1>2, FS_AddElement
  <2> QED BY <1>1, <2>1
<1>3. ASSUME v \in S PROVE n = Cardinality(S \ {v}) + 1
  <2>1. Cardinality(S \ {v}) = Cardinality(S) - 1
    BY <1>3, FS_RemoveElement
  <2> QED BY <1>1, <2>1
<1> QED BY <1>2, <1>3

(* AddBlackSql and DelBlackSql: the list first, ...                        *)
LEMMA WriteBlackSqlsCounts ==
    ASSUME OneOperator, LenInv, SrvOK(srv), OpsOK, NEW o \in Operators, WriteBlackSqls(o)
    PROVE  LenInv'
<1> DEFINE i == srv.idx["black_sql"]
           refs == srv.slot["black_sql"]
           cur == refs[i]
           lists == srv.lists
           v == op[o].cmd.v
           known == v \in lists[cur].sqls
<1>1. op[o].todo # <<>> /\ At(o, "sqls") /\ ~At(o, "len") /\ run # "stopped" /\ run' = run
  BY DEF WriteBlackSqls, At, LenInv, StepTo, Return
<1>2. /\ DOMAIN refs = {0, 1} /\ i \in {0, 1} /\ 1 - i \in {0, 1} /\ cur \in 1..Len(lists)
      /\ \A l \in 1..Len(lists) : /\ DOMAIN lists[l] = {"sqls", "sqlsLen"}
                                  /\ IsFiniteSet(lists[l].sqls) /\ lists[l].sqlsLen \in Int
      /\ DOMAIN lists = 1..Len(lists) /\ DOMAIN srv.slot = Names /\ Len(lists) \in Nat
      /\ lists = [l \in 1..Len(lists) |-> lists[l]]
  BY DEF SrvOK, Shape, Names, ListsOK
<1>3. \A l \in 1..Len(lists) : Counted(lists[l])
  BY <1>1, AllCounted
<1>4. CASE Return(o) /\ UNCHANGED srv
  <2>1. ~At(o, "len")'
    BY <1>4 DEF Return, At, Rest, OpsOK
  <2> QED BY <1>1, <1>3, <1>4, <2>1, CountsStay
<1>5. CASE /\ Adds(o) # known
           /\ srv' = [srv EXCEPT !.slot["black_sql"][1 - i] = cur,
                                 !.lists[cur].sqls = IF known THEN @ \ {v} ELSE @ \cup {v}]
           /\ StepTo(o, 1 - i)
  <2> DEFINE r == lists[cur]
             new == [r EXCEPT !.sqls = IF known THEN @ \ {v} ELSE @ \cup {v}]
  <2>1. srv'.lists = [lists EXCEPT ![cur] = new] /\ srv'.slot["black_sql"][1 - i] = cur
    BY <1>2, <1>5, Zenon DEF SrvOK, Shape, Names
  <2>2. op' = [op EXCEPT ![o] = [Done(o) EXCEPT !.to = 1 - i]]
    BY <1>5, Zenon DEF StepTo
  <2>3. At(o, "len")' /\ op'[o].to = 1 - i /\ op'[o].cmd = op[o].cmd
    BY <1>1, <2>2, SqlsThenLen, Zenon
  <2>4. Adds(o)' <=> Adds(o)
    BY <2>3 DEF Adds
  <2> HIDE DEF i, refs, lists, v, cur
  <2>5. IsFiniteSet(r.sqls) /\ Counted(r) /\ DOMAIN r = {"sqls", "sqlsLen"}
    BY <1>2, <1>3
  <2>6. OffByOne(new, Adds(o))
    <3>1. new.sqlsLen = r.sqlsLen /\ new.sqls = IF known THEN r.sqls \ {v} ELSE r.sqls \cup {v}
      BY <2>5
    <3>2. /\ v \notin r.sqls => r.sqlsLen = Cardinality(r.sqls \cup {v}) + (-1)
          /\ v \in r.sqls => r.sqlsLen = Cardinality(r.sqls \ {v}) + 1
      BY <2>5, ListChanged DEF Counted
    <3>3. CASE known
      BY <1>5, <3>1, <3>2, <3>3 DEF OffByOne, Adds
    <3>4. CASE ~known
      BY <1>5, <3>1, <3>2, <3>4 DEF OffByOne, Adds
    <3> QED BY <3>3, <3>4
  <2> HIDE DEF new
  <2>7. /\ Len(srv'.lists) = Len(lists) /\ srv'.lists[cur] = new
        /\ \A l \in 1..Len(lists) : l # cur => srv'.lists[l] = lists[l]
    <3>1. /\ DOMAIN srv'.lists = 1..Len(lists) /\ srv'.lists[cur] = new
          /\ \A l \in 1..Len(lists) : l # cur => srv'.lists[l] = lists[l]
      BY <1>2, <2>1
    <3>2. srv'.lists = [l \in 1..Len(lists) |-> srv'.lists[l]]
      BY <1>2, <2>1, Zenon
    <3>3. Len(srv'.lists) = Len(lists)
      BY <1>2, <3>1, <3>2
    <3> QED BY <3>1, <3>3
  <2>8. ASSUME NEW l \in 1..Len(srv'.lists)
        PROVE  /\ (\A p \in Operators : ~Owes(p, l)') => Counted(srv'.lists[l])
               /\ \A p \in Operators : Owes(p, l)' => OffByOne(srv'.lists[l], Adds(p)')
    <3>1. \A p \in Operators : p = o
      BY DEF OneOperator
    <3>2. Owes(o, l)' <=> l = cur
      BY <2>1, <2>3 DEF Owes
    <3>3. OffByOne(srv'.lists[cur], Adds(o)')
      BY <2>4, <2>6, <2>7 DEF OffByOne
    <3>4. l # cur => Counted(srv'.lists[l])
      BY <1>3, <2>7
    <3> QED BY <3>1, <3>2, <3>3, <3>4, Zenon
  <2> QED BY <1>1, <2>8 DEF LenInv
<1> QED BY <1>4, <1>5, Zenon DEF WriteBlackSqls, Get, another

(* ... then the count.                                                     *)
LEMMA WriteSqlsLenCounts ==
    ASSUME OneOperator, LenInv, SrvOK(srv), OpsOK, NEW o \in Operators, WriteSqlsLen(o)
    PROVE  LenInv'
<1> DEFINE lists == srv.lists
           cur == srv.slot["black_sql"][op[o].to]
           r == lists[cur]
           new == [r EXCEPT !.sqlsLen = IF Adds(o) THEN @ + 1 ELSE @ - 1]
<1>1. op[o].todo # <<>> /\ At(o, "len") /\ ~At(o, "sqls") /\ run # "stopped" /\ run' = run
  BY Zenon DEF WriteSqlsLen, At, LenInv, Step
<1>2. /\ cur \in 1..Len(lists) /\ DOMAIN lists = 1..Len(lists) /\ Len(lists) \in Nat
      /\ DOMAIN r = {"sqls", "sqlsLen"} /\ IsFiniteSet(r.sqls) /\ r.sqlsLen \in Int
      /\ lists = [l \in 1..Len(lists) |-> lists[l]]
  BY Zenon DEF SrvOK, Shape, Names, ListsOK, OpsOK, OpOK
<1>3. srv'.lists = [lists EXCEPT ![cur] = new]
  BY Zenon DEF WriteSqlsLen, SrvOK, Shape
<1>4. ~At(o, "len")'
  BY <1>1, LenAfterSqls, Zenon DEF WriteSqlsLen, Step, Advances
<1> HIDE DEF cur, lists
<1>5. OffByOne(r, Adds(o))
  BY <1>1, <1>2, Zenon DEF LenInv, Owes, cur, lists
<1>6. Counted(new)
  <2>1. Cardinality(r.sqls) \in Nat
    BY <1>2, FS_CardinalityType
  <2>2. new.sqls = r.sqls /\ new.sqlsLen = IF Adds(o) THEN r.sqlsLen + 1 ELSE r.sqlsLen - 1
    BY <1>2
  <2> QED BY <1>2, <1>5, <2>1, <2>2 DEF OffByOne, Counted
<1> HIDE DEF new
<1>7. \A l \in 1..Len(lists) : l # cur => Counted(lists[l])
  <2>1. \A p \in Operators : p = o
    BY DEF OneOperator
  <2> QED BY <2>1 DEF LenInv, Owes, cur, lists
<1>8. /\ DOMAIN srv'.lists = 1..Len(lists) /\ srv'.lists[cur] = new
      /\ srv'.lists = [l \in 1..Len(lists) |-> srv'.lists[l]]
      /\ \A l \in 1..Len(lists) : l # cur => srv'.lists[l] = lists[l]
  BY <1>2, <1>3, Zenon
<1>9. Len(srv'.lists) = Len(lists)
  BY <1>2, <1>8
<1>10. \A l \in 1..Len(srv'.lists) : Counted(srv'.lists[l])
  BY <1>6, <1>7, <1>8, <1>9, Zenon
<1> QED BY <1>1, <1>4, <1>10, CountsStay

(* The list of UpdateConfig is counted when it is made.                    *)
LEMMA NewListCounts ==
    ASSUME OneOperator, LenInv, SrvOK(srv), OpsOK, NEW o \in Operators, NewList(o)
    PROVE  LenInv'
<1> DEFINE lists == srv.lists
           n == Len(lists)
           new == parseBlackListSqls(op[o].cmd.v)
<1>1. /\ op[o].todo # <<>> /\ ~At(o, "len") /\ ~At(o, "sqls") /\ At(o, "newlist")
      /\ run # "stopped" /\ run' = run
  BY DEF NewList, At, LenInv, StepTo
<1>2. n \in Nat /\ lists = [l \in 1..n |-> lists[l]]
  BY DEF SrvOK, ListsOK
<1>3. srv'.lists = Append(lists, new)
  BY DEF NewList, SrvOK, Shape
<1>4. Counted(new)
  <2>1. FileOK(op[o].cmd.v)
    BY <1>1, HeadIsOK, Zenon DEF StepOK, At
  <2> QED BY <2>1, ParsedIsOK DEF Counted
<1>5. ~At(o, "len")'
  <2>1. another("black_sql") \in {0, 1}
    BY DEF SrvOK, Shape, Names, another
  <2>2. Advances(o)
    BY <2>1, Zenon DEF NewList, StepTo, Advances
  <2> QED BY <1>1, <2>2, LenAfterSqls
<1>6. \A l \in 1..n : Counted(lists[l])
  BY <1>1, AllCounted
<1> HIDE DEF lists, new
<1>7. Len(srv'.lists) = n + 1 /\ srv'.lists[n + 1] = new /\ \A l \in 1..n : srv'.lists[l] = lists[l]
  <2> DEFINE S == {lists[k] : k \in 1..n} \cup {new}
  <2> HIDE DEF n
  <2>1. lists \in [1..n -> S]
    BY <1>2
  <2>2. new \in S
    OBVIOUS
  <2> HIDE DEF S
  <2>3. lists \in Seq(S) /\ Len(lists) = n
    BY <1>2, <2>1
  <2> QED BY <1>2, <1>3, <2>2, <2>3
<1> HIDE DEF n
<1>8. \A l \in 1..(n + 1) : l = n + 1 \/ l \in 1..n
  BY <1>2
<1>9. \A l \in 1..Len(srv'.lists) : Counted(srv'.lists[l])
  BY <1>4, <1>6, <1>7, <1>8, Zenon
<1> QED BY <1>1, <1>5, <1>9, CountsStay

(* Every step of the operator.                                             *)
LEMMA OperateCounts ==
    ASSUME OneOperator, LenInv, SrvOK(srv), OpsOK, NEW o \in Operators, Operate(o)
    PROVE  LenInv'
<1>1. CASE WriteBlackSqls(o)
  BY <1>1, WriteBlackSqlsCounts
<1>2. CASE WriteSqlsLen(o)
  BY <1>2, WriteSqlsLenCounts
<1>3. CASE NewList(o)
  BY <1>3, NewListCounts
<1>4. CASE \/ WriteSlot(o) \/ Flip(o) \/ WriteAllowIps(o) \/ NewAllowIps(o) \/ SyncConfig(o)
           \/ WriteSlaves(o) \/ CreateFile(o) \/ WriteFile(o) \/ Lock(o) \/ Install(o)
  <2>1. Aside(o) /\ op[o].todo # <<>> /\ ~At(o, "sqls")
    BY <1>4, ListsLeft, Zenon
  <2>2. ~At(o, "len")' /\ run # "stopped"
    BY <2>1, LenAfterSqls, Zenon DEF Aside, LenInv
  <2>3. ~At(o, "len") /\ run' = run
    BY <1>4, Zenon DEF WriteSlot, Flip, WriteAllowIps, NewAllowIps, SyncConfig, WriteSlaves, CreateFile,
                WriteFile, Lock, Install, At, Step, StepTo, Return
  <2>4. \A l \in 1..Len(srv.lists) : Counted(srv.lists[l])
    BY <2>3, AllCounted
  <2> QED BY <2>1, <2>2, <2>3, <2>4, CountsStay DEF Aside
<1> QED BY <1>1, <1>2, <1>3, <1>4 DEF Operate

(* A command does not begin with the count.                                *)
LEMMA BeginCounts ==
    ASSUME OneOperator, LenInv, TypeOK, NEW o \in Operators, Begin(o)
    PROVE  LenInv'
<1>1. op[o].todo = <<>> /\ run = "running" /\ UNCHANGED <<srv, run>> /\ DOMAIN op = Operators
  BY DEF Begin, TypeOK
<1>2. PICK c \in Menus[menu] :
          op' = IF Supported(c) /\ Changeable(c)
                THEN [op EXCEPT ![o] =
                         [Rest EXCEPT !.cmd = CASE c.opt = "reload" -> [c EXCEPT !.v = file]
                                                [] c.opt = "save" -> [c EXCEPT !.v = srv.cfg]
                                                [] OTHER -> c,
                                      !.todo = StepsOf(c),
                                      !.ips = IF c.k = "allow_ip" THEN srv.cfg.allow_ip ELSE <<>>]]
                ELSE op
  BY Zenon DEF Begin
<1>3. ~At(o, "len")
  BY <1>1 DEF At
<1>4. ~At(o, "len")'
  <2>1. CASE ~(Supported(c) /\ Changeable(c))
    <3>1. op' = op
      BY <1>2, <2>1
    <3> QED BY <1>1, <3>1 DEF At
  <2>2. CASE Supported(c) /\ Changeable(c)
    <3> DEFINE t == StepsOf(c)
    <3>1. op'[o].todo = t
      <4>1. op' = [op EXCEPT ![o] =
                     [Rest EXCEPT !.cmd = CASE c.opt = "reload" -> [c EXCEPT !.v = file]
                                            [] c.opt = "save" -> [c EXCEPT !.v = srv.cfg]
                                            [] OTHER -> c,
                                  !.todo = t,
                                  !.ips = IF c.k = "allow_ip" THEN srv.cfg.allow_ip ELSE <<>>]]
        BY <1>2, <2>2
      <4> HIDE DEF t
      <4> QED BY <1>1, <4>1 DEF Rest
    <3>2. Head(t)[1] # "len"
      <4>1. CASE c.opt = "change" /\ c.k \in {"proxy", "log_sql", "slow_log_time"}
        <5>1. t = <<<<"slot", c.k>>, <<"flip", c.k>>, <<"cfg", c.k>>>>
          BY <4>1, Zenon DEF StepsOf
        <5> HIDE DEF t
        <5> QED BY <5>1
      <4>2. CASE c.opt \in {"add", "del"} /\ c.k \in {"allow_ip", "black_sql", "slave"}
        BY <4>2 DEF StepsOf
      <4>3. CASE c.opt = "save"
        BY <4>3 DEF StepsOf
      <4>4. CASE c.opt = "reload"
        BY <4>4 DEF StepsOf
      <4> QED BY <2>2, <4>1, <4>2, <4>3, <4>4, Kinds
    <3> HIDE DEF t
    <3> QED BY <3>1, <3>2 DEF At
  <2> QED BY <2>1, <2>2
<1>5. \A l \in 1..Len(srv'.lists) : Counted(srv'.lists[l])
  BY <1>1, <1>3, AllCounted
<1> QED BY <1>1, <1>4, <1>5, CountsStay

(* A server that is made has counted its list.                             *)
LEMMA NewServerCounts ==
    ASSUME NEW f, FileOK(f)
    PROVE  /\ \A l \in 1..Len(NewServer(f).lists) : Counted(NewServer(f).lists[l])
           /\ [NewServer(f) EXCEPT !.listening = FALSE].lists = NewServer(f).lists
<1> DEFINE q == parseBlackListSqls(f)
<1>1. NewServer(f).lists = <<q>> /\ [NewServer(f) EXCEPT !.listening = FALSE].lists = <<q>>
  BY DEF NewServer
<1>2. Counted(q)
  BY ParsedIsOK DEF Counted
<1> HIDE DEF q
<1>3. \A l \in 1..Len(<<q>>) : <<q>>[l] = q
  OBVIOUS
<1> QED BY <1>1, <1>2, <1>3

(* With one operator, sqlsLen can be trusted between its commands.         *)
LEMMA LenInvariant == ASSUME OneOperator PROVE Spec => []LenInv
<1>1. Init => LenInv
  <2> SUFFICES ASSUME Init PROVE LenInv
    OBVIOUS
  <2>1. \A l \in 1..Len(srv.lists) : Counted(srv.lists[l])
    BY FilesAreOK, NewServerCounts DEF Init, Files
  <2>2. \A o \in Operators : op[o].todo = <<>>
    BY DEF Init, Rest
  <2> QED BY <2>1, <2>2 DEF LenInv, Owes, At
<1>2. AllowedInv /\ LenInv /\ [Next]_vars => LenInv'
  <2> SUFFICES ASSUME AllowedInv, LenInv, [Next]_vars PROVE LenInv'
    OBVIOUS
  <2>1. TypeOK /\ SrvOK(srv) /\ OpsOK /\ FileOK(file) /\ FileOK(First)
    BY FilesAreOK DEF AllowedInv, TypeOK, OpsOK, Files
  <2>2. ASSUME srv'.lists = srv.lists, srv'.slot = srv.slot, op' = op, run' = run \/ run' # "stopped"
        PROVE  LenInv'
    BY <2>2, Zenon DEF LenInv, Owes, At, Adds
  <2>3. ASSUME \A o \in Operators : op'[o].todo = <<>>,
               \A l \in 1..Len(srv'.lists) : Counted(srv'.lists[l])
        PROVE  LenInv'
    BY <2>3 DEF LenInv, Owes, At
  <2>4. CASE UNCHANGED vars
    BY <2>2, <2>4 DEF vars
  <2>5. ASSUME NEW o \in Operators, Begin(o) PROVE LenInv'
    BY <2>1, <2>5, BeginCounts
  <2>6. ASSUME NEW o \in Operators, Operate(o) PROVE LenInv'
    BY <2>1, <2>6, OperateCounts
  <2>7. ASSUME NEW c \in Sessions, Serve(c) \/ Client(c) PROVE LenInv'
    <3>1. UNCHANGED <<srv, run, file, op>>
      BY <2>1, <2>7, SessionKeeps, Zenon
    <3> QED BY <2>2, <3>1
  <2>8. CASE EditFile
    BY <2>2, <2>8 DEF EditFile
  <2>9. CASE Run \/ Signal \/ CloseListener
    <3>1. srv'.lists = srv.lists /\ srv'.slot = srv.slot
      BY <2>1, <2>9, ZenonT(30) DEF Run, Signal, CloseListener, SrvOK, Shape
    <3>2. op' = op /\ (run' = run \/ run' # "stopped")
      BY <2>9 DEF Run, Signal, CloseListener
    <3> QED BY <2>2, <3>1, <3>2
  <2>10. CASE RunReturns \/ Crash
    <3>1. Exit
      BY <2>10 DEF RunReturns, Crash
    <3>2. \A o \in Operators : op'[o].todo = <<>>
      BY <3>1 DEF Exit, Rest
    <3>3. srv' = [NewServer(First) EXCEPT !.listening = FALSE]
      BY <3>1 DEF Exit
    <3>4. \A l \in 1..Len(srv'.lists) : Counted(srv'.lists[l])
      BY <2>1, <3>3, NewServerCounts
    <3> QED BY <2>3, <3>2, <3>4
  <2>11. CASE Restart
    <3>1. run = "stopped" /\ srv' = NewServer(file) /\ op' = op
      BY <2>11 DEF Restart
    <3>2. \A o \in Operators : op'[o].todo = <<>>
      BY <3>1 DEF LenInv
    <3>3. \A l \in 1..Len(srv'.lists) : Counted(srv'.lists[l])
      BY <2>1, <3>1, NewServerCounts
    <3> QED BY <2>3, <3>2, <3>3
  <2> QED BY <2>4, <2>5, <2>6, <2>7, <2>8, <2>9, <2>10, <2>11 DEF Next
<1> QED BY <1>1, <1>2, AllowedInvariant, PTL DEF Spec

-----------------------------------------------------------------------------
(* The lists that sessions read by an index they have read before. *)

(* The list lets the statement of c pass.                                  *)
Listed(c) ==
    conn[c].pc \in {"count", "lookup"} /\ conn[c].sql \notin SqlList(c).sqls => grace[c]

ListedInv == \A c \in Sessions : Listed(c)

(* A slot keeps its list with what is in it, or gets one that is about to  *)
(* be in force, or a command is changing the blacklist.                    *)
ListKept(i) ==
    /\ srv'.slot["black_sql"][i] = srv.slot["black_sql"][i]
    /\ srv'.lists[srv.slot["black_sql"][i]].sqls = srv.lists[srv.slot["black_sql"][i]].sqls

BlackSqlChanging == \E o \in Operators : op[o].todo # <<>> /\ op[o].cmd.k = "black_sql"

ListsKept ==
    \/ \A i \in {0, 1} : ListKept(i) \/ srv'.slot["black_sql"][i] \in SqlLists'
    \/ BlackSqlChanging'

(* UpdateConfig: after the new list comes the flip to it.                  *)
LEMMA ListAboutToBe ==
    ASSUME OpsOK, NEW o \in Operators, At(o, "newlist"),
           NEW i \in {0, 1}, op' = [op EXCEPT ![o] = [Done(o) EXCEPT !.to = i]]
    PROVE  srv'.slot["black_sql"][i] \in SqlLists'
<1> DEFINE t == op[o].todo
<1>1. /\ t \in Seq(Pairs) /\ Len(t) \in Nat /\ Len(t) # 0
      /\ DOMAIN op = Operators /\ DOMAIN op[o] = {"cmd", "todo", "to", "ips"}
  BY DEF OpsOK, OpOK, At
<1>2. t[1][1] = "newlist" /\ StepOK(op[o], 1)
  BY HeadIsOK DEF At
<1>3. 1 < Len(t) /\ t[2] = <<"flip", "black_sql">>
  BY <1>2 DEF StepOK
<1>4. Tail(t) # <<>> /\ Head(Tail(t)) = t[2]
  <2> HIDE DEF t
  <2>1. Tail(t) \in Seq(Pairs) /\ Len(Tail(t)) = Len(t) - 1 /\ Tail(t)[1] = t[2]
    BY <1>1, <1>3
  <2>2. Tail(t) # <<>>
    <3> DEFINE u == Tail(t)
    <3>1. Len(u) # 0
      BY <1>1, <1>3, <2>1
    <3> HIDE DEF u
    <3>2. u # <<>>
      BY <3>1
    <3> QED BY <3>2 DEF u
  <2>3. Head(Tail(t)) = Tail(t)[1]
    BY <2>1, <2>2
  <2> QED BY <2>1, <2>2, <2>3
<1>5. Done(o) = [op[o] EXCEPT !.todo = Tail(@)]
  BY <1>3 DEF Done
<1>6. op'[o].todo = Tail(t) /\ op'[o].to = i
  BY <1>1, <1>5
<1>7. At(o, "flip")' /\ Setting(o)' = "black_sql"
  <2>1. op'[o].todo # <<>> /\ Head(op'[o].todo) = <<"flip", "black_sql">>
    BY <1>3, <1>4, <1>6, Zenon
  <2> QED BY <2>1 DEF At, Setting
<1> QED BY <1>6, <1>7 DEF SqlLists

(* Every step of an operator.                                              *)
LEMMA OperateLists ==
    ASSUME SrvOK(srv), OpsOK, NEW o \in Operators, Operate(o)
    PROVE  ListsKept
<1> DEFINE lists == srv.lists
           refs == srv.slot["black_sql"]
<1>1. /\ ListsOK(lists, refs) /\ Shape(srv) /\ OpOK(op[o]) /\ op[o].to \in {0, 1}
      /\ DOMAIN refs = {0, 1} /\ \A i \in {0, 1} : refs[i] \in 1..Len(lists)
      /\ DOMAIN lists = 1..Len(lists)
  BY Zenon DEF SrvOK, OpsOK, OpOK, ListsOK
<1>2. ASSUME srv'.lists = srv.lists, srv'.slot["black_sql"] = srv.slot["black_sql"] PROVE ListsKept
  BY <1>2, Zenon DEF ListsKept, ListKept
<1>3. CASE WriteBlackSqls(o)
  <2>1. CASE UNCHANGED srv
    BY <1>2, <2>1
  <2>2. ASSUME NEW i, StepTo(o, i) PROVE BlackSqlChanging'
    <3>1. op' = [op EXCEPT ![o] = [Done(o) EXCEPT !.to = i]] /\ At(o, "sqls")
      BY <1>3, <2>2, Zenon DEF StepTo, WriteBlackSqls
    <3>2. At(o, "len")' /\ op'[o].cmd = op[o].cmd
      BY <3>1, SqlsThenLen, Zenon
    <3>3. op[o].cmd.k = "black_sql"
      BY <3>1, HeadIsOK, Zenon DEF At, StepOK
    <3> QED BY <3>2, <3>3, Zenon DEF BlackSqlChanging, At
  <2> QED BY <1>3, <2>1, <2>2, Zenon DEF WriteBlackSqls, ListsKept
<1>4. CASE WriteSqlsLen(o)
  <2> DEFINE l == refs[op[o].to]
             r == [lists[l] EXCEPT !.sqlsLen = IF Adds(o) THEN @ + 1 ELSE @ - 1]
  <2>1. srv' = [srv EXCEPT !.lists = [lists EXCEPT ![l] = r]]
    BY <1>4, Zenon DEF WriteSqlsLen
  <2>2. l \in 1..Len(lists) /\ DOMAIN lists[l] = {"sqls", "sqlsLen"}
    BY <1>1, Zenon DEF ListsOK
  <2>3. r.sqls = lists[l].sqls
    <3> HIDE DEF l, lists
    <3> QED BY <2>2
  <2> HIDE DEF r, l
  <2>4. srv'.lists = [lists EXCEPT ![l] = r] /\ srv'.slot = srv.slot
    BY <1>1, <2>1 DEF Shape
  <2>5. \A k \in 1..Len(lists) : srv'.lists[k].sqls = lists[k].sqls
    BY <1>1, <2>2, <2>3, <2>4, Zenon
  <2> QED BY <1>1, <2>4, <2>5, Zenon DEF ListsKept, ListKept
<1>5. CASE NewList(o)
  <2> DEFINE i == another("black_sql")
             r == parseBlackListSqls(op[o].cmd.v)
             n == Len(lists)
  <2>1. /\ op' = [op EXCEPT ![o] = [Done(o) EXCEPT !.to = i]] /\ At(o, "newlist")
        /\ srv' = [srv EXCEPT !.lists = Append(lists, r),
                              !.slot = [srv.slot EXCEPT !["black_sql"] = [refs EXCEPT ![i] = n + 1]]]
    BY <1>5, Zenon DEF NewList, StepTo
  <2>2. i \in {0, 1}
    BY <1>1 DEF Shape, Names, another
  <2> HIDE DEF i, r
  <2>3. srv'.slot["black_sql"][i] \in SqlLists'
    BY <2>1, <2>2, ListAboutToBe, Zenon
  <2>4. srv'.lists = Append(lists, r) /\ srv'.slot["black_sql"] = [refs EXCEPT ![i] = n + 1]
    BY <1>1, <2>1 DEF Shape, Names
  <2>5. \A k \in 1..Len(lists) : Append(lists, r)[k] = lists[k]
    <3> HIDE DEF lists
    <3>1. lists = [k \in 1..Len(lists) |-> lists[k]] /\ Len(lists) \in Nat
      BY <1>1, Zenon DEF ListsOK
    <3> DEFINE S == {lists[k] : k \in 1..Len(lists)} \cup {r}
    <3>2. lists \in [1..Len(lists) -> S] /\ r \in S
      BY <3>1
    <3> HIDE DEF S
    <3>3. lists \in Seq(S)
      BY <3>1, <3>2
    <3> QED BY <3>1, <3>2, <3>3
  <2>6. \A k \in {0, 1} : k # i => ListKept(k)
    BY <1>1, <2>4, <2>5, Zenon DEF ListKept
  <2> QED BY <2>3, <2>6, Zenon DEF ListsKept
<1>6. CASE \/ WriteSlot(o) \/ Flip(o) \/ WriteAllowIps(o) \/ NewAllowIps(o) \/ SyncConfig(o)
           \/ WriteSlaves(o) \/ CreateFile(o) \/ WriteFile(o) \/ Lock(o) \/ Install(o)
  <2>1. Aside(o)
    BY <1>6, ListsLeft, Zenon
  <2> QED BY <1>2, <2>1 DEF Aside
<1> QED BY <1>3, <1>4, <1>5, <1>6, Zenon DEF Operate

(* A statement that may pass is let off for good.                          *)
LEMMA SqlPasses ==
    ASSUME History, NEW d \in Sessions, conn'[d].pc \in {"count", "lookup"},
           \/ \E l \in SqlLists' : conn'[d].sql \notin srv'.lists[l].sqls
           \/ BlackSqlChanging'
    PROVE  grace'[d]
<1>1. conn'[d].pc \in Checking /\ conn'[d].pc \notin {"index", "slice", "match"}
  BY DEF Checking
<1>2. MayPass(d)'
  BY <1>1, Zenon DEF MayPass, BlackSqlChanging
<1> QED BY <1>1, <1>2, GraceStep

(* A step that is not the session's own.                                   *)
LEMMA BystanderListed ==
    ASSUME TypeOK, NEW d \in Sessions, Listed(d), ListsKept, conn'[d] = conn[d], History
    PROVE  Listed(d)'
<1> SUFFICES ASSUME conn'[d].pc \in {"count", "lookup"}, (conn[d].sql \notin SqlList(d).sqls)'
             PROVE  grace'[d]
  BY DEF Listed
<1> DEFINE i == conn[d].index
<1>1. i \in {0, 1} /\ conn'[d].index = i /\ conn'[d].sql = conn[d].sql /\ conn[d].pc = conn'[d].pc
  BY Zenon DEF TypeOK, ConnOK
<1>2. conn'[d].sql \notin srv'.lists[srv'.slot["black_sql"][i]].sqls
  BY <1>1, Zenon DEF SqlList
<1>3. CASE BlackSqlChanging' \/ srv'.slot["black_sql"][i] \in SqlLists'
  BY <1>2, <1>3, SqlPasses, Zenon
<1>4. CASE ListKept(i)
  <2>1. conn[d].sql \notin SqlList(d).sqls
    BY <1>1, <1>2, <1>4, Zenon DEF SqlList, ListKept
  <2>2. grace[d]
    BY <1>1, <2>1, Zenon DEF Listed
  <2> QED BY <1>1, <2>2, GraceStep DEF Checking
<1> QED BY <1>1, <1>3, <1>4, Zenon DEF ListsKept

(* The session's own step: it reads the index of the list in force.        *)
LEMMA OwnStepListed ==
    ASSUME TypeOK, NEW c \in Sessions, Serve(c) \/ Client(c), History
    PROVE  Listed(c)'
<1> SUFFICES ASSUME conn'[c].pc \in {"count", "lookup"}, (conn[c].sql \notin SqlList(c).sqls)'
             PROVE  grace'[c]
  BY DEF Listed
<1>1. ReadSqlsIndex(c) /\ srv' = srv
  BY SessionKeeps, Zenon
<1>2. conn'[c].index = srv.idx["black_sql"]
  BY <1>1 DEF ReadSqlsIndex, TypeOK, ConnOK
<1>3. srv'.slot["black_sql"][conn'[c].index] \in SqlLists'
  BY <1>1, <1>2, Zenon DEF SqlLists, Get
<1>4. conn'[c].sql \notin srv'.lists[srv'.slot["black_sql"][conn'[c].index]].sqls
  BY Zenon DEF SqlList
<1> QED BY <1>3, <1>4, SqlPasses, Zenon

(* What a session finds in the list it looks at was so in a list in force, *)
(* or about to be, since the statement came: for any number of operators.  *)
LEMMA ListedInvariant == Spec => []ListedInv
<1>1. Init => ListedInv
  <2> SUFFICES ASSUME Init, NEW c \in Sessions PROVE Listed(c)
    BY DEF ListedInv
  <2>1. conn[c].pc = "none"
    BY DEF Init, NoConn
  <2> QED BY <2>1, Zenon DEF Listed
<1>2. AllowedInv /\ ListedInv /\ [Next]_vars => ListedInv'
  <2> SUFFICES ASSUME AllowedInv, ListedInv, [Next]_vars, NEW d \in Sessions PROVE Listed(d)'
    BY DEF ListedInv
  <2>1. TypeOK /\ SrvOK(srv) /\ OpsOK /\ Listed(d)
    BY Zenon DEF AllowedInv, TypeOK, OpsOK, ListedInv
  <2>2. ASSUME srv'.lists = srv.lists, srv'.slot = srv.slot, conn'[d] = conn[d], History PROVE Listed(d)'
    <3>1. ListsKept
      BY <2>2, Zenon DEF ListsKept, ListKept
    <3> QED BY <2>1, <2>2, <3>1, BystanderListed, Zenon
  <2>3. CASE UNCHANGED vars
    BY <2>1, <2>3, Zenon DEF vars, Listed, SqlList
  <2>4. ASSUME History, NEW o \in Operators, Operate(o) PROVE Listed(d)'
    <3>1. ListsKept
      BY <2>1, <2>4, OperateLists
    <3>2. FileOK(file)
      BY <2>1, Zenon DEF TypeOK
    <3>3. conn' = conn
      BY <2>1, <2>4, <3>2, OperateKeeps
    <3> QED BY <2>1, <2>4, <3>1, <3>3, BystanderListed
  <2>5. ASSUME History, NEW o \in Operators, Begin(o) PROVE Listed(d)'
    BY <2>2, <2>5, Zenon DEF Begin
  <2>6. ASSUME History, NEW c \in Sessions, Serve(c) \/ Client(c) PROVE Listed(d)'
    <3>1. CASE d = c
      BY <2>1, <2>6, <3>1, OwnStepListed
    <3>2. CASE d # c
      <4>1. srv' = srv /\ conn'[d] = conn[d]
        BY <2>1, <2>6, <3>2, SessionKeeps, Zenon
      <4> QED BY <2>2, <2>6, <4>1, Zenon
    <3> QED BY <3>1, <3>2
  <2>7. ASSUME History, EditFile PROVE Listed(d)'
    BY <2>2, <2>7, Zenon DEF EditFile
  <2>8. ASSUME History, Run \/ Signal \/ CloseListener PROVE Listed(d)'
    <3>1. srv'.lists = srv.lists /\ srv'.slot = srv.slot
      BY <2>1, <2>8, ZenonT(30) DEF Run, Signal, CloseListener, SrvOK, Shape
    <3>2. conn' = conn
      BY <2>8 DEF Run, Signal, CloseListener
    <3> QED BY <2>2, <2>8, <3>1, <3>2, Zenon
  <2>9. CASE RunReturns \/ Crash \/ Restart
    <3>1. conn'[d].pc = "none"
      BY <2>1, <2>9, LifeKeeps, Zenon
    <3> QED BY <3>1 DEF Listed
  <2> QED BY <2>3, <2>4, <2>5, <2>6, <2>7, <2>8, <2>9, Zenon DEF Next
<1> QED BY <1>1, <1>2, AllowedInvariant, PTL DEF Spec

(* The two ways past preHandleShard.                                       *)
LEMMA BlacklistSteps ==
    ASSUME TypeOK, NEW c \in Sessions, conn[c].pc \in {"count", "lookup"}, conn'[c].pc = "execute",
           Serve(c) \/ Client(c)
    PROVE  SqlList(c).sqlsLen = 0 \/ conn[c].sql \notin SqlList(c).sqls
<1>1. DOMAIN conn = Sessions /\ ConnOK(c) /\ conn[c].pc # "none"
  BY Zenon DEF TypeOK
<1>2. CheckSqlsLen(c) \/ isBlacklistSql(c)
  <2>1. ~newClientConn(c)
    BY DEF newClientConn, NoConn
  <2>2. ~readPacket(c) /\ ~Leave(c) /\ ~dispatch(c) /\ ~SetVersion(c) /\ ~reloadConfig(c) /\ ~ReadSqlsIndex(c)
    BY DEF readPacket, Leave, dispatch, SetVersion, reloadConfig, ReadSqlsIndex
  <2>3. ~ReadIndex(c) /\ ~ReadSlice(c) /\ ~Match(c) /\ ~readHandshakeResponse(c) /\ ~GetSchema(c)
    BY Zenon DEF ReadIndex, ReadSlice, Match, readHandshakeResponse, GetSchema
  <2> QED BY <2>1, <2>2, <2>3, Zenon DEF Serve, Client
<1>3. CASE CheckSqlsLen(c)
  <2> DEFINE n == SqlList(c).sqlsLen
  <2>1. conn' = [conn EXCEPT ![c].pc = IF n # 0 THEN "map" ELSE "execute"]
    BY <1>3 DEF CheckSqlsLen, Goto
  <2> HIDE DEF n
  <2>2. conn'[c].pc = IF n # 0 THEN "map" ELSE "execute"
    BY <1>1, <2>1 DEF ConnOK
  <2> QED BY <2>2 DEF n
<1>4. CASE isBlacklistSql(c)
  <2>1. ~Answer(c)
    BY <1>1 DEF Answer, ConnOK
  <2> QED BY <1>4, <2>1 DEF isBlacklistSql
<1> QED BY <1>2, <1>3, <1>4, Zenon

(* A statement gets past preHandleShard only if, at some moment since it   *)
(* came, it was not in the blacklist in force, or about to be, or a command*)
(* was changing it: for every file and any number of sessions, with one    *)
(* operator.                                                               *)
THEOREM BlackSqlsAreRefused == ASSUME OneOperator PROVE Spec => BlackSqlsRefused
<1> DEFINE Passes == \A c \in Sessions :
               conn[c].pc \in {"count", "lookup"} /\ conn'[c].pc = "execute" => grace[c]
<1>1. AllowedInv /\ ListedInv /\ LenInv /\ [Next]_vars => [Passes]_vars
  <2> SUFFICES ASSUME AllowedInv, ListedInv, LenInv, Next,
                      NEW c \in Sessions, conn[c].pc \in {"count", "lookup"}, conn'[c].pc = "execute"
               PROVE  grace[c]
    OBVIOUS
  <2>1. TypeOK /\ Allowed(c) /\ Listed(c) /\ SrvOK(srv) /\ OpsOK /\ ConnOK(c)
    BY Zenon DEF AllowedInv, ListedInv, TypeOK, OpsOK
  <2>2. Serve(c) \/ Client(c)
    BY <2>1, TypeStep DEF Bystander
  <2>3. conn[c].pc \in Checking /\ conn[c].pc \notin {"index", "slice", "match"}
    BY DEF Checking
  <2> DEFINE l == srv.slot["black_sql"][conn[c].index]
  <2>4. l \in 1..Len(srv.lists) /\ IsFiniteSet(srv.lists[l].sqls)
    BY <2>1, Zenon DEF SrvOK, ListsOK, ConnOK
  <2>5. CASE conn[c].sql \notin SqlList(c).sqls
    BY <2>1, <2>5, Zenon DEF Listed
  <2>6. CASE SqlList(c).sqlsLen = 0
    <3>1. CASE \E o \in Operators : Owes(o, l)
      <4>1. PICK o \in Operators : At(o, "len")
        BY <3>1 DEF Owes
      <4>2. op[o].todo # <<>> /\ op[o].cmd.k = "black_sql"
        BY <2>1, <4>1, HeadIsOK, Zenon DEF At, StepOK
      <4>3. MayPass(c)
        BY <2>3, <4>2, Zenon DEF MayPass
      <4> QED BY <2>1, <2>3, <4>3, Zenon DEF Allowed
    <3>2. CASE \A o \in Operators : ~Owes(o, l)
      <4>1. Cardinality(srv.lists[l].sqls) = 0
        BY <2>4, <2>6, <3>2, Zenon DEF LenInv, Counted, SqlList
      <4>2. srv.lists[l].sqls = {}
        BY <2>4, <4>1, FS_EmptySet
      <4>3. conn[c].sql \notin SqlList(c).sqls
        BY <4>2, Zenon DEF SqlList
      <4> QED BY <2>5, <4>3
    <3> QED BY <3>1, <3>2
  <2> QED BY <2>1, <2>2, <2>5, <2>6, BlacklistSteps, Zenon
<1>2. BlackSqlsRefused <=> [][Passes]_vars
  BY DEF BlackSqlsRefused
<1> QED BY <1>1, <1>2, AllowedInvariant, ListedInvariant, LenInvariant, PTL DEF Spec
==============================================================================
