-------------------------- MODULE OneTableProofs ---------------------------
(***************************************************************************)
(* The sub-tables behind the proxy are one table to its clients: every     *)
(* step of ShardedTable is a step of Table or none at all.                 *)
(***************************************************************************)
EXTENDS OneTable, ShardedTableProofs

(* Table and ShardedTable mean the same by SQL.                            *)
LEMMA SameSql ==
    ASSUME NEW s, NEW rs, NEW K, NEW g, NEW k
    PROVE  /\ Whole!Keys(rs) = Keys(rs)
           /\ Whole!Hit(s, rs, K, g) = Hit(s, rs, K, g)
           /\ Whole!Refused(s, rs, K) <=> Refused(s, rs, K)
           /\ Whole!After(s, rs, K, g) = After(s, rs, K, g)
           /\ Whole!Untouched(s, k, Vals) <=> Untouched(s, k, Vals)
<1>1. ASSUME NEW w, NEW q, NEW h PROVE Whole!Matches(w, q, h) = Matches(w, q, h)
  BY SMT DEF Whole!Matches, Matches, Whole!MatchesAt, MatchesAt, Whole!LeftOf, LeftOf,
      Whole!LastIn, LastIn, Whole!Positive, Positive, Whole!Values, Values,
      Whole!Satisfies, Satisfies, Whole!Compare, Compare, Whole!Max, Max,
      Whole!Comparisons, Comparisons
<1>2. ASSUME NEW x PROVE Whole!Keys(x) = Keys(x)
  BY Zenon DEF Whole!Keys, Keys
<1>3. ASSUME NEW x, NEW L, NEW h PROVE Whole!Hit(s, x, L, h) = Hit(s, x, L, h)
  BY <1>1, Zenon DEF Whole!Hit, Hit
<1>4. ASSUME NEW L PROVE Whole!NewRows(s, L) = NewRows(s, L)
  BY Zenon DEF Whole!NewRows, NewRows
<1>5. Whole!Refused(s, rs, K) <=> Refused(s, rs, K)
  BY <1>2, <1>3, <1>4, Zenon DEF Whole!Refused, Refused
<1>6. Whole!After(s, rs, K, g) = After(s, rs, K, g)
  BY <1>3, Zenon DEF Whole!After, After, Whole!Keys, Keys, Whole!NewRows, NewRows, Whole!Updated, Updated
<1>7. Whole!Untouched(s, k, Vals) <=> Untouched(s, k, Vals)
  BY <1>1, Zenon DEF Whole!Untouched, Untouched
<1> QED BY <1>2, <1>3, <1>5, <1>6, <1>7

(* The tables of a started proxy hold one row for a key.                   *)
LEMMA InitOne ==
    ASSUME Init
    PROVE  Whole!Init
<1>1. IInv
  BY InitHolds
<1>2. TypeOK /\ Homes /\ ValidSetup(setup)
  BY <1>1 DEF IInv, TypeOK
<1>3. Keys(Rows) \subseteq Domain
  <2> SUFFICES ASSUME NEW q \in Rows PROVE q.k \in Domain
    BY DEF Keys
  <2>1. PICK t \in Tables : q \in store[t]
    BY DEF Rows
  <2>2. PICK l \in setup.keys : l.v = q.k /\ Place(l) = t
    BY <1>2, <2>1 DEF Homes
  <2> QED BY <2>1, <2>2 DEF Domain, Place
<1>4. \A q, p \in Rows : q.k = p.k => q = p
  <2>1. Rows \subseteq setup.rows
    BY Zenon DEF Rows, Init
  <2>2. \A a, b \in setup.rows : a.k = b.k => a = b
    BY <1>2 DEF ValidSetup
  <2> QED BY <2>1, <2>2
<1>5. [c \in Clients |-> IF stmt[c] = Idle THEN {} ELSE Domain \ KeysOf(visited[c])] = [c \in Clients |-> {}]
  BY DEF Init
<1>6. Whole!Keys(Rows) \subseteq Domain
  BY <1>3, SameSql
<1>7. /\ stmt = [c \in Clients |-> Idle] /\ ans = [c \in Clients |-> {}]
      /\ out = [c \in Clients |-> Whole!NoReply]
  BY DEF Init, Whole!NoReply
<1> QED BY <1>4, <1>5, <1>6, <1>7 DEF Whole!Init

(* The query the proxy takes up is the query on the table.                 *)
LEMMA SubmitOne ==
    ASSUME IInv, NEW c \in Clients, Submit(c)
    PROVE  Whole!Submit(c)
<1>1. TypeOK /\ ClientInv(c)
  BY DEF IInv
<1>2. /\ Fixed /\ stmt[c] = Idle /\ store' = store /\ ans' = ans /\ out' = out /\ visited' = visited
      /\ \E s \in setup.stmts : stmt' = [stmt EXCEPT ![c] = s]
  BY Zenon DEF Submit, Fixed
<1>3. PICK s \in setup.stmts : stmt' = [stmt EXCEPT ![c] = s]
  BY <1>2, Zenon
<1>4. /\ DOMAIN stmt = Clients /\ ans \in [Clients -> SUBSET Row]
      /\ which \in DOMAIN Setups /\ Idle \notin setup.stmts
  BY <1>1 DEF TypeOK, ValidSetup
<1>5. stmt'[c] = s /\ \A d \in Clients \ {c} : stmt'[d] = stmt[d]
  BY <1>3, <1>4
<1>6. s \in AllStmts
  BY <1>4 DEF AllStmts, setup
<1>7. Domain' = Domain /\ Tables' = Tables /\ \A T : KeysOf(T)' = KeysOf(T)
  BY <1>2, FixedSetup
<1>8. visited[c] = {} /\ ans[c] = {}
  BY <1>1, <1>2 DEF ClientInv
<1>9. KeysOf({}) = {}
  BY DEF KeysOf
<1>10. ans' = [ans EXCEPT ![c] = {}]
  BY <1>2, <1>4, <1>8
<1>11. Rows' = Rows
  BY <1>2, <1>7 DEF Rows
<1>12. [d \in Clients |-> Unvisited(d)]' = [[d \in Clients |-> Unvisited(d)] EXCEPT ![c] = Domain]
  <2>1. \A d \in Clients : Unvisited(d)' = IF d = c THEN Domain ELSE Unvisited(d)
    <3> SUFFICES ASSUME NEW d \in Clients PROVE Unvisited(d)' = IF d = c THEN Domain ELSE Unvisited(d)
      OBVIOUS
    <3>1. KeysOf(visited[d])' = KeysOf(visited[d])
      BY <1>2 DEF KeysOf, Fixed, setup
    <3>2. CASE d = c
      BY <1>4, <1>5, <1>7, <1>8, <1>9, <3>1, <3>2 DEF Unvisited
    <3>3. CASE d # c
      BY <1>5, <1>7, <3>1, <3>3 DEF Unvisited
    <3> QED BY <3>2, <3>3
  <2> QED BY <2>1, Zenon
<1>13. stmt' = [stmt EXCEPT ![c] = stmt'[c]]
  BY <1>3, <1>5, Zenon
<1> QED BY <1>2, <1>5, <1>6, <1>7, <1>10, <1>11, <1>12, <1>13, Zenon DEF Whole!Submit, Unvisited

(* A statement that takes effect on a sub-table is applied to the keys of  *)
(* that sub-table; one that is refused or lost changes nothing.            *)
LEMMA ExecuteOne ==
    ASSUME IInv, NEW c \in Clients, NEW n, Execute(c, n)
    PROVE  \/ \E K \in SUBSET Unvisited(c) : Whole!Apply(c, K)
           \/ UNCHANGED Whole!tvars
<1> DEFINE t == NextTable(c, n)
           s == stmt[c]
           u == StmtForTable(rule, s, t)
           g == rewriteWhereIn(rule, s, t)
           KT == KeysOf({t})
           new == After(u, store[t], AllKeys, g)
           Todo == [d \in Clients |-> Unvisited(d)]
<1>1. TypeOK /\ Homes
  BY DEF IInv
<1>2. /\ Fixed /\ stmt' = stmt /\ out' = out
      /\ s \in setup.stmts /\ s # Idle /\ KeepsKeys(s) /\ t \notin visited[c]
  BY ExecuteCases
<1>3. TookEffect(c, t) \/ (store' = store /\ visited' = visited /\ ans' = ans)
  BY ExecuteCases
<1>4. Domain' = Domain /\ Tables' = Tables /\ \A T : KeysOf(T)' = KeysOf(T)
  BY <1>2, FixedSetup
<1>5. /\ store \in [Tables -> SUBSET Row] /\ ans \in [Clients -> SUBSET Row]
      /\ visited \in [Clients -> SUBSET Tables]
  BY <1>1 DEF TypeOK
<1>6. CASE store' = store /\ visited' = visited /\ ans' = ans
  <2>1. Rows' = Rows
    BY <1>4, <1>6 DEF Rows
  <2>2. \A d \in Clients : Unvisited(d)' = Unvisited(d)
    BY <1>2, <1>6 DEF Unvisited, Domain, KeysOf, Fixed, setup, Tables
  <2>3. Todo' = Todo
    BY <2>2
  <2>4. UNCHANGED Whole!tvars
    BY <1>2, <1>4, <1>6, <2>1, <2>3 DEF Whole!tvars, Unvisited
  <2> QED BY <2>4
<1>7. CASE TookEffect(c, t)
  <2>1. /\ t \in Tables /\ ~Refused(u, store[t], AllKeys)
        /\ store' = [store EXCEPT ![t] = new]
        /\ visited' = [visited EXCEPT ![c] = visited[c] \cup {t}]
        /\ ans' = IF u.kind = "select"
                  THEN [ans EXCEPT ![c] = ans[c] \cup Hit(u, store[t], AllKeys, g)] ELSE ans
    BY <1>7, Zenon DEF TookEffect
  <2>2. /\ u.kind = s.kind
        /\ Refused(u, store[t], AllKeys) <=> Refused(s, Rows, KT)
        /\ ~Refused(u, store[t], AllKeys) => After(s, Rows, KT, {}) = (Rows \ store[t]) \cup new
        /\ s.kind = "select" => Hit(u, store[t], AllKeys, g) = Hit(s, Rows, KT, {})
    BY <1>1, <1>2, <2>1, AtSubTable
  <2>3. PartOf(Rows, store[t], AllKeys, KT)
    BY <1>1, <2>1, SubTable
  <2> HIDE DEF new, u, g
  <2>4. Rows' = (Rows \ store[t]) \cup new
    <3>1. Rows' = UNION {store'[v] : v \in Tables}
      BY <1>4 DEF Rows
    <3>2. \A v \in Tables : store'[v] = IF v = t THEN new ELSE store[v]
      BY <1>5, <2>1
    <3>3. ASSUME NEW v \in Tables, v # t, NEW q \in store[v] PROVE q \notin store[t]
      <4>1. PICK l \in setup.keys : l.v = q.k /\ Place(l) = v
        BY <1>1 DEF Homes
      <4>2. ASSUME q \in store[t] PROVE FALSE
        <5>1. PICK m \in setup.keys : m.v = q.k /\ Place(m) = t
          BY <1>1, <2>1, <4>2 DEF Homes
        <5>2. Place(l) = Place(m)
          BY <1>1, <4>1, <5>1, OneHome
        <5> QED BY <3>3, <4>1, <5>1, <5>2
      <4> QED BY <4>2
    <3>4. \A q : q \in Rows <=> \E v \in Tables : q \in store[v]
      BY DEF Rows
    <3>5. \A q : q \in Rows' <=> \E v \in Tables : q \in store'[v]
      BY <3>1
    <3>6. ASSUME NEW q PROVE q \in Rows' <=> q \in new \/ (q \in Rows /\ q \notin store[t])
      <4>1. q \in Rows' => q \in new \/ (q \in Rows /\ q \notin store[t])
        BY <3>2, <3>3, <3>4, <3>5
      <4>2. q \in new => q \in Rows'
        BY <2>1, <3>2, <3>5
      <4>3. q \in Rows /\ q \notin store[t] => q \in Rows'
        BY <3>2, <3>4, <3>5
      <4> QED BY <4>1, <4>2, <4>3
    <3> QED BY <3>6
  <2>5. KT \subseteq Unvisited(c)
    <3> SUFFICES ASSUME NEW l \in setup.keys, Place(l) = t PROVE l.v \in Domain /\ l.v \notin KeysOf(visited[c])
      BY <1>2 DEF KeysOf, Place, Unvisited
    <3>1. l.v \in Domain
      BY <2>1 DEF Domain, Place
    <3>2. ASSUME l.v \in KeysOf(visited[c]) PROVE FALSE
      <4>1. PICK m \in setup.keys : m.v = l.v /\ Place(m) \in visited[c]
        BY <3>2 DEF KeysOf, Place
      <4>2. Place(l) = Place(m)
        BY <1>1, <4>1, OneHome
      <4> QED BY <1>2, <4>1, <4>2
    <3> QED BY <3>1, <3>2
  <2>6. Todo' = [Todo EXCEPT ![c] = Todo[c] \ KT]
    <3>1. \A d \in Clients : visited'[d] = IF d = c THEN visited[c] \cup {t} ELSE visited[d]
      BY <1>5, <2>1
    <3>2. KeysOf(visited[c] \cup {t}) = KeysOf(visited[c]) \cup KT
      BY DEF KeysOf
    <3>3. setup' = setup /\ rule' = rule
      BY <1>2, FixedSetup DEF Fixed
    <3>4. \A d \in Clients : Unvisited(d)' = IF stmt[d] = Idle THEN {} ELSE Domain \ KeysOf(visited'[d])
      BY <1>2, <1>4, <3>3 DEF Unvisited, KeysOf
    <3>5. ASSUME NEW d \in Clients PROVE Unvisited(d)' = IF d = c THEN Unvisited(c) \ KT ELSE Unvisited(d)
      <4> HIDE DEF KT
      <4>1. CASE d = c
        BY <1>2, <3>1, <3>2, <3>4, <4>1, Zenon DEF Unvisited
      <4>2. CASE d # c
        BY <3>1, <3>4, <4>2 DEF Unvisited
      <4> QED BY <4>1, <4>2
    <3> HIDE DEF KT
    <3> QED BY <3>5, Zenon
  <2>7. /\ ~Whole!Refused(s, Rows, KT)
        /\ Rows' = Whole!After(s, Rows, KT, {})
        /\ ans' = IF s.kind = "select" THEN [ans EXCEPT ![c] = ans[c] \cup Whole!Hit(s, Rows, KT, {})] ELSE ans
    <3> HIDE DEF KT, s
    <3>1. ~Refused(s, Rows, KT) /\ Rows' = After(s, Rows, KT, {})
      BY <2>1, <2>2, <2>4
    <3>2. ans' = IF s.kind = "select" THEN [ans EXCEPT ![c] = ans[c] \cup Hit(s, Rows, KT, {})] ELSE ans
      BY <2>1, <2>2, Zenon
    <3>3. /\ Whole!Refused(s, Rows, KT) <=> Refused(s, Rows, KT)
          /\ Whole!After(s, Rows, KT, {}) = After(s, Rows, KT, {})
          /\ Whole!Hit(s, Rows, KT, {}) = Hit(s, Rows, KT, {})
      BY SameSql
    <3> QED BY <3>1, <3>2, <3>3, Zenon
  <2> HIDE DEF KT
  <2>8. PICK K : K = KT
    OBVIOUS
  <2>9. Whole!Apply(c, K)
    <3>1. /\ ~Whole!Refused(s, Rows, K)
          /\ Rows' = Whole!After(s, Rows, K, {})
          /\ ans' = IF s.kind = "select" THEN [ans EXCEPT ![c] = ans[c] \cup Whole!Hit(s, Rows, K, {})] ELSE ans
          /\ Todo' = [Todo EXCEPT ![c] = Todo[c] \ K]
      BY <2>6, <2>7, <2>8, Zenon
    <3> QED BY <1>2, <1>4, <3>1, Zenon DEF Whole!Apply, Unvisited
  <2>10. K \in SUBSET Unvisited(c)
    BY <2>5, <2>8
  <2> QED BY <2>9, <2>10, Zenon
<1> QED BY <1>3, <1>6, <1>7

(* The answer is the answer to the query on the table.                     *)
LEMMA ReplyOne ==
    ASSUME IInv, NEW c \in Clients, Reply(c)
    PROVE  Whole!ReplyOK(c) \/ Whole!ReplyError(c)
<1> DEFINE Todo == [d \in Clients |-> Unvisited(d)]
<1>1. TypeOK /\ ClientInv(c)
  BY DEF IInv
<1>2. /\ Fixed /\ store' = store /\ stmt[c] # Idle
      /\ \A n \in DOMAIN sqls[c] : sqls[c][n] = <<>>
      /\ stmt' = [stmt EXCEPT ![c] = Idle] /\ ans' = [ans EXCEPT ![c] = {}]
      /\ visited' = [visited EXCEPT ![c] = {}]
      /\ out' = [out EXCEPT ![c] = IF failed[c] THEN [ok |-> FALSE, rows |-> {}]
                                   ELSE [ok |-> TRUE, rows |-> ans[c]]]
  BY Zenon DEF Reply, Fixed
<1>3. Domain' = Domain /\ Tables' = Tables /\ setup' = setup /\ rule' = rule
  BY <1>2, FixedSetup DEF Fixed
<1>4. Rows' = Rows
  BY <1>2, <1>3 DEF Rows
<1>5. DOMAIN stmt = Clients /\ DOMAIN visited = Clients
  BY <1>1 DEF TypeOK
<1>6. Todo' = [Todo EXCEPT ![c] = {}]
  <2>1. ASSUME NEW d \in Clients PROVE Unvisited(d)' = IF d = c THEN {} ELSE Unvisited(d)
    <3>1. CASE d = c
      BY <1>2, <1>5, <3>1 DEF Unvisited
    <3>2. CASE d # c
      <4>1. stmt'[d] = stmt[d] /\ visited'[d] = visited[d]
        BY <1>2, <1>5, <3>2
      <4> QED BY <1>3, <3>2, <4>1 DEF Unvisited, KeysOf
    <3> QED BY <3>1, <3>2
  <2> QED BY <2>1, Zenon
<1>7. CASE failed[c]
  <2>1. out' = [out EXCEPT ![c] = [ok |-> FALSE, rows |-> {}]]
    BY <1>2, <1>7
  <2>2. Whole!ReplyError(c)
    BY <1>2, <1>3, <1>4, <1>6, <2>1, Zenon DEF Whole!ReplyError, Unvisited
  <2> QED BY <2>2
<1>8. CASE ~failed[c]
  <2>1. out' = [out EXCEPT ![c] = [ok |-> TRUE, rows |-> ans[c]]]
    BY <1>2, <1>8
  <2>2. Remaining(c) = {}
    BY <1>2 DEF Remaining, ToSet
  <2>3. ASSUME NEW k \in Unvisited(c) PROVE Whole!Untouched(stmt[c], k, Vals)
    <3>1. PICK l \in setup.keys : l.v = k /\ Place(l) \in Tables /\ k \notin KeysOf(visited[c])
      BY <1>2, <2>3 DEF Unvisited, Domain, Place
    <3>2. Place(l) \notin visited[c]
      BY <3>1 DEF KeysOf, Place
    <3>3. Untouched(stmt[c], l.v, Vals)
      BY <1>1, <1>2, <1>8, <2>2, <3>1, <3>2 DEF ClientInv, Reached
    <3> QED BY <3>1, <3>3, SameSql
  <2>4. \A k \in Todo[c] : Whole!Untouched(stmt[c], k, Vals)
    BY <2>3
  <2>5. Whole!ReplyOK(c)
    BY <1>2, <1>3, <1>4, <1>6, <2>1, <2>4, Zenon DEF Whole!ReplyOK, Unvisited
  <2> QED BY <2>5
<1> QED BY <1>7, <1>8

(* planbuilder.go, router.go, conn_query.go: to its clients the sub-tables *)
(* are one table.  For every rule, every set of keys, every WHERE, any     *)
(* number of clients, and nodes that refuse or lose statements.            *)
THEOREM SeenAsOneTable == Spec => OneTableSeen
<1>1. Init => Whole!Init
  BY InitOne
<1>2. ASSUME IInv, [Next]_vars PROVE [Whole!Next]_(Whole!tvars)
  <2>1. CASE UNCHANGED vars
    <3>1. Rows' = Rows /\ Domain' = Domain
      BY <2>1 DEF vars, Rows, Tables, Domain, setup
    <3>2. \A c \in Clients : Unvisited(c)' = Unvisited(c)
      BY <2>1 DEF vars, Unvisited, Domain, KeysOf, setup, Tables
    <3>3. [c \in Clients |-> Unvisited(c)]' = [c \in Clients |-> Unvisited(c)]
      BY <3>2
    <3> QED BY <2>1, <3>1, <3>3 DEF vars, Whole!tvars, Unvisited
  <2>2. CASE Next
    <3>1. PICK c \in Clients : Submit(c) \/ Reply(c) \/ \E n \in DOMAIN sqls[c] : Execute(c, n)
      BY <2>2, Zenon DEF Next, Steps
    <3>2. CASE Submit(c)
      <4>1. Whole!Submit(c)
        BY <1>2, <3>2, SubmitOne
      <4> QED BY <4>1, Zenon DEF Whole!Next
    <3>3. CASE Reply(c)
      <4>1. Whole!ReplyOK(c) \/ Whole!ReplyError(c)
        BY <1>2, <3>3, ReplyOne
      <4> QED BY <4>1, Zenon DEF Whole!Next
    <3>4. ASSUME NEW n \in DOMAIN sqls[c], Execute(c, n) PROVE [Whole!Next]_(Whole!tvars)
      <4>1. (\E K \in SUBSET Unvisited(c) : Whole!Apply(c, K)) \/ UNCHANGED Whole!tvars
        BY <1>2, <3>4, ExecuteOne
      <4>2. Unvisited(c) = [d \in Clients |-> IF stmt[d] = Idle THEN {} ELSE Domain \ KeysOf(visited[d])][c]
        BY DEF Unvisited
      <4> QED BY <4>1, <4>2, Zenon DEF Whole!Next
    <3> QED BY <3>1, <3>2, <3>3, <3>4
  <2> QED BY <1>2, <2>1, <2>2
<1> QED BY <1>1, <1>2, Invariance, PTL DEF Spec, OneTableSeen, Whole!Spec
=============================================================================
