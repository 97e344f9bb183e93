------------------------- MODULE ShardedTableProofs -------------------------
(***************************************************************************)
(* Every row stays in the sub-table of its key and the rule stays in       *)
(* order, for every rule, every set of keys, every WHERE and any number of *)
(* clients: the inductive invariant of ShardedTableInv.  Shown for the     *)
(* setups that ShardedTableAssumption admits.                              *)
(***************************************************************************)
EXTENDS ShardedTableInv, RoutePlanProofs
-----------------------------------------------------------------------------
(* What the setup gives. *)

(* The rule of a setup that NewRouter accepts.                             *)
LEMMA SetupRule ==
    ASSUME TypeOK
    PROVE  /\ GoodRule(rule) /\ ValidKeys(rule, setup.keys) /\ rule.nodes \in Seq(ToSet(rule.nodes))
           /\ \A t \in Tables : rule.tableToNode[t] \in 0..(Len(rule.nodes) - 1)
<1>1. ValidConfig(setup.cfg) /\ ParseOk(setup.cfg) /\ rule = parseRule(setup.cfg)
  BY DEF TypeOK, ValidSetup, NewRouterOk
<1>2. GoodRule(rule) /\ \A t \in Tables : rule.tableToNode[t] \in 0..(Len(rule.nodes) - 1)
  BY <1>1, RuleParsed DEF GoodRule, Tables
<1>3. ValidKeys(rule, setup.keys)
  BY <1>1 DEF TypeOK, ValidSetup
<1>4. rule.nodes = setup.cfg.nodes
  BY <1>1 DEF parseRule
<1> QED BY <1>1, <1>2, <1>3, <1>4 DEF ValidConfig

(* What checkUpdateExprs lets through leaves the keys alone.               *)
LEMMA PlanKeepsKeys ==
    ASSUME NEW r, NEW K, NEW s, ValidStmt(r, K, s), NEW plan \in BuildPlan(r, s), plan # NoPlan
    PROVE  KeepsKeys(s)
<1>1. CASE s.kind = "update"
  <2>1. plan \in buildUpdatePlan(r, s)
    BY <1>1, Zenon DEF BuildPlan
  <2>2. checkUpdateExprs(r, s.sets)
    BY <2>1, Zenon DEF buildUpdatePlan
  <2>3. ValidSet(r, s)
    BY <1>1, Zenon DEF ValidStmt
  <2> QED BY <1>1, <2>2, <2>3 DEF KeepsKeys, ValidSet, checkUpdateExprs
<1>2. CASE s.kind = "insert" /\ s.onDup
  <2>1. plan \in buildInsertPlan(r, s)
    BY <1>2, Zenon DEF BuildPlan
  <2>2. checkUpdateExprs(r, s.sets)
    BY <1>2, <2>1, Zenon DEF buildInsertPlan
  <2>3. ValidSet(r, s)
    BY <1>2, Zenon DEF ValidStmt
  <2> QED BY <1>2, <2>2, <2>3 DEF KeepsKeys, ValidSet, checkUpdateExprs
<1> QED BY <1>1, <1>2 DEF KeepsKeys

(* Every plan for a statement of a setup covers it.                        *)
LEMMA PlanCovers ==
    ASSUME NEW r, GoodRule(r), NEW K, ValidKeys(r, K), NEW s, ValidStmt(r, K, s),
           NEW plan \in BuildPlan(r, s)
    PROVE  Covers(r, K, s, Vals, plan)
<1>1. CASE s.kind \in {"select", "delete", "update"}
  <2>1. plan = NoPlan \/ plan = calRouteIndexs(r, s.where)
    BY <1>1, Zenon DEF BuildPlan, buildSelectPlan, buildDeletePlan, buildUpdatePlan
  <2>2. ValidWhere(r, K, s.where)
    BY <1>1, Zenon DEF ValidStmt
  <2>3. s.kind \notin {"insert", "replace", "truncate"}
    BY <1>1
  <2>4. Covers(r, K, s, Vals, calRouteIndexs(r, s.where))
    BY <2>2, <2>3, WhereCovers
  <2> QED BY <2>1, <2>4 DEF Covers
<1>2. CASE s.kind = "truncate"
  <2>1. plan = AllTables(r)
    BY <1>2, Zenon DEF BuildPlan, buildTruncatePlan
  <2> QED BY <2>1, AllTablesCover
<1>3. CASE s.kind \in {"insert", "replace"}
  <2>1. plan = NoPlan \/ plan \in getInsertTableIndex(r, s)
    BY <1>3, Zenon DEF BuildPlan, buildInsertPlan, buildReplacePlan
  <2>2. s.rows \subseteq [lit : K, val : Vals]
    BY <1>3, Zenon DEF ValidStmt
  <2>3. \A n \in s.rows : n.lit \in K
    BY <2>2
  <2>4. CASE plan = NoPlan
    BY <2>4 DEF Covers
  <2>5. CASE plan \in getInsertTableIndex(r, s)
    BY <1>3, <2>3, <2>5, InsertCovers
  <2> QED BY <2>1, <2>4, <2>5
<1> QED BY <1>1, <1>2, <1>3 DEF ValidStmt
-----------------------------------------------------------------------------
(* Dispatch. *)

(* The nodes execute each planned table at most once; when no node is left *)
(* without a statement, and they are as many as were planned for, they     *)
(* execute every planned table.                                            *)
LEMMA DispatchedTables ==
    ASSUME NEW s, NEW plan, Covers(rule, setup.keys, s, Vals, plan)
    PROVE  LET D == Dispatched(plan)
           IN  /\ \A n \in DOMAIN D : Distinct(D[n])
               /\ \A n, m \in DOMAIN D : ToSet(D[n]) \cap ToSet(D[m]) # {} => n = m
               /\ D # <<>> => plan # NoPlan
               /\ ~Unplanned(plan) => /\ plan # NoPlan
                                      /\ \A x \in ToSet(plan.tables) : \E n \in DOMAIN D : x \in ToSet(D[n])
<1> DEFINE D == Dispatched(plan)
           P == RewrittenSqls(rule, setup.schema, plan)
           C == ShardNodes(rule, plan)
           Name(t) == NodeName(rule, setup.schema, t)
           E == [n \in C |-> IF n \in DOMAIN P THEN P[n] ELSE <<>>]
           Sent == plan.ok /\ Cardinality(C) = Cardinality(DOMAIN P)
<1>1. CASE ~Sent
  <2>1. D = <<>>
    BY <1>1, Zenon DEF Dispatched
  <2>2. Unplanned(plan)
    BY <2>1 DEF Unplanned
  <2>3. DOMAIN <<>> = {}
    OBVIOUS
  <2> QED BY <2>1, <2>2, <2>3
<1>2. CASE Sent
  <2>1. D = E
    BY <1>2, Zenon DEF Dispatched
  <2>2. plan # NoPlan /\ Distinct(plan.tables)
    <3>1. ~NoPlan.ok
      BY DEF NoPlan
    <3>2. plan # NoPlan
      BY <1>2, <3>1
    <3> QED BY <3>2 DEF Covers
  <2>3. DOMAIN P = {Name(t) : t \in ToSet(plan.tables)}
    BY DEF RewrittenSqls
  <2>4. ASSUME NEW n \in DOMAIN P
        PROVE  Distinct(P[n]) /\ ToSet(P[n]) = {t \in ToSet(plan.tables) : Name(t) = n}
    BY <2>2, <2>3, SqlsOfNode
  <2>5. Distinct(<<>>) /\ ToSet(<<>>) = {}
    BY DEF Distinct, ToSet
  <2>6. IsFiniteSet(DOMAIN P)
    <3> DEFINE T == ToSet(plan.tables)
               f == [t \in T |-> Name(t)]
    <3>1. IsFiniteSet(T)
      <4>1. plan.tables \in Seq(Int)
        BY <2>2 DEF Distinct
      <4> QED BY <4>1, ListFinite
    <3> HIDE DEF T
    <3>2. f \in Surjection(T, {Name(t) : t \in T})
      <4> HIDE DEF Name
      <4> QED BY DEF Surjection
    <3>3. IsFiniteSet({Name(t) : t \in T})
      <4> DEFINE R == {Name(t) : t \in T}
      <4> HIDE DEF f, R
      <4> QED BY <3>1, <3>2, FS_Surjection DEF R
    <3> QED BY <2>3, <3>3 DEF T
  <2> HIDE DEF P, C, Name
  <2>7. DOMAIN E = C /\ \A n \in C : E[n] = IF n \in DOMAIN P THEN P[n] ELSE <<>>
    OBVIOUS
  <2>8. \A n \in C : /\ Distinct(E[n])
                     /\ \A x \in ToSet(E[n]) : n \in DOMAIN P /\ Name(x) = n
    BY <2>4, <2>5, <2>7
  <2>9. ASSUME ~Unplanned(plan), NEW x \in ToSet(plan.tables) PROVE \E n \in C : x \in ToSet(E[n])
    <3>1. \A n \in C : E[n] # <<>>
      <4>1. \A n \in DOMAIN D : D[n] # <<>>
        BY <2>9, Zenon DEF Unplanned
      <4> HIDE DEF E, D
      <4> QED BY <2>1, <2>7, <4>1
    <3>2. C \in SUBSET DOMAIN P
      BY <2>7, <3>1
    <3>3. Cardinality(DOMAIN P) = Cardinality(C)
      BY <1>2
    <3>4. DOMAIN P = C
      <4> DEFINE Q == DOMAIN P
      <4> HIDE DEF Q
      <4> QED BY <2>6, <3>2, <3>3, FS_Subset DEF Q
    <3>5. Name(x) \in DOMAIN P
      BY <2>3
    <3> QED BY <2>4, <2>7, <3>4, <3>5
  <2> HIDE DEF E, D
  <2>10. \A n, m \in DOMAIN D : ToSet(D[n]) \cap ToSet(D[m]) # {} => n = m
    BY <2>1, <2>7, <2>8
  <2>11. \A n \in DOMAIN D : Distinct(D[n])
    BY <2>1, <2>7, <2>8
  <2>12. ~Unplanned(plan) => \A x \in ToSet(plan.tables) : \E n \in DOMAIN D : x \in ToSet(D[n])
    BY <2>1, <2>7, <2>9
  <2> QED BY <2>2, <2>10, <2>11, <2>12 DEF D
<1> QED BY <1>1, <1>2
-----------------------------------------------------------------------------
(* One statement at one table. *)

(* Two literals of one key have one table.                                 *)
LEMMA OneHome ==
    ASSUME TypeOK, NEW l \in setup.keys, NEW m \in setup.keys, l.v = m.v
    PROVE  Place(l) = Place(m)
<1>1. ValidKeys(rule, setup.keys)
  BY SetupRule
<1> QED BY <1>1 DEF ValidKeys, Place

(* A sub-table is the part of the table with its keys.                     *)
LEMMA SubTable ==
    ASSUME TypeOK, Homes, NEW t \in Tables
    PROVE  /\ PartOf(Rows, store[t], AllKeys, KeysOf({t}))
           /\ store[t] \in SUBSET [k : KeysOf({t}), val : Vals]
<1>1. \A q \in store[t] : q \in [k : AllKeys, val : Vals]
  BY DEF TypeOK, Row
<1>2. \A u \in Tables : \A q \in store[u] : \E l \in setup.keys : l.v = q.k /\ Place(l) = u
  BY DEF Homes
<1>3. \A k : k \in KeysOf({t}) <=> \E l \in setup.keys : Place(l) = t /\ l.v = k
  BY DEF KeysOf, Place
<1>4. KeysOf({t}) \subseteq AllKeys
  BY DEF KeysOf, AllKeys, Values
<1>5. \A q \in store[t] : q.k \in KeysOf({t})
  BY <1>2, <1>3
<1>6. ASSUME NEW q \in Rows, q.k \in KeysOf({t}) PROVE q \in store[t]
  <2>1. PICK u \in Tables : q \in store[u]
    BY DEF Rows
  <2>2. PICK l \in setup.keys : l.v = q.k /\ Place(l) = u
    BY <1>2, <2>1
  <2>3. PICK m \in setup.keys : Place(m) = t /\ m.v = q.k
    BY <1>3, <1>6
  <2>4. Place(l) = Place(m)
    BY <2>2, <2>3, OneHome
  <2> QED BY <2>1, <2>2, <2>3, <2>4
<1>7. store[t] \subseteq Rows
  BY DEF Rows
<1>8. PartOf(Rows, store[t], AllKeys, KeysOf({t}))
  BY <1>4, <1>5, <1>6, <1>7 DEF PartOf
<1> QED BY <1>1, <1>5, <1>8

(* Executed at a sub-table, the statement does to its rows what the        *)
(* client's statement does to them in the one table.                       *)
LEMMA AtSubTable ==
    ASSUME TypeOK, Homes, NEW t \in Tables, NEW s \in setup.stmts, KeepsKeys(s)
    PROVE  LET u == StmtForTable(rule, s, t)
               g == rewriteWhereIn(rule, s, t)
               KT == KeysOf({t})
           IN  /\ u.kind = s.kind
               /\ Refused(u, store[t], AllKeys) <=> Refused(s, Rows, KT)
               /\ ~Refused(u, store[t], AllKeys) =>
                     /\ After(s, Rows, KT, {}) = (Rows \ store[t]) \cup After(u, store[t], AllKeys, g)
                     /\ After(u, store[t], AllKeys, g) \subseteq [k : KT, val : Vals]
               /\ s.kind = "select" => Hit(u, store[t], AllKeys, g) = Hit(s, Rows, KT, {})
<1> DEFINE u == StmtForTable(rule, s, t)
           g == rewriteWhereIn(rule, s, t)
           KT == KeysOf({t})
           S == store[t]
<1>1. PartOf(Rows, S, AllKeys, KT) /\ S \in SUBSET [k : KT, val : Vals]
  BY SubTable, Zenon
<1>2. ValidStmt(rule, setup.keys, s) /\ ValidKeys(rule, setup.keys)
  BY SetupRule DEF TypeOK, ValidSetup
<1>3. CASE s.kind \in {"select", "delete", "truncate", "update"}
  <2>1. u = s
    BY <1>3, Zenon DEF StmtForTable
  <2>2. s.kind = "update" => s.sets = "val" /\ s.val \in Vals
    BY DEF KeepsKeys
  <2>3. ASSUME s.kind # "truncate", NEW q \in S
        PROVE  Matches(s.where, q, g) <=> Matches(s.where, q, {})
    <3>1. ValidWhere(rule, setup.keys, s.where)
      BY <1>2, <1>3, <2>3, Zenon DEF ValidStmt
    <3>2. PICK l \in setup.keys : l.v = q.k /\ Place(l) = t
      BY DEF Homes
    <3>3. q.k = l.v /\ getTableIndexByValue(rule, l) = t
      BY <3>2 DEF Place
    <3> QED BY <1>2, <3>1, <3>3, GroupMatches
  <2> HIDE DEF u, g, KT, S
  <2>4. /\ ~Refused(s, S, AllKeys) /\ ~Refused(s, Rows, KT)
        /\ s.kind # "truncate" => Hit(s, S, AllKeys, g) = Hit(s, Rows, KT, {})
        /\ After(s, Rows, KT, {}) = (Rows \ S) \cup After(s, S, AllKeys, g)
    <3>1. SameMatches(s, S, g)
      BY <2>3, Zenon DEF SameMatches
    <3>2. ByWhere(s)
      BY <1>3, <2>2 DEF ByWhere
    <3>3. PartOf(Rows, S, AllKeys, KT)
      BY <1>1
    <3> QED BY <3>1, <3>2, <3>3, WhereAtTable
  <2>5. After(s, S, AllKeys, g) \subseteq [k : KT, val : Vals]
    <3>1. s.kind \notin {"insert", "replace"}
      BY <1>3
    <3>2. s.kind \in {"select", "delete", "truncate", "update", "insert", "replace"}
      BY <1>3
    <3>3. s.kind = "insert" => (~Refused(s, S, AllKeys) /\ ~s.onDup) \/ (s.sets = "val" /\ s.val \in Vals)
      BY <3>1
    <3>4. s.kind \in {"insert", "replace"} => NewRows(s, AllKeys) \subseteq [k : KT, val : Vals]
      BY <3>1
    <3> QED BY <1>1, <2>2, <3>2, <3>3, <3>4, RowsAfter
  <2> QED BY <2>1, <2>4, <2>5, Zenon DEF u, g, KT, S
<1>4. CASE s.kind \in {"insert", "replace"}
  <2>1. /\ {"kind", "rows"} \subseteq DOMAIN s /\ s.rows \subseteq [lit : setup.keys, val : Vals]
        /\ s.kind = "insert" => "onDup" \in DOMAIN s
        /\ s.kind = "insert" /\ s.onDup => "sets" \in DOMAIN s /\ (s.sets = "val" => "val" \in DOMAIN s)
    BY <1>2, <1>4, Zenon DEF ValidStmt
  <2>2. KT = KeysAt(rule, setup.keys, t) /\ AllKeys = Values(setup.keys)
    BY DEF KeysOf, KeysAt, AllKeys
  <2>3. /\ \A x \in DOMAIN s : x # "rows" => u[x] = s[x]
        /\ NewRows(u, AllKeys) = NewRows(s, KT)
        /\ NewRows(s, KT) \subseteq [k : KT, val : Vals]
    <3> DEFINE K == setup.keys
               KA == KeysAt(rule, K, t)
    <3>1. /\ \A x \in DOMAIN s : x # "rows" => StmtForTable(rule, s, t)[x] = s[x]
          /\ NewRows(StmtForTable(rule, s, t), Values(K)) = NewRows(s, KA)
          /\ NewRows(s, KA) \subseteq [k : KA, val : Vals]
      <4>1. /\ ValidKeys(rule, K) /\ s.kind \in {"insert", "replace"}
            /\ {"kind", "rows"} \subseteq DOMAIN s /\ s.rows \subseteq [lit : K, val : Vals]
        BY <1>2, <1>4, <2>1, Zenon
      <4> HIDE DEF K, g, S, KT, u
      <4>2. \A x \in DOMAIN s : x # "rows" => StmtForTable(rule, s, t)[x] = s[x]
        BY <4>1, StmtAtTable
      <4>3. /\ NewRows(StmtForTable(rule, s, t), Values(K)) = NewRows(s, KA)
            /\ NewRows(s, KA) \subseteq [k : KA, val : Vals]
        BY <4>1, StmtAtTable
      <4> QED BY <4>2, <4>3, Zenon
    <3> HIDE DEF KT, KA
    <3>2. KT = KA /\ AllKeys = Values(K)
      BY <2>2, Zenon DEF KA
    <3> QED BY <3>1, <3>2, Zenon
  <2> HIDE DEF u, g, KT, S
  <2>4. s.kind = "insert" /\ s.onDup => s.sets = "val" /\ s.val \in Vals
    BY DEF KeepsKeys
  <2>5. u.kind = s.kind /\ u.kind \in {"insert", "replace"}
    BY <1>4, <2>1, <2>3
  <2>6. s.kind = "insert" => u.onDup = s.onDup /\ (s.onDup => s.sets = "val" /\ u.sets = s.sets /\ u.val = s.val)
    BY <2>1, <2>3, <2>4
  <2>7. /\ Refused(u, S, AllKeys) <=> Refused(s, Rows, KT)
        /\ ~Refused(s, Rows, KT) => After(s, Rows, KT, {}) = (Rows \ S) \cup After(u, S, AllKeys, g)
    BY <1>1, <1>4, <2>3, <2>5, <2>6, RowsAtTable
  <2>8. ~Refused(u, S, AllKeys) => After(u, S, AllKeys, g) \subseteq [k : KT, val : Vals]
    <3> SUFFICES ASSUME ~Refused(u, S, AllKeys) PROVE After(u, S, AllKeys, g) \subseteq [k : KT, val : Vals]
      OBVIOUS
    <3>1. u.kind \in {"select", "delete", "truncate", "update", "insert", "replace"} /\ u.kind # "update"
      BY <2>5
    <3>2. u.kind = "insert" => (~Refused(u, S, AllKeys) /\ ~u.onDup) \/ (u.sets = "val" /\ u.val \in Vals)
      BY <2>4, <2>5, <2>6
    <3>3. u.kind \in {"insert", "replace"} => NewRows(u, AllKeys) \subseteq [k : KT, val : Vals]
      BY <2>3
    <3>4. u.kind = "update" => u.sets = "val" /\ u.val \in Vals
      BY <3>1
    <3> QED BY <1>1, <3>1, <3>2, <3>3, <3>4, RowsAfter
  <2> QED BY <1>4, <2>5, <2>7, <2>8 DEF u, g, KT, S
<1> QED BY <1>2, <1>3, <1>4, Zenon DEF ValidStmt
-----------------------------------------------------------------------------
(* The inductive invariant. *)

(* Nothing is left to execute for a client without statements at nodes.    *)
LEMMA NothingLeft ==
    ASSUME NEW c, sqls[c] = <<>>
    PROVE  Remaining(c) = {} /\ Once(c)
<1>1. DOMAIN sqls[c] = {}
  OBVIOUS
<1> QED BY <1>1 DEF Remaining, Once

(* The invariant holds when the proxy has started.                         *)
LEMMA InitHolds ==
    ASSUME Init
    PROVE  IInv
<1>1. /\ which \in DOMAIN Setups /\ NewRouterOk(setup.schema, setup.cfg)
      /\ rule = parseRule(setup.cfg)
  BY DEF Init, setup
<1>2. ValidSetup(setup)
  BY <1>1, ShardedTableAssumption DEF setup
<1>3. store = [t \in Tables |-> {r \in setup.rows : t \in IndexOf(rule, {l \in setup.keys : l.v = r.k})}]
  BY DEF Init
<1>4. setup.rows \subseteq Row
  BY <1>2 DEF ValidSetup, Row, AllKeys
<1>5. store \in [Tables -> SUBSET Row]
  BY <1>3, <1>4
<1>6. /\ stmt \in [Clients -> setup.stmts \cup {Idle}] /\ failed \in [Clients -> BOOLEAN]
      /\ DOMAIN sqls = Clients /\ ans \in [Clients -> SUBSET Row]
      /\ DOMAIN out = Clients /\ visited \in [Clients -> SUBSET Tables]
  BY DEF Init
<1>7. \A c \in Clients : /\ stmt[c] = Idle /\ visited[c] = {} /\ ans[c] = {} /\ sqls[c] = <<>>
  BY DEF Init
<1>8. TypeOK
  <2>1. \A c \in Clients : \A n \in DOMAIN sqls[c] : sqls[c][n] \in Seq(Int)
    BY <1>7
  <2> QED BY <1>1, <1>2, <1>5, <1>6, <2>1 DEF TypeOK
<1>9. Homes
  <2> SUFFICES ASSUME NEW t \in Tables, NEW q \in store[t]
               PROVE  \E l \in setup.keys : l.v = q.k /\ Place(l) = t
    BY DEF Homes
  <2>1. t \in IndexOf(rule, {l \in setup.keys : l.v = q.k})
    BY <1>3
  <2> QED BY <2>1 DEF IndexOf, Place
<1>10. ASSUME NEW c \in Clients PROVE ClientInv(c)
  <2>1. Remaining(c) = {} /\ Once(c)
    BY <1>7, NothingLeft
  <2> QED BY <1>7, <2>1 DEF ClientInv, Reached
<1> QED BY <1>8, <1>9, <1>10 DEF IInv

(* What is read off the rule and the setup stays as they do.               *)
LEMMA FixedSetup ==
    ASSUME Fixed
    PROVE  /\ setup' = setup /\ Tables' = Tables /\ AllKeys' = AllKeys /\ Row' = Row
           /\ Domain' = Domain
           /\ \A l : Place(l)' = Place(l)
           /\ \A T : KeysOf(T)' = KeysOf(T)
<1>1. setup' = setup /\ rule' = rule
  BY DEF Fixed, setup
<1> QED BY <1>1 DEF Tables, AllKeys, Row, Domain, Place, KeysOf

(* A step of one client changes nothing for another.                       *)
LEMMA OtherClient ==
    ASSUME Fixed, NEW d, ClientInv(d), stmt'[d] = stmt[d], sqls'[d] = sqls[d],
           failed'[d] = failed[d], ans'[d] = ans[d], visited'[d] = visited[d]
    PROVE  ClientInv(d)'
<1>1. setup' = setup /\ Tables' = Tables /\ \A l : Place(l)' = Place(l)
  BY FixedSetup
<1>2. Remaining(d)' = Remaining(d)
  BY DEF Remaining
<1>3. Once(d)'
  BY DEF ClientInv, Once
<1>4. Reached(d)'
  BY <1>1, <1>2 DEF ClientInv, Reached
<1>5. /\ stmt'[d] = Idle => visited'[d] = {} /\ ans'[d] = {} /\ sqls'[d] = <<>>
      /\ Remaining(d)' # {} => KeepsKeys(stmt'[d])
  BY <1>2 DEF ClientInv
<1> QED BY <1>3, <1>4, <1>5 DEF ClientInv

(* handleQuery: what a plan sends to the nodes reaches every row that the  *)
(* statement touches, unless the statement fails.                          *)
LEMMA SubmitHolds ==
    ASSUME IInv, NEW c \in Clients, Submit(c)
    PROVE  IInv'
<1>1. PICK s \in setup.stmts, connected \in {TRUE, ~setup.lossy} :
         \E plan \in BuildPlan(rule, s) :
            /\ stmt' = [stmt EXCEPT ![c] = s]
            /\ sqls' = [sqls EXCEPT ![c] = IF connected THEN Dispatched(plan) ELSE <<>>]
            /\ failed' = [failed EXCEPT ![c] = ~connected \/ Unplanned(plan)]
  BY Zenon DEF Submit
<1>2. PICK plan \in BuildPlan(rule, s) :
         /\ stmt' = [stmt EXCEPT ![c] = s]
         /\ sqls' = [sqls EXCEPT ![c] = IF connected THEN Dispatched(plan) ELSE <<>>]
         /\ failed' = [failed EXCEPT ![c] = ~connected \/ Unplanned(plan)]
  BY <1>1, Zenon
<1>3. /\ Fixed /\ stmt[c] = Idle
      /\ store' = store /\ ans' = ans /\ out' = out /\ visited' = visited
  BY DEF Submit, Fixed
<1>4. TypeOK /\ Homes /\ \A d \in Clients : ClientInv(d)
  BY DEF IInv
<1>5. /\ setup' = setup /\ Tables' = Tables /\ Row' = Row
      /\ \A l : Place(l)' = Place(l)
  BY <1>3, FixedSetup
<1>6. GoodRule(rule) /\ ValidKeys(rule, setup.keys) /\ ValidStmt(rule, setup.keys, s) /\ s # Idle
  BY <1>4, SetupRule DEF TypeOK, ValidSetup
<1>7. Covers(rule, setup.keys, s, Vals, plan)
  BY <1>6, PlanCovers
<1> DEFINE D == Dispatched(plan)
           E == IF connected THEN D ELSE <<>>
<1>8. /\ \A n \in DOMAIN D : Distinct(D[n])
      /\ \A n, m \in DOMAIN D : ToSet(D[n]) \cap ToSet(D[m]) # {} => n = m
      /\ D # <<>> => plan # NoPlan
      /\ ~Unplanned(plan) => /\ plan # NoPlan
                             /\ \A x \in ToSet(plan.tables) : \E n \in DOMAIN D : x \in ToSet(D[n])
  BY <1>7, DispatchedTables
<1> HIDE DEF D
<1>9. /\ \A n \in DOMAIN E : Distinct(E[n])
      /\ \A n, m \in DOMAIN E : ToSet(E[n]) \cap ToSet(E[m]) # {} => n = m
      /\ DOMAIN E # {} => plan # NoPlan
  <2>1. DOMAIN <<>> = {}
    OBVIOUS
  <2>2. E = D \/ E = <<>>
    OBVIOUS
  <2> HIDE DEF E
  <2>3. CASE E = <<>>
    BY <2>1, <2>3
  <2>4. CASE E = D /\ D # <<>>
    BY <1>8, <2>4
  <2> QED BY <2>2, <2>3, <2>4
<1>10. /\ DOMAIN sqls' = Clients /\ sqls'[c] = E /\ stmt'[c] = s
       /\ visited'[c] = {} /\ failed'[c] = (~connected \/ Unplanned(plan))
       /\ \A d \in Clients \ {c} : stmt'[d] = stmt[d] /\ sqls'[d] = sqls[d] /\ failed'[d] = failed[d]
  <2>1. DOMAIN sqls = Clients /\ DOMAIN stmt = Clients /\ DOMAIN failed = Clients
    BY <1>4 DEF TypeOK
  <2>2. visited[c] = {}
    BY <1>3, <1>4 DEF ClientInv
  <2> QED BY <1>2, <1>3, <2>1, <2>2 DEF D
<1>11. stmt' \in [Clients -> setup.stmts \cup {Idle}] /\ failed' \in [Clients -> BOOLEAN]
  <2>1. stmt \in [Clients -> setup.stmts \cup {Idle}] /\ failed \in [Clients -> BOOLEAN]
    BY <1>4 DEF TypeOK
  <2>2. (~connected \/ Unplanned(plan)) \in BOOLEAN
    BY Zenon
  <2> DEFINE b == ~connected \/ Unplanned(plan)
  <2>3. failed' = [failed EXCEPT ![c] = b] /\ b \in BOOLEAN
    BY <1>2, <2>2, Zenon
  <2> HIDE DEF b
  <2> QED BY <1>2, <2>1, <2>3
<1> HIDE DEF E
<1>12. TypeOK'
  <2>1. ASSUME NEW d \in Clients, NEW n \in DOMAIN sqls'[d] PROVE sqls'[d][n] \in Seq(Int)
    <3>1. CASE d = c
      BY <1>9, <1>10, <2>1, <3>1 DEF Distinct
    <3>2. CASE d # c
      BY <1>4, <1>10, <2>1, <3>2 DEF TypeOK
    <3> QED BY <3>1, <3>2
  <2> QED BY <1>3, <1>4, <1>5, <1>10, <1>11, <2>1 DEF TypeOK, Fixed
<1>13. Homes'
  BY <1>3, <1>4, <1>5 DEF Homes
<1>14. ASSUME NEW d \in Clients PROVE ClientInv(d)'
  <2>1. CASE d # c
    <3>1. stmt'[d] = stmt[d] /\ sqls'[d] = sqls[d] /\ failed'[d] = failed[d]
      BY <1>10, <2>1
    <3>2. ans'[d] = ans[d] /\ visited'[d] = visited[d] /\ ClientInv(d)
      BY <1>3, <1>4
    <3> QED BY <1>3, <3>1, <3>2, OtherClient
  <2>2. CASE d = c
    <3>1. Remaining(c)' = UNION {ToSet(E[n]) : n \in DOMAIN E}
      BY <1>10 DEF Remaining
    <3>2. Remaining(c)' # {} => KeepsKeys(s)
      <4>1. DOMAIN E # {} => KeepsKeys(s)
        BY <1>6, <1>9, PlanKeepsKeys
      <4>2. Remaining(c)' # {} => DOMAIN E # {}
        BY <3>1
      <4> QED BY <4>1, <4>2
    <3>3. Once(c)'
      <4>1. ASSUME NEW n \in DOMAIN E, NEW m \in DOMAIN E, NEW i \in DOMAIN E[n], NEW j \in DOMAIN E[m],
                   E[n][i] = E[m][j]
            PROVE  n = m /\ i = j
        <5>1. E[n][i] \in ToSet(E[n]) /\ E[m][j] \in ToSet(E[m])
          <6>1. \A l : \A x \in DOMAIN l : l[x] \in ToSet(l)
            BY DEF ToSet
          <6> QED BY <6>1
        <5>2. n = m
          BY <1>9, <4>1, <5>1
        <5> QED BY <1>9, <4>1, <5>2 DEF Distinct
      <4> QED BY <1>10, <4>1 DEF Once
    <3>4. Reached(c)'
      <4> SUFFICES ASSUME ~failed'[c], NEW l \in setup.keys, Place(l) \in Tables
                   PROVE  Place(l) \in Remaining(c)' \/ Untouched(s, l.v, Vals)
        BY <1>5, <1>10 DEF Reached
      <4>1. connected /\ ~Unplanned(plan)
        BY <1>10, Zenon
      <4>2. E = D
        BY <4>1 DEF E
      <4>3. Place(l) \in ToSet(plan.tables) \/ Untouched(s, l.v, Vals)
        BY <1>7, <1>8, <4>1 DEF Covers, Place, Tables
      <4> QED BY <1>8, <3>1, <4>1, <4>2, <4>3
    <3> QED BY <1>6, <1>10, <2>2, <3>2, <3>3, <3>4 DEF ClientInv
  <2> QED BY <2>1, <2>2
<1> QED BY <1>12, <1>13, <1>14 DEF IInv

(* The reply forgets the statement.                                        *)
LEMMA ReplyHolds ==
    ASSUME IInv, NEW c \in Clients, Reply(c)
    PROVE  IInv'
<1>1. Fixed /\ store' = store
  BY DEF Reply, Fixed
<1>2. TypeOK /\ Homes /\ \A d \in Clients : ClientInv(d)
  BY DEF IInv
<1>3. /\ setup' = setup /\ Tables' = Tables /\ Row' = Row
      /\ \A l : Place(l)' = Place(l)
  BY <1>1, FixedSetup
<1>4. /\ DOMAIN sqls = Clients /\ stmt \in [Clients -> setup.stmts \cup {Idle}]
      /\ failed \in [Clients -> BOOLEAN] /\ ans \in [Clients -> SUBSET Row]
      /\ visited \in [Clients -> SUBSET Tables] /\ DOMAIN out = Clients
  BY <1>2 DEF TypeOK
<1>5. /\ stmt' = [stmt EXCEPT ![c] = Idle] /\ sqls' = [sqls EXCEPT ![c] = <<>>]
      /\ failed' = [failed EXCEPT ![c] = FALSE] /\ ans' = [ans EXCEPT ![c] = {}]
      /\ visited' = [visited EXCEPT ![c] = {}] /\ DOMAIN out' = Clients
  BY <1>4 DEF Reply
<1>6. /\ DOMAIN sqls' = Clients /\ stmt' \in [Clients -> setup.stmts \cup {Idle}]
      /\ failed' \in [Clients -> BOOLEAN] /\ ans' \in [Clients -> SUBSET Row]
      /\ visited' \in [Clients -> SUBSET Tables]
  BY <1>4, <1>5
<1>7. stmt'[c] = Idle /\ sqls'[c] = <<>> /\ ans'[c] = {} /\ visited'[c] = {}
  BY <1>4, <1>5
<1>8. \A d \in Clients \ {c} :
         /\ stmt'[d] = stmt[d] /\ sqls'[d] = sqls[d] /\ failed'[d] = failed[d]
         /\ ans'[d] = ans[d] /\ visited'[d] = visited[d]
  BY <1>4, <1>5
<1>9. TypeOK'
  <2>1. \A d \in Clients : \A n \in DOMAIN sqls'[d] : sqls'[d][n] \in Seq(Int)
    BY <1>2, <1>7, <1>8 DEF TypeOK
  <2> QED BY <1>1, <1>2, <1>3, <1>5, <1>6, <2>1 DEF TypeOK, Fixed
<1>10. Homes'
  BY <1>1, <1>2, <1>3 DEF Homes
<1>11. ASSUME NEW d \in Clients PROVE ClientInv(d)'
  <2>1. CASE d # c
    <3>1. /\ stmt'[d] = stmt[d] /\ sqls'[d] = sqls[d] /\ failed'[d] = failed[d]
          /\ ans'[d] = ans[d] /\ visited'[d] = visited[d] /\ ClientInv(d)
      BY <1>2, <1>8, <2>1
    <3> QED BY <1>1, <3>1, OtherClient
  <2>2. CASE d = c
    <3>1. DOMAIN sqls'[c] = {}
      BY <1>7
    <3>2. Remaining(c)' = {} /\ Once(c)'
      BY <3>1 DEF Remaining, Once
    <3> QED BY <1>7, <2>2, <3>2 DEF ClientInv, Reached
  <2> QED BY <2>1, <2>2
<1> QED BY <1>9, <1>10, <1>11 DEF IInv

(* A node refuses or loses a statement, or it takes effect once.           *)
LEMMA ExecuteCases ==
    ASSUME IInv, NEW c \in Clients, NEW n, Execute(c, n)
    PROVE  /\ Fixed /\ stmt' = stmt /\ out' = out
           /\ n \in DOMAIN sqls[c] /\ sqls[c][n] \in Seq(Int) /\ sqls[c][n] # <<>>
           /\ sqls' = [sqls EXCEPT ![c] = [sqls[c] EXCEPT ![n] = Tail(sqls[c][n])]]
           /\ stmt[c] \in setup.stmts /\ stmt[c] # Idle /\ KeepsKeys(stmt[c])
           /\ NextTable(c, n) \notin visited[c]
           /\ failed' \in [Clients -> BOOLEAN] /\ \A d \in Clients \ {c} : failed'[d] = failed[d]
           /\ failed[c] => failed'[c]
           /\ \/ TookEffect(c, NextTable(c, n))
              \/ failed'[c] /\ store' = store /\ visited' = visited /\ ans' = ans
<1> DEFINE l == sqls[c][n]
           t == NextTable(c, n)
<1>1. TypeOK /\ ClientInv(c)
  BY DEF IInv
<1>2. n \in DOMAIN sqls[c] /\ l \in Seq(Int) /\ l # <<>>
  BY <1>1 DEF Execute, TypeOK
<1>3. Fixed /\ stmt' = stmt /\ out' = out /\ sqls' = [sqls EXCEPT ![c] = [sqls[c] EXCEPT ![n] = Tail(l)]]
  BY DEF Execute, Fixed
<1>4. stmt[c] # Idle
  <2>1. sqls[c] # <<>>
    <3>1. DOMAIN <<>> = {}
      OBVIOUS
    <3> QED BY <1>2, <3>1
  <2> QED BY <1>1, <2>1 DEF ClientInv
<1>5. stmt[c] \in setup.stmts
  BY <1>1, <1>4 DEF TypeOK
<1>6. 1 \in DOMAIN l /\ t = l[1]
  BY <1>2 DEF NextTable
<1>7. KeepsKeys(stmt[c]) /\ t \notin visited[c]
  <2>1. t \in ToSet(l)
    BY <1>6 DEF ToSet
  <2>2. Remaining(c) # {}
    BY <1>2, <2>1 DEF Remaining
  <2> QED BY <1>1, <1>2, <1>6, <2>2 DEF ClientInv, Once
<1>8. failed \in [Clients -> BOOLEAN]
  BY <1>1 DEF TypeOK
<1> DEFINE u == StmtForTable(rule, stmt[c], t)
           acc == Exists(n, t) /\ ~Refused(u, store[t], AllKeys)
<1>9. \/ /\ acc /\ TookEffect(c, t)
         /\ \E lost \in {FALSE, setup.lossy} : failed' = [failed EXCEPT ![c] = @ \/ lost]
      \/ /\ failed' = [failed EXCEPT ![c] = TRUE] /\ store' = store /\ visited' = visited /\ ans' = ans
  BY Zenon DEF Execute, TookEffect, NextTable, Exists
<1>10. CASE failed' = [failed EXCEPT ![c] = TRUE] /\ store' = store /\ visited' = visited /\ ans' = ans
  <2>1. /\ failed' \in [Clients -> BOOLEAN] /\ failed'[c]
        /\ \A d \in Clients \ {c} : failed'[d] = failed[d]
    BY <1>8, <1>10
  <2> QED BY <1>2, <1>3, <1>4, <1>5, <1>7, <1>10, <2>1
<1>11. CASE /\ TookEffect(c, t)
            /\ \E lost \in {FALSE, setup.lossy} : failed' = [failed EXCEPT ![c] = @ \/ lost]
  <2>1. PICK lost \in {FALSE, setup.lossy} : failed' = [failed EXCEPT ![c] = @ \/ lost]
    BY <1>11, Zenon
  <2>2. lost \in BOOLEAN
    BY <1>1, Zenon DEF TypeOK, ValidSetup
  <2>3. /\ failed' \in [Clients -> BOOLEAN] /\ (failed[c] => failed'[c])
        /\ \A d \in Clients \ {c} : failed'[d] = failed[d]
    <3> DEFINE b == failed[c] \/ lost
    <3>1. failed' = [failed EXCEPT ![c] = b] /\ b \in BOOLEAN /\ (failed[c] => b)
      BY <2>1, Zenon
    <3> HIDE DEF b
    <3> QED BY <1>8, <3>1
  <2>4. TookEffect(c, NextTable(c, n))
    BY <1>11
  <2> QED BY <1>2, <1>3, <1>4, <1>5, <1>7, <2>3, <2>4
<1> QED BY <1>9, <1>10, <1>11

(* What a goroutine has left when it has executed one statement.           *)
LEMMA OneLess ==
    ASSUME DOMAIN sqls = Clients, NEW c \in Clients, NEW n \in DOMAIN sqls[c],
           sqls[c][n] \in Seq(Int), sqls[c][n] # <<>>,
           sqls' = [sqls EXCEPT ![c] = [sqls[c] EXCEPT ![n] = Tail(sqls[c][n])]]
    PROVE  /\ DOMAIN sqls' = Clients /\ DOMAIN sqls'[c] = DOMAIN sqls[c]
           /\ \A d \in Clients \ {c} : sqls'[d] = sqls[d]
           /\ \A m \in DOMAIN sqls[c] \ {n} : sqls'[c][m] = sqls[c][m]
           /\ sqls'[c][n] = Tail(sqls[c][n]) /\ sqls'[c][n] \in Seq(Int)
           /\ \A i \in DOMAIN sqls'[c][n] : i + 1 \in DOMAIN sqls[c][n] /\ i + 1 # 1
                                            /\ sqls'[c][n][i] = sqls[c][n][i + 1]
           /\ \A x \in ToSet(sqls[c][n]) : x = NextTable(c, n) \/ x \in ToSet(sqls'[c][n])
           /\ NextTable(c, n) = sqls[c][n][1] /\ 1 \in DOMAIN sqls[c][n]
<1> DEFINE l == sqls[c][n]
<1>1. /\ DOMAIN sqls' = Clients /\ DOMAIN sqls'[c] = DOMAIN sqls[c]
      /\ \A d \in Clients \ {c} : sqls'[d] = sqls[d]
      /\ \A m \in DOMAIN sqls[c] \ {n} : sqls'[c][m] = sqls[c][m]
      /\ sqls'[c][n] = Tail(l)
  OBVIOUS
<1>2. l \in Seq(Int) /\ l # <<>>
  OBVIOUS
<1> HIDE DEF l
<1>3. /\ Tail(l) \in Seq(Int) /\ DOMAIN Tail(l) = 1..(Len(l) - 1) /\ DOMAIN l = 1..Len(l)
      /\ Len(l) \in Nat /\ Len(l) # 0 /\ \A i \in 1..(Len(l) - 1) : Tail(l)[i] = l[i + 1]
  BY <1>2
<1>4. /\ \A i \in DOMAIN Tail(l) : i + 1 \in DOMAIN l /\ i + 1 # 1 /\ Tail(l)[i] = l[i + 1]
      /\ 1 \in DOMAIN l /\ Head(l) = l[1]
  BY <1>2, <1>3
<1>5. ASSUME NEW x \in ToSet(l) PROVE x = l[1] \/ x \in ToSet(Tail(l))
  <2>1. PICK i \in 1..Len(l) : x = l[i]
    BY <1>3 DEF ToSet
  <2>2. CASE i = 1
    BY <2>1, <2>2
  <2>3. CASE i # 1
    <3>1. i - 1 \in 1..(Len(l) - 1) /\ (i - 1) + 1 = i
      BY <1>3, <2>3
    <3>2. Tail(l)[i - 1] = x
      BY <1>3, <2>1, <3>1
    <3> QED BY <1>3, <3>1, <3>2 DEF ToSet
  <2> QED BY <2>2, <2>3
<1> QED BY <1>1, <1>3, <1>4, <1>5 DEF l, NextTable

(* executeInMultiNodes: the goroutines go on to the tables that are left,  *)
(* and the rows stay in the table of their key.                            *)
LEMMA ExecuteHolds ==
    ASSUME IInv, NEW c \in Clients, NEW n, Execute(c, n)
    PROVE  IInv'
<1> DEFINE t == NextTable(c, n)
           s == stmt[c]
           u == StmtForTable(rule, s, t)
           g == rewriteWhereIn(rule, s, t)
           new == After(u, store[t], AllKeys, g)
<1>1. TypeOK /\ Homes /\ \A d \in Clients : ClientInv(d)
  BY DEF IInv
<1>2. /\ Fixed /\ stmt' = stmt /\ out' = out
      /\ n \in DOMAIN sqls[c] /\ sqls[c][n] \in Seq(Int) /\ sqls[c][n] # <<>>
      /\ sqls' = [sqls EXCEPT ![c] = [sqls[c] EXCEPT ![n] = Tail(sqls[c][n])]]
      /\ s \in setup.stmts /\ s # Idle /\ KeepsKeys(s)
      /\ t \notin visited[c]
      /\ failed' \in [Clients -> BOOLEAN] /\ \A d \in Clients \ {c} : failed'[d] = failed[d]
  BY ExecuteCases
<1>3. /\ failed[c] => failed'[c]
      /\ \/ TookEffect(c, t)
         \/ failed'[c] /\ store' = store /\ visited' = visited /\ ans' = ans
  BY ExecuteCases
<1>4. /\ setup' = setup /\ Tables' = Tables /\ Row' = Row
      /\ \A l : Place(l)' = Place(l)
  BY <1>2, FixedSetup
<1>5. /\ store \in [Tables -> SUBSET Row] /\ ans \in [Clients -> SUBSET Row]
      /\ visited \in [Clients -> SUBSET Tables] /\ DOMAIN sqls = Clients
  BY <1>1 DEF TypeOK
<1>6. /\ DOMAIN sqls' = Clients /\ DOMAIN sqls'[c] = DOMAIN sqls[c]
      /\ \A d \in Clients \ {c} : sqls'[d] = sqls[d]
      /\ \A m \in DOMAIN sqls[c] \ {n} : sqls'[c][m] = sqls[c][m]
      /\ sqls'[c][n] \in Seq(Int)
      /\ \A i \in DOMAIN sqls'[c][n] : i + 1 \in DOMAIN sqls[c][n] /\ i + 1 # 1
                                       /\ sqls'[c][n][i] = sqls[c][n][i + 1]
      /\ \A x \in ToSet(sqls[c][n]) : x = t \/ x \in ToSet(sqls'[c][n])
      /\ t = sqls[c][n][1] /\ 1 \in DOMAIN sqls[c][n]
  BY <1>2, <1>5, OneLess, Zenon
<1>7. ASSUME TookEffect(c, t)
      PROVE  /\ t \in Tables /\ new \subseteq [k : KeysOf({t}), val : Vals]
             /\ store' = [store EXCEPT ![t] = new]
             /\ visited' = [visited EXCEPT ![c] = visited[c] \cup {t}]
             /\ ans' = ans \/ ans' = [ans EXCEPT ![c] = ans[c] \cup Hit(u, store[t], AllKeys, g)]
  <2>1. /\ t \in Tables /\ ~Refused(u, store[t], AllKeys)
        /\ store' = [store EXCEPT ![t] = new]
        /\ visited' = [visited EXCEPT ![c] = visited[c] \cup {t}]
        /\ ans' = ans \/ ans' = [ans EXCEPT ![c] = ans[c] \cup Hit(u, store[t], AllKeys, g)]
    BY <1>7, Zenon DEF TookEffect
  <2>2. new \subseteq [k : KeysOf({t}), val : Vals]
    BY <1>1, <1>2, <2>1, AtSubTable, Zenon
  <2> QED BY <2>1, <2>2, Zenon
<1> HIDE DEF t, s, u, g, new
<1>8. KeysOf({t}) \subseteq AllKeys
  BY Zenon DEF KeysOf, AllKeys, Values
<1>9. /\ store' \in [Tables -> SUBSET Row] /\ ans' \in [Clients -> SUBSET Row]
      /\ visited' \in [Clients -> SUBSET Tables]
      /\ \A d \in Clients \ {c} : ans'[d] = ans[d] /\ visited'[d] = visited[d]
      /\ visited[c] \subseteq visited'[c]
  <2>1. CASE TookEffect(c, t)
    <3>1. new \in SUBSET Row
      BY <1>7, <1>8, <2>1, Zenon DEF Row
    <3>2. t \in Tables /\ Hit(u, store[t], AllKeys, g) \in SUBSET Row
      <4>1. Hit(u, store[t], AllKeys, g) \subseteq store[t]
        BY DEF Hit
      <4> QED BY <1>5, <1>7, <2>1, <4>1
    <3>3. store' \in [Tables -> SUBSET Row]
      BY <1>5, <1>7, <2>1, <3>1
    <3>4. /\ visited' \in [Clients -> SUBSET Tables] /\ visited[c] \subseteq visited'[c]
          /\ \A d \in Clients \ {c} : visited'[d] = visited[d]
      BY <1>5, <1>7, <2>1, <3>2
    <3>5. ans' \in [Clients -> SUBSET Row] /\ \A d \in Clients \ {c} : ans'[d] = ans[d]
      BY <1>5, <1>7, <2>1, <3>2
    <3> QED BY <3>3, <3>4, <3>5
  <2>2. CASE store' = store /\ visited' = visited /\ ans' = ans
    BY <1>5, <2>2
  <2> QED BY <1>3, <2>1, <2>2, Zenon
<1>10. TypeOK'
  <2>1. ASSUME NEW d \in Clients, NEW m \in DOMAIN sqls'[d] PROVE sqls'[d][m] \in Seq(Int)
    <3>1. \A e \in Clients : \A k \in DOMAIN sqls[e] : sqls[e][k] \in Seq(Int)
      BY <1>1 DEF TypeOK
    <3>2. CASE d = c /\ m = n
      BY <1>6, <3>2
    <3>3. CASE d = c /\ m # n
      BY <1>6, <2>1, <3>1, <3>3
    <3>4. CASE d # c
      BY <1>6, <2>1, <3>1, <3>4, Zenon
    <3> QED BY <3>2, <3>3, <3>4
  <2>2. rule' = rule /\ which' = which
    BY <1>2 DEF Fixed
  <2> QED BY <1>1, <1>2, <1>4, <1>6, <1>9, <2>1, <2>2 DEF TypeOK
<1>11. Homes'
  <2> SUFFICES ASSUME NEW v \in Tables, NEW q \in store'[v]
               PROVE  \E l \in setup.keys : l.v = q.k /\ Place(l) = v
    BY <1>4 DEF Homes
  <2>1. CASE q \in store[v]
    BY <1>1, <2>1 DEF Homes
  <2>2. CASE q \notin store[v]
    <3>1. TookEffect(c, t)
      BY <1>3, <2>2
    <3>2. v = t /\ q \in new
      BY <1>5, <1>7, <2>2, <3>1
    <3>3. q.k \in KeysOf({t})
      BY <1>7, <3>1, <3>2
    <3> QED BY <3>2, <3>3 DEF KeysOf, Place
  <2> QED BY <2>1, <2>2
<1>12. ASSUME NEW d \in Clients PROVE ClientInv(d)'
  <2>1. CASE d # c
    <3>1. /\ stmt'[d] = stmt[d] /\ sqls'[d] = sqls[d] /\ failed'[d] = failed[d]
          /\ ans'[d] = ans[d] /\ visited'[d] = visited[d] /\ ClientInv(d)
      BY <1>1, <1>2, <1>6, <1>9, <2>1
    <3> QED BY <1>2, <3>1, OtherClient
  <2>2. CASE d = c
    <3>0. ClientInv(c) /\ stmt'[c] = s /\ stmt[c] = s
      BY <1>1, <1>2 DEF s
    <3>1. Once(c)
      BY <3>0 DEF ClientInv
    <3>2. visited'[c] = visited[c] \/ visited'[c] = visited[c] \cup {t}
      BY <1>3, <1>5, <1>7
    <3>3. ASSUME NEW m \in DOMAIN sqls'[c], NEW i \in DOMAIN sqls'[c][m]
          PROVE  \E j \in DOMAIN sqls[c][m] :
                    /\ sqls'[c][m][i] = sqls[c][m][j] /\ sqls[c][m][j] # t
                    /\ j = IF m = n THEN i + 1 ELSE i
      <4>1. m \in DOMAIN sqls[c]
        BY <1>6
      <4>2. CASE m = n
        <5>1. i + 1 \in DOMAIN sqls[c][n] /\ i + 1 # 1 /\ sqls'[c][n][i] = sqls[c][n][i + 1]
          BY <1>6, <3>3, <4>2
        <5>2. sqls[c][n][i + 1] # t
          BY <1>2, <1>6, <3>1, <5>1 DEF Once
        <5> QED BY <4>2, <5>1, <5>2
      <4>3. CASE m # n
        <5>1. sqls'[c][m] = sqls[c][m]
          BY <1>6, <4>1, <4>3
        <5>2. i \in DOMAIN sqls[c][m] /\ sqls[c][m][i] # t
          BY <1>2, <1>6, <3>1, <3>3, <4>1, <4>3, <5>1 DEF Once
        <5> QED BY <4>3, <5>1, <5>2
      <4> QED BY <4>2, <4>3
    <3>4. Once(c)'
      <4>1. ASSUME NEW m \in DOMAIN sqls'[c], NEW i \in DOMAIN sqls'[c][m] PROVE sqls'[c][m][i] \notin visited'[c]
        <5>1. PICK j \in DOMAIN sqls[c][m] : sqls'[c][m][i] = sqls[c][m][j] /\ sqls[c][m][j] # t
          BY <3>3
        <5>2. sqls[c][m][j] \notin visited[c]
          BY <1>6, <3>1 DEF Once
        <5> QED BY <3>2, <5>1, <5>2
      <4>2. ASSUME NEW m \in DOMAIN sqls'[c], NEW i \in DOMAIN sqls'[c][m],
                   NEW k \in DOMAIN sqls'[c], NEW j \in DOMAIN sqls'[c][k],
                   sqls'[c][m][i] = sqls'[c][k][j]
            PROVE  m = k /\ i = j
        <5>1. PICK x \in DOMAIN sqls[c][m] : sqls'[c][m][i] = sqls[c][m][x] /\ x = IF m = n THEN i + 1 ELSE i
          BY <3>3
        <5>2. PICK y \in DOMAIN sqls[c][k] : sqls'[c][k][j] = sqls[c][k][y] /\ y = IF k = n THEN j + 1 ELSE j
          BY <3>3
        <5>3. m = k /\ x = y
          <6>1. sqls[c][m][x] = sqls[c][k][y] /\ m \in DOMAIN sqls[c] /\ k \in DOMAIN sqls[c]
            BY <1>6, <4>2, <5>1, <5>2, Zenon
          <6> QED BY <3>1, <6>1 DEF Once
        <5>4. CASE m = n
          <6>1. i \in Int /\ j \in Int
            BY <1>6, <5>3, <5>4
          <6> QED BY <5>1, <5>2, <5>3, <5>4, <6>1
        <5>5. CASE m # n
          BY <5>1, <5>2, <5>3, <5>5
        <5> QED BY <5>4, <5>5
      <4> QED BY <4>1, <4>2 DEF Once
    <3>5. ASSUME NEW x \in Remaining(c)' PROVE x \in Remaining(c)
      <4>1. PICK m \in DOMAIN sqls'[c] : x \in ToSet(sqls'[c][m])
        BY DEF Remaining
      <4>2. PICK i \in DOMAIN sqls'[c][m] : x = sqls'[c][m][i]
        BY <4>1 DEF ToSet
      <4>3. PICK j \in DOMAIN sqls[c][m] : x = sqls[c][m][j]
        BY <3>3, <4>2
      <4>4. x \in ToSet(sqls[c][m]) /\ m \in DOMAIN sqls[c]
        BY <1>6, <4>3 DEF ToSet
      <4> QED BY <4>4 DEF Remaining
    <3>6. ASSUME NEW x \in Remaining(c) PROVE x = t \/ x \in Remaining(c)'
      <4>1. PICK m \in DOMAIN sqls[c] : x \in ToSet(sqls[c][m])
        BY DEF Remaining
      <4>2. x = t \/ x \in ToSet(sqls'[c][m])
        BY <1>6, <4>1
      <4> QED BY <1>6, <4>1, <4>2 DEF Remaining
    <3>7. Reached(c)'
      <4> SUFFICES ASSUME ~failed'[c], NEW l \in setup.keys, Place(l) \in Tables
                   PROVE  Place(l) \in visited'[c] \cup Remaining(c)' \/ Untouched(s, l.v, Vals)
        BY <1>4, <3>0 DEF Reached
      <4>1. TookEffect(c, t) /\ ~failed[c]
        BY <1>3
      <4>2. visited'[c] = visited[c] \cup {t}
        BY <1>5, <1>7, <4>1
      <4>3. Place(l) \in visited[c] \cup Remaining(c) \/ Untouched(s, l.v, Vals)
        BY <1>2, <3>0, <4>1 DEF ClientInv, Reached
      <4> QED BY <3>6, <4>2, <4>3
    <3>8. Remaining(c)' # {} => KeepsKeys(s)
      BY <1>2
    <3> QED BY <1>2, <2>2, <3>0, <3>4, <3>7, <3>8 DEF ClientInv
  <2> QED BY <2>1, <2>2
<1> QED BY <1>10, <1>11, <1>12 DEF IInv

(* Every step of the proxy, the nodes and the clients keeps the invariant. *)
LEMMA NextHolds ==
    ASSUME IInv, [Next]_vars
    PROVE  IInv'
<1>1. CASE UNCHANGED vars
  <2>1. Fixed /\ store' = store /\ out' = out
    BY <1>1 DEF vars, Fixed
  <2>2. stmt' = stmt /\ sqls' = sqls /\ failed' = failed /\ ans' = ans /\ visited' = visited
    BY <1>1 DEF vars
  <2>3. /\ setup' = setup /\ Tables' = Tables /\ Row' = Row
        /\ \A l : Place(l)' = Place(l)
    BY <2>1, FixedSetup
  <2>4. TypeOK /\ Homes /\ \A d \in Clients : ClientInv(d)
    BY DEF IInv
  <2>5. TypeOK'
    BY <2>1, <2>2, <2>3, <2>4 DEF TypeOK, Fixed
  <2>6. Homes'
    BY <2>1, <2>3, <2>4 DEF Homes
  <2>7. \A d \in Clients : ClientInv(d)'
    BY <2>1, <2>2, <2>4, OtherClient
  <2> QED BY <2>5, <2>6, <2>7 DEF IInv
<1>2. CASE Next
  <2>1. PICK c \in Clients : Submit(c) \/ Reply(c) \/ \E n \in DOMAIN sqls[c] : Execute(c, n)
    BY <1>2, Zenon DEF Next, Steps
  <2> QED BY <2>1, SubmitHolds, ReplyHolds, ExecuteHolds
<1> QED BY <1>1, <1>2

(* The invariant holds in every behaviour.                                 *)
THEOREM Invariance == Spec => []IInv
<1>1. Init => IInv
  BY InitHolds
<1>2. IInv /\ [Next]_vars => IInv'
  BY NextHolds
<1> QED BY <1>1, <1>2, PTL DEF Spec

(* FindForKey: every row is in the sub-table that a lookup of its key goes *)
(* to, for every rule, whatever clients write and nodes lose.              *)
THEOREM RowsPlaced == Spec => []Placed
<1>1. IInv => Placed
  <2> SUFFICES ASSUME IInv, NEW t \in Tables, NEW q \in store[t]
               PROVE  \E l \in setup.keys : l.v = q.k /\ FindForKey(rule, l) = t
    BY DEF Placed
  <2>1. TypeOK /\ Homes
    BY DEF IInv
  <2>2. PICK l \in setup.keys : l.v = q.k /\ Place(l) = t
    BY <2>1 DEF Homes
  <2>3. GoodRule(rule) /\ t \in Nat
    <3>1. GoodRule(rule)
      BY <2>1, SetupRule
    <3> QED BY <3>1 DEF GoodRule, Tables
  <2>4. Place(l) # Err
    BY <2>2, <2>3 DEF Err
  <2> QED BY <2>2, <2>4 DEF Place, getTableIndexByValue
<1> QED BY <1>1, Invariance, PTL

(* parseRule: a rule that NewRouter accepts lists its sub-tables in        *)
(* increasing order and gives each of them to one of its nodes.            *)
THEOREM RuleStaysInOrder == Spec => []RuleInOrder
<1>1. IInv => RuleInOrder
  <2> SUFFICES ASSUME IInv PROVE RuleInOrder
    OBVIOUS
  <2>1. /\ GoodRule(rule)
        /\ \A t \in Tables : rule.tableToNode[t] \in 0..(Len(rule.nodes) - 1)
    BY SetupRule DEF IInv
  <2>2. Increasing(rule.subTables) /\ Len(rule.subTables) \in Nat
    BY <2>1 DEF GoodRule, Increasing
  <2>3. ASSUME NEW i \in 1..(Len(rule.subTables) - 1)
        PROVE  rule.subTables[i] < rule.subTables[i + 1]
    <3>1. i \in 1..Len(rule.subTables) /\ i + 1 \in 1..Len(rule.subTables) /\ i < i + 1
      BY <2>2
    <3> QED BY <2>2, <3>1 DEF Increasing
  <2> QED BY <2>1, <2>3 DEF RuleInOrder
<1> QED BY <1>1, Invariance, PTL
=============================================================================
