------------------------------ MODULE RoutePlan ------------------------------
(***************************************************************************)
(* Plans of the router: which sub-tables a statement is sent to            *)
(* (planbuilder.go), and which nodes get which of the rewritten statements *)
(* (router.go).                                                            *)
(*                                                                         *)
(* A list of table indices that a Go function returns is a sequence; with  *)
(* the error result it is [ok, l].  A panic in the code below handleQuery  *)
(* is recovered there and is an error for the client, so it is ok = FALSE  *)
(* here as well.  The default rule does not get here: preHandleShard sends *)
(* a table without a rule to the default node as it is.                    *)
(***************************************************************************)
EXTENDS Shards, SqlTable

Some(l) == [ok |-> TRUE, l |-> l]
Failed == [ok |-> FALSE, l |-> <<>>]
-----------------------------------------------------------------------------
(* Lists of indices, all in increasing order. *)

makeList(start, end) == [i \in 1..(end - start) |-> start + i - 1]

(* Positions of value in indexes.                                          *)
At(value, indexes) == {i \in DOMAIN indexes : indexes[i] = value}

makeLeList(value, indexes) ==
    IF At(value, indexes) = {} THEN <<>>
    ELSE SubSeq(indexes, 1, Min(At(value, indexes)))

makeGeList(value, indexes) ==
    IF At(value, indexes) = {} THEN <<>>
    ELSE SubSeq(indexes, Min(At(value, indexes)), Len(indexes))

makeBetweenList(start, end, indexes) ==
    IF At(start, indexes) = {} \/ At(end, indexes) = {} THEN <<>>
    ELSE SubSeq(indexes, Min(At(start, indexes)), Min(At(end, indexes)))

(* One turn of the loop over two lists, of which i - 1 and j - 1 elements   *)
(* are done: what is only in l1, in both, or only in l2 goes to l if the   *)
(* set keep has "first", "both" or "second".                               *)
MergeTurn(l1, l2, keep, m) ==
    LET x == l1[m.i]
        y == l2[m.j]
        Keep(what, z) == IF what \in keep THEN Append(m.l, z) ELSE m.l
    IN  IF m.i > Len(l1) \/ m.j > Len(l2) THEN m
        ELSE IF x < y THEN [i |-> m.i + 1, j |-> m.j, l |-> Keep("first", x)]
        ELSE IF x > y THEN [i |-> m.i, j |-> m.j + 1, l |-> Keep("second", y)]
        ELSE [i |-> m.i + 1, j |-> m.j + 1, l |-> Keep("both", x)]

(* The loop, and the rest of the list that is not at its end.              *)
Merged(l1, l2, keep) ==
    LET turn[k \in 0..(Len(l1) + Len(l2))] ==
            IF k = 0 THEN [i |-> 1, j |-> 1, l |-> <<>>]
            ELSE MergeTurn(l1, l2, keep, turn[k - 1])
        m == turn[Len(l1) + Len(l2)]
    IN  m.l \o (IF "first" \in keep THEN SubSeq(l1, m.i, Len(l1)) ELSE <<>>)
            \o (IF "second" \in keep THEN SubSeq(l2, m.j, Len(l2)) ELSE <<>>)

interList(l1, l2) == Merged(l1, l2, {"both"})

unionList(l1, l2) == Merged(l1, l2, {"first", "both", "second"})

differentList(l1, l2) == Merged(l1, l2, {"first"})

notList(rule, l) == differentList(rule.subTables, l)
-----------------------------------------------------------------------------
(* From a condition on the key to tables. *)

getTableIndexByValue(rule, lit) ==
    IF lit.form = "bad" THEN Err ELSE FindForKey(rule, lit)

IndexOf(rule, lits) == {getTableIndexByValue(rule, l) : l \in lits}

getTableIndexsByTuple(rule, lits) ==
    IF Err \in IndexOf(rule, lits) THEN Failed
    ELSE Some(Ascending(IndexOf(rule, lits)))

(* -1 where the code panics with "invalid range sharding".                 *)
adjustShardIndex(rule, lit, index) ==
    IF rule.type = "range" /\ EqualStart(rule, lit, index) THEN index - 1 ELSE index

(* Mutant: literal and key in either order are treated alike.              *)
KeyBelowUnreversed(w) == w.op \in {"<", "<="}

(* The comparison bounds the key from above: key < v, or v > key.          *)
KeyBelow(w) == w.op \in (IF w.rev THEN {">", ">="} ELSE {"<", "<="})

OneTable(rule, w) ==
    LET index == getTableIndexByValue(rule, w.lit)
    IN  IF index = Err THEN Failed ELSE Some(<<index>>)

getHashShardTableIndex(rule, w) ==
    CASE w.op \in {"=", "<=>"} -> OneTable(rule, w)
      [] w.op = "in" -> getTableIndexsByTuple(rule, w.lits)
      [] OTHER -> Some(rule.subTables)

RangeCompare(rule, w) ==
    LET index == getTableIndexByValue(rule, w.lit)
        last == IF w.op \in {"<", ">"} THEN adjustShardIndex(rule, w.lit, index)
                ELSE index
    IN  IF index = Err THEN Failed
        ELSE IF ~KeyBelow(w) THEN Some(makeList(index, Len(rule.subTables)))
        ELSE IF last < 0 THEN Failed ELSE Some(makeList(0, last + 1))

RangeBetween(rule, w) ==
    LET from == getTableIndexByValue(rule, w.from)
        to == getTableIndexByValue(rule, w.to)
        swap == to < from
        start == IF swap THEN to ELSE from
        last == IF swap THEN from ELSE to
        below == adjustShardIndex(rule, IF swap THEN w.to ELSE w.from, start)
    IN  IF Err \in {from, to} THEN Failed
        ELSE IF w.op = "between" THEN Some(makeList(start, last + 1))
        ELSE IF below < 0 THEN Failed
        ELSE Some(unionList(makeList(0, below + 1),
                            makeList(last, Len(rule.subTables))))

getRangeShardTableIndex(rule, w) ==
    CASE w.op \in {"=", "<=>"} -> OneTable(rule, w)
      [] w.op = "in" -> getTableIndexsByTuple(rule, w.lits)
      [] w.op = "not in" -> Some(rule.subTables)
      [] w.op \in {"between", "not between"} -> RangeBetween(rule, w)
      [] OTHER -> RangeCompare(rule, w)

DateCompare(rule, w) ==
    LET index == getTableIndexByValue(rule, w.lit)
    IN  IF index = Err THEN Failed
        ELSE Some(IF KeyBelow(w) THEN makeLeList(index, rule.subTables)
                  ELSE makeGeList(index, rule.subTables))

DateBetween(rule, w) ==
    LET ends == {getTableIndexByValue(rule, w.from), getTableIndexByValue(rule, w.to)}
        l == makeBetweenList(Min(ends), Max(ends), rule.subTables)
    IN  IF Err \in ends THEN Failed
        ELSE Some(IF w.op = "between" THEN l ELSE notList(rule, l))

getDateShardTableIndex(rule, w) ==
    LET tuple == getTableIndexsByTuple(rule, w.lits)
    IN  CASE w.op \in {"=", "<=>"} -> OneTable(rule, w)
          [] w.op = "in" -> tuple
          [] w.op = "not in" -> IF tuple.ok THEN Some(notList(rule, tuple.l)) ELSE Failed
          [] w.op \in {"between", "not between"} -> DateBetween(rule, w)
          [] OTHER -> DateCompare(rule, w)

getTableIndexs(rule, w) ==
    CASE rule.type = "hash"  -> getHashShardTableIndex(rule, w)
      [] rule.type = "range" -> getRangeShardTableIndex(rule, w)
      [] OTHER               -> getDateShardTableIndex(rule, w)
-----------------------------------------------------------------------------
(* The whole WHERE expression. *)

(* Operators on the key that choose tables; anything else means all.       *)
Routed(w) ==
    w.op \in (Comparisons \ {"!="}) \cup {"in", "not in", "between", "not between"}

(* getTableIndexsByTuple ran for this condition and set the value groups.  *)
SetsGroups(rule, w) ==
    w.op = "in" \/ (w.op = "not in" /\ rule.type \in DateTypes)

(* The tables of the node x, whose operands have the tables a and b.       *)
TablesFor(rule, x, a, b) ==
    CASE x.op = "and" -> [ok |-> a.ok /\ b.ok, l |-> interList(a.l, b.l)]
      [] x.op = "or"  -> [ok |-> a.ok /\ b.ok, l |-> unionList(a.l, b.l)]
      [] Routed(x) -> getTableIndexs(rule, x)
      [] OTHER -> Some(rule.subTables)

(* The walk down AND and OR; the rest of the tree is not looked at.        *)
getTableIndexByBoolExpr(rule, w) ==
    LET visit[i \in DOMAIN w] ==
            TablesFor(rule, w[i], visit[LeftOf(w, i)], visit[i - 1])
    IN  visit[Len(w)]

(* The literals of the last tuple that was grouped by table.               *)
SubTableValueGroups(rule, w) ==
    w[Max({i \in Positive(w) : SetsGroups(rule, w[i])})].lits

(* The literals that replace the last IN's list in the SELECT for table t. *)
rewriteWhereIn(rule, s, t) ==
    IF s.kind # "select" \/ LastIn(s.where) = 0 THEN {}
    ELSE {l \in SubTableValueGroups(rule, s.where) : getTableIndexByValue(rule, l) = t}
-----------------------------------------------------------------------------
(* What the router gets right. *)

(* Two spellings of a value are one key, and go to one table.              *)
ValidKeys(r, K) ==
    /\ IsFiniteSet(K)
    /\ \A l \in K : /\ l.v \in Int
                    /\ r.type \in DateTypes => l.v \in Nat
                    /\ r.type = "hash" => HashValue(l) \in Nat
    /\ \A l, m \in K : l.v = m.v => getTableIndexByValue(r, l) = getTableIndexByValue(r, m)

(* The conditions on the key that the router gets right: a date rule drops *)
(* whole tables for NOT IN and NOT BETWEEN, and a range rule takes the     *)
(* ends of NOT BETWEEN in either order.                                    *)
ValidCondition(r, K, x) ==
    \/ x.op = "other"
    \/ x.op \in Comparisons /\ x.lit \in K /\ x.rev \in BOOLEAN
    \/ x.op = "in" /\ x.lits \subseteq K
    \/ x.op = "between" /\ x.from \in K /\ x.to \in K
    \/ x.op = "not in" /\ x.lits \subseteq K /\ r.type \notin DateTypes
    \/ /\ x.op = "not between" /\ x.from \in K /\ x.to \in K
       /\ x.from.v <= x.to.v /\ r.type \notin DateTypes

(* The literal has a table, or none can be looked up for it.               *)
Known(r, lit) == getTableIndexByValue(r, lit) \in {Err} \cup ToSet(r.subTables)

(* A WHERE of such conditions; under OR a date rule forgets a bound it has *)
(* no table for.                                                           *)
ValidWhere(r, K, w) ==
    /\ w \in Seq(ToSet(w))
    /\ \A i \in DOMAIN w :
          \/ w[i].op \in {"and", "or"} /\ w[i].size \in 1..(i - 2)
          \/ w[i].op = "not" /\ w[i].size \in 1..(i - 1)
          \/ ValidCondition(r, K, w[i])
    /\ (r.type \in DateTypes /\ \E i \in DOMAIN w : w[i].op = "or") =>
       \A i \in DOMAIN w :
          /\ w[i].op \in {"<", "<=", ">", ">="} => Known(r, w[i].lit)
          /\ w[i].op = "between" => Known(r, w[i].from) /\ Known(r, w[i].to)

-----------------------------------------------------------------------------
(* Plans. *)

(* An UPDATE, or ON DUPLICATE KEY UPDATE, that sets the column sets: the   *)
(* key in the case of the rule ("key"), in another ("KEY"), or not.        *)
checkUpdateExprs(rule, sets) == Len(rule.nodes) = 1 \/ sets # "key"

TindexsToNindexs(rule, tables) == {NodeIndex(rule, t) : t \in tables}

Plan(rule, tables, nodeIndexs) ==
    [ok |-> TRUE, tables |-> tables, nodes |-> nodeIndexs]

NoPlan == [ok |-> FALSE, tables |-> <<>>, nodes |-> {}]

AllTables(rule) ==
    IF rule.subTables = <<>> THEN NoPlan
    ELSE Plan(rule, rule.subTables, 0..(Len(rule.nodes) - 1))

(* The plan for a WHERE; none at all means every table of every node.      *)
calRouteIndexs(rule, where) ==
    LET r == getTableIndexByBoolExpr(rule, where)
    IN  IF where = <<>> THEN AllTables(rule)
        ELSE IF ~r.ok \/ r.l = <<>> THEN NoPlan
        ELSE Plan(rule, r.l, TindexsToNindexs(rule, ToSet(r.l)))

(* INSERT and REPLACE need a column list with the key, and literal values; *)
(* the tables come out of a Go map, in any order.                          *)
getInsertTableIndex(rule, s) ==
    LET tables == IndexOf(rule, {n.lit : n \in s.rows})
    IN  IF ~s.literal \/ Err \in tables THEN {NoPlan}
        ELSE {Plan(rule, l, TindexsToNindexs(rule, tables)) : l \in SetToSeqs(tables)}

(* The plans each of these can return for s.                               *)
buildSelectPlan(rule, s) == {calRouteIndexs(rule, s.where)}

buildInsertPlan(rule, s) ==
    IF s.onDup /\ ~checkUpdateExprs(rule, s.sets) THEN {NoPlan} ELSE getInsertTableIndex(rule, s)

buildUpdatePlan(rule, s) ==
    IF checkUpdateExprs(rule, s.sets) THEN {calRouteIndexs(rule, s.where)} ELSE {NoPlan}

buildDeletePlan(rule, s) == {calRouteIndexs(rule, s.where)}

buildTruncatePlan(rule, s) == {AllTables(rule)}

buildReplacePlan(rule, s) == getInsertTableIndex(rule, s)

BuildPlan(rule, s) ==
    CASE s.kind = "insert"   -> buildInsertPlan(rule, s)
      [] s.kind = "replace"  -> buildReplacePlan(rule, s)
      [] s.kind = "select"   -> buildSelectPlan(rule, s)
      [] s.kind = "update"   -> buildUpdatePlan(rule, s)
      [] s.kind = "delete"   -> buildDeletePlan(rule, s)
      [] s.kind = "truncate" -> buildTruncatePlan(rule, s)

(* The name comes from the schema's list of nodes, by an index into the    *)
(* rule's list.                                                            *)
NodeName(rule, schema, t) == schema.nodes[NodeIndex(rule, t) + 1]

(* The tables each node is asked for, in the order of the plan.            *)
RewrittenSqls(rule, schema, plan) ==
    [n \in {NodeName(rule, schema, t) : t \in ToSet(plan.tables)} |->
        LET sqls[i \in 0..Len(plan.tables)] ==
                IF i = 0 THEN <<>>
                ELSE IF NodeName(rule, schema, plan.tables[i]) = n
                     THEN Append(sqls[i - 1], plan.tables[i]) ELSE sqls[i - 1]
        IN  sqls[Len(plan.tables)]]

AllRowsForTable(rule, s, t) == s   \* mutant

(* The statement for table t: of the rows only those of the table.         *)
StmtForTable(rule, s, t) ==
    IF s.kind \in {"insert", "replace"}
    THEN [s EXCEPT !.rows = {n \in @ : getTableIndexByValue(rule, n.lit) = t}]
    ELSE s

(* getShardConns: the nodes a connection is taken from, by the rule's list.*)
ShardNodes(rule, plan) == {rule.nodes[i + 1] : i \in plan.nodes}
=============================================================================
