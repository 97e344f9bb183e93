----------------------------- MODULE MergeResult -----------------------------
(***************************************************************************)
(* A SELECT on several sub-tables: the statement each of them gets         *)
(* (router.go: rewriteSelectSql), and how the proxy makes one result of    *)
(* theirs (conn_select.go, conn_resultset.go, mysql/resultset_sort.go).    *)
(*                                                                         *)
(* A row of a table is [g, x].  A query is                                 *)
(*   cols    the select list: [fn, col], fn "col" or an aggregate of x     *)
(*   group   whether there is a GROUP BY g                                 *)
(*   order   ORDER BY: [at, desc], at a position in cols, or 0 for a g     *)
(*           that is not selected                                          *)
(*   limit   NoLimit or [offset, count]                                    *)
(* A result is [Values, RowDatas]: the rows as the proxy parsed them, and  *)
(* as they go to the client.                                               *)
(***************************************************************************)
EXTENDS Integers, Sequences, SequencesExt, FiniteSetsExt

CONSTANTS Queries, Contents,   \* workload: Contents maps table -> rows
          NodeTables,          \* node -> the sequence of its sub-tables
          NULL, NullText,      \* the SQL NULL, and the text "NULL"
          NoLimit, MaxInt      \* the largest int64

VARIABLES query, tables, rs, pending, answer

vars == <<query, tables, rs, pending, answer>>

Wrap(n) == ((n + MaxInt + 1) % (2 * (MaxInt + 1))) - (MaxInt + 1)
-----------------------------------------------------------------------------
(* A MySQL server. *)

(* NULL comes before every value.                                          *)
cmpLess(a, b) == b # NULL /\ (a = NULL \/ a < b)

NonNull(vs) == SelectSeq(vs, LAMBDA v : v # NULL)

Aggregate(fn, vs) ==
    LET some == NonNull(vs)
    IN  CASE fn = "count" -> Len(some)
          [] fn # "count" /\ some = <<>> -> NULL
          [] fn = "sum" /\ some # <<>> -> FoldSeq(+, 0, some)
          [] fn = "max" /\ some # <<>> -> Max(ToSet(some))
          [] fn = "min" /\ some # <<>> -> Min(ToSet(some))

HasFunc(q) == \E i \in DOMAIN q.cols : q.cols[i].fn # "col"

(* The sets of rows that become one row of the result.                     *)
Partition(q, rows) ==
    IF q.group THEN {{i \in DOMAIN rows : rows[i].g = rows[j].g} : j \in DOMAIN rows}
    ELSE IF HasFunc(q) THEN {DOMAIN rows}
    ELSE {{i} : i \in DOMAIN rows}

RowFor(q, rows, I) ==
    [c \in DOMAIN q.cols |->
        IF q.cols[c].fn = "col" THEN rows[Min(I)][q.cols[c].col]
        ELSE Aggregate(q.cols[c].fn, [k \in 1..Cardinality(I) |-> rows[SetToSortSeq(I, <)[k]].x])]

(* In the order the query asks for.                                        *)
Before(q, a, b) ==
    \E k \in DOMAIN q.order :
        LET Less(u, v) == IF q.order[k].desc THEN cmpLess(v, u) ELSE cmpLess(u, v)
        IN  /\ Less(a[k], b[k])
            /\ \A m \in 1..(k - 1) : a[m] = b[m]

Window(limit, s) ==
    IF limit = NoLimit THEN s
    ELSE SubSeq(s, limit.offset + 1, Min({Len(s), limit.offset + limit.count}))

(* Every result the query may have on these rows.                          *)
Answers(q, rows) ==
    LET KeyOf(I) == [k \in DOMAIN q.order |->
                        IF q.order[k].at = 0 THEN rows[Min(I)].g
                        ELSE RowFor(q, rows, I)[q.order[k].at]]
        sorted == {p \in SetToSeqs(Partition(q, rows)) :
                      \A i, j \in DOMAIN p : i < j => ~Before(q, KeyOf(p[j]), KeyOf(p[i]))}
    IN  {Window(q.limit, [k \in DOMAIN p |-> RowFor(q, rows, p[k])]) : p \in sorted}
-----------------------------------------------------------------------------
(* The proxy. *)

LimitUnchanged(limit) == limit   \* mutant: each sub-table skips the offset

RewriteLimit(limit) ==
    IF limit = NoLimit THEN NoLimit
    ELSE [offset |-> 0, count |-> Wrap(limit.offset + limit.count)]

(* The query for a sub-table: the group column is added at the end.        *)
rewriteSelectSql(q) ==
    [q EXCEPT !.limit = RewriteLimit(@),
              !.cols = @ \o IF q.group THEN <<[fn |-> "col", col |-> "g"]>> ELSE <<>>]

formatValue(v) == IF v = NULL THEN NullText ELSE v

buildResultset(values) ==
    [Values |-> values,
     RowDatas |-> [i \in DOMAIN values |-> [c \in DOMAIN values[i] |-> formatValue(values[i][c])]]]

(* All rows of all results, in the order of rs.                            *)
AllValues == FlattenSeq([i \in DOMAIN rs |-> rs[i].Values])
AllRowDatas == FlattenSeq([i \in DOMAIN rs |-> rs[i].RowDatas])

Column(values, c) == [i \in DOMAIN values |-> values[i][c]]

(* From the values of a column, one per row; a sum of NULLs alone is 0.    *)
getSumFuncExprValue(vs) == FoldSeq(+, 0, NonNull(vs))
getMaxFuncExprValue(vs) == IF NonNull(vs) = <<>> THEN NULL ELSE Max(ToSet(NonNull(vs)))
getMinFuncExprValue(vs) == IF NonNull(vs) = <<>> THEN NULL ELSE Min(ToSet(NonNull(vs)))

calFuncExprValue(fn, vs) ==
    CASE fn \in {"count", "sum"} -> getSumFuncExprValue(vs)
      [] fn = "max" -> getMaxFuncExprValue(vs)
      [] fn = "min" -> getMinFuncExprValue(vs)

FuncColumn(c) == c \in DOMAIN query.cols /\ query.cols[c].fn # "col"

(* One row: the first row of the first result, with the aggregates set.    *)
buildFuncExprValues ==
    <<[c \in DOMAIN query.cols |->
        IF FuncColumn(c) THEN calFuncExprValue(query.cols[c].fn, Column(AllValues, c))
        ELSE IF rs[1].Values = <<>> THEN NULL ELSE rs[1].Values[1][c]]>>

buildFuncExprResult == buildResultset(buildFuncExprValues)

buildSelectOnlyResult ==
    IF HasFunc(query) THEN buildFuncExprResult
    ELSE [Values |-> AllValues, RowDatas |-> AllRowDatas]

generateMapKey(value) == formatValue(value[Len(value)])

RowsOf(k) == SelectSeq(AllValues, LAMBDA v : generateMapKey(v) = k)

(* The last row with the map key k stays...                                *)
loadResultIntoMap(k) == Last(RowsOf(k))

(* ... or calFuncExprValue makes one row of all of them.                   *)
loadResultWithFuncIntoMap(k) ==
    LET rows == RowsOf(k)
    IN  IF Len(rows) = 1 THEN rows[1]
        ELSE [c \in DOMAIN rows[1] |->
                 IF FuncColumn(c) THEN calFuncExprValue(query.cols[c].fn, Column(rows, c))
                 ELSE rows[1][c]]

(* A Go map gives its entries in any order; the group column is cut off.   *)
buildSelectGroupByResults ==
    LET MapRow(k) == IF HasFunc(query) THEN loadResultWithFuncIntoMap(k) ELSE loadResultIntoMap(k)
    IN  {buildResultset([i \in DOMAIN keys |-> Front(MapRow(keys[i]))]) :
            keys \in SetToSeqs({generateMapKey(v) : v \in ToSet(AllValues)})}

(* sort.Sort is not stable.  A key that is not a column of the result makes*)
(* Sort fail, and nobody looks: the rows stay as they are.                 *)
sortSelectResult(r) ==
    LET Apply(p, s) == [i \in DOMAIN p |-> s[p[i]]]
        KeyOf(i) == [k \in DOMAIN query.order |-> r.Values[i][query.order[k].at]]
        sorted == {p \in SetToSeqs(DOMAIN r.Values) :
                      \A i, j \in DOMAIN p : i < j => ~Before(query, KeyOf(p[j]), KeyOf(p[i]))}
    IN  IF query.order = <<>> \/ \E k \in DOMAIN query.order : query.order[k].at = 0 THEN {r}
        ELSE {[Values |-> Apply(p, r.Values), RowDatas |-> Apply(p, r.RowDatas)] : p \in sorted}

limitSelectResult(r) ==
    LET offset == query.limit.offset
        count == IF offset + query.limit.count > Len(r.Values)
                 THEN Len(r.Values) - offset ELSE query.limit.count
        Cut(s) == SubSeq(s, offset + 1, offset + count)
    IN  IF query.limit = NoLimit THEN r
        ELSE IF offset > Len(r.Values) THEN [Values |-> <<>>, RowDatas |-> <<>>]
        ELSE [Values |-> Cut(r.Values), RowDatas |-> Cut(r.RowDatas)]
-----------------------------------------------------------------------------
None == [ok |-> FALSE, rows |-> <<>>, done |-> FALSE]

Init ==
    /\ query \in Queries
    /\ tables \in Contents
    /\ rs = <<>>
    /\ pending = DOMAIN NodeTables
    /\ answer = None

Failed == [None EXCEPT !.done = TRUE]

(* The results of one node are put in place; nodes come in map order.  A   *)
(* LIMIT whose rewritten count overflowed is negative: a syntax error.     *)
executeInMultiNodes(n) ==
    LET q == rewriteSelectSql(query)
    IN  /\ n \in pending /\ ~answer.done
        /\ IF q.limit # NoLimit /\ q.limit.count < 0
           THEN answer' = Failed /\ UNCHANGED <<rs, pending>>
           ELSE /\ \E results \in [DOMAIN NodeTables[n] ->
                                      UNION {Answers(q, tables[t]) : t \in DOMAIN tables}] :
                      /\ \A i \in DOMAIN results : results[i] \in Answers(q, tables[NodeTables[n][i]])
                      /\ rs' = rs \o [i \in DOMAIN results |->
                                         [Values |-> results[i], RowDatas |-> results[i]]]
                /\ pending' = pending \ {n}
                /\ UNCHANGED answer
        /\ UNCHANGED <<query, tables>>

(* buildResultset with no rows gives an empty result, as newEmptyResultset.*)
mergeSelectResult ==
    /\ pending = {} /\ ~answer.done
    /\ \E merged \in IF query.group THEN buildSelectGroupByResults ELSE {buildSelectOnlyResult} :
           \E r \in sortSelectResult(merged) :
              answer' = [ok |-> TRUE, done |-> TRUE, rows |-> limitSelectResult(r).RowDatas]
    /\ UNCHANGED <<query, tables, rs, pending>>

Next == mergeSelectResult \/ \E n \in DOMAIN NodeTables : executeInMultiNodes(n)

Spec == Init /\ [][Next]_vars
-----------------------------------------------------------------------------
(* What the merge cannot do.  The key of a sort must be selected; the rows *)
(* of a LIMIT on groups are chosen per sub-table, so they must come in the *)
(* order of the groups.                                                    *)
Mergeable(q) ==
    /\ \A k \in DOMAIN q.order : q.order[k].at # 0
    /\ q.group /\ q.limit # NoLimit =>
          q.order # <<>> /\ q.cols[q.order[1].at] = [fn |-> "col", col |-> "g"]

(* A NULL in a result that the proxy computed is shown as text, or as 0    *)
(* where it is a sum; rows of a plain SELECT are passed on as they came.   *)
SameRow(row, expected) ==
    \A c \in DOMAIN expected :
        row[c] = expected[c] \/ (expected[c] = NULL /\ (query.group \/ HasFunc(query)))

(* The client gets what one table with the rows of all sub-tables would    *)
(* answer (mergeSelectResult): the same rows, grouped, aggregated, sorted  *)
(* and cut; a NULL that the proxy writes itself may look different.        *)
MergedRight ==
    answer.ok /\ Mergeable(query) =>
        \E a \in Answers(query, FlattenSeq(tables)) :
            /\ Len(a) = Len(answer.rows)
            /\ \A i \in DOMAIN a : SameRow(answer.rows[i], a[i])
=============================================================================
