---------------------------- MODULE MCMergeResult ----------------------------
(* Queries of every shape on three sub-tables of two nodes.                 *)
EXTENDS MergeResult

CONSTANTS n1, n2

Placement == (n1 :> <<1, 2>>) @@ (n2 :> <<3>>)

Col(c) == [fn |-> "col", col |-> c]
Fun(f) == [fn |-> f, col |-> "x"]

Limits == {NoLimit} \cup [offset : {0, 1, 2}, count : {0, 1, 2}] \cup [offset : {1}, count : {MaxInt}]
Keys(n) == {<<>>, <<[at |-> 0, desc |-> FALSE]>>}
           \cup {<<[at |-> i, desc |-> d]>> : i \in 1..n, d \in BOOLEAN}
           \cup IF n < 2 THEN {} ELSE {<<[at |-> 2, desc |-> TRUE], [at |-> 1, desc |-> FALSE]>>}

Query(cols, group) ==
    [cols : {cols}, group : {group}, order : Keys(Len(cols)), limit : Limits]

MCQueries ==
    Query(<<Col("g"), Col("x")>>, FALSE)
    \cup [cols : {<<Fun("count"), Fun("sum")>>, <<Fun("max"), Fun("min")>>}, group : {FALSE},
          order : {<<>>}, limit : Limits]
    \cup Query(<<Col("g")>>, TRUE)
    \cup Query(<<Col("g"), Fun("sum")>>, TRUE)
    \cup Query(<<Fun("count"), Col("g")>>, TRUE)
    \cup [cols : {<<Fun("max"), Fun("min")>>}, group : {TRUE}, order : Keys(1), limit : {NoLimit}]

Row(a, b) == [g |-> a, x |-> b]
Firsts == {<<>>, <<Row(1, 2)>>, <<Row(2, NULL), Row(1, 1)>>}
Seconds == {<<>>, <<Row(1, NULL)>>}
Thirds == {<<>>, <<Row(2, 1), Row(1, 2)>>, <<Row(NULL, 3)>>, <<Row(2, 3), Row(2, NULL)>>}
MCContents == Firsts \X Seconds \X Thirds
=============================================================================
