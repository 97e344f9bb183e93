--------------------------- MODULE MCShardedTable ---------------------------
(* Rules of every type, each with the statements that fit it, for TLC.      *)
EXTENDS OneTable

CONSTANTS n1, n2, c1, c2

CrcOf == [v \in -9..9 |-> (5 * v + 50) % 7]

Lit(f, S) == [v : S, form : {f}]

Compares(K) == [op : {"=", "<=>", "!=", "<", "<=", ">", ">="}, lit : K, rev : BOOLEAN]
Lists(ops, K) == [op : ops, lits : {L \in SUBSET K : Cardinality(L) \in 1..2}]
Between(K) == [op : {"between"}, from : K, to : K]
NotBetween(K) == {b \in [op : {"not between"}, from : K, to : K] : b.from.v <= b.to.v}
Other == [op |-> "other", val |-> 1]
All == <<>>
Leaves(S) == {<<x>> : x \in S}
Pairs(A, B) == {a \o b \o <<[op |-> o, size |-> Len(b)]>> : a \in A, b \in B, o \in {"and", "or"}}
Nots(A) == {a \o <<[op |-> "not", size |-> Len(a)]>> : a \in A}

(* Conditions on the literals K, combined where they are in K0.             *)
(* A date rule drops whole tables for NOT IN and NOT BETWEEN, and under OR  *)
(* forgets a comparison with a date it has no table for: see the README.    *)
Simple(type, K) ==
    {All} \cup Leaves({Other} \cup Compares(K) \cup Lists({"in"}, K) \cup Between(K)
        \cup IF type \in {"hash", "range"} THEN Lists({"not in"}, K) \cup NotBetween(K) ELSE {})

Base(K0) ==
    LET lo == CHOOSE l \in K0 : \A m \in K0 : l.v <= m.v
        hi == CHOOSE l \in K0 : \A m \in K0 : l.v >= m.v
    IN  Leaves({Other, [op |-> "=", lit |-> lo, rev |-> FALSE], [op |-> "<", lit |-> hi, rev |-> FALSE],
         [op |-> "<=", lit |-> lo, rev |-> TRUE], [op |-> ">", lit |-> lo, rev |-> FALSE],
         [op |-> "in", lits |-> {lo, hi}], [op |-> "between", from |-> hi, to |-> lo]})

Compound(K0) ==
    LET some == Leaves({Other, [op |-> "in", lits |-> K0]})
    IN  Pairs(Base(K0), Base(K0)) \cup Nots(Base(K0))
        \cup Pairs(some, Pairs(Base(K0), some)) \cup Pairs(Leaves({Other}), Nots(Base(K0)))

RowSets(K) == {R \in SUBSET [lit : K, val : {0, 1}] : Cardinality(R) \in 1..2
                   /\ \A a, b \in R : a.lit.v = b.lit.v => a = b}
Reads(W) == [kind : {"select"}, where : W]
Deletes(W) == [kind : {"delete"}, where : W]
Updates(W) == [kind : {"update"}, where : W, sets : {"val"}, val : {1}]
KeyUpdates(K) == [kind : {"update"}, where : {All} \cup Leaves(Compares(K)), sets : {"key"}, lit : K]
    \cup [kind : {"insert"}, rows : RowSets(K), onDup : {TRUE}, sets : {"key"}, lit : K, literal : {TRUE}]
Truncates == [kind : {"truncate"}, where : {All}]
Inserts(K, lit) ==
    [kind : {"insert"}, rows : RowSets(K), onDup : {FALSE}, literal : lit]
    \cup [kind : {"insert"}, rows : RowSets(K), onDup : {TRUE}, sets : {"val"}, val : {1}, literal : lit]
Replaces(K, lit) == [kind : {"replace"}, rows : RowSets(K), literal : lit]

Schema == [nodes |-> <<n1, n2>>, default |-> n1]

Config(type, nodes, locations, dates, limit) ==
    [type |-> type, nodes |-> nodes, locations |-> locations, dates |-> dates, limit |-> limit]

(* One statement of every shape against a table with all keys but one.      *)
Routing(cfg, K, K0, absent) ==
    LET W == Simple(cfg.type, K) \cup Compound(K0)
    IN  [cfg |-> cfg, schema |-> Schema, keys |-> K, clients |-> {c1}, max |-> 1, lossy |-> FALSE,
         rows |-> {[k |-> l.v, val |-> l.v % 2] : l \in {m \in K : m.v # absent}},
         stmts |-> Reads(W) \cup Updates(W) \cup Deletes(W) \cup Truncates \cup Inserts(K, {TRUE})
                   \cup Replaces(K, {TRUE}) \cup Inserts(K0, {FALSE})
                   \cup IF Len(cfg.nodes) > 1 THEN KeyUpdates(K0) ELSE {}]

Routes == <<
    <<Config("hash", <<n1, n2>>, <<2, 1>>, <<>>, 0),
      Lit("num", {-1, 0, 1, 4}) \cup Lit("str", {4, 5}), Lit("num", {-1, 1, 4}), 1>>,
    <<Config("hash", <<n1>>, <<2>>, <<>>, 0), Lit("text", 1..4), Lit("text", {1, 4}), 4>>,
    <<Config("hash", <<n1, n2>>, <<2, 0>>, <<>>, 0), Lit("num", 0..2), Lit("num", 0..1), 1>>,
    <<Config("range", <<n1, n2>>, <<1, 2>>, <<>>, 2),
      Lit("num", {0, 1, 2, 3, 6}) \cup Lit("str", {4}) \cup Lit("bad", {9}), Lit("num", {1, 2, 6}), 2>>,
    <<Config("range", <<n1, n2>>, <<1, 1>>, <<>>, 2),
      Lit("num", {-1, 0, 2, 4}) \cup Lit("text", {9}), Lit("num", {0, 2}), 2>>,
    <<Config("date_year", <<n1, n2>>, <<>>, <<<<2016, 2015>>, <<2018, 2018>>>>, 0),
      Lit("short", {20150101}) \cup Lit("str", {20151231, 20160101, 20170601, 20181231}),
      Lit("str", {20151231, 20181231}), 20160101>>,
    <<Config("date_month", <<n1, n2>>, <<>>, <<<<201512, 201601>>, <<201603, 201603>>>>, 0),
      Lit("str", {20151231, 20160101, 20160131, 20160229, 20160301}) \cup Lit("short", {20151201}),
      Lit("str", {20151231, 20160301}), 20160131>>,
    <<Config("date_day", <<n1, n2>>, <<>>, <<<<20160301, 20160228>>, <<20160302, 20160302>>>>, 0),
      Lit("str", {20160228, 20160229, 20160301, 20160302, 20160304}),
      Lit("str", {20160228, 20160301, 20160302}), 20160229>>,
    <<Config("date_day", <<n1, n2>>, <<>>, <<<<20160301, 20160302>>, <<20160228, 20160229>>>>, 0),
      Lit("str", {20160228, 20160301}), Lit("str", {20160228, 20160301}), 20160228>> >>

(* Two clients and nodes that lose statements.                              *)
Shared ==
    LET K == Lit("num", 0..3)
        In == <<[op |-> "in", lits |-> Lit("num", {0, 1, 3})]>>
        Rs == {[lit |-> l, val |-> 0] : l \in Lit("num", {1, 2})}
    IN  [cfg |-> Config("hash", <<n1, n2>>, <<2, 1>>, <<>>, 0), schema |-> Schema, keys |-> K,
         rows |-> {[k |-> v, val |-> 0] : v \in {0, 1}}, clients |-> {c1, c2}, max |-> 2, lossy |-> TRUE,
         stmts |-> Reads({All, In}) \cup Updates({In, <<Other>>}) \cup Deletes({All}) \cup Truncates
                   \cup [kind : {"insert"}, rows : {Rs}, onDup : {FALSE}, literal : {TRUE}]
                   \cup [kind : {"insert"}, rows : {Rs}, onDup : {TRUE}, sets : {"val"}, val : {1},
                         literal : {TRUE}]
                   \cup [kind : {"replace"}, rows : {Rs}, literal : {TRUE}]]

RoutesAndShared ==
    Append([i \in DOMAIN Routes |-> LET r == Routes[i] IN Routing(r[1], r[2], r[3], r[4])], Shared)

(* The value of Setups, which TLC evaluates once under the name above.      *)
MCSetups == RoutesAndShared
=============================================================================
