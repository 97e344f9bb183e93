------------------------------- MODULE Shards -------------------------------
(***************************************************************************)
(* Sharding rules: how a rule of the configuration is turned into a list   *)
(* of sub-tables and their nodes (router.go, numkey.go), and how a key is  *)
(* turned into the index of a sub-table (shard.go).                        *)
(*                                                                         *)
(* A key literal of a statement is [v, form]: v is the value MySQL gives   *)
(* it, form how it is written: "num" a number, "str" a quoted number or    *)
(* date, "text" a quoted text that is no number, "short" a date with fewer *)
(* than ten characters, "bad" a number that does not fit an int64.  For a  *)
(* date v is the day, YYYYMMDD.                                            *)
(***************************************************************************)
EXTENDS Lists

CONSTANTS Word,        \* 2^64 in the code: the size of a machine word
          MaxNumKey,   \* the largest int64
          Crc          \* crc32 of a text that stands for the value v

Err == -1              \* the error result of FindForKey

DateTypes == {"date_year", "date_month", "date_day"}

(* A finite set of integers as a list in increasing order.                 *)
Ascending(S) ==
    CHOOSE s \in [1..Cardinality(S) -> S] : \A i, j \in DOMAIN s : i < j => s[i] < s[j]
-----------------------------------------------------------------------------
(* numkey.go *)

ContainsKey(r, i) == r.start <= i /\ (r.end = MaxNumKey \/ i < r.end)

ParseNumSharding(tableCount, limit) ==
    [i \in 1..tableCount |-> [start |-> (i - 1) * limit, end |-> i * limit]]

InOrder(r) == IF r[2] < r[1] THEN <<r[2], r[1]>> ELSE r

ParseYearRange(r) ==
    LET o == InOrder(r) IN [i \in 1..(o[2] - o[1] + 1) |-> o[1] + i - 1]

(* Months from YYYYMM to YYYYMM: after the twelfth comes the first of the  *)
(* next year.                                                              *)
ParseMonthRange(r) ==
    LET o == InOrder(r)
        year == o[1] \div 100
        month == o[1] % 100
        monthCount == ((o[2] \div 100) - year) * 12 + (o[2] % 100) - month + 1
        Wrapped(m) == (year + ((m - 1) \div 12)) * 100 + ((m - 1) % 12) + 1
    IN  [i \in 1..monthCount |-> Wrapped(month + i - 1)]

DaysIn(year, month) ==
    IF month = 2
    THEN IF year % 4 = 0 /\ (year % 100 # 0 \/ year % 400 = 0) THEN 29 ELSE 28
    ELSE IF month \in {4, 6, 9, 11} THEN 30 ELSE 31

IsDay(n) ==
    /\ (n \div 100) % 100 \in 1..12
    /\ n % 100 \in 1..DaysIn(n \div 10000, (n \div 100) % 100)

ParseDayRange(r) ==
    LET o == InOrder(r) IN Ascending({n \in o[1]..o[2] : IsDay(n)})
-----------------------------------------------------------------------------
(* router.go: parseRule *)

(* The number of tables on the first i nodes.                              *)
sumTables(locations, i) ==
    LET sum[j \in 0..Len(locations)] == IF j = 0 THEN 0 ELSE sum[j - 1] + locations[j]
    IN  sum[i]

(* The sub-tables the configuration puts on the i-th node.                 *)
TablesOfNode(cfg, i) ==
    CASE cfg.type \in {"hash", "range"} ->
            [j \in 1..cfg.locations[i] |-> sumTables(cfg.locations, i - 1) + j - 1]
      [] cfg.type = "date_year"  -> ParseYearRange(cfg.dates[i])
      [] cfg.type = "date_month" -> ParseMonthRange(cfg.dates[i])
      [] cfg.type = "date_day"   -> ParseDayRange(cfg.dates[i])

DatesInAnyOrder(cfg) == TRUE   \* mutant

(* A date rule lists the dates of its nodes in increasing order.           *)
DatesInOrder(cfg) ==
    \A i \in 2..Len(cfg.nodes) :
        Last(TablesOfNode(cfg, i - 1)) < Head(TablesOfNode(cfg, i))

ParseOk(cfg) ==
    IF cfg.type \in DateTypes
    THEN Len(cfg.dates) = Len(cfg.nodes) /\ DatesInOrder(cfg)
    ELSE Len(cfg.locations) = Len(cfg.nodes)

SubTables(cfg) ==
    FlattenSeq([i \in DOMAIN cfg.nodes |-> TablesOfNode(cfg, i)])

parseRule(cfg) ==
    LET subTables == SubTables(cfg)
    IN  [type |-> cfg.type, nodes |-> cfg.nodes, subTables |-> subTables,
         tableToNode |-> [t \in ToSet(subTables) |->
             (CHOOSE i \in DOMAIN cfg.nodes :
                  Contains(TablesOfNode(cfg, i), t)) - 1],
         ranges |-> ParseNumSharding(Len(subTables), cfg.limit)]

(* A configuration the parser can read: counts of tables, of which a hash  *)
(* rule needs one, or pairs of years, months or days.                      *)
ValidConfig(cfg) ==
    /\ cfg.nodes \in Seq(ToSet(cfg.nodes))
    /\ cfg.type \in {"hash", "range"} \cup DateTypes
    /\ IF cfg.type \in DateTypes
       THEN /\ cfg.dates \in Seq(Nat \X Nat)
            /\ \A i \in DOMAIN cfg.dates : \A e \in {cfg.dates[i][1], cfg.dates[i][2]} :
                  /\ cfg.type = "date_month" => e % 100 \in 1..12
                  /\ cfg.type = "date_day" => IsDay(e)
       ELSE cfg.locations \in Seq(Nat)
    /\ cfg.type = "range" => cfg.limit \in Nat \ {0}
    /\ cfg.type = "hash" => SubTables(cfg) # <<>>

(* NewRouter accepts a rule whose nodes are all nodes of the schema.       *)
NewRouterOk(schema, cfg) ==
    /\ Contains(schema.nodes, schema.default)
    /\ \A i \in DOMAIN cfg.nodes : Contains(schema.nodes, cfg.nodes[i])
    /\ ParseOk(cfg)
-----------------------------------------------------------------------------
(* shard.go *)

HashValue(lit) ==
    IF lit.form = "num" THEN lit.v % Word
    ELSE IF lit.form = "str" /\ lit.v >= 0 THEN lit.v
    ELSE Crc[lit.v]

HashShardFind(rule, lit) == HashValue(lit) % Len(rule.subTables)

(* Empty when the literal is not a number: NumValue panics.                *)
RangesWith(rule, lit) ==
    IF lit.form \in {"num", "str"}
    THEN {i \in DOMAIN rule.ranges : ContainsKey(rule.ranges[i], lit.v)}
    ELSE {}

NumRangeShardFind(rule, lit) ==
    IF RangesWith(rule, lit) = {} THEN Err ELSE Min(RangesWith(rule, lit)) - 1

EqualStart(rule, lit, index) == rule.ranges[index + 1].start = lit.v

(* A year, a month YYYYMM or a day, of a day YYYYMMDD.                     *)
DateUnit == [date_year |-> 10000, date_month |-> 100, date_day |-> 1]

DateShardFind(rule, lit) ==
    IF lit.form = "text" \/ (lit.form = "short" /\ rule.type # "date_year")
    THEN Err ELSE lit.v \div DateUnit[rule.type]

FindForKey(rule, lit) ==
    CASE rule.type = "hash"  -> HashShardFind(rule, lit)
      [] rule.type = "range" -> NumRangeShardFind(rule, lit)
      [] OTHER               -> DateShardFind(rule, lit)

(* The node of a table, by the index in the rule's own list; a table that  *)
(* is not in the map has index 0 there.                                    *)
NodeIndex(rule, t) ==
    IF t \in DOMAIN rule.tableToNode THEN rule.tableToNode[t] ELSE 0
=============================================================================
