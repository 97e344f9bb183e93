------------------------------ MODULE SqlTable ------------------------------
(***************************************************************************)
(* What a MySQL server does with a statement on one table (external: the   *)
(* meaning of SQL, as far as the router tells statements apart).           *)
(*                                                                         *)
(* A row is [k, val]: the sharding key, which is the primary key, and one  *)
(* other column.  A WHERE expression is the sequence of its nodes in       *)
(* postfix order, empty when there is no WHERE.  A node is                 *)
(*   [op |-> "other", val]             a condition on val                  *)
(*   [op, lit, rev]  op a comparison   key op lit; lit op key if rev       *)
(*   [op, lits]      op "in" or "not in"                                   *)
(*   [op, from, to]  op "between" or "not between"                         *)
(*   [op, size]      op "and", "or" or "not", of the operands before it;   *)
(*                   the last operand has size nodes                       *)
(***************************************************************************)
EXTENDS Lists

Comparisons == {"=", "<=>", "!=", "<", "<=", ">", ">="}

Compare(op, a, b) ==
    CASE op \in {"=", "<=>"} -> a = b
      [] op = "!=" -> a # b
      [] op = "<"  -> a < b
      [] op = "<=" -> a <= b
      [] op = ">"  -> a > b
      [] op = ">=" -> a >= b

(* The left operand of the node at i; the right one is at i - 1.           *)
LeftOf(w, i) == i - 1 - w[i].size

(* The nodes of w outside NOT, from the root down AND and OR.              *)
Positive(w) ==
    {i \in DOMAIN w : \A j \in DOMAIN w : w[j].op = "not" => i \notin (j - w[j].size)..(j - 1)}

(* The position of the last IN of w, or 0.                                 *)
LastIn(w) == Max({0} \cup {i \in Positive(w) : w[i].op = "in"})

Values(lits) == {l.v : l \in lits}

(* Whether a row with the key k satisfies the condition x on the key.      *)
Satisfies(x, k) ==
    CASE x.op = "in" -> k \in Values(x.lits)
      [] x.op = "not in" -> k \notin Values(x.lits)
      [] x.op = "between" -> k \in x.from.v..x.to.v
      [] x.op = "not between" -> k \notin x.from.v..x.to.v
      [] OTHER -> IF x.rev THEN Compare(x.op, x.lit.v, k) ELSE Compare(x.op, k, x.lit.v)

(* Whether row r satisfies the node at i, whose operands are a and b, when *)
(* the list of w's last IN is replaced by the literals in group; an empty  *)
(* group replaces nothing.                                                 *)
MatchesAt(w, i, r, group, a, b) ==
    CASE w[i].op = "and" -> a /\ b
      [] w[i].op = "or"  -> a \/ b
      [] w[i].op = "not" -> ~b
      [] w[i].op = "other" -> r.val = w[i].val
      [] OTHER -> IF group # {} /\ i = LastIn(w)
                  THEN r.k \in Values(group) ELSE Satisfies(w[i], r.k)

Matches(w, r, group) ==
    LET m[i \in DOMAIN w] == MatchesAt(w, i, r, group, m[LeftOf(w, i)], m[i - 1])
    IN  w = <<>> \/ m[Len(w)]

Keys(rows) == {r.k : r \in rows}

(* The rows in rs, of the keys in K, that statement s reads or changes.    *)
Hit(s, rs, K, group) == {r \in rs : r.k \in K /\ Matches(s.where, r, group)}

NewRows(s, K) ==
    {[k |-> n.lit.v, val |-> n.val] : n \in {m \in s.rows : m.lit.v \in K}}

(* A duplicate primary key makes MySQL refuse the whole statement.         *)
Refused(s, rs, K) ==
    \/ s.kind = "insert" /\ ~s.onDup /\ Keys(NewRows(s, K)) \cap Keys(rs) # {}
    \/ s.kind = "update" /\ s.sets # "val"
       /\ \/ s.lit.v \in Keys(rs)
          \/ \E a, b \in Hit(s, rs, K, {}) : a # b

(* An UPDATE of the other column, or of the key.                           *)
Updated(s, r) == IF s.sets = "val" THEN [r EXCEPT !.val = s.val] ELSE [r EXCEPT !.k = s.lit.v]

(* The rows rs after s has been applied to the keys in K.                  *)
After(s, rs, K, group) ==
    LET hit == Hit(s, rs, K, group)
        new == NewRows(s, K)
        kept == {r \in rs : r.k \notin Keys(new)}
    IN  CASE s.kind = "select"   -> rs
          [] s.kind = "delete"   -> rs \ hit
          [] s.kind = "truncate" -> {r \in rs : r.k \notin K}
          [] s.kind = "update"   ->
                (rs \ hit) \cup {Updated(s, r) : r \in hit}
          [] s.kind = "replace"  -> kept \cup new
          [] s.kind = "insert"   ->
                kept \cup {IF n.k \in Keys(rs) THEN Updated(s, n) ELSE n : n \in new}

(* Statement s can neither read nor change a row with key k.               *)
Untouched(s, k, vals) ==
    CASE s.kind \in {"insert", "replace"} -> k \notin {n.lit.v : n \in s.rows}
      [] s.kind = "truncate" -> FALSE
      [] OTHER -> \A v \in vals : ~Matches(s.where, [k |-> k, val |-> v], {})
=============================================================================
