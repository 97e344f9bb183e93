-------------------------- MODULE ShardedTableInv --------------------------
(* The inductive invariant of ShardedTable, and the words its proof uses.   *)
EXTENDS ShardedTable

(* The table of a key literal.                                             *)
Place(l) == getTableIndexByValue(rule, l)

Row == [k : AllKeys, val : Vals]

(* The tables client c's statement has still to be executed on.            *)
Remaining(c) == UNION {ToSet(sqls[c][n]) : n \in DOMAIN sqls[c]}

(* The statement leaves the keys of rows as they are.                      *)
KeepsKeys(s) == (s.kind = "update" \/ (s.kind = "insert" /\ s.onDup)) => s.sets = "val" /\ s.val \in Vals

TypeOK ==
    /\ which \in DOMAIN Setups /\ ValidSetup(setup)
    /\ NewRouterOk(setup.schema, setup.cfg)
    /\ rule = parseRule(setup.cfg)
    /\ store \in [Tables -> SUBSET Row]
    /\ stmt \in [Clients -> setup.stmts \cup {Idle}]
    /\ failed \in [Clients -> BOOLEAN]
    /\ DOMAIN sqls = Clients
    /\ \A c \in Clients : \A n \in DOMAIN sqls[c] : sqls[c][n] \in Seq(Int)
    /\ ans \in [Clients -> SUBSET Row]
    /\ DOMAIN out = Clients
    /\ visited \in [Clients -> SUBSET Tables]

(* A statement meets each table once.                                      *)
Once(c) ==
    /\ \A n \in DOMAIN sqls[c] : \A i \in DOMAIN sqls[c][n] : sqls[c][n][i] \notin visited[c]
    /\ \A n, m \in DOMAIN sqls[c] : \A i \in DOMAIN sqls[c][n], j \in DOMAIN sqls[c][m] :
          sqls[c][n][i] = sqls[c][m][j] => n = m /\ i = j

(* No table with a row that the statement touches is left out.             *)
Reached(c) ==
    stmt[c] # Idle /\ ~failed[c] =>
        \A l \in setup.keys :
            Place(l) \in Tables =>
                \/ Place(l) \in visited[c] \cup Remaining(c)
                \/ Untouched(stmt[c], l.v, Vals)

(* Every row is in the table its key is looked up in.                      *)
Homes == \A t \in Tables : \A q \in store[t] : \E l \in setup.keys : l.v = q.k /\ Place(l) = t

ClientInv(c) ==
    /\ stmt[c] = Idle => visited[c] = {} /\ ans[c] = {} /\ sqls[c] = <<>>
    /\ Remaining(c) # {} => KeepsKeys(stmt[c])
    /\ Once(c)
    /\ Reached(c)

IInv ==
    /\ TypeOK
    /\ Homes
    /\ \A c \in Clients : ClientInv(c)
-----------------------------------------------------------------------------
(* The rule and the setup stay as they are.                                *)
Fixed == which' = which /\ rule' = rule

(* The table a goroutine executes the statement on next.                   *)
NextTable(c, n) == Head(sqls[c][n])

(* The statement took effect on table t.                                   *)
TookEffect(c, t) ==
    LET u == StmtForTable(rule, stmt[c], t)
        g == rewriteWhereIn(rule, stmt[c], t)
    IN  /\ t \in Tables /\ ~Refused(u, store[t], AllKeys)
        /\ store' = [store EXCEPT ![t] = After(u, store[t], AllKeys, g)]
        /\ visited' = [visited EXCEPT ![c] = @ \cup {t}]
        /\ ans' = IF u.kind = "select"
                  THEN [ans EXCEPT ![c] = @ \cup Hit(u, store[t], AllKeys, g)] ELSE ans
=============================================================================
