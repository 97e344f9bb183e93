---------------------------- MODULE ShardedTable ----------------------------
(***************************************************************************)
(* A sharded table behind the proxy: the sub-tables on the nodes, and the  *)
(* statements of clients planned (RoutePlan), sent to the nodes and        *)
(* answered (conn_query.go: handleExec, executeInMultiNodes).              *)
(*                                                                         *)
(* One goroutine per node executes the node's statements one after the     *)
(* other, and goes on after an error.  A step is one statement at one      *)
(* node; a backend may lose a statement before or after it took effect.    *)
(* Statements run in autocommit mode: TxSession has the transactions.      *)
(***************************************************************************)
EXTENDS RoutePlan, FiniteSets

CONSTANTS Clients,
          Setups,     \* a sequence of configurations and workloads, see below
          Vals,       \* values of the column that is not the key
          Idle

(* A setup: the rule (cfg) and the schema of the configuration; the key    *)
(* literals in use; the rows present when the proxy starts; the clients,   *)
(* the statements they send, and the bound max on how many they send in    *)
(* all; whether nodes lose statements (lossy).                             *)

(* What an UPDATE or ON DUPLICATE KEY UPDATE sets is not the key in        *)
(* another case, or on a single node, which checkUpdateExprs lets through. *)
ValidSet(r, s) ==
    \/ s.sets = "val" /\ s.val \in Vals
    \/ s.sets = "key" /\ Len(r.nodes) # 1

ValidStmt(r, K, s) ==
    \/ s.kind \in {"select", "delete"} /\ ValidWhere(r, K, s.where)
    \/ s.kind = "update" /\ ValidWhere(r, K, s.where) /\ ValidSet(r, s)
    \/ s.kind = "truncate" /\ s.where = <<>>
    \/ /\ s.kind \in {"insert", "replace"} /\ s.literal \in BOOLEAN
       /\ {"kind", "rows"} \subseteq DOMAIN s
       /\ s.rows \subseteq [lit : K, val : Vals]
       /\ s.kind = "insert" => "onDup" \in DOMAIN s /\ s.onDup \in BOOLEAN
       /\ s.kind = "insert" /\ s.onDup =>
             "sets" \in DOMAIN s /\ (s.sets = "val" => "val" \in DOMAIN s) /\ ValidSet(r, s)

ValidSetup(s) ==
    LET r == parseRule(s.cfg)
    IN  /\ ValidConfig(s.cfg)
        /\ ValidKeys(r, s.keys)
        /\ s.rows \subseteq [k : Values(s.keys), val : Vals]
        /\ \A a, b \in s.rows : a.k = b.k => a = b
        /\ s.clients \subseteq Clients /\ s.lossy \in BOOLEAN
        /\ Idle \notin s.stmts
        /\ \A m \in s.stmts : ValidStmt(r, s.keys, m)

ASSUME ShardedTableAssumption ==
    /\ Word \in Nat \ {0}
    /\ \A i \in DOMAIN Setups :
          NewRouterOk(Setups[i].schema, Setups[i].cfg) => ValidSetup(Setups[i])

VARIABLES which,      \* the setup the proxy was started with
          rule,       \* the parsed rule
          store,      \* the rows of each sub-table
          stmt,       \* each client's statement, or Idle
          sqls,       \* per client: node -> tables it has still to execute
          failed,     \* an execution, or the plan, has failed
          ans,        \* rows returned by the nodes so far
          out,        \* the last reply to each client: [ok, rows]
          visited,    \* history: tables on which the statement took effect
          count       \* statements submitted

vars == <<which, rule, store, stmt, sqls, failed, ans, out, visited, count>>

setup == Setups[which]

Tables == ToSet(rule.subTables)

AllKeys == Values(setup.keys)

(* The sub-table is where the rule says it is.                             *)
Exists(n, t) == t \in Tables /\ rule.nodes[NodeIndex(rule, t) + 1] = n

Rows == UNION {store[t] : t \in Tables}

Init ==
    /\ which \in {i \in DOMAIN Setups : NewRouterOk(Setups[i].schema, Setups[i].cfg)}
    /\ rule = parseRule(setup.cfg)
    /\ store = [t \in Tables |-> {r \in setup.rows : t \in
                   IndexOf(rule, {l \in setup.keys : l.v = r.k})}]
    /\ stmt = [c \in Clients |-> Idle]
    /\ sqls = [c \in Clients |-> <<>>]
    /\ failed = [c \in Clients |-> FALSE]
    /\ ans = [c \in Clients |-> {}]
    /\ out = [c \in Clients |-> [ok |-> TRUE, rows |-> {}]]
    /\ visited = [c \in Clients |-> {}]
    /\ count = 0

(* The statements the nodes execute for a plan; none when there is no plan *)
(* or when the nodes connected to and the nodes planned for are not equal  *)
(* in number (ErrConnNotEqual).                                            *)
Dispatched(plan) ==
    LET planned == RewrittenSqls(rule, setup.schema, plan)
        conns == ShardNodes(rule, plan)
    IN  IF plan.ok /\ Cardinality(conns) = Cardinality(DOMAIN planned)
        THEN [n \in conns |-> IF n \in DOMAIN planned THEN planned[n] ELSE <<>>]
        ELSE <<>>

(* A node whose name is not among the planned ones executes nothing, and   *)
(* the nil result makes the merge panic.                                   *)
Unplanned(plan) ==
    \/ Dispatched(plan) = <<>>
    \/ \E n \in DOMAIN Dispatched(plan) : Dispatched(plan)[n] = <<>>

(* handleQuery up to the start of the goroutines; without a connection to  *)
(* every node nothing is executed.                                         *)
Submit(c) ==
    /\ c \in setup.clients /\ stmt[c] = Idle /\ count < setup.max
    /\ \E s \in setup.stmts, connected \in {TRUE, ~setup.lossy} :
           \E plan \in BuildPlan(rule, s) :
              /\ stmt' = [stmt EXCEPT ![c] = s]
              /\ sqls' = [sqls EXCEPT ![c] = IF connected THEN Dispatched(plan) ELSE <<>>]
              /\ failed' = [failed EXCEPT ![c] = ~connected \/ Unplanned(plan)]
    /\ count' = count + 1
    /\ UNCHANGED <<which, rule, store, ans, out, visited>>

(* The goroutine of node n executes its next statement.                    *)
Execute(c, n) ==
    /\ n \in DOMAIN sqls[c] /\ sqls[c][n] # <<>>
    /\ LET t == Head(sqls[c][n])
           s == StmtForTable(rule, stmt[c], t)
           group == rewriteWhereIn(rule, stmt[c], t)
           local == store[t]
           accepted == Exists(n, t) /\ ~Refused(s, local, AllKeys)
       IN  /\ sqls' = [sqls EXCEPT ![c][n] = Tail(@)]
           /\ \/ /\ accepted
                 /\ store' = [store EXCEPT ![t] = After(s, local, AllKeys, group)]
                 /\ visited' = [visited EXCEPT ![c] = @ \cup {t}]
                 /\ ans' = IF s.kind = "select"
                           THEN [ans EXCEPT ![c] = @ \cup Hit(s, local, AllKeys, group)]
                           ELSE ans
                 /\ \E lost \in {FALSE, setup.lossy} :
                       failed' = [failed EXCEPT ![c] = @ \/ lost]
              \/ /\ ~accepted \/ setup.lossy
                 /\ failed' = [failed EXCEPT ![c] = TRUE]
                 /\ UNCHANGED <<store, visited, ans>>
    /\ UNCHANGED <<which, rule, stmt, out, count>>

(* Mutant: a statement with an error gets no reply.                        *)
ReplyToSuccess(c) ==
    /\ stmt[c] # Idle /\ ~failed[c]
    /\ \A n \in DOMAIN sqls[c] : sqls[c][n] = <<>>
    /\ out' = [out EXCEPT ![c] = [ok |-> TRUE, rows |-> ans[c]]]
    /\ stmt' = [stmt EXCEPT ![c] = Idle]
    /\ sqls' = [sqls EXCEPT ![c] = <<>>]
    /\ failed' = [failed EXCEPT ![c] = FALSE]
    /\ ans' = [ans EXCEPT ![c] = {}]
    /\ visited' = [visited EXCEPT ![c] = {}]
    /\ UNCHANGED <<which, rule, store, count>>

(* All goroutines are done (wg.Wait): one error fails the statement.       *)
Reply(c) ==
    /\ stmt[c] # Idle
    /\ \A n \in DOMAIN sqls[c] : sqls[c][n] = <<>>
    /\ out' = [out EXCEPT ![c] = IF failed[c] THEN [ok |-> FALSE, rows |-> {}]
                                 ELSE [ok |-> TRUE, rows |-> ans[c]]]
    /\ stmt' = [stmt EXCEPT ![c] = Idle]
    /\ sqls' = [sqls EXCEPT ![c] = <<>>]
    /\ failed' = [failed EXCEPT ![c] = FALSE]
    /\ ans' = [ans EXCEPT ![c] = {}]
    /\ visited' = [visited EXCEPT ![c] = {}]
    /\ UNCHANGED <<which, rule, store, count>>

Steps(c) == Reply(c) \/ \E n \in DOMAIN sqls[c] : Execute(c, n)

Next == \E c \in Clients : Submit(c) \/ Steps(c)

Spec == Init /\ [][Next]_vars /\ \A c \in Clients : WF_vars(Steps(c))
-----------------------------------------------------------------------------
(* Every row is in the sub-table that a lookup of its key goes to          *)
(* (shard.go: FindForKey; the key of a stored row never changes).          *)
Placed ==
    \A t \in Tables : \A r \in store[t] :
        \E l \in setup.keys : l.v = r.k /\ FindForKey(rule, l) = t

(* A rule that NewRouter accepts lists its sub-tables in increasing order, *)
(* as interList, unionList and makeLeList need, and gives each of them to  *)
(* one of its nodes.                                                       *)
RuleInOrder ==
    /\ \A i \in 1..(Len(rule.subTables) - 1) : rule.subTables[i] < rule.subTables[i + 1]
    /\ \A t \in Tables : rule.tableToNode[t] \in 0..(Len(rule.nodes) - 1)

(* Every statement is answered, whatever the nodes do.                     *)
Answered == \A c \in Clients : (stmt[c] # Idle) ~> (stmt[c] = Idle)

(* The keys that have a sub-table.                                         *)
Domain == {l.v : l \in {m \in setup.keys : getTableIndexByValue(rule, m) \in Tables}}

KeysOf(T) == {l.v : l \in {m \in setup.keys : getTableIndexByValue(rule, m) \in T}}
=============================================================================
