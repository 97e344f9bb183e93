------------------------------ MODULE OneTable ------------------------------
(***************************************************************************)
(* What the proxy promises its clients about a sharded table: its          *)
(* sub-tables, on whatever nodes they are, are one table.  The rows of     *)
(* Table are the rows of all the sub-tables, and a statement has still to  *)
(* be applied to the keys of the sub-tables that it has not reached.       *)
(***************************************************************************)
EXTENDS ShardedTable

AllStmts == UNION {Setups[i].stmts : i \in DOMAIN Setups}

(* The keys that a client's statement has not visited.                     *)
Unvisited(c) == IF stmt[c] = Idle THEN {} ELSE Domain \ KeysOf(visited[c])

Whole ==
    INSTANCE Table WITH
        Stmts <- AllStmts,
        domain <- Domain,
        rows <- Rows,
        todo <- [c \in Clients |-> IF stmt[c] = Idle THEN {} ELSE Domain \ KeysOf(visited[c])]

(* To its clients the sub-tables are one table: the router sends a         *)
(* statement to every sub-table with a row it can touch, and to the right  *)
(* node, and a SELECT's answer is the table's (planbuilder.go, router.go). *)
OneTableSeen == Whole!Spec
=============================================================================
