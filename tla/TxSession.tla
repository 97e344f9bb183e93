----------------------------- MODULE TxSession ------------------------------
(***************************************************************************)
(* The transactions of one client (proxy/server/conn*.go, ClientConn).     *)
(*                                                                         *)
(* The proxy keeps the client's status flags and, while the client is in a *)
(* transaction, one master connection per node it has touched (txConns).   *)
(* Outside a transaction every statement borrows connections and gives     *)
(* them back.  Any command to a backend may be refused by the server or    *)
(* break the connection, before or after the server did its work.          *)
(*                                                                         *)
(* A handler runs in the client's own goroutine and shares none of this    *)
(* state, so it is one step here.  Connections come from ConnPool: clean,  *)
(* and what they leave uncommitted is rolled back by the pool.             *)
(***************************************************************************)
EXTENDS Integers, FiniteSets, Functions

CONSTANTS Nodes,          \* the nodes of the client's schema
          DefaultNode,    \* the node of the schema's default rule
          Kinds,          \* kinds of statements the client sends
          MixesStyles,    \* does it send SET autocommit after BEGIN?
          MaxStmts,       \* bound: writing statements
          MaxLost         \* bound: connections lost per node

ASSUME TxSessionAssumption ==
    /\ IsFiniteSet(Nodes) /\ DefaultNode \in Nodes
    /\ Kinds \subseteq {"shard", "hint", "plain"}
    /\ MixesStyles \in BOOLEAN
    /\ MaxStmts \in Nat /\ MaxLost \in Nat

VARIABLES
    auto,       \* c.status & SERVER_STATUS_AUTOCOMMIT
    inTrans,    \* c.status & SERVER_STATUS_IN_TRANS
    txConns,    \* node -> MySQL session of the connection kept for it
    lost,       \* per node, connections neither kept nor given back
    stmts,      \* number of writing statements so far
    fate,       \* what has become of each write, in MySQL
    answer,     \* was the client's last command answered OK?
    told,       \* writes of the open transaction that were answered OK
    promised,   \* writes the client was told are committed
    renounced   \* writes the client rolled back or left uncommitted

statusVars == <<auto, inTrans>>
clientVars == <<answer, told, promised, renounced>>
vars == <<auto, inTrans, txConns, lost, stmts, fate, answer, told, promised, renounced>>

(* The k-th writing statement makes one write on each of its nodes.         *)
Writes == Nodes \X (1..MaxStmts)
Fates == {"unmade", "open", "durable", "undone"}

Sessions == [live : BOOLEAN, auto : BOOLEAN, trans : BOOLEAN, work : SUBSET Writes]
NoConns == [n \in {} |-> {}]

Init ==
    /\ auto = TRUE /\ inTrans = FALSE
    /\ txConns = NoConns
    /\ lost = [n \in Nodes |-> 0]
    /\ stmts = 0
    /\ fate = [w \in Writes |-> "unmade"]
    /\ answer = TRUE
    /\ told = {} /\ promised = {} /\ renounced = {}

isInTransaction == inTrans \/ ~auto
-----------------------------------------------------------------------------
(* MySQL, as the proxy sees it.  A command that would take session s to t   *)
(* and make dur durable is done, is refused, or breaks the connection with  *)
(* the work done or not; the server rolls back what a broken session had.   *)
Reply(s, t, dur) ==
    LET broken == [s EXCEPT !.live = FALSE, !.work = {}] IN
    IF s.live
    THEN {[ok |-> TRUE, sess |-> t, dur |-> dur],
          [ok |-> FALSE, sess |-> s, dur |-> {}],
          [ok |-> FALSE, sess |-> broken, dur |-> {}],
          [ok |-> FALSE, sess |-> broken, dur |-> dur]}
    ELSE {[ok |-> FALSE, sess |-> broken, dur |-> {}]}

Ended(s) == [s EXCEPT !.trans = FALSE, !.work = {}]
BeginOn(s) == Reply(s, [Ended(s) EXCEPT !.trans = TRUE], s.work)
CommitOn(s) == Reply(s, Ended(s), s.work)
RollbackOn(s) == Reply(s, Ended(s), {})
AutocommitOff(s) == Reply(s, [s EXCEPT !.auto = FALSE], {})
(* Turning autocommit on commits only if it was off.                        *)
AutocommitOn(s) ==
    IF s.auto THEN Reply(s, s, {}) ELSE Reply(s, [Ended(s) EXCEPT !.auto = TRUE], s.work)
(* A write commits at once unless the session is in a transaction.          *)
WriteOn(s, w) ==
    IF s.auto /\ ~s.trans
    THEN Reply(s, s, {w})
    ELSE Reply(s, [s EXCEPT !.trans = TRUE, !.work = @ \cup {w}], {})
ReadOn(s) == Reply(s, s, {})

(* One outcome of a command for each connection of a set.                   *)
Each(out) == {o \in [DOMAIN out -> UNION Range(out)] : \A n \in DOMAIN out : o[n] \in out[n]}
Succeeds(o) == \A n \in DOMAIN o : o[n].ok

(* The loops that return at the first error reach the nodes DOMAIN o.       *)
StopsAtError(o) == \E f \in DOMAIN o : ~o[f].ok /\ \A n \in DOMAIN o \ {f} : o[n].ok

(* What the outcomes o make of the writes they concern.                     *)
Settle(o, concerned) ==
    fate' = [w \in Writes |->
                IF \E n \in DOMAIN o : w \in o[n].dur THEN "durable"
                ELSE IF \E n \in DOMAIN o : w \in o[n].sess.work THEN "open"
                ELSE IF w \in concerned THEN "undone" ELSE fate[w]]

WorkOf(S) == UNION {txConns[n].work : n \in S}
Conns == DOMAIN txConns
-----------------------------------------------------------------------------
(* handleBegin: begin on every kept connection, stop at the first error.    *)
handleBegin ==
    /\ \E R \in SUBSET Conns : \E o \in Each([n \in R |-> BeginOn(txConns[n])]) :
        /\ (R = Conns /\ Succeeds(o)) \/ StopsAtError(o)
        /\ txConns' = [n \in Conns |-> IF n \in R THEN o[n].sess ELSE txConns[n]]
        /\ inTrans' = (inTrans \/ Succeeds(o))
        /\ answer' = Succeeds(o)
        /\ Settle(o, WorkOf(R))
        /\ promised' = IF Succeeds(o) THEN promised \cup told ELSE promised
    /\ told' = {}
    /\ UNCHANGED <<auto, lost, stmts, renounced>>

(* commit and rollback: every connection is tried and given back.           *)
EndOn(o) ==
    /\ txConns' = NoConns
    /\ inTrans' = FALSE
    /\ answer' = Succeeds(o)
    /\ Settle(o, WorkOf(Conns))
    /\ told' = {}

(* Mutant: commit forgets the errors of the connections.                    *)
CommitIgnoresErrors ==
    /\ \E o \in Each([n \in Conns |-> CommitOn(txConns[n])]) :
        EndOn([n \in Conns |-> [o[n] EXCEPT !.ok = TRUE]])
    /\ promised' = promised \cup told
    /\ UNCHANGED <<auto, lost, stmts, renounced>>

handleCommit ==
    /\ \E o \in Each([n \in Conns |-> CommitOn(txConns[n])]) :
        /\ EndOn(o)
        /\ promised' = IF Succeeds(o) THEN promised \cup told ELSE promised
    /\ UNCHANGED <<auto, lost, stmts, renounced>>

handleRollback ==
    /\ \E o \in Each([n \in Conns |-> RollbackOn(txConns[n])]) :
        /\ EndOn(o)
        /\ renounced' = IF Succeeds(o) THEN renounced \cup told ELSE renounced
    /\ UNCHANGED <<auto, lost, stmts, promised>>

(* Mutant: SET autocommit = 1 keeps the connections of the transaction.     *)
SetAutoCommitOnKeeps ==
    /\ MixesStyles \/ ~inTrans
    /\ auto' = TRUE /\ inTrans' = FALSE
    /\ \E o \in Each([n \in Conns |-> AutocommitOn(txConns[n])]) :
        /\ Succeeds(o)
        /\ txConns' = [n \in Conns |-> o[n].sess]
        /\ Settle(o, WorkOf(Conns))
    /\ promised' = promised \cup told
    /\ told' = {} /\ answer' = TRUE
    /\ UNCHANGED <<lost, stmts, renounced>>

(* handleSetAutoCommit(1): the flags change first; the connections after a  *)
(* failing one are dropped with the map.                                    *)
(* For the client, 0 -> 1 commits; 1 -> 1 leaves its transaction open.      *)
SetAutoCommitOn ==
    /\ MixesStyles \/ ~inTrans
    /\ auto' = TRUE /\ inTrans' = FALSE
    /\ txConns' = NoConns
    /\ \E R \in SUBSET Conns : \E o \in Each([n \in R |-> AutocommitOn(txConns[n])]) :
        /\ (R = Conns /\ Succeeds(o)) \/ StopsAtError(o)
        /\ answer' = Succeeds(o)
        /\ Settle(o, WorkOf(R))
        /\ \A n \in Conns \ R : lost[n] < MaxLost
        /\ lost' = [n \in Nodes |-> IF n \in Conns \ R THEN lost[n] + 1 ELSE lost[n]]
        /\ promised' = IF Succeeds(o) /\ ~auto THEN promised \cup told ELSE promised
        /\ told' = IF Succeeds(o) /\ auto THEN told ELSE {}
    /\ UNCHANGED <<stmts, renounced>>

(* handleSetAutoCommit(0): no connection hears of it.                       *)
SetAutoCommitOff ==
    /\ MixesStyles \/ ~inTrans
    /\ auto' = FALSE
    /\ answer' = TRUE
    /\ UNCHANGED <<inTrans, txConns, lost, stmts, fate, told, promised, renounced>>
-----------------------------------------------------------------------------
(* A connection as PopConn hands it out; its server may be gone already.    *)
Popped == [live : BOOLEAN, auto : {TRUE}, trans : {FALSE}, work : {{}}]

(* A statement that writes makes write number stmts + 1 on its nodes.       *)
ExecuteOn(s, n, writes) == IF writes THEN WriteOn(s, <<n, stmts + 1>>) ELSE ReadOn(s)
WritesOf(S, writes) == IF writes THEN S \X {stmts + 1} ELSE {}

(* The statement answered OK or not: its writes are acknowledged, and the   *)
(* client may take them for committed unless it is in a transaction.        *)
Acknowledge(ok, ws) ==
    /\ answer' = ok
    /\ told' = IF ok /\ isInTransaction THEN told \cup ws ELSE told
    /\ promised' = IF ok /\ ~isInTransaction THEN promised \cup ws ELSE promised

(* Mutant: a connection that was never taken is given back.                 *)
FailGivesBackTwice(lostNow) ==
    /\ lost' = [n \in Nodes |-> IF n \in lostNow THEN lost[n] - 1 ELSE lost[n]]
    /\ answer' = FALSE
    /\ UNCHANGED <<txConns, stmts, fate, told, promised>>

Fail(lostNow) ==
    /\ \A n \in lostNow : lost[n] < MaxLost
    /\ lost' = [n \in Nodes |-> IF n \in lostNow THEN lost[n] + 1 ELSE lost[n]]
    /\ answer' = FALSE
    /\ UNCHANGED <<txConns, stmts, fate, told, promised>>

(* In a transaction: the sharded statements of getShardConns and the hinted *)
(* ones of GetTransExecDB are refused on a second node; the others go to    *)
(* their node whatever the transaction has touched.                         *)
TransInMulti(kind, S) ==
    \/ kind = "shard" /\ Cardinality(S) > 1
    \/ kind \in {"shard", "hint"} /\ Cardinality(Conns) = 1 /\ S \cap Conns = {}

Keep(n, s) == [m \in Conns \cup {n} |-> IF m = n THEN s ELSE txConns[m]]

(* getBackendConn in a transaction: keep using the node's connection, or    *)
(* pop one and open a transaction on it; a connection on which that fails   *)
(* is lost.  One on which UseDB or SetCharset fails (ReadOn) is kept.       *)
OpenTxForgotten(s) == ReadOn(s)   \* mutant: no BEGIN is sent
OpenTxOn(s) == IF auto THEN BeginOn(s) ELSE AutocommitOff(s)

InTransaction(kind, S, writes) ==
    /\ isInTransaction
    /\ \/ TransInMulti(kind, S) /\ Fail({})
       \/ /\ ~TransInMulti(kind, S)
          /\ \E n \in S :
             \/ n \notin Conns /\ Fail({})                  \* PopConn fails
             \/ /\ n \notin Conns                           \* BEGIN fails
                /\ \E s \in Popped : \E b \in OpenTxOn(s) : ~b.ok /\ Fail({n})
             \/ /\ \E s \in IF n \in Conns THEN {txConns[n]}
                           ELSE {b.sess : b \in {b \in UNION {OpenTxOn(s) : s \in Popped} : b.ok}} :
                   \/ \E o \in ReadOn(s) :                  \* UseDB, SetCharset fail
                        /\ ~o.ok
                        /\ txConns' = Keep(n, o.sess)
                        /\ Settle([m \in {n} |-> o], s.work)
                        /\ Acknowledge(FALSE, {})
                        /\ UNCHANGED stmts
                   \/ \E o \in ExecuteOn(s, n, writes) :
                        /\ txConns' = Keep(n, o.sess)
                        /\ Settle([m \in {n} |-> o], s.work \cup WritesOf({n}, writes))
                        /\ Acknowledge(o.ok, WritesOf({n}, writes))
                        /\ stmts' = IF writes THEN stmts + 1 ELSE stmts
                /\ UNCHANGED lost
    /\ UNCHANGED <<statusVars, renounced>>

(* Outside: all connections are taken first.  When f's cannot be had, a     *)
(* sharded statement loses f's if it was popped (getShardConns) and, when   *)
(* it is a select, those taken before (handleSelect).                       *)
LostOnFailure(kind, writes, A, f, popped) ==
    IF kind # "shard" THEN {}
    ELSE (IF popped THEN {f} ELSE {}) \cup (IF writes THEN {} ELSE A)

(* Mutant: the connections are not given back after the statement.          *)
OutsideKeepsConns(kind, S, writes) ==
    /\ ~isInTransaction
    /\ \E p \in [S -> Popped] : \E o \in Each([n \in S |-> ExecuteOn(p[n], n, writes)]) :
        /\ Settle(o, WritesOf(S, writes))
        /\ Acknowledge(Succeeds(o), WritesOf(S, writes))
    /\ stmts' = IF writes THEN stmts + 1 ELSE stmts
    /\ \A n \in S : lost[n] < MaxLost
    /\ lost' = [n \in Nodes |-> IF n \in S THEN lost[n] + 1 ELSE lost[n]]
    /\ UNCHANGED <<statusVars, txConns, renounced>>

Outside(kind, S, writes) ==
    /\ ~isInTransaction
    /\ \/ \E f \in S : \E A \in SUBSET (S \ {f}), popped \in BOOLEAN :
            Fail(LostOnFailure(kind, writes, A, f, popped))
       \/ /\ \E p \in [S -> Popped] : \E o \in Each([n \in S |-> ExecuteOn(p[n], n, writes)]) :
                /\ Settle(o, WritesOf(S, writes))
                /\ Acknowledge(Succeeds(o), WritesOf(S, writes))
          /\ stmts' = IF writes THEN stmts + 1 ELSE stmts
          /\ UNCHANGED <<txConns, lost>>
    /\ UNCHANGED <<statusVars, renounced>>

(* The nodes a statement of each kind goes to.                              *)
Targets(kind) ==
    IF kind = "shard" THEN SUBSET Nodes \ {{}}
    ELSE IF kind = "hint" THEN {{n} : n \in Nodes} ELSE {{DefaultNode}}

Statement(kind, writes) ==
    /\ writes => stmts < MaxStmts
    /\ \E S \in Targets(kind) : InTransaction(kind, S, writes) \/ Outside(kind, S, writes)
-----------------------------------------------------------------------------
(* The client is gone: COM_QUIT rolls back first, a broken connection only  *)
(* runs clean().  The next client finds a new ClientConn.                   *)
NewClient ==
    /\ auto' = TRUE /\ inTrans' = FALSE
    /\ txConns' = NoConns
    /\ answer' = TRUE
    /\ told' = {}
    /\ renounced' = renounced \cup told
    /\ UNCHANGED <<lost, stmts, promised>>

Quit ==
    /\ \E o \in Each([n \in Conns |-> RollbackOn(txConns[n])]) : Settle(o, WorkOf(Conns))
    /\ NewClient

clean ==
    /\ NewClient
    /\ UNCHANGED fate

(* A server drops a kept connection and rolls back its work.                *)
ConnDies(n) ==
    /\ txConns[n].live
    /\ LET o == [m \in {n} |-> [ok |-> FALSE, dur |-> {},
                                sess |-> [txConns[n] EXCEPT !.live = FALSE, !.work = {}]]]
       IN /\ txConns' = Keep(n, o[n].sess)
          /\ Settle(o, txConns[n].work)
    /\ UNCHANGED <<statusVars, lost, stmts, clientVars>>

(* The pool rolls back what a connection brought back uncommitted, when it  *)
(* hands it out again or closes it (ConnPool: NoPoolCommit, PoppedClean).   *)
PoolResets(w) ==
    /\ fate[w] = "open"
    /\ w \notin WorkOf(Conns)
    /\ fate' = [fate EXCEPT ![w] = "undone"]
    /\ UNCHANGED <<statusVars, txConns, lost, stmts, clientVars>>

Next ==
    \/ handleBegin \/ handleCommit \/ handleRollback
    \/ SetAutoCommitOn \/ SetAutoCommitOff
    \/ \E kind \in Kinds, writes \in BOOLEAN : Statement(kind, writes)
    \/ Quit \/ clean
    \/ \E n \in Conns : ConnDies(n)
    \/ \E w \in Writes : PoolResets(w)

Spec == Init /\ [][Next]_vars
-----------------------------------------------------------------------------
TypeOK ==
    /\ auto \in BOOLEAN /\ inTrans \in BOOLEAN /\ answer \in BOOLEAN
    /\ Conns \subseteq Nodes /\ txConns \in [Conns -> Sessions]
    /\ lost \in [Nodes -> 0..MaxLost]
    /\ stmts \in 0..MaxStmts
    /\ fate \in [Writes -> Fates]
    /\ told \subseteq Writes /\ promised \subseteq Writes /\ renounced \subseteq Writes

(* What the client was told is committed is committed: after an autocommit  *)
(* statement, COMMIT, or the implicit commits of BEGIN and SET autocommit,  *)
(* whatever connections broke in between.                                   *)
Durability == \A w \in promised : fate[w] = "durable"

(* What the client rolled back, or left open when it went away, is never    *)
(* committed: not by the proxy, not by the pool, not by the next client.    *)
Renounced == \A w \in renounced : fate[w] # "durable"

(* Connections are kept for a client only while it is in a transaction;     *)
(* closeConn would otherwise give them back under it.                       *)
KeptOnlyInTransaction == Conns # {} => isInTransaction

(* A connection is lost only by a command that was answered with an error.  *)
LeaksAreErrors == [][lost' # lost => ~answer']_vars

(* The statements answered OK in one transaction ran on one node: on a     *)
(* second node the client gets an error (ErrTransInMulti).                  *)
SingleNode == \A v, w \in told : v[1] = w[1]
=============================================================================
