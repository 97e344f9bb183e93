-------------------------------- MODULE Table --------------------------------
(***************************************************************************)
(* What a client may expect of a sharded table: the one table it writes    *)
(* SQL against.  Kingshard gives no distributed transaction, so a          *)
(* statement is not atomic: it is applied to one set of keys after the     *)
(* other, and when it fails any part of it may have been applied.  But it  *)
(* is answered OK only when no key is left that it could have touched, and *)
(* a SELECT returns exactly the matching rows of the keys it visited.      *)
(***************************************************************************)
EXTENDS SqlTable

CONSTANTS Clients, Stmts, Vals, Idle

VARIABLES domain,   \* the keys the table can hold
          rows,     \* the rows of the table
          stmt,     \* the statement of each client, or Idle
          todo,     \* the keys it has not visited
          ans,      \* the rows read so far
          out       \* the last reply: [ok, rows]

tvars == <<domain, rows, stmt, todo, ans, out>>

NoReply == [ok |-> TRUE, rows |-> {}]

Init ==
    /\ Keys(rows) \subseteq domain
    /\ \A r, q \in rows : r.k = q.k => r = q
    /\ stmt = [c \in Clients |-> Idle]
    /\ todo = [c \in Clients |-> {}]
    /\ ans = [c \in Clients |-> {}]
    /\ out = [c \in Clients |-> NoReply]

Submit(c) ==
    /\ stmt[c] = Idle
    /\ stmt'[c] \in Stmts
    /\ stmt' = [stmt EXCEPT ![c] = stmt'[c]]
    /\ todo' = [todo EXCEPT ![c] = domain]
    /\ ans' = [ans EXCEPT ![c] = {}]
    /\ UNCHANGED <<domain, rows, out>>

(* Visit the keys in K in one step.                                        *)
Apply(c, K) ==
    /\ stmt[c] # Idle
    /\ ~Refused(stmt[c], rows, K)
    /\ rows' = After(stmt[c], rows, K, {})
    /\ todo' = [todo EXCEPT ![c] = @ \ K]
    /\ ans' = IF stmt[c].kind = "select"
              THEN [ans EXCEPT ![c] = @ \cup Hit(stmt[c], rows, K, {})]
              ELSE ans
    /\ UNCHANGED <<domain, stmt, out>>

ReplyOK(c) ==
    /\ stmt[c] # Idle
    /\ \A k \in todo[c] : Untouched(stmt[c], k, Vals)
    /\ out' = [out EXCEPT ![c] = [ok |-> TRUE, rows |-> ans[c]]]
    /\ stmt' = [stmt EXCEPT ![c] = Idle]
    /\ todo' = [todo EXCEPT ![c] = {}]
    /\ ans' = [ans EXCEPT ![c] = {}]
    /\ UNCHANGED <<domain, rows>>

ReplyError(c) ==
    /\ stmt[c] # Idle
    /\ out' = [out EXCEPT ![c] = [ok |-> FALSE, rows |-> {}]]
    /\ stmt' = [stmt EXCEPT ![c] = Idle]
    /\ todo' = [todo EXCEPT ![c] = {}]
    /\ ans' = [ans EXCEPT ![c] = {}]
    /\ UNCHANGED <<domain, rows>>

Next ==
    \E c \in Clients :
        \/ Submit(c)
        \/ \E K \in SUBSET todo[c] : Apply(c, K)
        \/ ReplyOK(c)
        \/ ReplyError(c)

Spec == Init /\ [][Next]_tvars
=============================================================================
