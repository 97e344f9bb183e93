----------------------------- MODULE NodeHealth -----------------------------
(***************************************************************************)
(* One node: its master, its slaves and their weights (backend/node.go,    *)
(* backend/balancer.go).                                                   *)
(*                                                                         *)
(* The node's checker pings every DB in turn, takes down the ones that do  *)
(* not answer and opens a new DB object for the ones that come back.       *)
(* Administrators add, delete, take down and bring up DBs at any time, and *)
(* client threads pick the next slave to read from.  Only n.Slave and the  *)
(* balancer are guarded by the node's lock; a DB's state is an atomic, its *)
(* pool is open or closed for good (ConnPool).                             *)
(*                                                                         *)
(* The step of a process is one access to the lock, to n.Master or to one  *)
(* DB.  Time is left out: whether a DB has been silent for                 *)
(* down_after_noalive when a ping fails is a free choice.                  *)
(***************************************************************************)
EXTENDS Lists, FiniteSets

CONSTANTS Addrs,          \* addresses of MySQL servers
          MasterAddr,     \* the master's address in the configuration
          InitSlaves,     \* the slaves in the configuration
          Additions,      \* the slaves administrators add
          checker,        \* the goroutine of CheckNode
          Admins,         \* goroutines of administrators
          Orders,         \* what they bring up or take down
          Flaky,          \* the servers that stop and come back
          DBs,            \* identities of DB objects
          Nil,
          MaxWeights      \* bound: length of n.SlaveWeights

ASSUME NodeHealthAssumption ==
    /\ MasterAddr \in Addrs
    /\ InitSlaves \in Seq([addr : Addrs, weight : Nat \ {0}])
    /\ \A i, j \in DOMAIN InitSlaves : InitSlaves[i].addr = InitSlaves[j].addr => i = j
    /\ Additions \subseteq [addr : Addrs, weight : Nat \ {0}]
    /\ Orders \subseteq [op : {"up", "down"}, kind : {"master", "slave"}, addr : Addrs]
    /\ Flaky \subseteq Addrs
    /\ DBs \subseteq Nat /\ IsFiniteSet(DBs) /\ 0..Len(InitSlaves) \subseteq DBs
    /\ Nil \notin DBs \cup Addrs /\ checker \notin Admins
    /\ MaxWeights \in Nat

VARIABLES
    dbs,        \* the DB objects something refers to: address, state, pool
    master,     \* n.Master
    slaves,     \* n.Slave
    weights,    \* n.SlaveWeights
    queue,      \* n.RoundRobinQ, its indices counted from 1
    last,       \* n.LastSlaveIndex
    alive,      \* the servers that answer
    job,        \* what each process is doing
    cur, todo,  \* checkSlave: the DB being checked, the ones after it
    crashed,    \* a panic outside any recover ended the proxy
    stuck       \* a panic left the node's lock held

vars == <<dbs, master, slaves, weights, queue, last, alive, job, cur, todo,
          crashed, stuck>>
balancer == <<weights, queue, last>>

Procs == {checker} \cup Admins
States == {"Up", "Down", "ManualDown", "Unknown"}
Places == {"idle", "ping", "pinged", "failed", "refresh", "store", "snapshot",
           "open", "install", "find", "close", "mark"}

Job(at, kind, addr, ref) == [at |-> at, kind |-> kind, addr |-> addr, ref |-> ref]
Idle == Job("idle", "slave", Nil, Nil)
Becomes(p, j) == job' = [job EXCEPT ![p] = j]
At(p, place) == ~crashed /\ job[p].at = place

(* The DB objects that a variable or a process refers to; the others are    *)
(* garbage, and Heap forgets them.                                          *)
Refs == ({master, cur} \cup ToSet(slaves) \cup ToSet(todo) \cup {job[p].ref : p \in Procs}) \ {Nil}
Heap(h) == dbs' = [d \in Refs' |-> h[d]]
NewDB == Min(DBs \ DOMAIN dbs)
With(d, addr, state) ==
    [e \in DOMAIN dbs \cup {d} |->
        IF e = d THEN [addr |-> addr, state |-> state, open |-> TRUE] ELSE dbs[e]]
-----------------------------------------------------------------------------
(* Gcd: from the smallest weight down to the first common divisor.          *)
Gcd(ws) == Max({g \in 1..Min(ToSet(ws)) : \A i \in DOMAIN ws : ws[i] % g = 0})

(* Mutant: one turn too many for every slave. *)
ExpandOneMore(ws) == FlattenSeq([i \in DOMAIN ws |-> [j \in 1..(1 + ws[i] \div Gcd(ws)) |-> i]])

(* Slave i, weight / gcd times.                                             *)
Expand(ws) == FlattenSeq([i \in DOMAIN ws |-> [j \in 1..(ws[i] \div Gcd(ws)) |-> i]])

(* As many swaps as the queue is long, of a random place x with sum % (x+1). *)
Swap(q, x) ==
    LET y == (Len(q) % x) + 1 IN [q EXCEPT ![x] = q[y], ![y] = q[x]]
Swaps(Q, X) == {Swap(r, x) : r \in Q, x \in X}
Shuffles(q) ==
    LET after[k \in 0..Len(q)] == IF k = 0 THEN {q} ELSE Swaps(after[k - 1], DOMAIN q)
    IN after[Len(q)]

InitBalancer(ws) ==
    /\ last' = 0
    /\ queue' \in IF Len(ws) > 1 THEN Shuffles(Expand(ws)) ELSE {Expand(ws)}

(* GetNextSlave, under the lock.                                            *)
GetNextSlave ==
    /\ ~crashed /\ ~stuck
    /\ Len(queue) > 1
    /\ LET pos == last % Len(queue) IN
       last' = IF Len(slaves) < queue[pos + 1] THEN pos ELSE (pos + 1) % Len(queue)
    /\ UNCHANGED <<dbs, master, slaves, weights, queue, alive, job, cur, todo, crashed, stuck>>

(* ParseMaster, ParseSlave.                                                 *)
Init ==
    /\ master = 0
    /\ slaves = [i \in DOMAIN InitSlaves |-> i]
    /\ dbs = [d \in 0..Len(InitSlaves) |->
                [addr |-> IF d = 0 THEN MasterAddr ELSE InitSlaves[d].addr,
                 state |-> "Unknown", open |-> TRUE]]
    /\ weights = [i \in DOMAIN InitSlaves |-> InitSlaves[i].weight]
    /\ last = 0
    /\ queue \in IF weights = <<>> THEN {<<>>}
                 ELSE IF Len(weights) > 1 THEN Shuffles(Expand(weights)) ELSE {Expand(weights)}
    /\ alive = Addrs
    /\ job = [p \in Procs |-> Idle]
    /\ cur = Nil /\ todo = <<>>
    /\ crashed = FALSE /\ stuck = FALSE
-----------------------------------------------------------------------------
(* The checker goes on to the next DB, or to the slaves, or to sleep.       *)
Advance ==
    IF todo # <<>>
    THEN /\ Becomes(checker, Job("ping", "slave", Nil, Nil))
         /\ cur' = Head(todo) /\ todo' = Tail(todo)
    ELSE /\ Becomes(checker, IF job[checker].kind = "master"
                             THEN Job("snapshot", "master", Nil, Nil) ELSE Idle)
         /\ cur' = Nil /\ todo' = <<>>

checkMaster ==
    /\ At(checker, "idle")
    /\ Becomes(checker, Job("ping", "master", Nil, Nil))
    /\ cur' = master
    /\ UNCHANGED <<master, slaves, balancer, alive, todo, crashed, stuck>>
    /\ Heap(dbs)

(* checkSlave copies the list under the lock and then checks the copy.      *)
checkSlave ==
    /\ At(checker, "snapshot") /\ ~stuck
    /\ IF slaves = <<>>
       THEN Becomes(checker, Idle) /\ UNCHANGED <<cur, todo>>
       ELSE /\ Becomes(checker, Job("ping", "slave", Nil, Nil))
            /\ cur' = Head(slaves) /\ todo' = Tail(slaves)
    /\ UNCHANGED <<master, slaves, balancer, alive, crashed, stuck>>
    /\ Heap(dbs)

(* db.Ping; on a nil *DB it panics, and nothing recovers in this goroutine. *)
Ping ==
    /\ At(checker, "ping")
    /\ IF cur = Nil
       THEN crashed' = TRUE /\ UNCHANGED job
       ELSE /\ job' = [job EXCEPT ![checker].at =
                          IF dbs[cur].addr \in alive THEN "pinged" ELSE "failed"]
            /\ UNCHANGED crashed
    /\ UNCHANGED <<dbs, master, slaves, balancer, alive, cur, todo, stuck>>

(* Mutant: a DB that answers again is marked Up and not opened anew. *)
AnsweredNoUp ==
    /\ At(checker, "pinged")
    /\ Becomes(checker, Job("refresh", job[checker].kind, dbs[cur].addr, Nil))
    /\ UNCHANGED <<dbs, master, slaves, balancer, alive, cur, todo, crashed, stuck>>

(* It answered: a DB that is Down is opened anew.                           *)
Answered ==
    /\ At(checker, "pinged")
    /\ Becomes(checker, Job(IF dbs[cur].state = "Down" THEN "open" ELSE "refresh",
                            job[checker].kind, dbs[cur].addr, Nil))
    /\ UNCHANGED <<dbs, master, slaves, balancer, alive, cur, todo, crashed, stuck>>

(* It did not: when it has been silent for too long it is taken down.       *)
NotAnswered ==
    /\ At(checker, "failed")
    /\ \/ /\ Becomes(checker, Job("find", job[checker].kind, dbs[cur].addr, Nil))
          /\ UNCHANGED <<cur, todo>>
       \/ Advance
    /\ UNCHANGED <<master, slaves, balancer, alive, crashed, stuck>>
    /\ Heap(dbs)

(* The checked DB, which UpMaster or UpSlave may have replaced, is Up.      *)
NotManualDown ==
    /\ At(checker, "refresh")
    /\ IF dbs[cur].state = "ManualDown"
       THEN Advance
       ELSE job' = [job EXCEPT ![checker].at = "store"] /\ UNCHANGED <<cur, todo>>
    /\ UNCHANGED <<master, slaves, balancer, alive, crashed, stuck>>
    /\ Heap(dbs)

StoreUp ==
    /\ At(checker, "store")
    /\ Advance
    /\ UNCHANGED <<master, slaves, balancer, alive, crashed, stuck>>
    /\ Heap([dbs EXCEPT ![cur].state = "Up"])
-----------------------------------------------------------------------------
(* The call the process made returns; the checker goes on with its DB after *)
(* an UpMaster or UpSlave that did not fail.                                *)
Return(p, refresh) ==
    IF p # checker THEN Becomes(p, Idle) /\ UNCHANGED <<cur, todo>>
    ELSE IF refresh
    THEN Becomes(p, Job("refresh", job[p].kind, Nil, Nil)) /\ UNCHANGED <<cur, todo>>
    ELSE Advance

(* The place in n.Slave where a loop that looks for addr ends: at addr, or  *)
(* at a nil entry, which it dereferences.                                   *)
Stops(addr) == {k \in DOMAIN slaves : slaves[k] = Nil \/ dbs[slaves[k]].addr = addr}

(* UpDB: a new DB object, or nil.                                           *)
UpDB(p) ==
    /\ At(p, "open")
    /\ DBs \ DOMAIN dbs # {}
    /\ UNCHANGED <<master, slaves, balancer, alive, cur, todo, crashed, stuck>>
    /\ LET a == job[p].addr IN
       IF a \in alive
       THEN /\ Becomes(p, Job("install", job[p].kind, a, NewDB))
            /\ Heap(With(NewDB, a, "Up"))
       ELSE Becomes(p, Job("install", job[p].kind, a, Nil)) /\ UNCHANGED dbs

(* Mutant: UpMaster goes on when UpDB failed, as UpSlave does. *)
UpMasterUnchecked(p) ==
    /\ At(p, "install") /\ job[p].kind = "master"
    /\ Return(p, TRUE) /\ master' = job[p].ref
    /\ UNCHANGED <<slaves, balancer, alive, crashed, stuck>>
    /\ Heap(dbs)

UpMaster(p) ==
    /\ At(p, "install") /\ job[p].kind = "master"
    /\ IF job[p].ref = Nil
       THEN Return(p, FALSE) /\ UNCHANGED master
       ELSE Return(p, TRUE) /\ master' = job[p].ref
    /\ UNCHANGED <<slaves, balancer, alive, crashed, stuck>>
    /\ Heap(dbs)

(* Mutant: UpSlave appends without looking for the slave it replaces. *)
UpSlaveAppends(p) ==
    /\ At(p, "install") /\ job[p].kind = "slave" /\ ~stuck
    /\ slaves' = Append(slaves, job[p].ref) /\ Len(slaves) < MaxWeights + 1
    /\ Return(p, TRUE)
    /\ UNCHANGED <<master, balancer, alive, crashed, stuck>>
    /\ Heap(dbs)

(* UpSlave stores what UpDB returned, nil included.  Its lock is not        *)
(* released by a panic.                                                     *)
UpSlave(p) ==
    /\ At(p, "install") /\ job[p].kind = "slave" /\ ~stuck
    /\ LET K == Stops(job[p].addr) IN
       IF K # {} /\ slaves[Min(K)] = Nil
       THEN /\ stuck' = TRUE /\ crashed' = (p = checker)
            /\ Becomes(p, Idle)
            /\ UNCHANGED <<slaves, cur, todo>>
       ELSE /\ slaves' = IF K = {} THEN Append(slaves, job[p].ref)
                         ELSE [slaves EXCEPT ![Min(K)] = job[p].ref]
            /\ Return(p, TRUE)
            /\ UNCHANGED <<crashed, stuck>>
    /\ UNCHANGED <<master, balancer, alive>>
    /\ Heap(dbs)

(* DownMaster and DownSlave find the DB, close it, then set its state.      *)
FindMaster(p) ==
    /\ At(p, "find") /\ job[p].kind = "master"
    /\ IF dbs[master].addr = job[p].addr
       THEN Becomes(p, Job("close", "master", job[p].addr, master)) /\ UNCHANGED <<cur, todo>>
       ELSE Return(p, FALSE)
    /\ UNCHANGED <<master, slaves, balancer, alive, crashed, stuck>>
    /\ Heap(dbs)

FindSlave(p) ==
    /\ At(p, "find") /\ job[p].kind = "slave" /\ ~stuck
    /\ LET K == Stops(job[p].addr) IN
       IF K # {} /\ slaves[Min(K)] # Nil
       THEN /\ Becomes(p, Job("close", "slave", job[p].addr, slaves[Min(K)]))
            /\ UNCHANGED <<cur, todo, crashed>>
       ELSE Return(p, FALSE) /\ crashed' = (p = checker /\ K # {})
    /\ UNCHANGED <<master, slaves, balancer, alive, stuck>>
    /\ Heap(dbs)

(* Mutant: the state is set and the pool left open. *)
CloseDBSkipped(p) ==
    /\ At(p, "close")
    /\ job' = [job EXCEPT ![p].at = "mark"]
    /\ UNCHANGED <<dbs, master, slaves, balancer, alive, cur, todo, crashed, stuck>>

CloseDB(p) ==
    /\ At(p, "close")
    /\ job' = [job EXCEPT ![p].at = "mark"]
    /\ dbs' = [dbs EXCEPT ![job[p].ref].open = FALSE]
    /\ UNCHANGED <<master, slaves, balancer, alive, cur, todo, crashed, stuck>>

StoreDown(p) ==
    /\ At(p, "mark")
    /\ Return(p, FALSE)
    /\ UNCHANGED <<master, slaves, balancer, alive, crashed, stuck>>
    /\ Heap([dbs EXCEPT ![job[p].ref].state = IF p = checker THEN "Down" ELSE "ManualDown"])
-----------------------------------------------------------------------------
(* The administrators: up and down, of the master or of a slave.            *)
Order(p, o) ==
    /\ At(p, "idle") /\ p # checker
    /\ Becomes(p, Job(IF o.op = "up" THEN "open" ELSE "find", o.kind, o.addr, Nil))
    /\ UNCHANGED <<dbs, master, slaves, balancer, alive, cur, todo, crashed, stuck>>

(* AddSlave: the weight is appended before the DB is opened.                *)
AddSlave(a, w) ==
    /\ ~crashed /\ ~stuck
    /\ Stops(a) = {}
    /\ Len(weights) < MaxWeights /\ DBs \ DOMAIN dbs # {}
    /\ weights' = Append(weights, w)
    /\ UNCHANGED <<master, alive, job, cur, todo, crashed, stuck>>
    /\ IF a \in alive
       THEN /\ slaves' = Append(slaves, NewDB)
            /\ InitBalancer(weights')
            /\ Heap(With(NewDB, a, "Unknown"))
       ELSE UNCHANGED <<slaves, queue, last, dbs>>

(* DeleteSlave: the other slaves keep their weights, by position.           *)
Positions(a) == {k \in DOMAIN slaves : dbs[slaves[k]].addr # a}
Kept(s, K) == [i \in 1..Cardinality(K) |-> s[CHOOSE k \in K : Cardinality({j \in K : j <= k}) = i]]

(* Mutant: the queue survives the last slave. *)
DeleteSlaveKeepsQueue(a) ==
    /\ ~crashed /\ ~stuck
    /\ Len(slaves) = 1 /\ slaves[1] # Nil /\ dbs[slaves[1]].addr = a
    /\ slaves' = <<>> /\ weights' = <<>>
    /\ UNCHANGED <<queue, last, master, alive, job, cur, todo, crashed, stuck>>
    /\ Heap(dbs)

DeleteSlave(a) ==
    /\ ~crashed /\ ~stuck
    /\ Stops(a) # {} /\ slaves[Min(Stops(a))] # Nil
    /\ IF Len(slaves) = 1
       THEN slaves' = <<>> /\ weights' = <<>> /\ queue' = <<>> /\ UNCHANGED last
       ELSE /\ Nil \notin ToSet(slaves)                   \* else it panics
            /\ Positions(a) \subseteq DOMAIN weights      \* else it panics
            /\ slaves' = Kept(slaves, Positions(a))
            /\ weights' = Kept(weights, Positions(a))
            /\ InitBalancer(weights')
    /\ UNCHANGED <<master, alive, job, cur, todo, crashed, stuck>>
    /\ Heap(dbs)

(* Servers stop and come back.                                              *)
Flaps(a) ==
    /\ ~crashed
    /\ alive' = IF a \in alive THEN alive \ {a} ELSE alive \cup {a}
    /\ UNCHANGED <<dbs, master, slaves, balancer, job, cur, todo, crashed, stuck>>

Check ==
    \/ checkMaster \/ checkSlave \/ Ping \/ Answered \/ NotAnswered
    \/ NotManualDown \/ StoreUp

Call(p) ==
    \/ UpDB(p) \/ UpMaster(p) \/ UpSlave(p)
    \/ FindMaster(p) \/ FindSlave(p) \/ CloseDB(p) \/ StoreDown(p)

Next ==
    \/ Check
    \/ \E p \in Procs : Call(p)
    \/ \E p \in Admins, o \in Orders : Order(p, o)
    \/ \E s \in Additions : AddSlave(s.addr, s.weight)
    \/ \E a \in Addrs : DeleteSlave(a)
    \/ GetNextSlave
    \/ \E a \in Flaky : Flaps(a)

Spec == Init /\ [][Next]_vars

(* CheckNode runs for as long as the node is online.                        *)
FairSpec == Spec /\ WF_vars(Check \/ Call(checker))
-----------------------------------------------------------------------------
(* The heap holds exactly the DBs in use, n.Master is never nil, and the    *)
(* lists, the balancer and the processes stay within their types.           *)
TypeOK ==
    /\ DOMAIN dbs = Refs /\ Refs \subseteq DBs
    /\ \A d \in DOMAIN dbs : dbs[d] \in [addr : Addrs, state : States, open : BOOLEAN]
    /\ master \in DBs /\ cur \in DBs \cup {Nil}
    /\ slaves \in Seq(DBs \cup {Nil}) /\ todo \in Seq(DBs \cup {Nil})
    /\ weights \in Seq(Nat \ {0}) /\ queue \in Seq(Nat \ {0}) /\ last \in Nat
    /\ alive \subseteq Addrs
    /\ job \in [Procs -> [at : Places, kind : {"master", "slave"},
                          addr : Addrs \cup {Nil}, ref : DBs \cup {Nil}]]
    /\ crashed \in BOOLEAN /\ stuck \in BOOLEAN

(* A DB that is Down, by the checker or by an administrator, has a closed   *)
(* pool: whoever reads the state before GetConn gets no connection.         *)
DownIsClosed == \A d \in DOMAIN dbs : dbs[d].state \in {"Down", "ManualDown"} => ~dbs[d].open

(* A server is at most once in n.Slave, though the checker and the          *)
(* administrators may each be opening a DB for it.                          *)
Distinct ==
    \A j, k \in DOMAIN slaves :
        slaves[j] # Nil /\ slaves[k] # Nil /\ dbs[slaves[j]].addr = dbs[slaves[k]].addr => j = k

(* GetNextSlave checks no bound when the queue has one element.             *)
SafeIndex == Len(queue) = 1 => queue[1] <= Len(slaves)

(* Every slave has turns in proportion to its own weight, and a server      *)
(* keeps its weight while others come and go and its DB is replaced, until  *)
(* AddSlave fails after it has appended a weight, or UpSlave appends a      *)
(* slave, that was deleted meanwhile, without a weight (AddSlave,           *)
(* DeleteSlave, UpSlave, InitBalancer).                                     *)
Occurrences(q, i) == Cardinality({k \in DOMAIN q : q[k] = i})
InTurn ==
    /\ Len(slaves) = Len(weights) /\ ToSet(queue) = DOMAIN slaves
    /\ \A i, j \in DOMAIN slaves :
          weights[i] * Occurrences(queue, j) = weights[j] * Occurrences(queue, i)
KeepWeights ==
    \A j \in DOMAIN slaves, k \in DOMAIN slaves' :
        slaves[j] # Nil /\ slaves'[k] # Nil /\ dbs[slaves[j]].addr = dbs'[slaves'[k]].addr
            => weights'[k] = weights[j]
OneTooMany ==
    \/ UNCHANGED <<slaves, queue>> /\ Len(weights') = Len(weights) + 1
    \/ UNCHANGED <<weights, queue>> /\ Len(slaves') = Len(slaves) + 1
TurnsByWeight == InTurn /\ [][InTurn => (InTurn' /\ KeepWeights) \/ OneTooMany]_vars

(* A server that answers does not keep a closed pool: what the checker took *)
(* down it opens again, whatever is added or deleted meanwhile (an          *)
(* administrator's down closes a pool on purpose).                          *)
Closed(a) == \E d \in ({master} \cup ToSet(slaves)) \ {Nil} : dbs[d].addr = a /\ ~dbs[d].open
Recovery == \A a \in Addrs : ~ <>[](~crashed /\ ~stuck /\ a \in alive /\ Closed(a))

(* The checker outlives every order and every failure.                      *)
CheckerSurvives == ~crashed
=============================================================================
