------------------------------ MODULE ConnPool ------------------------------
(***************************************************************************)
(* The connection pool a DB keeps to one MySQL server (backend/db.go).     *)
(*                                                                         *)
(* The pool is two Go channels of capacity maxConnNum: cacheConns holds    *)
(* open connections, idleConns holds tokens, each the right to open one    *)
(* more.  Goroutines (Threads) pop a connection, use it, and give it back; *)
(* another goroutine may close the pool under them.  A step below is one   *)
(* access to shared state: the goroutine's private work is merged with it. *)
(*                                                                         *)
(* A connection is a member of Conns.  Its identity may be used again      *)
(* after co.Close(): newConn allocates a fresh object.                     *)
(***************************************************************************)
EXTENDS Integers, Sequences, FiniteSets, Functions

CONSTANTS Threads,        \* goroutines that serve clients
          Conns,          \* identities of backend connections
          NoConn,         \* the nil *Conn
          MaxConnsLimit   \* max_conns_limit of the node's configuration

ASSUME ConnPoolAssumption ==
    /\ IsFiniteSet(Threads)
    /\ NoConn \notin Conns
    /\ MaxConnsLimit \in Int

VARIABLES
    closer,     \* how far Close has got
    idle,       \* number of tokens in idleConns
    cache,      \* contents of cacheConns, in channel order
    pc,         \* where each goroutine is in PopConn / Close
    conn,       \* the connection a goroutine has in its hands
    ret,        \* where closeConn returns to
    net,        \* each connection's socket
    sess,       \* each connection's MySQL session
    balance,    \* pushConnCount - popConnCount
    checkConn   \* is the health checker's own connection open?

chanVars == <<closer, idle, cache>>
connVars == <<net, sess>>
vars == <<closer, idle, cache, pc, conn, ret, net, sess, balance, checkConn>>

(* Open: 0 or a negative limit selects the defaults. *)
MaxConnNum == IF 0 < MaxConnsLimit THEN MaxConnsLimit ELSE 1024
InitConnNum == IF 0 < MaxConnsLimit
               THEN IF MaxConnNum < 16 THEN MaxConnNum ELSE MaxConnNum \div 4
               ELSE 16

(* The two channel fields are nil from Close's critical section on; the    *)
(* channels themselves are closed later, one after the other.              *)
CloserStates == {"open", "taken", "draining", "closed"}
PoolClosed == closer # "open"
CacheChanClosed == closer \in {"draining", "closed"}
IdleChanClosed == closer = "closed"

PCs == {"idle", "cacheLen", "cacheRecv", "aged", "select", "agedIdle", "dial",
        "reuse", "held", "pushCache", "closing", "pushIdle", "panic"}

(* "free": no socket; "ok"; "dead": the server is gone, nobody has noticed; *)
(* "err": an I/O error set pkgErr.                                          *)
NetStates == {"free", "ok", "dead", "err"}

(* What MySQL knows of a session.  work: uncommitted writes of the client   *)
(* that used the connection last; "byPool": such writes were committed by   *)
(* the pool and not by their client.                                        *)
Sessions == [trans : BOOLEAN, auto : BOOLEAN, utf8 : BOOLEAN,
             work : {"none", "pending", "byPool"}]
CleanSession == [trans |-> FALSE, auto |-> TRUE, utf8 |-> TRUE, work |-> "none"]

(* The states in which a client can leave a session it has used: its        *)
(* uncommitted writes are in an open transaction.                           *)
UsedSessions == {s \in Sessions : s.work # "byPool" /\ (s.work = "pending" <=> s.trans)}

(* Open returns: InitConnNum connections are made, the rest are tokens.     *)
Init ==
    /\ closer = "open"
    /\ cache \in {s \in [1..InitConnNum -> Conns] : IsInjective(s)}
    /\ idle = MaxConnNum - InitConnNum
    /\ pc = [t \in Threads |-> "idle"]
    /\ conn = [t \in Threads |-> NoConn]
    /\ ret = [t \in Threads |-> "idle"]
    /\ net = [c \in Conns |-> IF c \in Range(cache) THEN "ok" ELSE "free"]
    /\ sess = [c \in Conns |-> CleanSession]
    /\ balance = MaxConnNum
    /\ checkConn = TRUE

Goto(t, l) == pc' = [pc EXCEPT ![t] = l]

(* The caller of closeConn has counted the push; r is where it goes on.     *)
CallCloseConn(t, r) ==
    /\ Goto(t, "closing")
    /\ ret' = [ret EXCEPT ![t] = r]
Return(t) ==
    /\ Goto(t, ret[t])
    /\ ret' = [ret EXCEPT ![t] = "idle"]
-----------------------------------------------------------------------------
(* PopConn: read the channels under RLock; ErrDatabaseClose when nil.       *)
PopConn(t) ==
    /\ pc[t] = "idle"
    /\ conn[t] = NoConn
    /\ IF PoolClosed THEN pc' = pc ELSE Goto(t, "cacheLen")
    /\ UNCHANGED <<chanVars, conn, ret, connVars, balance, checkConn>>

(* GetConnFromCache: the loop's test 0 < len(cacheConns).                   *)
CacheLen(t) ==
    /\ pc[t] = "cacheLen"
    /\ Goto(t, IF 0 < Len(cache) THEN "cacheRecv" ELSE "select")
    /\ UNCHANGED <<chanVars, conn, ret, connVars, balance, checkConn>>

(* Take the first connection of cacheConns.                                 *)
TakeCached(t) ==
    /\ cache # <<>>
    /\ conn' = [conn EXCEPT ![t] = Head(cache)]
    /\ cache' = Tail(cache)
    /\ UNCHANGED <<closer, idle>>

(* Mutant: the goroutine retries the bare receive after a nil.              *)
CacheRecvRetries(t) ==
    /\ pc[t] = "cacheRecv"
    /\ TakeCached(t) /\ Goto(t, "aged")
    /\ balance' = balance - 1
    /\ UNCHANGED <<ret, connVars, checkConn>>

(* GetConnFromCache: co = <-cacheConns.  Blocks when another goroutine took *)
(* the connection the test saw, unless the channel is closed (co = nil).    *)
CacheRecv(t) ==
    /\ pc[t] = "cacheRecv"
    /\ \/ TakeCached(t) /\ Goto(t, "aged")
       \/ /\ cache = <<>> /\ CacheChanClosed
          /\ Goto(t, "cacheLen")
          /\ UNCHANGED <<chanVars, conn>>
    /\ balance' = balance - 1
    /\ UNCHANGED <<ret, connVars, checkConn>>

(* Mutant: closeConnNotAdd in place of closeConn after a failed ping.       *)
PingAgedNotAdd(t, from, onFailure) ==
    /\ pc[t] = from
    /\ \/ Goto(t, "reuse") /\ UNCHANGED ret
       \/ net[conn[t]] # "ok" /\ CallCloseConn(t, onFailure)
    /\ UNCHANGED <<chanVars, conn, connVars, balance, checkConn>>

(* The ping of a connection that lay in the cache for more than PingPeroid. *)
(* A young one is not pinged, and a failed ping closes the connection.      *)
PingAged(t, from, onFailure) ==
    /\ pc[t] = from
    /\ \/ /\ Goto(t, "reuse")
          /\ UNCHANGED <<ret, balance>>
       \/ /\ net[conn[t]] # "ok"
          /\ CallCloseConn(t, onFailure)
          /\ balance' = balance + 1
    /\ UNCHANGED <<chanVars, conn, connVars, checkConn>>

AgedFromCache(t) == PingAged(t, "aged", "cacheLen")
AgedFromIdle(t) == PingAged(t, "agedIdle", "idle")

(* Mutant: the token is looked at and left in idleConns.                    *)
GetConnFromIdlePeeks(t) ==
    /\ pc[t] = "select"
    /\ \/ idle > 0 /\ Goto(t, "dial") /\ UNCHANGED <<chanVars, conn>>
       \/ TakeCached(t) /\ Goto(t, "agedIdle")
    /\ balance' = balance - 1
    /\ UNCHANGED <<ret, connVars, checkConn>>

(* GetConnFromIdle: the select over both channels.  A closed and empty      *)
(* idleConns yields nil too, and is taken for a token.                      *)
GetConnFromIdle(t) ==
    /\ pc[t] = "select"
    /\ \/ /\ idle > 0 \/ IdleChanClosed
          /\ idle' = IF idle > 0 THEN idle - 1 ELSE 0
          /\ Goto(t, "dial")
          /\ UNCHANGED <<closer, cache, conn>>
       \/ TakeCached(t) /\ Goto(t, "agedIdle")
       \/ /\ cache = <<>> /\ CacheChanClosed      \* ErrConnIsNil
          /\ Goto(t, "idle")
          /\ UNCHANGED <<chanVars, conn>>
    /\ balance' = balance - 1
    /\ UNCHANGED <<ret, connVars, checkConn>>

(* Mutant: a failed dial returns without closeConn.                         *)
DialDropsToken(t) ==
    /\ pc[t] = "dial"
    /\ \/ \E c \in Conns :
            /\ net[c] = "free"
            /\ conn' = [conn EXCEPT ![t] = c]
            /\ net' = [net EXCEPT ![c] = "ok"]
            /\ sess' = [sess EXCEPT ![c] = CleanSession]
          /\ Goto(t, "reuse")
       \/ Goto(t, "idle") /\ UNCHANGED <<conn, connVars>>
    /\ UNCHANGED <<chanVars, ret, balance, checkConn>>

(* newConn and the Ping that follows it.                                    *)
Dial(t) ==
    /\ pc[t] = "dial"
    /\ \/ \E c \in Conns :
            /\ net[c] = "free"
            /\ conn' = [conn EXCEPT ![t] = c]
            /\ net' = [net EXCEPT ![c] = "ok"]
            /\ sess' = [sess EXCEPT ![c] = CleanSession]
          /\ Goto(t, "reuse")
          /\ UNCHANGED <<ret, balance>>
       \/ /\ CallCloseConn(t, "idle")
          /\ balance' = balance + 1
          /\ UNCHANGED <<conn, connVars>>
    /\ UNCHANGED <<chanVars, checkConn>>

(* tryReuse, in the code's order.  Turning autocommit on commits what is    *)
(* still pending in the session (MySQL).                                    *)
RollbackOpen(s) ==
    IF s.trans THEN [s EXCEPT !.trans = FALSE, !.work = "none"] ELSE s
AutocommitOn(s) ==
    IF s.auto THEN s
    ELSE [s EXCEPT !.auto = TRUE, !.trans = FALSE,
                   !.work = IF s.work = "pending" THEN "byPool" ELSE s.work]
DefaultCharset(s) == [s EXCEPT !.utf8 = TRUE]

(* Mutants: autocommit is left off; it is turned on before the rollback.    *)
ReusedKeepsAutocommit(s) == DefaultCharset(RollbackOpen(s))
ReusedCommitsFirst(s) == DefaultCharset(RollbackOpen(AutocommitOn(s)))

Reused(s) == DefaultCharset(AutocommitOn(RollbackOpen(s)))

(* A connection whose session needs no repair is handed out without I/O,    *)
(* so even when it is dead; any failed repair closes it.                    *)
TryReuse(t) ==
    /\ pc[t] = "reuse"
    /\ LET c == conn[t] IN
       \/ /\ net[c] = "ok" \/ Reused(sess[c]) = sess[c]
          /\ sess' = [sess EXCEPT ![c] = Reused(sess[c])]
          /\ Goto(t, "held")
          /\ UNCHANGED <<ret, balance>>
       \/ /\ Reused(sess[c]) # sess[c]
          /\ CallCloseConn(t, "idle")
          /\ balance' = balance + 1
          /\ UNCHANGED sess
    /\ UNCHANGED <<chanVars, conn, net, checkConn>>
-----------------------------------------------------------------------------
(* The client's statements: they leave the session in some state, or fail   *)
(* with an I/O error that sets pkgErr.                                      *)
Use(t) ==
    /\ pc[t] = "held"
    /\ \/ /\ net[conn[t]] = "ok"
          /\ \E s \in UsedSessions : sess' = [sess EXCEPT ![conn[t]] = s]
          /\ UNCHANGED net
       \/ /\ net[conn[t]] = "dead"
          /\ net' = [net EXCEPT ![conn[t]] = "err"]
          /\ UNCHANGED sess
    /\ UNCHANGED <<chanVars, pc, conn, ret, balance, checkConn>>

(* co.Close(): the session is gone, the object is a token from now on.      *)
Shut(t) ==
    /\ net' = [net EXCEPT ![conn[t]] = "free"]
    /\ sess' = [sess EXCEPT ![conn[t]] = CleanSession]
    /\ conn' = [conn EXCEPT ![t] = NoConn]

(* Mutant: p.Conn = nil runs before PushConn.                               *)
CloseForgetsFirst(t) ==
    /\ pc[t] \in {"held", "idle"}
    /\ conn[t] # NoConn
    /\ balance' = balance + 1
    /\ conn' = [conn EXCEPT ![t] = NoConn]
    /\ Goto(t, IF net[conn[t]] = "err" THEN "closing" ELSE "pushCache")
    /\ UNCHANGED <<chanVars, connVars, ret, checkConn>>

(* BackendConn.Close: closeConn after an I/O error, PushConn otherwise.     *)
(* It does nothing once the connection was given back (p.Conn = nil).       *)
Close(t) ==
    /\ pc[t] \in {"held", "idle"}
    /\ conn[t] # NoConn
    /\ balance' = balance + 1
    /\ \/ /\ net[conn[t]] = "err"
          /\ CallCloseConn(t, "idle")
          /\ UNCHANGED <<conn, connVars>>
       \/ /\ net[conn[t]] # "err"
          /\ IF PoolClosed THEN Goto(t, "idle") /\ Shut(t)
                           ELSE Goto(t, "pushCache") /\ UNCHANGED <<conn, connVars>>
          /\ UNCHANGED ret
    /\ UNCHANGED <<chanVars, checkConn>>

(* Mutant: Close does not set p.Conn to nil.                                *)
PushCacheKeepsConn(t) ==
    /\ pc[t] = "pushCache"
    /\ ~CacheChanClosed /\ Len(cache) < MaxConnNum
    /\ cache' = Append(cache, conn[t])
    /\ Goto(t, "idle")
    /\ UNCHANGED <<closer, idle, conn, ret, connVars, balance, checkConn>>

(* PushConn's select: a send on a closed channel panics, a full channel     *)
(* takes the default branch (closeConnNotAdd).                              *)
PushCache(t) ==
    /\ pc[t] = "pushCache"
    /\ \/ /\ CacheChanClosed
          /\ Goto(t, "panic")
          /\ UNCHANGED <<cache, conn, ret>>
       \/ /\ ~CacheChanClosed
          /\ IF Len(cache) < MaxConnNum
             THEN /\ cache' = Append(cache, conn[t])
                  /\ conn' = [conn EXCEPT ![t] = NoConn]
                  /\ Goto(t, "idle")
                  /\ UNCHANGED ret
             ELSE CallCloseConn(t, "idle") /\ UNCHANGED <<cache, conn>>
    /\ UNCHANGED <<closer, idle, connVars, balance, checkConn>>

(* closeConn, closeConnNotAdd and addIdleConn: close the socket if there is *)
(* one and read the channel field; the token is dropped when it is nil.     *)
ReadIdleChan(t) ==
    /\ pc[t] = "closing"
    /\ IF conn[t] # NoConn THEN Shut(t) ELSE UNCHANGED <<conn, connVars>>
    /\ IF PoolClosed THEN Return(t) ELSE Goto(t, "pushIdle") /\ UNCHANGED ret
    /\ UNCHANGED <<chanVars, balance, checkConn>>

(* closeConn's select: send the token to idleConns.                         *)
PushIdle(t) ==
    /\ pc[t] = "pushIdle"
    /\ idle' = IF ~IdleChanClosed /\ idle < MaxConnNum THEN idle + 1 ELSE idle
    /\ IF IdleChanClosed THEN Goto(t, "panic") /\ UNCHANGED ret ELSE Return(t)
    /\ UNCHANGED <<closer, cache, conn, connVars, balance, checkConn>>

(* handleQuery recovers the panic; the connection is left to the collector. *)
Recover(t) ==
    /\ pc[t] = "panic"
    /\ Goto(t, "idle")
    /\ ret' = [ret EXCEPT ![t] = "idle"]
    /\ IF conn[t] # NoConn THEN Shut(t) ELSE UNCHANGED <<conn, connVars>>
    /\ UNCHANGED <<chanVars, balance, checkConn>>
-----------------------------------------------------------------------------
(* DB.Close, step by step; a second call finds the fields nil and returns.  *)
CloseTake ==
    /\ closer = "open"
    /\ closer' = "taken"
    /\ UNCHANGED <<idle, cache, pc, conn, ret, connVars, balance, checkConn>>

CloseCache ==
    /\ closer = "taken"
    /\ closer' = "draining"
    /\ UNCHANGED <<idle, cache, pc, conn, ret, connVars, balance, checkConn>>

(* One turn of the loop over the closed cacheConns: closeConn(conn).        *)
CloseDrain ==
    /\ closer = "draining"
    /\ cache # <<>>
    /\ cache' = Tail(cache)
    /\ net' = [net EXCEPT ![Head(cache)] = "free"]
    /\ sess' = [sess EXCEPT ![Head(cache)] = CleanSession]
    /\ balance' = balance + 1
    /\ UNCHANGED <<closer, idle, pc, conn, ret, checkConn>>

CloseIdle ==
    /\ closer = "draining"
    /\ cache = <<>>
    /\ closer' = "closed"
    /\ UNCHANGED <<idle, cache, pc, conn, ret, connVars, balance, checkConn>>

(* DB.Ping, called by the node's checker: checkConn is opened when it is    *)
(* nil, and closed and reset to nil when dialling or the ping fails.        *)
Ping ==
    /\ checkConn' \in BOOLEAN
    /\ UNCHANGED <<chanVars, pc, conn, ret, connVars, balance>>

(* The server drops a connection (restart, wait_timeout): it rolls back.    *)
ConnDies(c) ==
    /\ net[c] = "ok"
    /\ net' = [net EXCEPT ![c] = "dead"]
    /\ sess' = [sess EXCEPT ![c].work = "none"]
    /\ UNCHANGED <<chanVars, pc, conn, ret, balance, checkConn>>

Pop(t) == \/ PopConn(t) \/ CacheLen(t) \/ CacheRecv(t) \/ AgedFromCache(t)
          \/ GetConnFromIdle(t) \/ AgedFromIdle(t) \/ Dial(t) \/ TryReuse(t)
GiveBack(t) == Close(t) \/ PushCache(t) \/ ReadIdleChan(t) \/ PushIdle(t) \/ Recover(t)
CloseDB == CloseTake \/ CloseCache \/ CloseDrain \/ CloseIdle

Next ==
    \/ \E t \in Threads : Pop(t) \/ Use(t) \/ GiveBack(t)
    \/ \E c \in Conns : ConnDies(c)
    \/ CloseDB
    \/ Ping

Spec == Init /\ [][Next]_vars

(* A goroutine runs until it blocks, a statement ends and gives its         *)
(* connection back, Close runs to its end.  Strong fairness on the select:  *)
(* a Go channel serves its blocked receivers in order of arrival.           *)
Fairness ==
    /\ \A t \in Threads :
        /\ WF_vars(CacheLen(t) \/ CacheRecv(t) \/ AgedFromCache(t) \/ AgedFromIdle(t)
                   \/ Dial(t) \/ TryReuse(t))
        /\ SF_vars(GetConnFromIdle(t))
        /\ WF_vars(GiveBack(t))
    /\ WF_vars(CloseCache \/ CloseDrain \/ CloseIdle)

FairSpec == Spec /\ Fairness
-----------------------------------------------------------------------------
TypeOK ==
    /\ closer \in CloserStates
    /\ idle \in 0..MaxConnNum
    /\ cache \in Seq(Conns)
    /\ pc \in [Threads -> PCs]
    /\ conn \in [Threads -> Conns \cup {NoConn}]
    /\ ret \in [Threads -> {"idle", "cacheLen"}]
    /\ net \in [Conns -> NetStates]
    /\ sess \in [Conns -> Sessions]
    /\ balance \in Int
    /\ checkConn \in BOOLEAN

(* The places where a goroutine answers for one slot of the pool, and those *)
(* where it has already been counted in pushConnCount.                      *)
Returning == {"pushCache", "closing", "pushIdle"}
Holding == {"aged", "agedIdle", "dial", "reuse", "held"} \cup Returning
At(L) == {t \in Threads : pc[t] \in L}

(* The slots the two channels hold. *)
Free == idle + Len(cache)

(* No slot is lost or made up while the pool is open: every failed dial,    *)
(* ping and reset, and every BackendConn.Close gives exactly one slot back. *)
TokenConservation ==
    closer = "open" => Free + Cardinality(At(Holding)) = MaxConnNum

(* pushConnCount - popConnCount, the figures exported for diagnosis, count  *)
(* the free slots: closeConn adds one, and PushConn, which has added one,   *)
(* must go on with closeConnNotAdd.                                         *)
CounterAccounting ==
    closer = "open" => balance = Free + Cardinality(At(Returning))

(* A goroutine that gives a slot back to an open pool finds room in both    *)
(* channels: the default branches of PushConn and closeConn, which would    *)
(* lose a connection or a slot, are never taken.                            *)
RoomToReturn ==
    closer = "open" /\ At(Returning) # {} => Len(cache) < MaxConnNum /\ idle < MaxConnNum

(* A connection is in one place only: once in the cache or with one         *)
(* goroutine, also across Close, a panic, and a second BackendConn.Close.   *)
Exclusive ==
    /\ IsInjective(cache)
    /\ \A t \in Threads : conn[t] # NoConn =>
        /\ conn[t] \notin Range(cache)
        /\ \A u \in Threads : conn[u] = conn[t] => u = t

(* Every step that hands a connection to a client hands out a session with  *)
(* no open transaction, autocommit on and the default charset (tryReuse).   *)
PoppedClean ==
    [][\A t \in Threads : pc[t] = "reuse" /\ pc'[t] = "held" =>
            sess'[conn'[t]] = CleanSession]_vars

(* Resetting a connection never commits what its last client left           *)
(* uncommitted: tryReuse rolls back before it turns autocommit on.          *)
NoPoolCommit == \A c \in Conns : sess[c].work # "byPool"

(* PopConn's select is eventually served, whatever fails, if connections    *)
(* are given back.                                                          *)
SelectServed == \A t \in Threads : pc[t] = "select" ~> pc[t] # "select"

(* Close ends, and wakes every goroutine blocked on one of its channels,    *)
(* the bare receive of GetConnFromCache included.                           *)
CloseReleasesWaiters ==
    closer # "open" ~> closer = "closed" /\ At({"cacheRecv", "select"}) = {}
=============================================================================
