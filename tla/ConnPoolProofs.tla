--------------------------- MODULE ConnPoolProofs ---------------------------
(* Proofs about ConnPool, for every set of goroutines, every set of         *)
(* connection identities and every max_conns_limit.                         *)
EXTENDS ConnPool, FiniteSetTheorems, TLAPS

(* Where a goroutine surely has a connection in its hands, and where it     *)
(* surely has none.                                                         *)
WithConn == {"aged", "agedIdle", "reuse", "held", "pushCache"}
WithoutConn == {"idle", "cacheLen", "cacheRecv", "select", "dial", "pushIdle"}

Hands ==
    \A t \in Threads : /\ pc[t] \in WithConn => conn[t] # NoConn
                       /\ pc[t] \in WithoutConn => conn[t] = NoConn

TypeInv == TypeOK /\ Hands

(* The pool's capacity is positive, and Open fills no more than that.       *)
LEMMA Capacity == /\ MaxConnNum \in Nat \ {0}
                  /\ InitConnNum \in 0..MaxConnNum
  BY ConnPoolAssumption DEF MaxConnNum, InitConnNum

(* The types hold at first.                                                *)
LEMMA InitTypeInv == Init => TypeInv
  <1> SUFFICES ASSUME Init PROVE TypeInv
    OBVIOUS
  <1>1. cache \in Seq(Conns)
    BY Capacity DEF Init
  <1>2. CleanSession \in Sessions
    BY DEF CleanSession, Sessions
  <1> QED
    BY <1>1, <1>2, Capacity
    DEF Init, TypeInv, TypeOK, Hands, WithConn, WithoutConn, PCs, CloserStates, NetStates

(* What a session changes of its own record keeps its type.                *)
LEMMA SessionTypes ==
    /\ CleanSession \in Sessions
    /\ UsedSessions \subseteq Sessions
    /\ \A s \in Sessions : Reused(s) \in Sessions
  <1>1. CleanSession \in Sessions
    BY DEF CleanSession, Sessions
  <1>2. UsedSessions \subseteq Sessions
    BY <1>1 DEF UsedSessions, Sessions
  <1>3. ASSUME NEW s \in Sessions PROVE RollbackOpen(s) \in Sessions
    BY Zenon DEF Sessions, RollbackOpen
  <1>4. ASSUME NEW s \in Sessions PROVE AutocommitOn(s) \in Sessions
    BY Zenon DEF Sessions, AutocommitOn
  <1>5. ASSUME NEW s \in Sessions PROVE DefaultCharset(s) \in Sessions
    BY Zenon DEF Sessions, DefaultCharset
  <1> QED
    BY <1>1, <1>2, <1>3, <1>4, <1>5 DEF Reused

(* What TakeCached takes is a connection, and it leaves connections.       *)
LEMMA TakenTypes ==
    ASSUME TypeInv, NEW t \in Threads, TakeCached(t)
    PROVE  /\ cache' \in Seq(Conns) /\ UNCHANGED <<closer, idle>>
           /\ conn' \in [Threads -> Conns \cup {NoConn}]
           /\ conn'[t] # NoConn /\ \A u \in Threads \ {t} : conn'[u] = conn[u]
  <1>1. /\ cache \in Seq(Conns) /\ cache # <<>>
        /\ conn \in [Threads -> Conns \cup {NoConn}]
    BY DEF TakeCached, TypeInv, TypeOK
  <1>2. Head(cache) \in Conns /\ Tail(cache) \in Seq(Conns)
    BY <1>1
  <1> DEFINE h == Head(cache)
  <1>3. conn' = [conn EXCEPT ![t] = h] /\ cache' = Tail(cache) /\ UNCHANGED <<closer, idle>>
    BY DEF TakeCached
  <1>4. h \in Conns /\ h # NoConn
    BY <1>2, ConnPoolAssumption
  <1> HIDE DEF h
  <1> QED
    BY <1>1, <1>2, <1>3, <1>4

(* Every step keeps the types.                                             *)
LEMMA NextTypeInv == TypeInv /\ [Next]_vars => TypeInv'
  <1> SUFFICES ASSUME TypeInv, [Next]_vars PROVE TypeInv'
    OBVIOUS
  <1> USE Capacity, ConnPoolAssumption, SessionTypes
      DEF TypeInv, TypeOK, Hands, WithConn, WithoutConn, PCs, CloserStates, NetStates,
          Goto, CallCloseConn, Return, Shut, chanVars, connVars, PoolClosed,
          CacheChanClosed, IdleChanClosed
  <1>1. ASSUME NEW t \in Threads, PopConn(t) PROVE TypeInv'
    <2>1. CASE PoolClosed
      BY <1>1, <2>1 DEF PopConn
    <2>2. CASE ~PoolClosed
      BY <1>1, <2>2 DEF PopConn
    <2> QED
      BY <2>1, <2>2, Zenon
  <1>2. ASSUME NEW t \in Threads, CacheLen(t) PROVE TypeInv'
    BY <1>2 DEF CacheLen
  <1>3. ASSUME NEW t \in Threads, CacheRecv(t) PROVE TypeInv'
    <2>1. CASE TakeCached(t)
      BY <1>3, <2>1, TakenTypes DEF CacheRecv
    <2>2. CASE ~TakeCached(t)
      BY <1>3, <2>2 DEF CacheRecv
    <2> QED
      BY <2>1, <2>2
  <1>4. ASSUME NEW t \in Threads, AgedFromCache(t) PROVE TypeInv'
    BY <1>4 DEF AgedFromCache, PingAged
  <1>5. ASSUME NEW t \in Threads, GetConnFromIdle(t) PROVE TypeInv'
    <2>0. pc[t] = "select" /\ balance' = balance - 1 /\ UNCHANGED <<ret, connVars, checkConn>>
      BY <1>5 DEF GetConnFromIdle
    <2>1. CASE /\ idle' = IF idle > 0 THEN idle - 1 ELSE 0
               /\ Goto(t, "dial") /\ UNCHANGED <<closer, cache, conn>>
      BY <2>0, <2>1
    <2>2. CASE TakeCached(t) /\ Goto(t, "agedIdle")
      BY <2>0, <2>2, TakenTypes
    <2>3. CASE UNCHANGED <<chanVars, conn>> /\ Goto(t, "idle")
      BY <2>0, <2>3
    <2> QED
      BY <1>5, <2>1, <2>2, <2>3, Zenon DEF GetConnFromIdle
  <1>6. ASSUME NEW t \in Threads, AgedFromIdle(t) PROVE TypeInv'
    BY <1>6 DEF AgedFromIdle, PingAged
  <1>7. ASSUME NEW t \in Threads, Dial(t) PROVE TypeInv'
    BY <1>7 DEF Dial
  <1>8. ASSUME NEW t \in Threads, TryReuse(t) PROVE TypeInv'
    BY <1>8 DEF TryReuse
  <1>9. ASSUME NEW t \in Threads, Use(t) PROVE TypeInv'
    BY <1>9 DEF Use
  <1>10. ASSUME NEW t \in Threads, Close(t) PROVE TypeInv'
    <2>1. CASE net[conn[t]] = "err"
      <3>1. /\ CallCloseConn(t, "idle") /\ balance' = balance + 1
            /\ UNCHANGED <<conn, connVars, chanVars, checkConn>>
        BY <1>10, <2>1 DEF Close
      <3> QED
        BY <3>1
    <2>2. CASE net[conn[t]] # "err" /\ PoolClosed
      BY <1>10, <2>2 DEF Close
    <2>3. CASE net[conn[t]] # "err" /\ ~PoolClosed
      BY <1>10, <2>3 DEF Close
    <2> QED
      BY <2>1, <2>2, <2>3
  <1>11. ASSUME NEW t \in Threads, PushCache(t) PROVE TypeInv'
    <2>1. conn[t] \in Conns
      BY <1>11 DEF PushCache
    <2>2. CASE CacheChanClosed
      BY <1>11, <2>2 DEF PushCache
    <2>3. CASE ~CacheChanClosed /\ Len(cache) < MaxConnNum
      <3>1. cache' \in Seq(Conns)
        BY <1>11, <2>1, <2>3 DEF PushCache
      <3> QED
        BY <1>11, <2>1, <2>3, <3>1 DEF PushCache
    <2>4. CASE ~CacheChanClosed /\ ~(Len(cache) < MaxConnNum)
      BY <1>11, <2>4 DEF PushCache
    <2> QED
      BY <2>2, <2>3, <2>4
  <1>12. ASSUME NEW t \in Threads, ReadIdleChan(t) PROVE TypeInv'
    <2>1. CASE conn[t] = NoConn
      <3>1. UNCHANGED <<chanVars, balance, checkConn, conn, connVars>>
        BY <1>12, <2>1 DEF ReadIdleChan
      <3>2. CASE PoolClosed
        BY <1>12, <2>1, <3>1, <3>2 DEF ReadIdleChan
      <3>3. CASE ~PoolClosed
        BY <1>12, <2>1, <3>1, <3>3 DEF ReadIdleChan
      <3> QED
        BY <3>2, <3>3
    <2>2. CASE conn[t] # NoConn
      <3>1. UNCHANGED <<chanVars, balance, checkConn>> /\ Shut(t)
        BY <1>12, <2>2 DEF ReadIdleChan
      <3>2. CASE PoolClosed
        BY <1>12, <2>2, <3>1, <3>2 DEF ReadIdleChan
      <3>3. CASE ~PoolClosed
        BY <1>12, <2>2, <3>1, <3>3 DEF ReadIdleChan
      <3> QED
        BY <3>2, <3>3
    <2> QED
      BY <2>1, <2>2
  <1>13. ASSUME NEW t \in Threads, PushIdle(t) PROVE TypeInv'
    BY <1>13 DEF PushIdle
  <1>14. ASSUME NEW t \in Threads, Recover(t) PROVE TypeInv'
    BY <1>14 DEF Recover
  <1>15. ASSUME NEW c \in Conns, ConnDies(c) PROVE TypeInv'
    <2>1. [sess[c] EXCEPT !.work = "none"] \in Sessions
      BY DEF Sessions
    <2>2. sess' \in [Conns -> Sessions]
      BY <1>15, <2>1 DEF ConnDies
    <2> QED
      BY <1>15, <2>2 DEF ConnDies
  <1>16. CASE CloseTake
    BY <1>16 DEF CloseTake
  <1>17. CASE CloseCache
    BY <1>17 DEF CloseCache
  <1>18. CASE CloseDrain
    BY <1>18 DEF CloseDrain
  <1>19. CASE CloseIdle
    BY <1>19 DEF CloseIdle
  <1>20. CASE Ping
    BY <1>20 DEF Ping
  <1>21. CASE UNCHANGED vars
    BY <1>21 DEF vars
  <1> QED
    BY <1>1, <1>2, <1>3, <1>4, <1>5, <1>6, <1>7, <1>8, <1>9, <1>10, <1>11, <1>12,
       <1>13, <1>14, <1>15, <1>16, <1>17, <1>18, <1>19, <1>20, <1>21, Zenon
    DEF Next, Pop, GiveBack, CloseDB

(* Every variable keeps its type: in particular only real connections enter *)
(* cacheConns, and idleConns never holds more than maxConnNum tokens.       *)
THEOREM TypeCorrect == Spec => []TypeOK
  <1>1. TypeInv => TypeOK
    BY DEF TypeInv
  <1> QED
    BY <1>1, InitTypeInv, NextTypeInv, PTL DEF Spec
-----------------------------------------------------------------------------
One(l, L) == IF l \in L THEN 1 ELSE 0

(* The number of goroutines in a set of places, when one of them moves.     *)
LEMMA Moved ==
    ASSUME TypeOK, NEW t \in Threads, NEW m \in PCs, NEW L, Goto(t, m)
    PROVE  /\ Cardinality(At(L)) \in Nat
           /\ Cardinality(At(L)') = Cardinality(At(L)) + (One(m, L) - One(pc[t], L))
  <1>1. IsFiniteSet(At(L)) /\ Cardinality(At(L)) \in Nat
    BY ConnPoolAssumption, FS_Subset, FS_CardinalityType DEF At
  <1>2. \A u \in Threads : pc'[u] = IF u = t THEN m ELSE pc[u]
    BY DEF TypeOK, Goto
  <1>3. CASE m \in L /\ pc[t] \notin L
    <2>1. At(L)' = At(L) \cup {t} /\ t \notin At(L)
      BY <1>2, <1>3 DEF At
    <2> QED
      <3>1. Cardinality(At(L) \cup {t}) = Cardinality(At(L)) + 1
        BY <1>1, <2>1, FS_AddElement
      <3> QED
        BY <1>1, <1>3, <2>1, <3>1 DEF One
  <1>4. CASE m \notin L /\ pc[t] \in L
    <2>1. At(L)' = At(L) \ {t} /\ t \in At(L)
      BY <1>2, <1>4 DEF At
    <2>2. Cardinality(At(L) \ {t}) = Cardinality(At(L)) - 1 /\ Cardinality(At(L) \ {t}) \in Nat
      BY <1>1, <2>1, FS_RemoveElement, FS_CardinalityType
    <2> QED
      BY <1>1, <1>4, <2>1, <2>2 DEF One
  <1>5. CASE m \in L <=> pc[t] \in L
    <2>1. At(L)' = At(L)
      BY <1>2, <1>5 DEF At
    <2> QED
      BY <1>1, <1>5, <2>1 DEF One
  <1> QED
    BY <1>3, <1>4, <1>5

(* Conservation and the counters' accounting are inductive together with    *)
(* the types.                                                               *)
Slots == TokenConservation /\ CounterAccounting

(* Slots holds at first.                                                   *)
LEMMA InitSlots == Init => Slots
  <1> SUFFICES ASSUME Init PROVE Slots
    OBVIOUS
  <1>1. At(Holding) = {} /\ At(Returning) = {}
    BY DEF Init, At, Holding, Returning
  <1>2. Len(cache) = InitConnNum
    BY Capacity DEF Init
  <1> QED
    BY <1>1, <1>2, FS_EmptySet, Capacity
    DEF Init, Slots, TokenConservation, CounterAccounting, Free

(* One goroutine moves from pc[t] to m while the channels and the counters  *)
(* change: what the step must do for Slots to survive.  h and r say by how  *)
(* much the goroutines that hold, and that return, a slot grow in number.   *)
LEMMA SlotsMoved ==
    ASSUME TypeOK, TypeOK', Slots, closer = "open",
           NEW t \in Threads, NEW m \in PCs, Goto(t, m),
           NEW h \in Int, h = One(m, Holding) - One(pc[t], Holding), Free' = Free - h,
           NEW r \in Int, r = One(m, Returning) - One(pc[t], Returning),
           balance' = balance - h + r
    PROVE  Slots'
  <1>1. Free \in Int /\ Free' \in Int /\ balance \in Int /\ balance' \in Int
    <2>1. idle \in Int /\ Len(cache) \in Int /\ balance \in Int
      BY Capacity DEF TypeOK
    <2>2. idle' \in Int /\ Len(cache') \in Int /\ balance' \in Int
      BY Capacity DEF TypeOK
    <2> QED
      BY <2>1, <2>2 DEF Free
  <1>2. /\ Cardinality(At(Holding)) \in Int
        /\ Cardinality(At(Holding)') = Cardinality(At(Holding)) + h
    BY Moved
  <1>3. /\ Cardinality(At(Returning)) \in Int
        /\ Cardinality(At(Returning)') = Cardinality(At(Returning)) + r
    BY Moved
  <1>4. TokenConservation'
    BY <1>1, <1>2 DEF Slots, TokenConservation
  <1>5. CounterAccounting'
    BY <1>1, <1>3 DEF Slots, CounterAccounting
  <1> QED
    BY <1>4, <1>5 DEF Slots

(* A goroutine that holds a slot leaves room in both channels.              *)
LEMMA Room ==
    ASSUME TypeOK, TokenConservation, closer = "open",
           NEW t \in Threads, pc[t] \in Holding
    PROVE  Len(cache) < MaxConnNum /\ idle < MaxConnNum
  <1>1. IsFiniteSet(At(Holding)) /\ t \in At(Holding)
    BY ConnPoolAssumption, FS_Subset DEF At
  <1>2. Cardinality(At(Holding)) \in Nat /\ Cardinality(At(Holding)) # 0
    BY <1>1, FS_EmptySet, FS_CardinalityType
  <1> QED
    BY <1>2, Capacity DEF TypeOK, TokenConservation, Free

(* The four kinds of step: a goroutine that stays on its side, takes a      *)
(* slot, turns back with it, and gives it back.                             *)
Side(l) == IF l \in Returning THEN "back" ELSE IF l \in Holding THEN "hold" ELSE "out"

(* What a step moves between channel, sessions and checker.                *)
LEMMA SlotSteps ==
    ASSUME TypeOK, TypeOK', Slots, closer = "open",
           NEW t \in Threads, NEW m \in PCs, Goto(t, m),
           \/ Side(pc[t]) = Side(m) /\ Free' = Free /\ balance' = balance
           \/ /\ Side(pc[t]) = "out" /\ Side(m) = "hold"
              /\ Free' = Free - 1 /\ balance' = balance - 1
           \/ /\ Side(pc[t]) = "hold" /\ Side(m) = "back"
              /\ Free' = Free /\ balance' = balance + 1
           \/ /\ Side(pc[t]) = "back" /\ Side(m) = "out"
              /\ Free' = Free + 1 /\ balance' = balance
    PROVE  Slots'
  <1>1. Free \in Int /\ balance \in Int
    BY DEF TypeOK, Free
  <1>2. \A l : /\ One(l, Holding) = IF Side(l) = "out" THEN 0 ELSE 1
              /\ One(l, Returning) = IF Side(l) = "back" THEN 1 ELSE 0
    BY DEF One, Side, Holding
  <1>3. CASE Side(pc[t]) = Side(m) /\ Free' = Free /\ balance' = balance
    <2>1. 0 = One(m, Holding) - One(pc[t], Holding) /\ 0 = One(m, Returning) - One(pc[t], Returning)
      BY <1>2, <1>3
    <2> QED
      BY <1>1, <1>3, <2>1, SlotsMoved
  <1>4. CASE /\ Side(pc[t]) = "out" /\ Side(m) = "hold"
             /\ Free' = Free - 1 /\ balance' = balance - 1
    <2>1. 1 = One(m, Holding) - One(pc[t], Holding) /\ 0 = One(m, Returning) - One(pc[t], Returning)
      BY <1>2, <1>4
    <2> QED
      BY <1>1, <1>4, <2>1, SlotsMoved
  <1>5. CASE /\ Side(pc[t]) = "hold" /\ Side(m) = "back"
             /\ Free' = Free /\ balance' = balance + 1
    <2>1. 0 = One(m, Holding) - One(pc[t], Holding) /\ 1 = One(m, Returning) - One(pc[t], Returning)
      BY <1>2, <1>5
    <2> QED
      BY <1>1, <1>5, <2>1, SlotsMoved
  <1>6. CASE /\ Side(pc[t]) = "back" /\ Side(m) = "out"
             /\ Free' = Free + 1 /\ balance' = balance
    <2>1. -1 = One(m, Holding) - One(pc[t], Holding) /\ -1 = One(m, Returning) - One(pc[t], Returning)
      BY <1>2, <1>6
    <2> QED
      BY <1>1, <1>6, <2>1, SlotsMoved
  <1> QED
    BY <1>3, <1>4, <1>5, <1>6

(* Every step keeps Slots: nothing is lost or doubled.                     *)
LEMMA NextSlots == TypeInv /\ TypeInv' /\ Slots /\ [Next]_vars => Slots'
  <1> SUFFICES ASSUME TypeInv, TypeInv', Slots, [Next]_vars, closer' = "open" PROVE Slots'
    BY DEF Slots, TokenConservation, CounterAccounting
  <1>0. TypeOK /\ TypeOK' /\ Hands
    BY DEF TypeInv
  <1>1. CASE UNCHANGED <<chanVars, pc, balance>>
    BY <1>1 DEF Slots, TokenConservation, CounterAccounting, At, Free, chanVars
  <1>2. closer = "open"
    BY <1>1 DEF Next, Pop, GiveBack, PopConn, CacheLen, CacheRecv, TakeCached,
       AgedFromCache, GetConnFromIdle, AgedFromIdle, PingAged, Dial, TryReuse, Use, Close,
       PushCache, ReadIdleChan, PushIdle, Recover, ConnDies, CloseDB, CloseTake,
       CloseCache, CloseDrain, CloseIdle, Ping, chanVars, vars
  <1>3. /\ UNCHANGED <<idle, cache>> => Free' = Free
        /\ \A t \in Threads : TakeCached(t) => Free' = Free - 1
    <2>1. UNCHANGED <<idle, cache>> => Free' = Free
      BY DEF Free
    <2>2. ASSUME NEW t \in Threads, TakeCached(t) PROVE Free' = Free - 1
      <3>1. Len(cache') = Len(cache) - 1 /\ Len(cache) \in Int /\ idle \in Int /\ idle' = idle
        BY <1>0, <2>2 DEF TakeCached, TypeOK
      <3> QED
        BY <3>1 DEF Free
    <2> QED
      BY <2>1, <2>2
  <1> USE <1>0, <1>2, <1>3, SlotSteps
      DEF PCs, Side, Holding, Returning, CallCloseConn, Return, PoolClosed,
          CacheChanClosed, IdleChanClosed, chanVars
  <1>4. ASSUME NEW t \in Threads, PopConn(t) PROVE Slots'
    BY <1>4 DEF PopConn
  <1>5. ASSUME NEW t \in Threads, CacheLen(t) PROVE Slots'
    BY <1>5 DEF CacheLen
  <1>6. ASSUME NEW t \in Threads, CacheRecv(t) PROVE Slots'
    BY <1>6 DEF CacheRecv
  <1>7. ASSUME NEW t \in Threads, AgedFromCache(t) PROVE Slots'
    BY <1>7 DEF AgedFromCache, PingAged
  <1>8. ASSUME NEW t \in Threads, GetConnFromIdle(t) PROVE Slots'
    <2>1. CASE TakeCached(t) /\ Goto(t, "agedIdle")
      BY <1>8, <2>1 DEF GetConnFromIdle
    <2>2. CASE idle > 0 /\ idle' = idle - 1 /\ Goto(t, "dial") /\ cache' = cache
      <3>1. Free' = Free - 1
        BY <2>2 DEF Free, TypeOK
      <3> QED
        BY <1>8, <2>2, <3>1 DEF GetConnFromIdle
    <2> QED
      BY <1>8, <2>1, <2>2 DEF GetConnFromIdle
  <1>9. ASSUME NEW t \in Threads, AgedFromIdle(t) PROVE Slots'
    BY <1>9 DEF AgedFromIdle, PingAged
  <1>10. ASSUME NEW t \in Threads, Dial(t) PROVE Slots'
    BY <1>10 DEF Dial
  <1>11. ASSUME NEW t \in Threads, TryReuse(t) PROVE Slots'
    BY <1>11 DEF TryReuse
  <1>12. ASSUME NEW t \in Threads, Use(t) PROVE Slots'
    BY <1>1, <1>12 DEF Use
  <1>13. ASSUME NEW t \in Threads, Close(t) PROVE Slots'
    <2>1. pc[t] = "held"
      BY <1>13 DEF Close, Hands, WithoutConn
    <2> QED
      BY <1>13, <2>1 DEF Close
  <1>14. ASSUME NEW t \in Threads, PushCache(t) PROVE Slots'
    <2>1. Len(cache) < MaxConnNum
      BY <1>14, Room DEF PushCache, Slots
    <2>2. cache' = Append(cache, conn[t]) /\ Goto(t, "idle") /\ idle' = idle
      BY <1>14, <2>1 DEF PushCache
    <2>3. Free' = Free + 1
      BY <2>2 DEF Free, TypeOK
    <2> QED
      BY <1>14, <2>2, <2>3 DEF PushCache
  <1>15. ASSUME NEW t \in Threads, ReadIdleChan(t) PROVE Slots'
    BY <1>15 DEF ReadIdleChan
  <1>16. ASSUME NEW t \in Threads, PushIdle(t) PROVE Slots'
    <2>1. idle < MaxConnNum
      BY <1>16, Room DEF PushIdle, Slots
    <2>2. Free' = Free + 1
      BY <1>16, <2>1 DEF Free, TypeOK, PushIdle
    <2>3. ret[t] \in {"idle", "cacheLen"}
      BY DEF TypeOK
    <2> QED
      BY <1>16, <2>2, <2>3 DEF PushIdle
  <1>17. ASSUME NEW t \in Threads, Recover(t) PROVE Slots'
    BY <1>17 DEF Recover
  <1>18. ASSUME NEW c \in Conns, ConnDies(c) PROVE Slots'
    BY <1>1, <1>18 DEF ConnDies
  <1>19. CASE CloseDB
    BY <1>19 DEF CloseDB, CloseTake, CloseCache, CloseDrain, CloseIdle
  <1>20. CASE Ping
    BY <1>1, <1>20 DEF Ping
  <1>21. CASE UNCHANGED vars
    BY <1>1, <1>21 DEF vars
  <1> QED
    BY <1>4, <1>5, <1>6, <1>7, <1>8, <1>9, <1>10, <1>11, <1>12, <1>13, <1>14, <1>15,
       <1>16, <1>17, <1>18, <1>19, <1>20, <1>21
    DEF Next, Pop, GiveBack

(* While the pool is open no slot is lost or made up, whatever dials, pings *)
(* and resets fail and however the goroutines interleave.                   *)
THEOREM Conservation == Spec => []TokenConservation
  <1>1. Slots => TokenConservation
    BY DEF Slots
  <1> QED
    BY <1>1, InitTypeInv, NextTypeInv, InitSlots, NextSlots, PTL DEF Spec

(* pushConnCount - popConnCount is the number of free slots plus those on   *)
(* their way back.                                                          *)
THEOREM Accounting == Spec => []CounterAccounting
  <1>1. Slots => CounterAccounting
    BY DEF Slots
  <1> QED
    BY <1>1, InitTypeInv, NextTypeInv, InitSlots, NextSlots, PTL DEF Spec

(* A goroutine that returns a slot to an open pool always finds room: the   *)
(* default branches of PushConn and closeConn are dead code.                *)
THEOREM RoomForReturns == Spec => []RoomToReturn
  <1>1. TypeInv /\ Slots => RoomToReturn
    BY Room DEF TypeInv, Slots, RoomToReturn, At, Holding
  <1> QED
    BY <1>1, InitTypeInv, NextTypeInv, InitSlots, NextSlots, PTL DEF Spec
-----------------------------------------------------------------------------
(* Receiving from and sending to a channel without duplicates.              *)
LEMMA TailOfInjective ==
    ASSUME NEW s \in Seq(Conns), s # <<>>, IsInjective(s)
    PROVE  /\ IsInjective(Tail(s))
           /\ Range(Tail(s)) = Range(s) \ {Head(s)}
           /\ Head(s) \in Range(s) /\ Head(s) \in Conns
  <1>1. /\ DOMAIN s = 1..Len(s) /\ DOMAIN Tail(s) = 1..(Len(s) - 1) /\ Len(s) \in Nat \ {0}
        /\ \A i \in 1..(Len(s) - 1) : Tail(s)[i] = s[i + 1]
        /\ Head(s) = s[1]
    OBVIOUS
  <1>2. IsInjective(Tail(s))
    BY <1>1 DEF IsInjective
  <1>3. ASSUME NEW x \in Range(s) \ {Head(s)} PROVE x \in Range(Tail(s))
    <2>1. PICK i \in 1..Len(s) : x = s[i]
      BY <1>1, <1>3 DEF Range
    <2>2. i - 1 \in DOMAIN Tail(s) /\ Tail(s)[i - 1] = x
      BY <1>1, <1>3, <2>1
    <2> QED
      BY <2>2, Zenon DEF Range
  <1>4. ASSUME NEW x \in Range(Tail(s)) PROVE x \in Range(s) \ {Head(s)}
    <2>1. PICK i \in 1..(Len(s) - 1) : x = Tail(s)[i]
      BY <1>1, <1>4 DEF Range
    <2>2. x = s[i + 1] /\ i + 1 \in DOMAIN s /\ 1 \in DOMAIN s /\ i + 1 # 1
      BY <1>1, <2>1
    <2> QED
      BY <1>1, <2>2 DEF Range, IsInjective
  <1>5. Head(s) \in Range(s) /\ Head(s) \in Conns
    BY <1>1 DEF Range
  <1>6. Range(Tail(s)) = Range(s) \ {Head(s)}
    BY <1>3, <1>4
  <1> QED
    BY <1>2, <1>5, <1>6

(* A connection that is in no slot may be put behind the others.           *)
LEMMA AppendInjective ==
    ASSUME NEW s \in Seq(Conns), NEW c \in Conns, IsInjective(s), c \notin Range(s)
    PROVE  IsInjective(Append(s, c)) /\ Range(Append(s, c)) = Range(s) \cup {c}
  <1>1. /\ DOMAIN s = 1..Len(s) /\ DOMAIN Append(s, c) = 1..(Len(s) + 1) /\ Len(s) \in Nat
        /\ \A i \in 1..Len(s) : Append(s, c)[i] = s[i]
        /\ Append(s, c)[Len(s) + 1] = c
    OBVIOUS
  <1>2. Range(Append(s, c)) = Range(s) \cup {c}
    BY <1>1 DEF Range
  <1>3. IsInjective(Append(s, c))
    BY <1>1 DEF IsInjective, Range
  <1> QED
    BY <1>2, <1>3


(* Exclusive is inductive once newConn is known to make a fresh connection: *)
(* whatever the cache or a goroutine has is not free.                       *)
Owned ==
    /\ Exclusive
    /\ \A t \in Threads : conn[t] # NoConn => net[conn[t]] # "free"
    /\ \A c \in Range(cache) : net[c] # "free"

(* Owned holds at first.                                                   *)
LEMMA InitOwned == Init => Owned
  <1> SUFFICES ASSUME Init PROVE Owned
    OBVIOUS
  <1>1. IsInjective(cache) /\ Range(cache) \subseteq Conns
    BY DEF Init, Range
  <1> QED
    BY <1>1 DEF Init, Owned, Exclusive

(* Every step keeps Owned.                                                 *)
LEMMA NextOwned == TypeInv /\ Owned /\ [Next]_vars => Owned'
  <1> SUFFICES ASSUME TypeInv, Owned, [Next]_vars PROVE Owned'
    OBVIOUS
  <1>0. TypeOK /\ Hands
    BY DEF TypeInv
  <1>1. Range(cache) \subseteq Conns
    BY <1>0 DEF TypeOK, Range
  <1>2. ASSUME UNCHANGED <<cache, conn>>,
               \A c \in Conns : net[c] # "free" => net'[c] # "free"
        PROVE  Owned'
    BY <1>0, <1>1, <1>2 DEF Owned, Exclusive, TypeOK
  <1>3. ASSUME NEW t \in Threads, TakeCached(t), conn[t] = NoConn, net' = net
        PROVE  Owned'
    <2>1. /\ IsInjective(cache') /\ Range(cache') = Range(cache) \ {Head(cache)}
          /\ Head(cache) \in Range(cache) /\ Head(cache) \in Conns
      BY <1>0, <1>3, TailOfInjective DEF Owned, Exclusive, TypeOK, TakeCached
    <2>2. \A u \in Threads : conn'[u] = IF u = t THEN Head(cache) ELSE conn[u]
      BY <1>0, <1>3 DEF TakeCached, TypeOK
    <2>3. Exclusive'
      BY <2>1, <2>2 DEF Owned, Exclusive
    <2> QED
      BY <1>3, <2>1, <2>2, <2>3 DEF Owned
  <1>4. ASSUME NEW t \in Threads, Shut(t), conn[t] # NoConn, cache' = cache
        PROVE  Owned'
    <2>1. \A u \in Threads : conn'[u] = IF u = t THEN NoConn ELSE conn[u]
      BY <1>0, <1>4 DEF Shut, TypeOK
    <2>2. \A c \in Conns : net'[c] = IF c = conn[t] THEN "free" ELSE net[c]
      BY <1>0, <1>4 DEF Shut, TypeOK
    <2>3. Exclusive'
      BY <1>4, <2>1 DEF Owned, Exclusive
    <2> QED
      BY <1>0, <1>1, <1>4, <2>1, <2>2, <2>3 DEF Owned, Exclusive, TypeOK
  <1> USE <1>0, <1>1, <1>2
      DEF Goto, CallCloseConn, Return, chanVars, connVars
  <1>5. ASSUME NEW t \in Threads, PopConn(t) \/ CacheLen(t) PROVE Owned'
    BY <1>5 DEF PopConn, CacheLen
  <1>6. ASSUME NEW t \in Threads, CacheRecv(t) \/ GetConnFromIdle(t) PROVE Owned'
    <2>1. conn[t] = NoConn /\ net' = net
      BY <1>6 DEF CacheRecv, GetConnFromIdle, Hands, WithoutConn
    <2>2. TakeCached(t) \/ UNCHANGED <<cache, conn>>
      BY <1>6 DEF CacheRecv, GetConnFromIdle
    <2> QED
      BY <1>3, <2>1, <2>2
  <1>7. ASSUME NEW t \in Threads, AgedFromCache(t) \/ AgedFromIdle(t) PROVE Owned'
    BY <1>7 DEF AgedFromCache, AgedFromIdle, PingAged
  <1>8. ASSUME NEW t \in Threads, Dial(t) PROVE Owned'
    <2>1. CASE UNCHANGED <<conn, connVars>>
      BY <1>8, <2>1 DEF Dial
    <2>2. ASSUME NEW c \in Conns, net[c] = "free", conn' = [conn EXCEPT ![t] = c],
                 net' = [net EXCEPT ![c] = "ok"]
          PROVE  Owned'
      <3>1. cache' = cache
        BY <1>8 DEF Dial
      <3>2. /\ \A u \in Threads : conn'[u] = IF u = t THEN c ELSE conn[u]
            /\ \A d \in Conns : net'[d] = IF d = c THEN "ok" ELSE net[d]
        BY <2>2 DEF TypeOK
      <3>3. c \notin Range(cache) /\ \A u \in Threads : conn[u] # c
        BY <2>2, ConnPoolAssumption DEF Owned
      <3>4. Exclusive'
        BY <3>1, <3>2, <3>3 DEF Owned, Exclusive
      <3> QED
        BY <3>1, <3>2, <3>3, <3>4 DEF Owned, TypeOK
    <2> QED
      BY <1>8, <2>1, <2>2 DEF Dial
  <1>9. ASSUME NEW t \in Threads, TryReuse(t) \/ PushIdle(t) PROVE Owned'
    BY <1>9 DEF TryReuse, PushIdle
  <1>10. ASSUME NEW t \in Threads, Use(t) PROVE Owned'
    BY <1>10 DEF Use, TypeOK
  <1>11. ASSUME NEW t \in Threads, Close(t) \/ ReadIdleChan(t) \/ Recover(t) PROVE Owned'
    <2>1. cache' = cache
      BY <1>11 DEF Close, ReadIdleChan, Recover
    <2>2. (Shut(t) /\ conn[t] # NoConn) \/ UNCHANGED <<conn, net>>
      BY <1>11 DEF Close, ReadIdleChan, Recover
    <2> QED
      BY <1>4, <2>1, <2>2
  <1>12. ASSUME NEW t \in Threads, PushCache(t) PROVE Owned'
    <2>1. net' = net /\ conn[t] \in Conns /\ conn[t] # NoConn
      BY <1>12 DEF PushCache, Hands, WithConn, TypeOK
    <2>2. CASE cache' = Append(cache, conn[t]) /\ conn' = [conn EXCEPT ![t] = NoConn]
      <3>1. IsInjective(cache') /\ Range(cache') = Range(cache) \cup {conn[t]}
        BY <2>1, <2>2, AppendInjective DEF Owned, Exclusive, TypeOK
      <3>2. \A u \in Threads : conn'[u] = IF u = t THEN NoConn ELSE conn[u]
        BY <2>2 DEF TypeOK
      <3>3. Exclusive'
        BY <2>1, <3>1, <3>2 DEF Owned, Exclusive
      <3> QED
        BY <2>1, <3>1, <3>2, <3>3 DEF Owned
    <2> QED
      BY <1>12, <2>1, <2>2 DEF PushCache
  <1>13. ASSUME NEW c \in Conns, ConnDies(c) PROVE Owned'
    BY <1>13 DEF ConnDies, TypeOK
  <1>14. CASE CloseTake \/ CloseCache \/ CloseIdle \/ Ping
    BY <1>14 DEF CloseTake, CloseCache, CloseIdle, Ping
  <1>15. CASE CloseDrain
    <2>1. /\ IsInjective(cache') /\ Range(cache') = Range(cache) \ {Head(cache)}
          /\ Head(cache) \in Range(cache) /\ Head(cache) \in Conns
      BY <1>15, TailOfInjective DEF Owned, Exclusive, TypeOK, CloseDrain
    <2>2. \A c \in Conns : net'[c] = IF c = Head(cache) THEN "free" ELSE net[c]
      BY <1>15, <2>1 DEF CloseDrain, TypeOK
    <2>3. conn' = conn /\ Exclusive'
      BY <1>15, <2>1 DEF CloseDrain, Owned, Exclusive
    <2> QED
      BY <2>1, <2>2, <2>3 DEF Owned, Exclusive, TypeOK
  <1>16. CASE UNCHANGED vars
    BY <1>16 DEF vars
  <1> QED
    BY <1>5, <1>6, <1>7, <1>8, <1>9, <1>10, <1>11, <1>12, <1>13, <1>14, <1>15, <1>16
    DEF Next, Pop, GiveBack, CloseDB

(* No connection is ever shared: two goroutines never have the same one,    *)
(* none has one that is also in cacheConns, and no entry is queued twice.   *)
THEOREM ExclusiveUse == Spec => []Exclusive
  <1>1. Owned => Exclusive
    BY DEF Owned
  <1> QED
    BY <1>1, InitTypeInv, NextTypeInv, InitOwned, NextOwned, PTL DEF Spec

-----------------------------------------------------------------------------
(* Uncommitted work is always inside an open transaction, which is what     *)
(* tryReuse looks at before it touches autocommit.                          *)
Rollbackable(s) == s.work \in {"none", "pending"} /\ (s.work = "pending" => s.trans = TRUE)
Tidy == \A c \in Conns : Rollbackable(sess[c])

(* tryReuse repairs every such session.                                     *)
LEMMA ReusedClean ==
    ASSUME NEW s \in Sessions, Rollbackable(s)
    PROVE  Reused(s) = CleanSession
  <1>1. ASSUME NEW r \in Sessions, Rollbackable(r)
        PROVE  /\ RollbackOpen(r) \in Sessions
               /\ RollbackOpen(r).trans = FALSE /\ RollbackOpen(r).work = "none"
    BY <1>1, Zenon DEF RollbackOpen, Rollbackable, Sessions
  <1>2. ASSUME NEW r \in Sessions, r.trans = FALSE, r.work = "none"
        PROVE  /\ AutocommitOn(r) \in Sessions
               /\ AutocommitOn(r).trans = FALSE /\ AutocommitOn(r).work = "none"
               /\ AutocommitOn(r).auto = TRUE
    BY <1>2, Zenon DEF AutocommitOn, Sessions
  <1>3. ASSUME NEW r \in Sessions, r.trans = FALSE, r.work = "none", r.auto = TRUE
        PROVE  DefaultCharset(r) = CleanSession
    <2> DEFINE q == DefaultCharset(r)
    <2>1. /\ q \in Sessions /\ q.trans = FALSE /\ q.work = "none" /\ q.auto = TRUE
          /\ q.utf8 = TRUE
      BY <1>3, Zenon DEF DefaultCharset, Sessions
    <2>2. q = [trans |-> q.trans, auto |-> q.auto, utf8 |-> q.utf8, work |-> q.work]
      BY <2>1 DEF Sessions
    <2> HIDE DEF q
    <2>3. q = CleanSession
      BY <2>1, <2>2, Zenon DEF CleanSession
    <2> QED
      BY <2>3 DEF q
  <1> QED
    BY <1>1, <1>2, <1>3, Zenon DEF Reused

(* Tidy holds at first.                                                    *)
LEMMA InitTidy == Init => Tidy
  BY DEF Init, Tidy, Rollbackable, CleanSession

(* Every step keeps Tidy.                                                  *)
LEMMA NextTidy == TypeInv /\ Tidy /\ [Next]_vars => Tidy'
  <1> SUFFICES ASSUME TypeInv, Tidy, [Next]_vars PROVE Tidy'
    OBVIOUS
  <1>0. TypeOK /\ Hands
    BY DEF TypeInv
  <1>1. Rollbackable(CleanSession)
    BY DEF Rollbackable, CleanSession
  <1>2. CASE UNCHANGED sess
    BY <1>2 DEF Tidy
  <1>3. ASSUME NEW c, NEW s, Rollbackable(s), sess' = [sess EXCEPT ![c] = s] PROVE Tidy'
    <2>1. \A d \in Conns : sess'[d] = s \/ sess'[d] = sess[d]
      BY <1>0, <1>3 DEF TypeOK
    <2> QED
      BY <1>3, <2>1 DEF Tidy
  <1> USE <1>2 DEF connVars
  <1>4. ASSUME NEW t \in Threads,
               \/ PopConn(t) \/ CacheLen(t) \/ CacheRecv(t) \/ AgedFromCache(t)
               \/ GetConnFromIdle(t) \/ AgedFromIdle(t) \/ PushCache(t) \/ PushIdle(t)
        PROVE  Tidy'
    <2>1. UNCHANGED sess
      BY <1>4, Zenon DEF PopConn, CacheLen, CacheRecv, AgedFromCache, GetConnFromIdle,
                         AgedFromIdle, PingAged, PushCache, PushIdle
    <2> QED
      BY <2>1, Zenon
  <1>5. ASSUME NEW t \in Threads, Dial(t) PROVE Tidy'
    <2>1. UNCHANGED sess \/ \E c \in Conns : sess' = [sess EXCEPT ![c] = CleanSession]
      BY <1>5, Zenon DEF Dial
    <2> QED
      BY <1>1, <1>3, <2>1, Zenon
  <1>6. ASSUME NEW t \in Threads, TryReuse(t) PROVE Tidy'
    <2>1. conn[t] \in Conns /\ sess[conn[t]] \in Sessions
      BY <1>0, <1>6 DEF TryReuse, Hands, WithConn, TypeOK
    <2>2. Rollbackable(Reused(sess[conn[t]]))
      BY <1>1, <2>1, ReusedClean DEF Tidy
    <2> QED
      BY <1>3, <1>6, <2>2, Zenon DEF TryReuse
  <1>7. ASSUME NEW t \in Threads, Use(t) PROVE Tidy'
    <2>1. \A s \in UsedSessions : Rollbackable(s)
      BY DEF UsedSessions, Sessions, Rollbackable
    <2> QED
      BY <1>3, <1>7, <2>1, Zenon DEF Use
  <1>8. ASSUME NEW t \in Threads, Close(t) \/ ReadIdleChan(t) \/ Recover(t) PROVE Tidy'
    BY <1>1, <1>3, <1>8 DEF Close, ReadIdleChan, Recover, Shut
  <1>9. ASSUME NEW c \in Conns, ConnDies(c) PROVE Tidy'
    <2>1. \A d \in Conns : sess'[d] = sess[d] \/ sess'[d].work = "none"
      BY <1>0, <1>9 DEF ConnDies, TypeOK, Sessions
    <2> QED
      BY <2>1 DEF Tidy, Rollbackable
  <1>10. CASE CloseDB \/ Ping
    BY <1>1, <1>3, <1>10, Zenon DEF CloseDB, CloseTake, CloseCache, CloseDrain, CloseIdle, Ping
  <1>11. CASE UNCHANGED vars
    BY <1>11 DEF vars
  <1> QED
    BY <1>4, <1>5, <1>6, <1>7, <1>8, <1>9, <1>10, <1>11 DEF Next, Pop, GiveBack

(* The pool never commits what a client has left uncommitted: when tryReuse *)
(* turns autocommit on, the rollback has been done.                         *)
THEOREM NeverCommitsForTheClient == Spec => []NoPoolCommit
  <1>1. Tidy => NoPoolCommit
    BY DEF Tidy, Rollbackable, NoPoolCommit
  <1> QED
    BY <1>1, InitTypeInv, NextTypeInv, InitTidy, NextTidy, PTL DEF Spec

(* Whatever its last client did, a connection is handed out with no open    *)
(* transaction, autocommit on and the default charset.                      *)
THEOREM CleanOnPop == Spec => PoppedClean
  <1> DEFINE Pops == \A t \in Threads : pc[t] = "reuse" /\ pc'[t] = "held" =>
                                            sess'[conn'[t]] = CleanSession
  <1>1. TypeInv /\ Tidy /\ [Next]_vars => [Pops]_vars
    <2> SUFFICES ASSUME TypeInv, Tidy, [Next]_vars, NEW t \in Threads,
                        pc[t] = "reuse", pc'[t] = "held"
                 PROVE  sess'[conn'[t]] = CleanSession
      OBVIOUS
    <2>0. TypeOK /\ Hands
      BY DEF TypeInv
    <2>1. ASSUME NEW u \in Threads, NEW l, Goto(u, l) PROVE u = t /\ l = "held"
      BY <2>0, <2>1 DEF Goto, TypeOK
    <2>2. ret[t] # "held"
      BY <2>0 DEF TypeOK
    <2>3. pc' # pc
      OBVIOUS
    <2>4. TryReuse(t)
      BY <2>1, <2>2, <2>3
      DEF Next, Pop, GiveBack, CloseDB, PopConn, CacheLen, CacheRecv, AgedFromCache,
          GetConnFromIdle, AgedFromIdle, PingAged, Dial, TryReuse, Use, Close, PushCache,
          ReadIdleChan, PushIdle, Recover, CallCloseConn, Return, ConnDies, CloseTake,
          CloseCache, CloseDrain, CloseIdle, Ping, vars
    <2>5. conn[t] \in Conns /\ sess[conn[t]] \in Sessions
      BY <2>0 DEF Hands, WithConn, TypeOK
    <2>6. conn' = conn /\ sess' = [sess EXCEPT ![conn[t]] = Reused(sess[conn[t]])]
      BY <2>1, <2>4 DEF TryReuse, CallCloseConn
    <2> QED
      BY <2>0, <2>5, <2>6, ReusedClean DEF Tidy, TypeOK
  <1> QED
    BY <1>1, InitTypeInv, NextTypeInv, InitTidy, NextTidy, PTL DEF Spec, PoppedClean
=============================================================================
