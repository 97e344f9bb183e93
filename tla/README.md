# kingshard in TLA+

kingshard is a proxy between MySQL clients and a set of MySQL servers. It pools
connections, splits reads from writes, routes statements on sharded tables to
nodes, merges their results, and lets a client run a transaction on one node.
This directory models the parts of it whose behaviour depends on interleavings,
failures, long command sequences and arithmetic at boundaries, checks them with
TLC and proves the main results with TLAPS. `PROJECT.json` maps every definition
to its source lines and lists the hazards the properties are about.

## 1. The system

| part | source | module | what is hard |
|---|---|---|---|
| connection pool | `backend/db.go` | ConnPool | many goroutines, blocking receives, a Close under them, sessions left dirty |
| client transactions | `proxy/server/conn_tx.go`, `conn_query.go`, `conn_set.go`, `conn_preshard.go` | TxSession | every backend command may fail, before or after its effect; several connections per command |
| node, health check, balancer | `backend/node.go`, `balancer.go` | NodeHealth | checker and administrator write the same fields; the balancer's queue outlives the slave list |
| sharding rules | `proxy/router/router.go`, `shard.go`, `numkey.go` | Shards | bounds of ranges, calendars, order of the sub-tables |
| query plans | `proxy/router/planbuilder.go`, `router.go` | RoutePlan | which sub-tables can hold a row that satisfies a WHERE |
| a sharded table as a whole | `proxy/server/conn_query.go` and the router | ShardedTable, OneTable, Table, SqlTable | several statements for one, any of which may fail |
| result merging | `proxy/server/conn_select.go`, `conn_resultset.go`, `mysql/resultset_sort.go` | MergeResult | must be an answer the union of the sub-tables could give |
| server, settings, reload, signals | `proxy/server/server.go`, `conn.go`, `conn_admin.go`, `web/api.go`, `cmd/kingshard/main.go` | ProxyServer | settings are changed without locks while sessions read them; files, kills, restarts |
| packets, commands, prepared statements | `mysql/packetio.go`, `backend/backend_conn.go`, `backend/stmt.go`, `proxy/server/conn_stmt.go` | Wire | a shared connection must be in step with its server after any failure |

How they interact: a client's goroutine (`ClientConn.Run`) reads a command,
follows a configuration change if there was one, asks the router for the nodes,
takes a connection from the pool of each node's master or (balanced) slave,
runs the statements of all nodes in parallel, merges, answers, and gives the
connections back, or keeps them in `txConns` while a transaction is open. The
node's checker goroutine pings every DB and opens and closes pools; the
administrator does the same by hand.

RoutePlan extends Shards and SqlTable, ShardedTable composes them with the
execution on the nodes, and OneTable instantiates Table with its state. Lists has
the operators on sequences that these modules share. The other modules meet at
interfaces: what ConnPool promises of a connection it hands out (`PoppedClean`)
is how TxSession's and Wire's sessions start; Wire's `pkgErr` decides whether
ConnPool gets a connection back through PushConn or closeConn.

## 2. Modules

### ConnPool: the pool of one DB

`closer` says how far `DB.Close` has got. `idle` counts the tokens of
`idleConns`, `cache` is the content of `cacheConns`. Each goroutine has a program
counter `pc`, the connection in its hands `conn`, and `ret`, the place `closeConn`
returns to. `net` and `sess` are the socket and the MySQL session of each
connection; `balance` is `pushConnCount - popConnCount`.

| action | code |
|---|---|
| `PopConn` | read both channel fields, or ErrDatabaseClose |
| `CacheLen`, `CacheRecv`, `AgedFromCache` | the loop of GetConnFromCache: test, receive, ping |
| `GetConnFromIdle`, `Dial`, `AgedFromIdle` | the select, newConn and its ping, the ping of a cached one |
| `TryReuse` | rollback, autocommit, charset; closeConn when one fails |
| `Use` | the client's statements |
| `Close`, `PushCache` | BackendConn.Close, PushConn |
| `ReadIdleChan`, `PushIdle` | closeConn, closeConnNotAdd, addIdleConn |
| `Recover` | the recover of handleQuery after a panic |
| `CloseTake`, `CloseCache`, `CloseDrain`, `CloseIdle` | DB.Close |
| `Ping` | DB.Ping |
| `ConnDies` | the server closes a connection (external) |

A step is one access to a channel, a field under its lock, or an atomic. What a
goroutine does in between is private and merged into the step. Time is left
out: whether a cached connection is old enough to be pinged is a free choice.

### TxSession: the transactions of one client

`auto` and `inTrans` are the status flags, `txConns` maps a node to the MySQL
session of the connection kept for it, `lost` counts the connections that were
popped and are neither kept nor given back. `fate` records what MySQL has made
of every write. `told`, `promised` and `renounced` are the client's side: the
writes of its open transaction that were answered OK, those it was told are
committed, and those it rolled back or abandoned.

A handler is one step: it runs in the client's goroutine and touches nothing
shared. `Reply` is the model of a backend: a command is carried out, refused, or
the connection breaks with the command done or not. Loops that stop at the
first error (`handleBegin`, SET autocommit) reach any subset of the
connections, because Go iterates over a map in any order.

Statements come in three kinds, by the way the code finds their node: `shard`
(getShardConns, any set of nodes), `hint` (`/*node*/`, GetTransExecDB), `plain`
(everything else; the default node). `MixesStyles` says whether the client sends
SET autocommit between BEGIN and the end of the transaction.

When a BEGIN, COMMIT, ROLLBACK or SET autocommit is answered with an error, the
client can conclude nothing about its transaction, so `told` is emptied without
a promise. A statement the server refuses leaves the session as it was; errors
on which MySQL rolls the whole transaction back (a deadlock) are not modelled.

### NodeHealth: one node, its checker and its administrators

`master`, `slaves`, `weights`, `queue` and `last` are the fields of `Node`; `dbs`
is the heap of DB objects that something still refers to, each with its address,
its `state` and whether its pool is open (`DB.Close` is final, see ConnPool).
`job` says where each process is in UpX or DownX; `cur` and `todo` are the copy of
the slave list that `checkSlave` works through. `crashed` and `stuck` record the
two effects of a panic: the checker's goroutine has no recover and the proxy
ends; an administrator's is recovered, and `UpSlave` leaves the lock held.

| action | code |
|---|---|
| `checkMaster`, `checkSlave` | read n.Master; copy n.Slave under the lock |
| `Ping`, `Answered`, `NotAnswered` | db.Ping, the test for Down, the test for silence |
| `NotManualDown`, `StoreUp` | the test and the store that end a check |
| `UpDB`, `UpMaster`, `UpSlave` | open a DB and ping it; install it |
| `FindMaster`, `FindSlave`, `CloseDB`, `StoreDown` | DownMaster and DownSlave |
| `Order` | the administrator's up and down |
| `AddSlave`, `DeleteSlave` | whole, under the lock, with InitBalancer |
| `GetNextSlave` | the balancer's turn |
| `Flaps` | a server stops or comes back (external) |

The checks of a master and of a slave are the same code but for one line: a failed
UpMaster ends the check, a failed UpSlave does not (`Return`). Calls that change
nothing are not steps. Addresses in the configured list are distinct and weights
are positive (`NodeHealthAssumption`); the code checks neither.

### Shards, RoutePlan, SqlTable: from a statement to sub-tables

Pure definitions. Shards is `parseRule` (the sub-tables and their nodes for the
types hash, range, date_year, date_month and date_day) and `FindForKey`. A literal
is its value and the way it is written (`num`, `str`, `text`, `short`, `bad`),
because the code treats a number, a quoted number and a text differently. `Word`
stands for 2^64 and `Crc` for crc32; calendars are exact.

RoutePlan is `BuildPlan` with everything below it: the index lists and their
intersection, union and difference as the code merges them, the three
`get...ShardTableIndex`, the walk over AND and OR, the rewriting of IN lists per
sub-table, the plans of the six kinds of statements, and the statements per node.
A WHERE is a sequence of nodes in postfix order, so that no recursive operator is
needed. SqlTable is the meaning of a statement on one table (external).

### ShardedTable implements Table (OneTable)

ShardedTable has a rule parsed from one of several configurations, the rows of
each sub-table, and clients. `Submit` is handleQuery up to the goroutines,
`Execute` one statement at one node by that node's goroutine (carried out,
refused, or lost before or after its effect), `Reply` the end of wg.Wait and the
answer: OK only if nothing failed. A SELECT outside a transaction goes to a slave of
the node. The model has one copy of each sub-table, so the refinement is about the
proxy and not about replication: a slave that lags behind its master shows a client
older rows, with one table as with many.

Table is the specification a client programs against: one table, in which a
statement visits the keys in any number of steps. It may be answered OK only when
no key is left that it could touch, and a SELECT returns exactly the matching rows
of the keys it visited. Kingshard has no distributed transaction, and Table does
not ask for one: a failed statement may have been applied in part.

OneTable holds the refinement mapping: `rows` is the union of the sub-tables; `todo` the keys of
the sub-tables the statement has not been executed on. A router that leaves out
a sub-table with a matching row, or sends a statement to the wrong one, makes a
step that Table does not have.

`ValidSetup` says which rules, keys and statements are meant: the conditions on a
WHERE (`ValidWhere`) and on what an UPDATE sets (`ValidSet`) leave out what section
5 lists under routing, and nothing else. TLC evaluates it for every setup of the
run (`ShardedTableAssumption`), and the proofs start from it.

### MergeResult: one answer out of many

A query is a select list, with or without aggregates, GROUP BY, ORDER BY and
LIMIT. `executeInMultiNodes` puts the results of one node in place, each any
answer the sub-table's server may give to the rewritten statement (rows of equal
sort keys may come in any order); `mergeSelectResult` merges, sorts and cuts.
The reference `Answers` is the set of results of the original query on the union.

### ProxyServer: settings, reload, sessions, signals

`srv` is the Server object. Each switchable setting has two slots and an index;
the slots of `allow_ips` are slices that share arrays, those of the blacklist
point to lists, as in the code. An operator's command is a sequence of steps
(`StepsOf`), one per slot, index or field of `cfg` written, per file written, and
per lock. `op` holds the steps that are left.

| action | code |
|---|---|
| `Begin` | the checks of handleAdmin... and of the web API; SIGUSR1 |
| `WriteSlot`, `Flip` | ChangeProxy, ChangeLogSql, ChangeSlowLogTime and the index of every setting |
| `WriteAllowIps`, `WriteBlackSqls`, `WriteSqlsLen`, `WriteSlaves` | AddAllowIP, DelAllowIP, AddBlackSqls, DelBlackSqls, addSlave, deleteSlave |
| `SyncConfig` | the update of s.cfg |
| `CreateFile`, `WriteFile` | SaveProxyConfig: the configuration, then the blacklist; each file is emptied, then written |
| `Lock`, `NewList`, `NewAllowIps`, `Install` | UpdateConfig |
| `newClientConn`, `ReadIndex`, `ReadSlice`, `Match` | onConn and IsAllowConnect, entry by entry |
| `readHandshakeResponse`, `GetSchema` | Handshake, the lookup of the schema |
| `readPacket`, `reloadConfig`, `SetVersion` | ClientConn.Run and its check of configVer |
| `ReadSqlsIndex`, `CheckSqlsLen`, `isBlacklistSql` | the blacklist test: sqlsLen, then the map, each through an index read before |
| `dispatch`, `Leave` | the statement, the end of a session |
| `Run`, `Signal`, `CloseListener`, `RunReturns` | Run; the signal goroutine; the two statements of Close; the loop of Run sees the flag |
| `Crash`, `Restart`, `EditFile` | a kill between any two steps, a start from the files, an edit by hand |

A save takes the text of `cfg`, empties the configuration file, writes it, empties the
blacklist and writes it statement by statement. Each of these may fail, and the
process may be killed between any two. A configuration that was written in part is
empty or ends after its users; either is refused when it is loaded, for it has no
schema. A blacklist written in part has some of its statements. A line that is
torn, and a statement with a newline in it, are left out: the file is its lines.

CheckSqlsLen and isBlacklistSql read the slot and, in the same step, the list it
points to. A list is only written by commands that find it in a slot in use, so
nothing is lost between the two.

`grace` and `saved` are history: whether a client's address (or statement) was
acceptable at some moment of its check, and the settings that the last save has
written to its end, until a command changes them or the next save begins.

### Wire: one pooled connection, used by several clients

`bc` is the proxy's end of the connection (sequence number, `pkgErr`, the
database and charset it is believed to have, what it reads next), `sv` the
server's end (what is under way in both directions, its true database and charset, its
open prepared statements), `ss` the ClientConn of each client and `cl` what the
client knows, with the database and the charset it believes it has. A client may name
a database in its handshake (`LoginDb`), and the connection comes from the pool in the
database of an earlier session (`UsedDb`). A command with a part for the server becomes a list of operations
(`Program`): the resets of getBackendConn, then its own. `Write` sends one, `Read`
reads one packet of its answer, `Finish` answers the client and gives the
connection back, or up. Packets keep their length, and are split into frames
with sequence numbers modulo `SequenceSize`, and each carries the operation it
answers; `Break` cuts the connection at any frame. A write to a broken connection fails
or, as the system buffers it, does not. A client is taken to read what it is sent. `bindStmtArgs` and `writeArgs` keep the bitmap of NULLs, the flag for
types, and the position of each value.

## 3. Runs

| run | instance | result |
|---|---|---|
| `pool` | 2 goroutines, pool of 1, 3 identities | no slot is lost and the counters agree (`TokenConservation`, `CounterAccounting`, `RoomToReturn`); no connection is shared (`Exclusive`); connections are handed out clean, and cleaned without a commit (`PoppedClean`, `NoPoolCommit`); who waits is served (`SelectServed`) or woken by Close (`CloseReleasesWaiters`) |
| `tx_outcomes` | 2 nodes, 2 writing statements, all kinds | `Durability`, `Renounced`, `KeptOnlyInTransaction`, `LeaksAreErrors` hold |
| `node_safety` | 1 slave, may be deleted and added again; 1 administrator | `DownIsClosed`, `Distinct` hold |
| `node_recovery` | master, a slave and a second one to add, up to 3 weights; no up or down by hand | `SafeIndex`, `TurnsByWeight`, `Recovery` hold |
| `sharded_table` | 8 accepted rules of all types, and one to refuse, with every statement shape; 2 clients on a hash rule with lossy nodes | `OneTableSeen` (ShardedTable implements Table), `Placed`, `RuleInOrder`, `Answered` hold |
| `merge_results` | 3 sub-tables on 2 nodes with up to 2 rows each, NULLs among them; every query shape, offsets and counts 0 to 2 and an overflowing one | `MergedRight` holds |
| `proxy_server` | 1 operator with 3 commands out of three menus, 1 session, a kill and a restart | `SavedSettingsStay`, `OnlyAllowedEnter`, `BlackSqlsRefused`, `SessionsMove`, `SignalStops` hold |
| `wire` | 2 clients, 3 commands, rows below, at and above the length of a frame, sequence numbers modulo 4, one break | `PooledInStep`, `RunsAsAsked`, `OneAnswer`, `CommandsAnswered` hold |
| `tx_spans_nodes` | 2 nodes, sharded and plain statements | `SingleNode` is violated |
| `node_checker_dies` | 1 slave that fails | `CheckerSurvives` is violated |
| `session_misses_reload` | 1 session, reloads and edits | `SessionsFollowReload` is violated |
| `prepared_text_rows` | 1 client, a prepared statement without parameters | `ExecuteInBinary` is violated |

`TypeOK` is checked in `pool`, `tx_outcomes` and `node_recovery`.

Four of these properties say where they stop:

- `TurnsByWeight`. Each slave has turns by its own weight, and keeps the weight, until
  AddSlave fails after it has appended a weight or UpSlave appends a slave that was
  deleted meanwhile; no other step ends it.
- `SavedSettingsStay` is about saves that have come to their end, and commands that
  follow one another. A save that is killed or fails on the way loses the settings
  saved before, because the file is emptied first.
- `OneAnswer` allows one more error to a client whose session ends: ClosePrepare fails
  after the answer to a prepare was sent, and Run answers the error too.
- `CommandsAnswered` excepts the two answers whose end the proxy does not see: an ERR
  among the rows, and a field list without fields. On these the session, and the pooled
  connection with it, wait for ever.

### Bounds

- Pool. A conflict is over the last connection, the last token, or with Close,
  which is a third process; two goroutines and a pool of one have them all. A
  third identity lets a connection be opened while two others are on their way out.
  The theorems of section 4 cover pools of any size.
- Transactions. Two writing statements let a transaction write on two nodes, or a
  write follow an ended transaction. `MaxLost` caps the connections lost per
  node; the branches that would lose more are not taken.
- Node. One administrator beside the checker makes two calls on a DB concurrent;
  the proofs are for any number. AddSlave and DeleteSlave may come at any time.
  `MaxWeights` caps the weights, of which failed additions leave one each; three
  let a queue be built with a gap in it. Seven DB identities are more than can be
  referred to at once.
- Sharded table. Keys lie on, before and behind every bound of every rule; dates at
  the ends of years and months and on 29 February; a rule has gaps between its
  dates, dates written backwards, or a node without tables; one rule must be refused. `Word` is 16, so
  negative keys wrap as they do at 2^64. One client suffices for routing; two
  clients, two statements and lossy nodes for the interleavings.
- Merge. Three results, of which two come from one node; groups split over several
  sub-tables; a sub-table without rows. `MaxInt` is 7, so that offset + count overflows.
- Server. Three commands: a change, a save or another change, and a reload; the menu
  decides on which setting. One restart. One session meets each of the operator's steps.
- Wire. `MaxPayloadLen` is 2: a row of 3 takes two frames, and a row of 2 makes the
  empty frame that ReadPacket refuses; binary rows of 2 are excluded, see section 5.
  One row is enough, as the loop over rows keeps nothing from one to the next. Three
  commands: one leaves something behind on the connection or in the statement table,
  the others would see it. One client names a database when it logs in; the other may
  choose the one that the connection is in already.

Runs with `CHECK_DEADLOCK FALSE` may stop: the proxy has ended, the bound on
commands is used up, or the one query has been answered.

### Fairness

- `pool`: goroutines run until they block, so the private and the returning steps
  of a goroutine, and Close, are weakly fair. The select is strongly fair: a Go
  channel queues its receivers. A client's statement ends and its connection is given
  back: the code closes every connection it has popped, except on the paths
  of `LeaksAreErrors`. Nothing is assumed about new PopConn calls, failures or the
  start of Close.
- `node_recovery`: the checker's own steps are weakly fair, as CheckNode loops for as
  long as the node is online, and the mutex is not held for ever unless a call
  panicked (`stuck`, which the property excludes).
- `sharded_table`: the goroutines of a statement, and the answer, are weakly fair.
- `proxy_server`: Run, the close of the listener once Close has begun, the end of Run
  on a closed listener (Accept returns at once), the steps of a command once begun and
  those of a session that does not wait for its client are weakly fair. Nothing
  is assumed of clients, whose handshake may never come (there is no deadline for
  it), nor of operators, signals or kills. Answers are written to clients that read them.
- `wire`: the server answers, a session works on its command, a client reads its
  answer (weak). Taking the connection is strongly fair, as in `pool`.

### What the violated properties show

- `SingleNode`: in a transaction on node 2, a statement on an unsharded table is
  sent to the default node 1 and begins a transaction there. COMMIT then commits
  twice, not atomically. The documentation says such a transaction is refused.
- `CheckerSurvives`: a slave is Down, answers the ping, and stops before UpDB has
  opened its connections. UpSlave stores nil for it, and the next round pings nil.
- `SessionsFollowReload`: a session finds a new configVer and loads the
  configuration under the mutex; a second reload ends before the session copies
  configVer, which it does without the mutex. It then has the new number and the
  old schema until the next reload.
- `ExecuteInBinary`: a prepared statement without parameters is executed as
  COM_QUERY, and its text rows are passed to a client that reads binary ones.

## 4. Proofs

### ConnPoolProofs

For every finite set of goroutines, every set of identities and every integer
`max_conns_limit` (`ConnPoolAssumption`).

- `TypeCorrect`. `TypeOK` alone is not inductive: PushConn queues `conn[t]`, which
  must not be nil. `Hands` says at which places a goroutine surely has a
  connection and at which it surely has none.
- `Conservation` and `Accounting`. `Slots` is inductive with the types. One lemma
  (`Moved`) counts goroutines when one of them moves, `SlotSteps` reduces every
  action to one of four kinds of steps (stay, take a slot, turn back with it,
  give it back), and `Room` shows from conservation itself that the default
  branches, which would lose a slot, are not reachable.
- `RoomForReturns` is `Room`, stated for all goroutines.
- `ExclusiveUse`. `Owned` adds that what a goroutine or the cache has is not
  free, so a connection made by `Dial` is new to everybody.
- `NeverCommitsForTheClient` and `CleanOnPop`. `Tidy` says that uncommitted work is
  always inside a transaction the pool can see; `ReusedClean` shows that the
  three resets, in the order of the code, then lead to the default session.

### TxSessionProofs

For every finite set of nodes, every set of statement kinds and every number of
statements and lost connections (`TxSessionAssumption`).

- `Replies` says what one command may do to a session; a lemma per command
  (`CommitReplies`, `WriteReplies`, ...) draws from it what that command promises.
  `SettleFates` and `SettleCarries` say what the outcomes of a whole handler make
  of the writes: each write has one node, so one outcome decides it.
- `Sound` is the inductive invariant, for clients of any style: what a kept
  session holds is open and its own node's, every kept session is in a
  transaction, the writes the client was told of are not yet durable, and no kept
  session holds a renounced one. `SessionTypes`, `NothingKeptOutside` and
  `RenouncedStaysUndone` follow.
- `PromisesKept` assumes `~MixesStyles`. Its invariant adds `Held`: every write the
  client was told of is in the work of the session kept for its node, unless that
  session is broken, and then the commit cannot succeed; and kept sessions have
  the client's autocommit.
- `OneNodePerTransaction` assumes `~MixesStyles` and no plain statements. Its
  invariant adds `OneConn`: at most one connection is kept. `tx_spans_nodes` shows
  that the second assumption is needed.
- `LostOnlyWithError` is an action property, from `Sound` and the shape of the
  failing steps.

### NodeHealthProofs

For every set of servers, any list of slaves with any weights, any set of
administrators and orders, and any finite supply of DB identities
(`NodeHealthAssumption`). The inductive invariant `NodeInv` has two parts that say
much, `HeapInv` and `BalancerInv`.

- `DownDBsAreClosed` (`DownIsClosed`) and `OneEntryPerServer` (`Distinct`). Neither is
  inductive. A process that is about to store Down holds a DB it has closed; one
  that is about to install a DB holds one whose address is the one it will look
  for; a DB that UpDB makes must be one nobody refers to, although identities are
  used again. `HeapInv` says this: every reference in a list or in a process's hands
  is nil or in the heap (`ListsOK`, `HeapOK`, `TaskOK`), and `TaskOK` gives what a
  process may rely on at each place. Everything after it is about stability: what
  one process relies on is not disturbed by a step of another (`ProcessStep`,
  `QuietStep`, `OnwardStep`, `StoreStep`), because no step changes the address of a
  DB or opens a closed one. `KeptPlaces` carries distinctness over the deletion of
  an entry, `DistinctAppend` and `DistinctReplace` over UpSlave.
- `SlavesTakeTurnsByWeight` (`TurnsByWeight`) and `OneElementQueueIsSafe` (`SafeIndex`). The
  queue is built when slaves are added or deleted and used long after, when the
  list of weights may have grown. `BalancerInv` says that each place below some m
  is in the queue exactly weight / gcd times, where the gcd is that of the first m
  weights. It needs that Gcd, the downward search of the code, divides every weight;
  that appending the runs of each slave gives the right count; and that a
  swap of two entries, with whatever random numbers, changes no count. The theorem
  then goes through the steps that write the slaves, the weights or the queue: where
  InitBalancer runs, the queue is that of the new lists, and DeleteSlave keeps the same
  places of slaves and weights, so that a server that stays keeps its weight.
- `NodeTypes` (`TypeOK`), from both parts.

### RuleProofs and RoutePlanProofs

No behaviour, but the routing functions for any number of tables.

- `RuleParsed`: of every configuration that parseRule accepts, the sub-tables are
  listed in increasing order, and each is given to one of the rule's nodes.
- `RangeRouting`: a condition on the key is sent to the table of every key that
  satisfies it, for any number of ranges and any row limit; every comparison but
  `!=`, BETWEEN, NOT IN; whichever side the literal is on. The argument
  is that FindForKey is monotone (`RangeFindMonotone`) and that a strict
  comparison with the start of a range may leave that range out.
- `HashRouting`: the same for any number of hashed tables; comparisons but `!=` with
  numbers below `Word`, quoted or not, BETWEEN, NOT BETWEEN and NOT IN.
  Equal values hash alike however they are written.
- `DateRouting`: the same for any increasing list of years, months or days;
  comparisons and BETWEEN whose dates have a table. The units are monotone in the
  date (`YYYYMMDD` divided by 10000, 100 or 1).
- `ListsAreSets`: the loops of interList, unionList and differentList make of two
  increasing lists the increasing list of the intersection, union and difference.
  The loop is a function of the number of turns, its invariant is shown by
  induction over a set of naturals, the form the provers can use.
- `WhereReaches`: the walk over AND, OR and NOT. A row that satisfies a WHERE, however
  nested, is in one of the tables the statement is sent to. The induction is over
  the places of the WHERE in postfix order, with one statement for what a place
  selects and one for what it means.

### ShardedTableProofs and OneTableProofs

For every rule of every type, every set of keys, rows and statements that
`ValidSetup` admits, any number of clients, and nodes that refuse or lose
statements.

- `IInv` (in ShardedTableInv) is inductive. `Homes`: every row is in the table that its
  key is looked up in. `Once`: the statements still to be sent name each table
  once, and none that has been visited; the lists per node are built by appending,
  so this rests on the order that `RuleParsed` and `WhereReaches` give. `Reached`: a
  key whose table is neither visited nor about to be is one the statement cannot
  touch. `KeepsKeys`: a statement under way changes no key.
- `RowsPlaced` (`Placed`) and `RuleStaysInOrder` (`RuleInOrder`) follow from it.
- `SeenAsOneTable` (`OneTableSeen`), the refinement. Submit is Table's Submit, because
  nothing is visited yet; an execution that takes effect is Table's Apply on the keys
  of that sub-table, by `Homes` and because the statement rewritten for one
  sub-table does to its rows what the original does (rewriteWhereIn drops only
  values of other tables); a lost or refused one is Apply or nothing; a Reply is OK
  only if `Reached` leaves no key that could be touched. Table's specification has
  no fairness, so this is a proof of all of it.

### ProxyServerProofs

For every file, every set of commands (`ProxyServerAssumption`), and any number of
sessions.

- `OnlyAllowedClientsEnter` (`OnlyAllowedEnter`), for any number of operators, who may
  write the same slots at once. A session copies a slice and walks it while its
  array is written: AddAllowIP appends in place when there is room, DelAllowIP
  shifts the entries. So the invariant is not about the list in force but about
  arrays: what an array, seen through any slice, holds after a step, it held
  before, or a list in force or about to be holds it (`SlicesKept`, `SlotsKept`), and
  `Allowed` says at each place of the check that a match would be excused.
- `BlackSqlsAreRefused` (`BlackSqlsRefused`), for one operator. A session skips the list
  when `sqlsLen` is 0. `LenInv` says that the count of every list is right, or off by
  the one entry that a command has just added or deleted and not counted yet.
  `ListedInv` says of a session between index and list that what it will find was so in
  a list in force or about to be (`SqlLists`): the slot it reads is one that no
  command writes, or one that a reload has just filled (`OperateLists`).
  With two operators the theorem is false: of an addition and a deletion of the same entry
  the deletion may be counted first, or a reload may replace the list that a
  command has still to count. `OneOperator` is therefore assumed.

### Only model-checked

- Liveness: `SelectServed`, `CloseReleasesWaiters`, `Recovery`, `Answered`,
  `SessionsMove`, `SignalStops`, `CommandsAnswered`. Fairness and ENABLED are beyond the
  prover.
- `MergedRight`. The reference and the merge both sort, group and fold over rows of
  any number; that they agree takes induction over data.
- `SavedSettingsStay`. It compares the lists in `cfg`, which commands extend and filter
  and a reload trims, with the sets in force, for one operator (with two, a save between
  a change and the update of `cfg` writes the old value). That filtering and
  trimming lists of any length keeps their elements is induction over data. It is
  also about commands that name real addresses: the empty one would break it.
- `PooledInStep`, `RunsAsAsked`, `OneAnswer`. Wire cuts answers of any number of packets
  into frames, and flattens and selects them by recursion. `OneAnswer` moreover is about the commands of the run: with
  long data for two parameters it does not hold (section 5).

## 5. Where the code does something else

Seen while modelling, and left out of the inputs or stated as a condition of a
property.

Routing (excluded from `MCShardedTable`):
- A date rule drops whole tables for NOT IN and NOT BETWEEN, though only some of
  the dates of a table are excluded. A range rule misses the tables in the middle for
  `not between a and b` with a > b, which every key satisfies.
- A comparison with a date that has no table selects nothing; alone it is an
  error, under OR its tables are missing from the answer. `=` with such a date
  goes to a table that does not exist, on the first node.
- A quoted negative number is hashed as text, the number itself by its value.
- With a rule of one node, or with the key written in other case, an UPDATE of the key
  is let through, and the row stays in the table of its old key.
- Names of nodes are taken from the schema's list by an index into the rule's list,
  so a rule whose nodes are not the first of the schema's is sent to others.
- LIMIT of an UPDATE or DELETE applies to each sub-table.
- preHandleShard looks at the first table only: joins, `insert t` without INTO and
  `update t as x` go to the default node.

Merging (`Mergeable` and `SameRow` say what is excused):
- HAVING and DISTINCT are evaluated per sub-table. A LIMIT on groups that are not
  sorted by the group cuts partial groups. ORDER BY a column that is not
  selected leaves the rows unsorted.
- A NULL in a computed result becomes the text NULL, a SUM of NULLs 0. The run has
  numbers from 0 on: that 0 for NULL beside a negative sum is not exercised.
- MAX and MIN compare numbers and strings. For types kept as bytes (BLOB, TEXT), the
  result is the first value that is not NULL; the run has numbers only.
- A SUM of unsigned numbers is an error; `limit 1, 9223372036854775807` overflows.
- Group keys of several columns are joined with "+", which may be ambiguous.

Server:
- A reload takes log_sql into `cfg` and does not apply it (it is not in `InForce`).
  Without a blacklist file the blacklist is not saved.
- A save empties each file before it writes it. A kill or a failing write in between
  leaves a configuration that is refused at the next start, or a part of the blacklist.
- A command changes a setting before it updates `cfg`. A second operator who saves in
  between writes the old value and is answered OK.
- A signal before Run sets `running` is overwritten by it, and Run does not end
  (`EarlySignals`). UpdateConfig that fails on a schema leaves the checkers of the
  new nodes running.
- DelAllowIP moves entries in the array that IsAllowConnect walks: a client that
  was allowed all the time may be refused. Two operators at once may let `sqlsLen` drift.
- An `allow_ips` entry with spaces is not removed from `cfg` by DelAllowIP.

Wire:
- A payload of exactly a multiple of MaxPayloadLen ends with an empty frame, which
  ReadPacket refuses. In Execute with arguments, the write that closes the
  statement then clears `pkgErr`, and the connection is pooled out of step (binary rows
  of such a length are excluded by `RowSets`).
- FieldList drops its first packet. When that is the only one, the EOF of a list without
  fields, it waits for ever. An ERR packet in the middle of rows is taken for
  a row, and the proxy waits for an EOF that does not come. A statement executed again without types ends the session in a panic.
- Long data with two or more parameters leads to an answer nobody waits for.
- If ClosePrepare fails after the prepare answer was sent, a second one follows.
- A session without a database runs in the one the pooled connection has.

Pool, transactions, node:
- PushConn and closeConn read a channel field, then send; DB.Close may close the
  channel in between, and the send panics (`Recover`). The client sees an error
  when a DB is taken offline.
- The checker's connection comes on top of `max_conns_limit`.
- A goroutine blocked in the bare receive of GetConnFromCache is not woken by a token
  put into `idleConns`: it waits for a connection while the pool could open one.
- BEGIN, a write, SET autocommit = 1, COMMIT (`MixesStyles`): SET commits nothing on
  the backend, whose autocommit is on; the connection is pooled with its
  transaction open, COMMIT has nothing to act on and is answered OK, and the pool
  rolls the write back.
- Between the checker's test for ManualDown and its store of Up an administrator
  takes the slave down; the DB is closed and Up.
- UpSlave that panics on a nil entry leaves the node's lock held (`stuck`). A weight of
  0 in the configuration makes Gcd divide by zero.
- A slave deleted while the checker opens a DB for it is appended again, without a
  weight; after a failed addition the weights are longer than the slaves, and
  GetNextSlave fails at an index without a slave.

## 6. Not modelled

- `sqlparser`: generated by goyacc, a pure function of the text. The models start
  from parsed statements.
- The token-level dispatch of `conn_preshard.go`: the kind of a statement is a free
  choice in TxSession, the tables with a rule are given in ShardedTable.
- `counter.go`, `core`, `monitor`, the commands that only show: statistics and I/O
  that nothing in the program reads back.
- The bytes of the handshake and of column definitions.
- Two compositions are left out for their size: transactions across a reload
  (`txConns` is keyed by *Node, and a reload makes new ones), and several
  transactional clients on one pool.
