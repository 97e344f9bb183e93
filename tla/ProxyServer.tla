----------------------------- MODULE ProxyServer -----------------------------
(***************************************************************************)
(* The server object (proxy/server/server.go): its settings, the commands  *)
(* that change them (conn_admin.go, web/api.go), the reload of the         *)
(* configuration file on SIGUSR1 (main.go), and the client sessions that   *)
(* read them (conn.go, conn_preshard.go).                                  *)
(*                                                                         *)
(* A setting has two slots and the index of the one in use; a change       *)
(* writes the other slot and then the index.  Nothing but the reload takes *)
(* a lock, and only against sessions.  A command is a sequence of steps;   *)
(* steps of operators and sessions interleave.                             *)
(*                                                                         *)
(* A configuration is a record of the settings by name, of the users, of   *)
(* the users that have a schema, of whether there is a blacklist file, and *)
(* of the string of slaves: the addresses between its commas, which may be *)
(* Empty.                                                                  *)
(***************************************************************************)
EXTENDS Lists

CONSTANTS Sessions, Operators,
          AddrOf,          \* session -> the client's address
          UserOf,          \* session -> the user it logs in as
          First,           \* the configuration file at first
          Menus,           \* sequence of sets of commands [opt, k, v], one of them in use
          Sqls,            \* statements clients send, by fingerprint
          Empty, None,
          EarlySignals,    \* whether a signal may come before Run starts
          MaxCommands, MaxRestarts, MaxQueries   \* bounds

VARIABLES srv,      \* the Server object, see NewServer
          run,      \* "starting", "running" or "stopped": the process
          file,     \* the configuration file and the blacklist file
          op,       \* operator -> the command it runs, see Rest
          conn,     \* session -> its ClientConn, see NoConn
          grace,    \* history: see MayPass
          saved,    \* history: the settings of the last save, if unchanged
          menu, count

vars == <<srv, run, file, op, conn, grace, saved, menu, count>>

Names == {"proxy", "log_sql", "slow_log_time", "allow_ip", "black_sql"}
Get(k) == srv.slot[k][srv.idx[k]]
another(k) == 1 - srv.idx[k]

Entries(vec) == ToSet(SubSeq(srv.arrays[vec.arr], 1, vec.len))
AllowIps == Entries(Get("allow_ip"))
BlackSqls == srv.lists[Get("black_sql")].sqls
-----------------------------------------------------------------------------
(* A leading or trailing comma is trimmed; an address must not be empty.   *)
ParseSlave(s) ==
    LET whole == {i \in DOMAIN s : s[i] # Empty}
        trimmed == IF whole = {} THEN <<>> ELSE SubSeq(s, Min(whole), Max(whole))
    IN  [ok |-> s = <<Empty>> \/ (trimmed # <<>> /\ ~Contains(trimmed, Empty)),
         addrs |-> ToSet(trimmed)]

(* Whether NewServer, or UpdateConfig before it locks, accepts a file.     *)
Accepted(f) == ParseSlave(f.slaves).ok /\ f.users \subseteq f.schemas

parseBlackListSqls(f) ==
    LET sqls == IF f.bls THEN f.black_sql ELSE {}
    IN  [sqls |-> sqls, sqlsLen |-> Cardinality(sqls)]

(* What an empty configuration file gives.                                 *)
Blank == [users |-> {}, schemas |-> {}, allow_ip |-> <<>>, bls |-> FALSE, black_sql |-> {},
          slow_log_time |-> 0, log_sql |-> Empty, slaves |-> <<Empty>>]

ASSUME FirstAccepted == Accepted(First)

(* A configuration has its fields, and lists of addresses and slaves; a    *)
(* command has its three words, and an edit puts a configuration in place. *)
ValidFile(f) ==
    /\ DOMAIN f = {"users", "schemas", "allow_ip", "bls", "black_sql",
                   "slow_log_time", "log_sql", "slaves"}
    /\ f.allow_ip \in Seq(ToSet(f.allow_ip)) /\ f.slaves \in Seq(ToSet(f.slaves))
    /\ IsFiniteSet(f.black_sql)

ValidCommand(c) ==
    /\ DOMAIN c = {"opt", "k", "v"} /\ c.opt \in STRING /\ c.k \in STRING
    /\ c.opt = "edit" => ValidFile(c.v)

ASSUME ProxyServerAssumption ==
    /\ ValidFile(First)
    /\ \A m \in DOMAIN Menus : \A c \in Menus[m] : ValidCommand(c)

(* The slots of allow_ip hold slices of arrays, those of black_sql point   *)
(* to lists; locked is the holder of configUpdateMutex; closing: Close has *)
(* reset running and has still to close the listener.                      *)
NewServer(f) ==
    [cfg |-> f,
     idx |-> [k \in Names |-> 0],
     slot |-> [k \in Names |-> [i \in 0..1 |->
                  CASE k = "allow_ip" -> [arr |-> 1, len |-> Len(f.allow_ip)]
                    [] k = "black_sql" -> 1
                    [] k = "proxy" -> "online"
                    [] OTHER -> f[k]]],
     arrays |-> <<f.allow_ip>>,
     lists |-> <<parseBlackListSqls(f)>>,
     slaves |-> ParseSlave(f.slaves).addrs,
     users |-> f.users,
     schemas |-> [ver |-> 0, users |-> f.schemas],
     ver |-> 0,
     locked |-> None,
     running |-> FALSE,
     closing |-> FALSE,
     listening |-> TRUE]

(* to: the slot the command writes; ips: cfg.AllowIps as DelAllowIP saw it.*)
Rest == [cmd |-> None, todo |-> <<>>, to |-> 0, ips |-> <<>>]
NoConn == [pc |-> "none", ver |-> 0, schema |-> None, index |-> 0,
           vec |-> [arr |-> 1, len |-> 0], pos |-> 0, sql |-> None]

Init ==
    /\ file = First
    /\ srv = NewServer(file)
    /\ run = "starting"
    /\ op = [o \in Operators |-> Rest]
    /\ conn = [c \in Sessions |-> NoConn]
    /\ grace = [c \in Sessions |-> FALSE]
    /\ saved = None
    /\ menu \in DOMAIN Menus
    /\ count = [commands |-> 0, restarts |-> 0, queries |-> 0]
-----------------------------------------------------------------------------
(* Commands. *)

(* What the admin statements pass on to the server: by setting...          *)
handleAdminChange(c) == c.opt = "change" /\ c.k \in {"proxy", "log_sql", "slow_log_time"}
handleAdminAdd(c) == c.opt = "add" /\ c.k \in {"allow_ip", "black_sql"} /\ c.v # Empty
handleAdminDelete(c) == c.opt = "del" /\ c.k \in {"allow_ip", "black_sql"} /\ c.v # Empty
handleAdminSave(c) == c.opt = "save" /\ c.k = "proxy" /\ c.v = "config"

handleServerCmd(c) ==
    handleAdminChange(c) \/ handleAdminAdd(c) \/ handleAdminDelete(c) \/ handleAdminSave(c)

(* ... and by node: no master is added or deleted.  Up and down are orders *)
(* of NodeHealth.                                                          *)
AddOrDeleteDatabase(c) == c.k = "slave" /\ c.v # Empty
handleNodeCmd(c) == c.opt \in {"add", "del"} /\ AddOrDeleteDatabase(c)

(* The web API looks at the values itself.                                 *)
WebAllowIps(c) == c.opt \in {"add", "del"} /\ c.k = "allow_ip"
WebSlave(c) == c.opt \in {"add", "del"} /\ c.k = "slave"
WebBlackSQL(c) == c.opt \in {"add", "del"} /\ c.k = "black_sql"
ChangeProxyStatus(c) == c.opt = "change" /\ c.k = "proxy" /\ c.v \in {"online", "offline"}
WebSlowSQL(c) ==
    /\ c.opt = "change"
    /\ \/ c.k = "log_sql" /\ c.v \in {"on", "off"}
       \/ c.k = "slow_log_time" /\ c.v \in Nat

SaveProxyConfig(c) == c.opt = "save"

WebApi(c) ==
    \/ WebAllowIps(c) \/ WebSlave(c) \/ WebBlackSQL(c)
    \/ ChangeProxyStatus(c) \/ WebSlowSQL(c) \/ SaveProxyConfig(c)

(* ChangeProxy, ChangeLogSql and ChangeSlowLogTime refuse other values.    *)
Changeable(c) == c.opt = "change" => ChangeProxyStatus(c) \/ WebSlowSQL(c)

Supported(c) ==
    \/ c.opt = "reload"
    \/ handleServerCmd(c) \/ handleNodeCmd(c) \/ WebApi(c)

(* The steps of a command: <<what, of which setting>>.                     *)
StepsOf(c) ==
    CASE c.opt = "change" -> <<<<"slot", c.k>>, <<"flip", c.k>>, <<"cfg", c.k>>>>
      [] c.opt \in {"add", "del"} /\ c.k = "allow_ip" -> <<<<"ips", c.k>>, <<"flip", c.k>>, <<"cfg", c.k>>>>
      [] c.opt \in {"add", "del"} /\ c.k = "black_sql" -> <<<<"sqls", c.k>>, <<"len", c.k>>, <<"flip", c.k>>>>
      [] c.opt \in {"add", "del"} /\ c.k = "slave" -> <<<<"slave", c.k>>, <<"cfg", c.k>>>>
      [] c.opt = "save" -> <<<<"create", "config">>, <<"file", "config">>,
                             <<"create", "black_sql">>, <<"file", "black_sql">>>>
      [] c.opt = "reload" ->
            <<<<"lock", c.k>>, <<"newlist", "black_sql">>, <<"flip", "black_sql">>,
              <<"newips", "allow_ip">>, <<"flip", "allow_ip">>, <<"users", c.k>>,
              <<"slot", "slow_log_time">>, <<"flip", "slow_log_time">>,
              <<"nodes", c.k>>, <<"schemas", c.k>>, <<"ver", c.k>>>>

(* One goroutine takes the signals, one after the other.                   *)
Reloading == \E o \in Operators : op[o].todo # <<>> /\ op[o].cmd.opt = "reload"

(* A reload works on the file as it was when the signal came, a save on    *)
(* s.cfg as it was when it was turned into text, before the file is opened.*)
Begin(o) ==
    /\ op[o].todo = <<>> /\ run = "running"
    /\ count.commands < MaxCommands
    /\ count' = [count EXCEPT !.commands = @ + 1]
    /\ \E c \in {d \in Menus[menu] : d.opt # "edit"} :
          /\ c.opt = "reload" => ~Reloading /\ ~srv.closing
          /\ op' = IF Supported(c) /\ Changeable(c)
                   THEN [op EXCEPT ![o] =
                            [Rest EXCEPT !.cmd = CASE c.opt = "reload" -> [c EXCEPT !.v = file]
                                                   [] c.opt = "save" -> [c EXCEPT !.v = srv.cfg]
                                                   [] OTHER -> c,
                                         !.todo = StepsOf(c),
                                         !.ips = IF c.k = "allow_ip" THEN srv.cfg.allow_ip ELSE <<>>]]
                   ELSE op
          /\ saved' = IF Supported(c) /\ Changeable(c) /\ c.opt \in {"change", "add", "del"} THEN None ELSE saved
    /\ UNCHANGED <<srv, run, file, conn>>

At(o, what) == op[o].todo # <<>> /\ Head(op[o].todo)[1] = what
Setting(o) == Head(op[o].todo)[2]
Adds(o) == op[o].cmd.opt = "add"
Done(o) == IF Len(op[o].todo) = 1 THEN Rest ELSE [op[o] EXCEPT !.todo = Tail(@)]
Step(o) == op' = [op EXCEPT ![o] = Done(o)] /\ UNCHANGED <<run, file, conn, saved, count>>
StepTo(o, i) == op' = [op EXCEPT ![o] = [Done(o) EXCEPT !.to = i]] /\ UNCHANGED <<run, file, conn, saved, count>>
Return(o) == op' = [op EXCEPT ![o] = Rest] /\ UNCHANGED <<run, file, conn, saved, count>>

(* ChangeProxy, ChangeLogSql, ChangeSlowLogTime: the slot not in use.      *)
WriteSlot(o) ==
    LET k == Setting(o)
        v == IF op[o].cmd.opt = "reload" THEN op[o].cmd.v[k] ELSE op[o].cmd.v
    IN  /\ At(o, "slot")
        /\ srv' = [srv EXCEPT !.slot[k][another(k)] = v]
        /\ StepTo(o, another(k))

Flip(o) ==
    /\ At(o, "flip")
    /\ srv' = [srv EXCEPT !.idx[Setting(o)] = op[o].to]
    /\ Step(o)

(* AddAllowIP appends to the array that both slots share; DelAllowIP moves *)
(* the entries behind the deleted one down, in place.                      *)
WriteAllowIps(o) ==
    LET v == op[o].cmd.v
        cur == Get("allow_ip")
        to == another("allow_ip")
        array == srv.arrays[cur.arr]
        at == {i \in 1..cur.len : array[i] = v}
        shifted == [i \in DOMAIN array |->
                       IF i \in Min(at)..(cur.len - 1) THEN array[i + 1] ELSE array[i]]
    IN  /\ At(o, "ips")
        /\ \/ /\ Adds(o) /\ at = {}
              /\ srv' = [srv EXCEPT !.arrays[cur.arr] = SubSeq(array, 1, cur.len) \o <<v>>
                                                          \o SubSeq(array, cur.len + 2, Len(array)),
                                    !.slot["allow_ip"][to] = [cur EXCEPT !.len = @ + 1]]
              /\ StepTo(o, to)
           \/ Adds(o) /\ at # {} /\ Return(o) /\ UNCHANGED srv
           \/ /\ ~Adds(o) /\ at # {}
              /\ srv' = [srv EXCEPT !.arrays[cur.arr] = shifted,
                                    !.slot["allow_ip"][to] = [cur EXCEPT !.len = @ - 1]]
              /\ StepTo(o, to)
           \/ /\ ~Adds(o) /\ at = {}
              /\ srv' = [srv EXCEPT !.slot["allow_ip"][to] = cur]
              /\ Return(o)

(* Mutant: nobody looks whether the statement is in the list.              *)
WriteBlackSqlsUnchecked(o) ==
    LET cur == Get("black_sql")
        to == another("black_sql")
    IN  /\ At(o, "sqls")
        /\ srv' = [srv EXCEPT !.slot["black_sql"][to] = cur,
                              !.lists[cur].sqls = IF Adds(o) THEN @ \cup {op[o].cmd.v}
                                                  ELSE @ \ {op[o].cmd.v}]
        /\ StepTo(o, to)

(* AddBlackSql and DelBlackSql: both slots end up with the same object.    *)
WriteBlackSqls(o) ==
    LET v == op[o].cmd.v
        cur == Get("black_sql")
        to == another("black_sql")
        known == v \in srv.lists[cur].sqls
    IN  /\ At(o, "sqls")
        /\ \/ Adds(o) = known /\ Return(o) /\ UNCHANGED srv
           \/ /\ Adds(o) # known
              /\ srv' = [srv EXCEPT !.slot["black_sql"][to] = cur,
                                    !.lists[cur].sqls = IF known THEN @ \ {v} ELSE @ \cup {v}]
              /\ StepTo(o, to)

WriteSqlsLen(o) ==
    /\ At(o, "len")
    /\ srv' = [srv EXCEPT !.lists[srv.slot["black_sql"][op[o].to]].sqlsLen =
                              IF Adds(o) THEN @ + 1 ELSE @ - 1]
    /\ Step(o)

(* AddSlave and DeleteSlave up to the node; NodeHealth has the rest of it. *)
(* An address that is known, or that cannot be opened, is not added.       *)
WriteSlaves(o) ==
    LET v == op[o].cmd.v
        known == v \in srv.slaves
    IN  /\ At(o, "slave")
        /\ \/ Adds(o) /\ ~known /\ srv' = [srv EXCEPT !.slaves = @ \cup {v}] /\ Step(o)
           \/ ~Adds(o) /\ known /\ srv' = [srv EXCEPT !.slaves = @ \ {v}] /\ Step(o)
           \/ (Adds(o) \/ ~known) /\ UNCHANGED srv /\ Return(o)

(* Mutant: a slave that is added or deleted is not written into s.cfg.     *)
SyncConfigNotSlaves(o) ==
    LET k == Setting(o)
        v == op[o].cmd.v
        at == PlaceOf(op[o].ips, v)
    IN  /\ At(o, "cfg")
        /\ srv' = CASE k = "allow_ip" /\ Adds(o) -> [srv EXCEPT !.cfg.allow_ip = Append(@, v)]
                    [] k = "allow_ip" /\ ~Adds(o) -> [srv EXCEPT !.cfg.allow_ip =
                                             IF at = 0 THEN @ ELSE RemoveAt(op[o].ips, at)]
                    [] k \in {"slave", "proxy"} -> srv
                    [] OTHER -> [srv EXCEPT !.cfg[k] = v]
        /\ Step(o)

(* The change in s.cfg, which a save writes to the file.                   *)
SyncConfig(o) ==
    LET k == Setting(o)
        v == op[o].cmd.v
        at == PlaceOf(op[o].ips, v)
        others == SelectSeq(srv.cfg.slaves, LAMBDA x : x # v)
    IN  /\ At(o, "cfg")
        /\ srv' = CASE k = "allow_ip" /\ Adds(o) -> [srv EXCEPT !.cfg.allow_ip = Append(@, v)]
                    [] k = "allow_ip" /\ ~Adds(o) -> [srv EXCEPT !.cfg.allow_ip =
                                             IF at = 0 THEN @ ELSE RemoveAt(op[o].ips, at)]
                    [] k = "slave" /\ Adds(o) -> [srv EXCEPT !.cfg.slaves = Append(@, v)]
                    [] k = "slave" /\ ~Adds(o) -> [srv EXCEPT !.cfg.slaves =
                                          IF others = <<>> THEN <<Empty>> ELSE others]
                    [] k = "proxy" -> srv
                    [] OTHER -> [srv EXCEPT !.cfg[k] = v]
        /\ Step(o)

(* What is in force and what a save keeps of it: without a blacklist file, *)
(* nothing of the blacklist.  log_sql is not in it: a reload takes the new *)
(* value into s.cfg and leaves the old one in force.                       *)
InForce == [allow_ip |-> AllowIps,
            black_sql |-> IF srv.cfg.bls THEN BlackSqls ELSE {},
            slow_log_time |-> Get("slow_log_time"),
            slaves |-> srv.slaves]

(* SaveProxyConfig: first the configuration, then the blacklist.  Each     *)
(* file is emptied before it is written, and each step may fail.           *)
CreateFile(o) ==
    LET k == Setting(o)
    IN  /\ At(o, "create")
        /\ \/ /\ k = "config"
              /\ file' = [Blank EXCEPT !.black_sql = file.black_sql]
              /\ saved' = None
              /\ op' = [op EXCEPT ![o] = Done(o)]
           \/ /\ k = "black_sql" /\ srv.cfg.bls
              /\ file' = [file EXCEPT !.black_sql = {}]
              /\ op' = [op EXCEPT ![o] = Done(o)]
              /\ UNCHANGED saved
           \/ /\ k = "black_sql" /\ ~srv.cfg.bls
              /\ saved' = InForce
              /\ op' = [op EXCEPT ![o] = Rest]
              /\ UNCHANGED file
           \/ /\ k = "config" \/ srv.cfg.bls
              /\ op' = [op EXCEPT ![o] = Rest]
              /\ UNCHANGED <<file, saved>>
        /\ UNCHANGED <<srv, run, conn, count>>

(* The configuration in one call, of which a part may be written: users    *)
(* come before schemas in it.  The blacklist statement by statement.       *)
WriteFile(o) ==
    LET f == op[o].cmd.v
        left == BlackSqls \ file.black_sql
    IN  /\ At(o, "file")
        /\ \/ /\ Setting(o) = "config"
              /\ file' = [f EXCEPT !.black_sql = file.black_sql]
              /\ op' = [op EXCEPT ![o] = Done(o)]
              /\ UNCHANGED saved
           \/ /\ Setting(o) = "config"
              /\ file' \in {file, [file EXCEPT !.users = f.users]}
              /\ op' = [op EXCEPT ![o] = Rest]
              /\ UNCHANGED saved
           \/ /\ Setting(o) = "black_sql"
              /\ \E q \in left : file' = [file EXCEPT !.black_sql = @ \cup {q}]
              /\ UNCHANGED <<op, saved>>
           \/ /\ Setting(o) = "black_sql" /\ left # {}
              /\ op' = [op EXCEPT ![o] = Rest]
              /\ UNCHANGED <<file, saved>>
           \/ /\ Setting(o) = "black_sql" /\ left = {}
              /\ saved' = InForce
              /\ op' = [op EXCEPT ![o] = Done(o)]
              /\ UNCHANGED file
        /\ UNCHANGED <<srv, run, conn, count>>
-----------------------------------------------------------------------------
(* UpdateConfig. *)

(* Mutant: the lock is taken first, and kept when the file is no good.     *)
LockFirst(o) ==
    /\ At(o, "lock") /\ srv.locked = None
    /\ IF Accepted(op[o].cmd.v)
       THEN srv' = [srv EXCEPT !.locked = o, !.cfg = op[o].cmd.v] /\ Step(o)
       ELSE srv' = [srv EXCEPT !.locked = o] /\ Return(o)

Lock(o) ==
    /\ At(o, "lock") /\ srv.locked = None
    /\ IF Accepted(op[o].cmd.v)
       THEN srv' = [srv EXCEPT !.locked = o, !.cfg = op[o].cmd.v] /\ Step(o)
       ELSE UNCHANGED srv /\ Return(o)

NewList(o) ==
    /\ At(o, "newlist")
    /\ srv' = [srv EXCEPT !.lists = Append(@, parseBlackListSqls(op[o].cmd.v)),
                          !.slot["black_sql"][another("black_sql")] = Len(srv.lists) + 1]
    /\ StepTo(o, another("black_sql"))

NewAllowIps(o) ==
    LET ips == op[o].cmd.v.allow_ip
    IN  /\ At(o, "newips")
        /\ srv' = [srv EXCEPT !.arrays = Append(@, ips),
                              !.slot["allow_ip"][another("allow_ip")] =
                                  [arr |-> Len(srv.arrays) + 1, len |-> Len(ips)]]
        /\ StepTo(o, another("allow_ip"))

(* Users, nodes, schemas and at last the version.                          *)
Install(o) ==
    LET f == op[o].cmd.v
    IN  /\ \/ At(o, "users") /\ srv' = [srv EXCEPT !.users = f.users]
           \/ At(o, "nodes") /\ srv' = [srv EXCEPT !.slaves = ParseSlave(f.slaves).addrs]
           \/ At(o, "schemas") /\ srv' = [srv EXCEPT !.schemas = [ver |-> srv.ver + 1, users |-> f.schemas]]
           \/ At(o, "ver") /\ srv' = [srv EXCEPT !.ver = @ + 1, !.locked = None]
        /\ Step(o)

Operate(o) ==
    \/ WriteSlot(o) \/ Flip(o) \/ WriteAllowIps(o) \/ WriteBlackSqls(o) \/ WriteSqlsLen(o)
    \/ WriteSlaves(o) \/ SyncConfig(o) \/ CreateFile(o) \/ WriteFile(o)
    \/ Lock(o) \/ NewList(o) \/ NewAllowIps(o) \/ Install(o)

(* The administrator edits the file, but not while it is being saved.      *)
EditFile ==
    /\ \A o \in Operators : ~At(o, "create") /\ ~At(o, "file")
    /\ count.commands < MaxCommands
    /\ count' = [count EXCEPT !.commands = @ + 1]
    /\ \E c \in {d \in Menus[menu] : d.opt = "edit"} : file' = c.v
    /\ saved' = None
    /\ UNCHANGED <<srv, run, op, conn>>
-----------------------------------------------------------------------------
(* Sessions: onConn, Run and dispatch. *)

Session == UNCHANGED <<srv, run, file, op, saved, count>>
Goto(c, pc) == conn' = [conn EXCEPT ![c].pc = pc] /\ Session
Admit(c) == conn' = [conn EXCEPT ![c] = [NoConn EXCEPT !.pc = "handshake", !.ver = conn[c].ver]] /\ Session
Answer(c) == conn' = [conn EXCEPT ![c].pc = "ready", ![c].sql = None, ![c].index = 0] /\ Session
Close(c) == conn' = [conn EXCEPT ![c] = NoConn] /\ Session

(* newClientConn takes the read lock.                                      *)
newClientConn(c) ==
    /\ run = "running" /\ srv.listening /\ srv.locked = None
    /\ conn[c] = NoConn
    /\ conn' = [conn EXCEPT ![c].pc = "index", ![c].ver = srv.ver]
    /\ Session

(* IsAllowConnect: the index, the slice, then one entry after the other.   *)
ReadIndex(c) ==
    /\ conn[c].pc = "index"
    /\ conn' = [conn EXCEPT ![c].index = srv.idx["allow_ip"], ![c].pc = "slice"]
    /\ Session

(* Mutant: one entry too few is taken for none.                            *)
ReadSliceOffByOne(c) ==
    LET vec == srv.slot["allow_ip"][conn[c].index]
    IN  /\ conn[c].pc = "slice"
        /\ IF vec.len <= 1
           THEN Admit(c)
           ELSE conn' = [conn EXCEPT ![c].vec = vec, ![c].pos = 1, ![c].pc = "match"] /\ Session

ReadSlice(c) ==
    LET vec == srv.slot["allow_ip"][conn[c].index]
    IN  /\ conn[c].pc = "slice"
        /\ IF vec.len = 0
           THEN Admit(c)
           ELSE conn' = [conn EXCEPT ![c].vec = vec, ![c].pos = 1, ![c].pc = "match"] /\ Session

Match(c) ==
    LET vec == conn[c].vec
        pos == conn[c].pos
        matches == srv.arrays[vec.arr][pos] = AddrOf[c]
    IN  /\ conn[c].pc = "match"
        /\ \/ matches /\ Admit(c)
           \/ ~matches /\ pos = vec.len /\ Close(c)
           \/ ~matches /\ pos < vec.len /\ conn' = [conn EXCEPT ![c].pos = @ + 1] /\ Session

(* The client's packet, for which no deadline is set.                      *)
readHandshakeResponse(c) ==
    /\ conn[c].pc = "handshake"
    /\ IF UserOf[c] \in srv.users THEN Goto(c, "schema") ELSE Close(c)

SchemaOf(c) == IF UserOf[c] \in srv.schemas.users THEN srv.schemas.ver ELSE None

(* onConn, without the lock.                                               *)
GetSchema(c) ==
    /\ conn[c].pc = "schema"
    /\ conn' = [conn EXCEPT ![c].schema = SchemaOf(c), ![c].pc = "ready"]
    /\ Session

(* A packet: the version is compared, reloadConfig runs under the lock, and*)
(* the version is read again.                                              *)
readPacket(c) ==
    /\ conn[c].pc = "ready"
    /\ count.queries < MaxQueries
    /\ count' = [count EXCEPT !.queries = @ + 1]
    /\ \E q \in Sqls :
          conn' = [conn EXCEPT ![c].sql = q,
                               ![c].pc = IF conn[c].ver # srv.ver THEN "reload" ELSE "len"]
    /\ UNCHANGED <<srv, run, file, op, saved>>

reloadConfig(c) ==
    /\ conn[c].pc = "reload" /\ srv.locked = None
    /\ IF SchemaOf(c) = None
       THEN Close(c)
       ELSE conn' = [conn EXCEPT ![c].schema = SchemaOf(c), ![c].pc = "version"] /\ Session

SetVersion(c) ==
    /\ conn[c].pc = "version"
    /\ conn' = [conn EXCEPT ![c].ver = srv.ver, ![c].pc = "len"]
    /\ Session

(* preHandleShard: sqlsLen, then the map, each by way of the index and the *)
(* list in that slot.                                                      *)
ReadSqlsIndex(c) ==
    /\ conn[c].pc \in {"len", "map"}
    /\ conn' = [conn EXCEPT ![c].index = srv.idx["black_sql"],
                            ![c].pc = IF @ = "len" THEN "count" ELSE "lookup"]
    /\ Session

SqlList(c) == srv.lists[srv.slot["black_sql"][conn[c].index]]

CheckSqlsLen(c) ==
    /\ conn[c].pc = "count"
    /\ Goto(c, IF SqlList(c).sqlsLen # 0 THEN "map" ELSE "execute")

isBlacklistSql(c) ==
    /\ conn[c].pc = "lookup"
    /\ IF conn[c].sql \in SqlList(c).sqls THEN Answer(c) ELSE Goto(c, "execute")

(* The statement runs, or panics on a schema or node that is gone, which   *)
(* handleQuery recovers from; either way it is answered.                   *)
dispatch(c) == conn[c].pc = "execute" /\ Answer(c)

(* The client goes away.                                                   *)
Leave(c) == conn[c].pc \in {"handshake", "ready"} /\ Close(c)

(* What the proxy does by itself, and what it waits for a client to do.    *)
Serve(c) ==
    \/ ReadIndex(c) \/ ReadSlice(c) \/ Match(c) \/ GetSchema(c)
    \/ reloadConfig(c) \/ SetVersion(c) \/ ReadSqlsIndex(c) \/ CheckSqlsLen(c) \/ isBlacklistSql(c)
    \/ dispatch(c)

Client(c) == newClientConn(c) \/ readHandshakeResponse(c) \/ readPacket(c) \/ Leave(c)
-----------------------------------------------------------------------------
(* The process: main, Run and Close. *)

Run ==
    /\ run = "starting"
    /\ run' = "running"
    /\ srv' = [srv EXCEPT !.running = TRUE]
    /\ UNCHANGED <<file, op, conn, saved, count>>

(* Mutant: running is left alone.                                          *)
SignalClosesListener ==
    /\ srv.listening /\ ~srv.closing /\ (run = "running" \/ EarlySignals) /\ ~Reloading
    /\ srv' = [srv EXCEPT !.closing = TRUE]
    /\ UNCHANGED <<run, file, op, conn, saved, count>>

(* SIGINT, SIGTERM or SIGQUIT: Close resets running, then closes the       *)
(* listener.                                                               *)
Signal ==
    /\ srv.listening /\ ~srv.closing /\ (run = "running" \/ EarlySignals) /\ ~Reloading
    /\ srv' = [srv EXCEPT !.running = FALSE, !.closing = TRUE]
    /\ UNCHANGED <<run, file, op, conn, saved, count>>

CloseListener ==
    /\ srv.closing
    /\ srv' = [srv EXCEPT !.listening = FALSE, !.closing = FALSE]
    /\ UNCHANGED <<run, file, op, conn, saved, count>>

(* Of the object nothing is left.                                          *)
Exit ==
    /\ run' = "stopped"
    /\ srv' = [NewServer(First) EXCEPT !.listening = FALSE]
    /\ conn' = [c \in Sessions |-> NoConn]
    /\ op' = [o \in Operators |-> Rest]
    /\ UNCHANGED <<file, saved, count>>

(* Run looks at s.running whenever Accept returns: on a closed listener at *)
(* once, on an open one when a client connects.                            *)
RunReturns == run = "running" /\ ~srv.running /\ Exit
AcceptFails == ~srv.listening /\ RunReturns

(* The process dies, in the middle of whatever it is doing.                *)
Crash == run = "running" /\ count.restarts < MaxRestarts /\ Exit

(* Started again, from the file.                                           *)
Restart ==
    /\ run = "stopped" /\ Accepted(file)
    /\ count.restarts < MaxRestarts
    /\ count' = [count EXCEPT !.restarts = @ + 1]
    /\ srv' = NewServer(file)
    /\ run' = "starting"
    /\ UNCHANGED <<file, op, conn, saved>>
-----------------------------------------------------------------------------
(* The slice of addresses in force, and those that commands are about to   *)
(* put in force: a session that has read the index before may take one.    *)
AllowIpSlices ==
    {Get("allow_ip")} \cup
    {srv.slot["allow_ip"][op[o].to] :
        o \in {p \in Operators : At(p, "flip") /\ Setting(p) = "allow_ip"}}

(* The same for the blacklist.                                             *)
SqlLists ==
    {Get("black_sql")} \cup
    {srv.slot["black_sql"][op[o].to] :
        o \in {p \in Operators : At(p, "flip") /\ Setting(p) = "black_sql"}}

(* The address of c is allowed, or the statement it waits for is not in    *)
(* the blacklist; while a command changes a list either may be the case.   *)
MayPass(c) ==
    IF conn[c].pc \in {"index", "slice", "match"}
    THEN \E vec \in AllowIpSlices : vec.len = 0 \/ AddrOf[c] \in Entries(vec)
    ELSE \/ \E l \in SqlLists : conn[c].sql \notin srv.lists[l].sqls
         \/ \E o \in Operators : op[o].todo # <<>> /\ op[o].cmd.k = "black_sql"

Checking == {"index", "slice", "match", "reload", "version", "len", "count", "map", "lookup"}

History ==
    UNCHANGED menu /\ grace' = [c \in Sessions |->
        /\ conn'[c].pc \in Checking
        /\ MayPass(c)' \/ (grace[c] /\ conn[c].pc \in Checking)]

Next ==
    /\ \/ \E o \in Operators : Begin(o) \/ Operate(o)
       \/ \E c \in Sessions : Serve(c) \/ Client(c)
       \/ EditFile \/ Run \/ Signal \/ CloseListener \/ RunReturns \/ Crash \/ Restart
    /\ History

Spec ==
    /\ Init /\ [][Next]_vars
    /\ WF_vars(Run /\ History) /\ WF_vars(CloseListener /\ History) /\ WF_vars(AcceptFails /\ History)
    /\ \A o \in Operators : WF_vars(Operate(o) /\ History)
    /\ \A c \in Sessions : WF_vars(Serve(c) /\ History)
-----------------------------------------------------------------------------
(* A client is let in only if, at some moment of the check, its address was*)
(* in the list, or the list was empty, that was in force or about to be,   *)
(* although DelAllowIP changes the very array that IsAllowConnect walks    *)
(* through, and AddAllowIP the slot it reads.                              *)
OnlyAllowedEnter ==
    [][\A c \in Sessions :
          conn[c].pc \in {"slice", "match"} /\ conn'[c].pc = "handshake" => grace[c]]_vars

(* A statement gets past preHandleShard only if, at some moment since it   *)
(* came, it was not in the blacklist that was in force or about to be,     *)
(* although a reload writes the slot that the session reads by an index it *)
(* has read before, and sqlsLen is changed apart from the map.             *)
BlackSqlsRefused ==
    [][\A c \in Sessions :
          conn[c].pc \in {"count", "lookup"} /\ conn'[c].pc = "execute" => grace[c]]_vars

(* What a save has written to the end is in force as long as no command    *)
(* changes it and no other save has begun, through any number of reloads,  *)
(* crashes and restarts (SaveProxyConfig, UpdateConfig, NewServer), and    *)
(* can be loaded again.  For commands given one after the other.           *)
SavedSettingsStay ==
    saved # None =>
        /\ Accepted(file)
        /\ run = "running" /\ (\A o \in Operators : op[o].todo = <<>>) => InForce = saved

(* A session under way is never stuck: it gets back to waiting for its     *)
(* client, or ends, although the reload makes it wait for the lock.        *)
SessionsMove ==
    \A c \in Sessions :
        (conn[c].pc \in Checking \cup {"schema", "execute"}) ~> (conn[c].pc \in {"none", "handshake", "ready"})

(* The process ends after a signal (main.go, Close, Run), although Run     *)
(* goes on accepting whatever Accept returns.                              *)
SignalStops == srv.closing ~> (run = "stopped")

(* A session that has the current configVer uses the schema of the current *)
(* configuration: "check config version for reload online" (conn.go).      *)
SessionsFollowReload ==
    \A c \in Sessions :
        conn[c].pc = "ready" /\ conn[c].ver = srv.ver /\ srv.locked = None
        => conn[c].schema = SchemaOf(c)
=============================================================================
