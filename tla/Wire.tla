-------------------------------- MODULE Wire --------------------------------
(***************************************************************************)
(* The conversation of clients with the proxy, and of the proxy with one   *)
(* MySQL server over a pooled connection: the packets of mysql/packetio.go,*)
(* the commands of backend/backend_conn.go and backend/stmt.go, and the    *)
(* sessions' commands of proxy/server/conn.go, conn_stmt.go, conn_use.go   *)
(* and conn_set.go, prepared statements among them.  Transactions are in   *)
(* TxSession and the pool is in ConnPool; here a connection is used by one *)
(* session at a time and replaced when it is given up.                     *)
(*                                                                         *)
(* The MySQL server and the clients are external.  A client waits for the  *)
(* answer to a command; commands without an answer are STMT_CLOSE and      *)
(* STMT_SEND_LONG_DATA.  A write to a broken connection may fail or, as it *)
(* goes to a buffer of the system, succeed.                                *)
(***************************************************************************)
EXTENDS Integers, Sequences, SequencesExt, FiniteSetsExt

CONSTANTS Clients,
          Dbs, Charsets,      \* databases and charsets that exist
          DefaultCharset, NoDb, None, NULL,
          LoginDb,            \* client -> the database its handshake named
          UsedDb,             \* the database the connection was used in before
          Commands,           \* client -> commands it sends, [op, v]
          Args,               \* values of parameters
          LongStmts,          \* statements whose first parameter may be long data
          Params, Columns,    \* statement -> how many it has
          RowLens,            \* lengths of rows
          MaxPayloadLen,      \* 2^24 - 1 in the code
          SequenceSize,       \* 256 in the code
          MaxCommands, MaxRows, MaxBreaks   \* bounds

VARIABLES cl,    \* client -> what it knows and waits for
          ss,    \* client -> its ClientConn
          bc,    \* the proxy's end of the connection, a Conn
          sv,    \* the server's end
          count

vars == <<cl, ss, bc, sv, count>>
-----------------------------------------------------------------------------
(* Packets. *)

(* WritePacket: full frames, then a shorter one, empty if need be.         *)
WritePacket(p, seq) ==
    LET full == p.len \div MaxPayloadLen
    IN  [i \in 1..(full + 1) |->
            [len |-> IF i <= full THEN MaxPayloadLen ELSE p.len % MaxPayloadLen,
             seq |-> (seq + i - 1) % SequenceSize,
             p |-> p]]

(* ReadPacket: frames up to a short one; an empty frame, and one out of    *)
(* sequence, are errors.                                                   *)
ReadPacket(in, seq) ==
    LET last == SelectInSeq(in, LAMBDA f : f.len < MaxPayloadLen)
        wrong == {i \in 1..last : in[i].len = 0 \/ in[i].seq # (seq + i - 1) % SequenceSize}
    IN  CASE last = 0 -> [res |-> "wait"]
          [] last # 0 /\ wrong # {} -> [res |-> "bad", used |-> Min(wrong)]
          [] OTHER -> [res |-> "ok", used |-> last, p |-> in[last].p]

Pkt(k) == [k |-> k, len |-> 1]
Op(op, v) == [op |-> op, v |-> v]

(* The packets that answer a command, from sequence 1 on.                  *)
PacketsTo(cmd, ps) ==
    LET starts[i \in 0..Len(ps)] == IF i = 0 THEN 1 ELSE starts[i - 1] + (ps[i].len \div MaxPayloadLen) + 1
        tagged(p) == [k |-> p.k, len |-> p.len, to |-> Op(cmd.op, cmd.v)]
    IN  FlattenSeq([i \in 1..Len(ps) |-> WritePacket(tagged(ps[i]), starts[i - 1])])
-----------------------------------------------------------------------------
(* The server (external). *)

Fields(n) == IF n = 0 THEN <<>> ELSE [i \in 1..n |-> Pkt("field")] \o <<Pkt("eof")>>

(* A binary row has no length that makes an empty frame: the failed read   *)
(* is followed by Stmt.Close, which clears pkgErr.                         *)
RowSets(fmt) ==
    LET lens == {l \in RowLens : fmt = "text" \/ l % MaxPayloadLen # 0}
    IN  UNION {[1..n -> {[k |-> "row", len |-> l] : l \in lens}] : n \in 0..MaxRows}

(* The server may give up among the rows, with an ERR as the last packet.  *)
Resultsets(sql, fmt) ==
    IF Columns[sql] = 0
    THEN {<<Pkt("ok")>>}
    ELSE {<<Pkt("count")>> \o Fields(Columns[sql]) \o rows \o <<Pkt(end)>> :
              rows \in RowSets(fmt), end \in {"eof", "err"}}

(* The arguments of an execution; without types they are none.             *)
Decoded(e) ==
    [i \in 1..Params[e.v] |->
        IF i \in e.nulls THEN NULL
        ELSE IF e.bound THEN e.values[Cardinality((1..i) \ e.nulls)] ELSE None]

(* What it may answer to a command.                                        *)
Responses(cmd) ==
    CASE cmd.op = "use" -> {<<Pkt(IF cmd.v \in Dbs THEN "ok" ELSE "err")>>}
      [] cmd.op = "names" -> {<<Pkt("ok")>>}
      [] cmd.op = "query" -> {<<Pkt("err")>>} \cup Resultsets(cmd.v, "text")
      [] cmd.op = "execute" -> {<<Pkt("err")>>} \cup Resultsets(cmd.v, "binary")
      [] cmd.op = "prepare" -> {<<Pkt("err")>>,
                                <<Pkt("prep")>> \o Fields(Params[cmd.v]) \o Fields(Columns[cmd.v])}
      [] cmd.op = "fields" -> {<<Pkt("err")>>, <<Pkt("eof")>>, Fields(1), Fields(2)}

(* The answers that readResultRows and FieldList do not see the end of:    *)
(* an ERR among the rows, and a list of no fields.                         *)
Endless(cmd, ps) ==
    \/ Len(ps) > 1 /\ Last(ps).k = "err"
    \/ cmd.op = "fields" /\ ps = <<Pkt("eof")>>

NewServerEnd == [alive |-> TRUE, in |-> <<>>, out |-> <<>>, db |-> NoDb, charset |-> DefaultCharset,
                 stmts |-> 0, endless |-> FALSE]

Serve ==
    LET cmd == Head(sv.in)
    IN  /\ sv.in # <<>>
        /\ IF cmd.op = "unprepare"
           THEN sv' = [sv EXCEPT !.in = Tail(@), !.stmts = @ - 1]
           ELSE \E ps \in Responses(cmd) :
                   sv' = [sv EXCEPT
                       !.in = Tail(@),
                       !.out = @ \o PacketsTo(cmd, ps),
                       !.endless = Endless(cmd, ps),
                       !.db = IF cmd.op = "use" /\ ps[1].k = "ok" THEN cmd.v ELSE @,
                       !.charset = IF cmd.op = "names" THEN cmd.v ELSE @,
                       !.stmts = IF ps[1].k = "prep" THEN @ + 1 ELSE @]
        /\ UNCHANGED <<cl, ss, bc, count>>

(* The connection breaks; part of what was under way is lost.              *)
Break ==
    /\ sv.alive /\ count.breaks < MaxBreaks
    /\ count' = [count EXCEPT !.breaks = @ + 1]
    /\ \E n \in 0..Len(sv.out) :
          sv' = [sv EXCEPT !.alive = FALSE, !.in = <<>>, !.out = SubSeq(@, 1, n)]
    /\ UNCHANGED <<cl, ss, bc>>
-----------------------------------------------------------------------------
(* Clients (external).  A client knows its statements by id; of a parameter*)
(* it has sent as long data it puts no value into the packet, and it sends *)
(* the types of the parameters when it executes a statement first.  It     *)
(* takes the last database and charset that were answered with OK for its  *)
(* own, and none for its database after an error.                          *)

NewClient(db) == [waits |-> FALSE, cmd |-> None, stmts |-> <<>>, got |-> <<>>,
                  db |-> db, charset |-> DefaultCharset]
Bytes(v) == [t |-> "bytes", v |-> v]

Executions(c, id) ==
    LET st == cl[c].stmts[id]
        n == Params[st.sql]
        Inline(a) == SelectSeq([i \in 1..n |-> i], LAMBDA i : a[i] # NULL /\ st.long[i] = <<>>)
    IN  {[op |-> "execute", id |-> id, v |-> st.sql,
          args |-> [i \in 1..n |-> IF st.long[i] = <<>> THEN a[i] ELSE Bytes(st.long[i])],
          nulls |-> {i \in 1..n : a[i] = NULL /\ st.long[i] = <<>>},
          types |-> types,
          values |-> [j \in 1..Len(Inline(a)) |-> a[Inline(a)[j]]]] :
            a \in [1..n -> Args], types \in IF st.executed THEN BOOLEAN ELSE {TRUE}}

StmtCommands(c) ==
    LET ids == DOMAIN cl[c].stmts
    IN  UNION {Executions(c, id) : id \in ids}
        \cup {[op |-> op, id |-> id] : op \in {"reset", "close"}, id \in ids}
        \cup {[op |-> "long", id |-> id, i |-> 1, v |-> "a"] :
                  id \in {d \in ids : ~cl[c].stmts[d].closed /\ cl[c].stmts[d].sql \in LongStmts}}

(* The client's table after it has sent a command.                         *)
Known(stmts, cmd) ==
    CASE cmd.op = "long" -> [stmts EXCEPT ![cmd.id].long[cmd.i] = Append(@, cmd.v)]
      [] cmd.op = "execute" -> [stmts EXCEPT ![cmd.id].long = [i \in DOMAIN @ |-> <<>>], ![cmd.id].executed = TRUE]
      [] cmd.op = "reset" -> [stmts EXCEPT ![cmd.id].long = [i \in DOMAIN @ |-> <<>>]]
      [] cmd.op = "close" -> [stmts EXCEPT ![cmd.id].closed = TRUE]
      [] OTHER -> stmts

Send(c) ==
    /\ ss[c].open /\ ss[c].cmd = None /\ ~cl[c].waits
    /\ count.commands < MaxCommands
    /\ count' = [count EXCEPT !.commands = @ + 1]
    /\ \E cmd \in Commands[c] \cup StmtCommands(c) :
          /\ cl' = [cl EXCEPT ![c].waits = cmd.op \notin {"close", "long"}, ![c].cmd = cmd,
                              ![c].stmts = Known(@, cmd)]
          /\ ss' = [ss EXCEPT ![c].cmd = cmd]
    /\ UNCHANGED <<bc, sv>>

Receive(c) ==
    LET ans == Head(cl[c].got)
        cmd == cl[c].cmd
        st == [sql |-> cmd.v, executed |-> FALSE, closed |-> FALSE, long |-> [i \in 1..Params[cmd.v] |-> <<>>]]
    IN  /\ cl[c].got # <<>>
        /\ cl' = [cl EXCEPT ![c].waits = FALSE, ![c].got = Tail(@),
                            ![c].stmts = IF ans = "prep" THEN Append(@, st) ELSE @,
                            ![c].db = IF ans = "err" THEN NoDb ELSE IF cmd.op = "use" THEN cmd.v ELSE @,
                            ![c].charset = IF ans = "ok" /\ cmd.op = "names" THEN cmd.v ELSE @]
        /\ UNCHANGED <<ss, bc, sv, count>>

(* The proxy has closed the connection of a client that waits.             *)
Disconnected(c) ==
    /\ ~ss[c].open /\ cl[c].waits /\ cl[c].got = <<>>
    /\ cl' = [cl EXCEPT ![c].waits = FALSE]
    /\ UNCHANGED <<ss, bc, sv, count>>
-----------------------------------------------------------------------------
(* A session's own part of a command. *)

(* bindStmtArgs: parameter by parameter, from the bitmap, the types and    *)
(* the values of the packet.                                               *)
bindStmtArgs(args, e) ==
    LET bind[i \in 0..Len(args)] ==
            IF i = 0 THEN [res |-> "ok", args |-> args, pos |-> 1]
            ELSE LET b == bind[i - 1]
                 IN  CASE b.res # "ok" -> b
                       [] b.res = "ok" /\ i \in e.nulls -> [b EXCEPT !.args[i] = NULL]
                       [] b.res = "ok" /\ i \notin e.nulls /\ ~e.types -> [b EXCEPT !.res = "panic"]
                       [] b.res = "ok" /\ i \notin e.nulls /\ e.types /\ b.pos > Len(e.values) ->
                             [b EXCEPT !.res = "malformed"]
                       [] OTHER -> [b EXCEPT !.args[i] = e.values[b.pos], !.pos = @ + 1]
    IN  bind[Len(args)]

ResetParams(s) == [s EXCEPT !.args = [i \in 1..Params[s.sql] |-> NULL]]

NewSession(db) == [open |-> TRUE, cmd |-> None, db |-> db, charset |-> DefaultCharset,
                   stmts |-> <<>>, todo |-> <<>>, res |-> None]

(* The answer, if any, and the end of the command.                         *)
Answer(c, s, res) ==
    /\ ss' = [ss EXCEPT ![c] = [s EXCEPT !.cmd = None, !.todo = <<>>, !.res = None]]
    /\ cl' = IF res = None THEN cl ELSE [cl EXCEPT ![c].got = Append(@, res)]

handleSetNames(c, s) ==
    IF s.cmd.v \in Charsets THEN Answer(c, [s EXCEPT !.charset = s.cmd.v], "ok") ELSE Answer(c, s, "err")

(* A statement that is closed leaves None in the table.                    *)
handleStmtClose(c, s) == Answer(c, [s EXCEPT !.stmts[s.cmd.id] = None], None)

handleStmtReset(c, s) ==
    IF s.stmts[s.cmd.id] = None THEN Answer(c, s, "err")
    ELSE Answer(c, [s EXCEPT !.stmts[s.cmd.id] = ResetParams(@)], "ok")

handleStmtSendLongData(c, s) ==
    LET st == s.stmts[s.cmd.id]
        arg == st.args[s.cmd.i]
    IN  IF st = None THEN Answer(c, s, "err")
        ELSE IF arg = NULL
        THEN Answer(c, [s EXCEPT !.stmts[s.cmd.id].args[s.cmd.i] = Bytes(<<s.cmd.v>>)], None)
        ELSE IF arg.t = "bytes"
        THEN Answer(c, [s EXCEPT !.stmts[s.cmd.id].args[s.cmd.i].v = Append(@, s.cmd.v)], None)
        ELSE Answer(c, s, "err")

(* The cases in which nothing is executed; a panic ends the session.       *)
handleStmtExecute(c, s) ==
    LET st == s.stmts[s.cmd.id]
        b == bindStmtArgs(st.args, s.cmd)
    IN  \/ st = None /\ Answer(c, s, "err")
        \/ st # None /\ b.res = "malformed" /\ Answer(c, [s EXCEPT !.stmts[s.cmd.id].args = b.args], "err")
        \/ st # None /\ b.res = "panic" /\ Answer(c, [s EXCEPT !.open = FALSE], None)

(* dispatch, for the commands that need no server.                         *)
Dispatch(c) ==
    LET s == ss[c]
    IN  /\ s.cmd # None /\ bc.holder # c
        /\ \/ s.cmd.op \in {"ping", "set_option"} /\ Answer(c, s, "ok")
           \/ s.cmd.op = "other" /\ Answer(c, s, "err")
           \/ s.cmd.op = "names" /\ handleSetNames(c, s)
           \/ s.cmd.op = "close" /\ handleStmtClose(c, s)
           \/ s.cmd.op = "reset" /\ handleStmtReset(c, s)
           \/ s.cmd.op = "long" /\ handleStmtSendLongData(c, s)
           \/ s.cmd.op = "execute" /\ handleStmtExecute(c, s)
        /\ UNCHANGED <<bc, sv, count>>
-----------------------------------------------------------------------------
(* The part of a command that needs the server. *)

NewConn == [holder |-> None, pkgErr |-> FALSE, seq |-> 0, db |-> NoDb, charset |-> DefaultCharset,
            read |-> None]

(* tryReuse, UseDB and SetCharset come before the command's own.           *)
getBackendConn(s) == <<Op("names", DefaultCharset), Op("use", s.db), Op("names", s.charset)>>

handleUseDB(s) == <<Op("use", s.cmd.v)>>
handleFieldList(s) == <<Op("fields", s.cmd.v)>>

(* Mutant: a statement prepared for its column definitions is not closed.  *)
StmtPrepareLeavesStmt(s) == <<Op("prepare", s.cmd.v), Op("answer", s.cmd.v)>>

handleStmtPrepare(s) == <<Op("prepare", s.cmd.v), Op("answer", s.cmd.v), Op("unprepare", s.cmd.v)>>

(* Conn.Execute, for handlePrepareSelect and handlePrepareExec: a statement*)
(* with arguments is prepared on the server, executed and closed.          *)
ExecuteArgs(s) ==
    IF Params[s.cmd.v] = 0 THEN <<Op("query", s.cmd.v)>>
    ELSE <<Op("prepare", s.cmd.v), Op("execute", s.cmd.v), Op("unprepare", s.cmd.v)>>

Program(s) ==
    getBackendConn(s) \o
    CASE s.cmd.op = "use" -> handleUseDB(s)
      [] s.cmd.op = "query" -> <<Op("query", s.cmd.v)>>
      [] s.cmd.op = "fields" -> handleFieldList(s)
      [] s.cmd.op = "prepare" -> handleStmtPrepare(s)
      [] s.cmd.op = "execute" -> ExecuteArgs(s)

Acquire(c) ==
    LET s == ss[c]
        b == bindStmtArgs(s.stmts[s.cmd.id].args, s.cmd)
    IN  /\ s.cmd # None /\ bc.holder = None
        /\ \/ /\ s.cmd.op \in {"use", "query", "fields", "prepare"}
              /\ ss' = [ss EXCEPT ![c].todo = Program(s)]
           \/ /\ s.cmd.op = "execute" /\ s.stmts[s.cmd.id] # None /\ b.res = "ok"
              /\ ss' = [ss EXCEPT ![c].todo = Program(s), ![c].stmts[s.cmd.id].args = b.args]
        /\ bc' = [bc EXCEPT !.holder = c]
        /\ UNCHANGED <<cl, sv, count>>

UseDBSkipped(op) == op.op = "use" /\ op.v \in {NoDb, bc.db}

(* Mutant: the default charset is taken for the one a connection has.      *)
SetCharsetSkipsDefault(op) == op.op = "names" /\ op.v = DefaultCharset

SetCharsetSkipped(op) == op.op = "names" /\ op.v = bc.charset

(* UseDB and SetCharset do nothing if there is nothing to change.          *)
Skipped(op) == UseDBSkipped(op) \/ SetCharsetSkipped(op)

writePrepare(s, sql) ==
    [s EXCEPT !.todo = Tail(@), !.res = None,
              !.stmts = Append(@, ResetParams([sql |-> sql, args |-> <<>>]))]

(* Stmt.write: a bitmap of the NULLs, and the values of the others, if any.*)
writeArgs(sql, args) ==
    LET given == SelectSeq([i \in DOMAIN args |-> i], LAMBDA i : args[i] # NULL)
    IN  [op |-> "execute", v |-> sql,
         nulls |-> {i \in DOMAIN args : args[i] = NULL},
         bound |-> given # <<>>,
         values |-> [j \in DOMAIN given |-> args[given[j]]]]

(* An operation fails: ErrBadConn, or what the server or ReadPacket says.  *)
(* A failed UseDB sets the session's database to null; Execute closes the  *)
(* statement whatever happened, and does not look at the result of that.   *)
Fail(s, op, res) ==
    [s EXCEPT !.res = IF op.op # "unprepare" THEN res ELSE IF s.cmd.op = "prepare" THEN "unclosed" ELSE @,
              !.db = IF op.op = "use" THEN NoDb ELSE @,
              !.todo = IF op.op = "execute" THEN Tail(@) ELSE <<>>]

(* writeCommand: the answer starts with sequence 1; a write that succeeds  *)
(* clears pkgErr.  handleUseDB sets the session's database also when UseDB *)
(* had nothing to do.                                                      *)
Write(c) ==
    LET s == ss[c]
        op == Head(s.todo)
        cmd == IF op.op = "execute" THEN writeArgs(op.v, s.stmts[s.cmd.id].args) ELSE op
    IN  /\ bc.holder = c /\ bc.read = None /\ s.todo # <<>>
        /\ \/ /\ Skipped(op)
              /\ ss' = [ss EXCEPT ![c].todo = Tail(@), ![c].res = "ok",
                                  ![c].db = IF op.op = "use" THEN op.v ELSE @]
              /\ UNCHANGED <<cl, bc, sv>>
           \/ /\ op.op = "answer"
              /\ ss' = [ss EXCEPT ![c] = writePrepare(s, op.v)]
              /\ cl' = [cl EXCEPT ![c].got = Append(@, "prep")]
              /\ UNCHANGED <<bc, sv>>
           \/ /\ ~Skipped(op) /\ op.op # "answer"
              /\ sv' = IF sv.alive THEN [sv EXCEPT !.in = Append(@, cmd)] ELSE sv
              /\ bc' = [bc EXCEPT !.seq = 1, !.pkgErr = FALSE, !.read = IF op.op = "unprepare" THEN None ELSE "first"]
              /\ ss' = IF op.op = "unprepare" THEN [ss EXCEPT ![c].todo = Tail(@)] ELSE ss
              /\ UNCHANGED cl
           \/ /\ ~Skipped(op) /\ op.op # "answer" /\ ~sv.alive
              /\ bc' = [bc EXCEPT !.pkgErr = TRUE]
              /\ ss' = [ss EXCEPT ![c] = Fail(s, op, "badconn")]
              /\ UNCHANGED <<cl, sv>>
        /\ UNCHANGED count

(* What a packet leads to: "ok" and "err" end the operation, another state *)
(* is one more packet to read.                                             *)
readOK(p) == IF p.k = "ok" THEN "ok" ELSE "err"

readResultset(read, p) ==
    IF p.k # "eof" THEN read ELSE IF read = "columns" THEN "rows" ELSE "ok"

readResult(read, p) ==
    IF read # "first" THEN readResultset(read, p)
    ELSE IF p.k = "count" THEN "columns" ELSE readOK(p)

(* Mutant: after the parameters Prepare always reads columns.              *)
PrepareAlwaysColumns(sql, read, p) ==
    IF read = "first" /\ p.k # "prep" THEN "err"
    ELSE IF read = "first" /\ Params[sql] > 0 THEN "params"
    ELSE IF read # "first" /\ p.k # "eof" THEN read
    ELSE IF read = "columns" THEN "ok" ELSE "columns"

Prepare(sql, read, p) ==
    IF read = "first" /\ p.k # "prep" THEN "err"
    ELSE IF read = "first" /\ Params[sql] > 0 THEN "params"
    ELSE IF read # "first" /\ p.k # "eof" THEN read
    ELSE IF read = "columns" \/ Columns[sql] = 0 THEN "ok" ELSE "columns"

(* The first packet counts for nothing unless it is an error.              *)
FieldList(read, p) ==
    IF read # "first" THEN readResultset(read, p)
    ELSE IF p.k = "err" THEN "err" ELSE "rows"

After(op, read, p) ==
    CASE op.op = "use" -> readOK(p)
      [] op.op = "prepare" -> Prepare(op.v, read, p)
      [] op.op = "fields" -> FieldList(read, p)
      [] OTHER -> readResult(read, p)

Read(c) ==
    LET s == ss[c]
        op == Head(s.todo)
        r == ReadPacket(sv.out, bc.seq)
        next == After(op, bc.read, r.p)
        rest == [sv EXCEPT !.out = SubSeq(@, r.used + 1, Len(@))]
    IN  /\ bc.holder = c /\ bc.read # None
        /\ \/ /\ r.res = "wait" /\ ~sv.alive
              /\ bc' = [bc EXCEPT !.pkgErr = TRUE, !.read = None]
              /\ ss' = [ss EXCEPT ![c] = Fail(s, op, "badconn")]
              /\ UNCHANGED sv
           \/ /\ r.res = "bad"
              /\ bc' = [bc EXCEPT !.pkgErr = TRUE, !.read = None]
              /\ ss' = [ss EXCEPT ![c] = Fail(s, op, IF r.used > 1 THEN "badconn" ELSE "err")]
              /\ sv' = rest
           \/ /\ r.res = "ok"
              /\ bc' = [bc EXCEPT !.pkgErr = FALSE,
                                  !.seq = (@ + r.used) % SequenceSize,
                                  !.read = IF next \in {"ok", "err"} THEN None ELSE next,
                                  !.db = IF op.op = "use" /\ next = "ok" THEN op.v ELSE @,
                                  !.charset = IF op.op = "names" /\ next = "ok" THEN op.v ELSE @]
              /\ ss' = CASE next = "err" -> [ss EXCEPT ![c] = Fail(s, op, "err")]
                         [] next = "ok" ->
                               [ss EXCEPT ![c].todo = Tail(@),
                                          ![c].db = IF op.op = "use" THEN op.v ELSE @,
                                          ![c].res = IF op.op \in {"query", "execute"} /\ bc.read = "rows"
                                                     THEN IF op.op = "query" THEN "text" ELSE "binary"
                                                     ELSE "ok"]
                         [] OTHER -> ss
              /\ sv' = rest
        /\ UNCHANGED <<cl, count>>

(* ErrBadConn ends the session; the errors of a prepare are wrapped, but   *)
(* for that of ClosePrepare, which comes after the answer.                 *)
EndsSession(s) == s.res = "unclosed" \/ (s.res = "badconn" /\ s.cmd.op # "prepare")

(* Mutant: a statement that was prepared is answered with OK once more.    *)
FinishAnswersTwice(c) ==
    LET s == ss[c]
        ended == IF s.cmd.op = "execute" THEN [s EXCEPT !.stmts[s.cmd.id] = ResetParams(@)] ELSE s
    IN  /\ bc.holder = c /\ bc.read = None /\ s.todo = <<>>
        /\ Answer(c, [ended EXCEPT !.open = ~EndsSession(s)],
                  IF s.res \in {"badconn", "unclosed", "err"} THEN "err" ELSE "ok")
        /\ IF bc.pkgErr
           THEN bc' = NewConn /\ sv' = NewServerEnd
           ELSE bc' = [bc EXCEPT !.holder = None, !.seq = 0] /\ UNCHANGED sv
        /\ UNCHANGED count

(* The answer to the client, by the handler or by Run.  BackendConn.Close  *)
(* gives up a connection with an error.                                    *)
Finish(c) ==
    LET s == ss[c]
        answered == s.cmd.op = "prepare" /\ s.res = None
        ended == IF s.cmd.op = "execute" THEN [s EXCEPT !.stmts[s.cmd.id] = ResetParams(@)] ELSE s
    IN  /\ bc.holder = c /\ bc.read = None /\ s.todo = <<>>
        /\ Answer(c, [ended EXCEPT !.open = ~EndsSession(s)],
                  IF answered THEN None ELSE IF s.res \in {"badconn", "unclosed"} THEN "err" ELSE s.res)
        /\ IF bc.pkgErr
           THEN bc' = NewConn /\ sv' = NewServerEnd
           ELSE bc' = [bc EXCEPT !.holder = None, !.seq = 0] /\ UNCHANGED sv
        /\ UNCHANGED count

Init ==
    /\ cl = [c \in Clients |-> NewClient(LoginDb[c])]
    /\ ss = [c \in Clients |-> NewSession(LoginDb[c])]
    /\ bc = [NewConn EXCEPT !.db = UsedDb]
    /\ sv = [NewServerEnd EXCEPT !.db = UsedDb]
    /\ count = [commands |-> 0, breaks |-> 0]

Work(c) == Dispatch(c) \/ Acquire(c) \/ Write(c) \/ Read(c) \/ Finish(c)
Hear(c) == Receive(c) \/ Disconnected(c)

Next ==
    \/ Serve \/ Break
    \/ \E c \in Clients : Send(c) \/ Hear(c) \/ Work(c)

Spec ==
    /\ Init /\ [][Next]_vars
    /\ WF_vars(Serve)
    /\ \A c \in Clients : WF_vars(Work(c)) /\ SF_vars(Acquire(c)) /\ WF_vars(Hear(c))
-----------------------------------------------------------------------------
(* A connection that goes back to the pool is in step with its server: no  *)
(* packet of an earlier answer is left in it, no prepared statement is     *)
(* open, and its database and charset are what the proxy takes them for    *)
(* (readResult, Prepare, Execute, UseDB, SetCharset, BackendConn.Close).   *)
PooledInStep ==
    bc.holder = None /\ sv.alive =>
        /\ sv.out = <<>>
        /\ sv.stmts = Len(sv.in) /\ \A i \in DOMAIN sv.in : sv.in[i].op = "unprepare"
        /\ bc.db = sv.db /\ bc.charset = sv.charset

(* The server runs a client's statement in the database it named last, at  *)
(* its handshake or in a USE answered with OK, unless an error came since, *)
(* and in the charset it chose, whoever used the connection before         *)
(* (handleUseDB, getBackendConn), and with the arguments that it has bound *)
(* (bindStmtArgs, ResetParams).                                            *)
RunsAsAsked ==
    \A i \in DOMAIN sv.in :
        sv.in[i].op \in {"query", "prepare", "execute", "fields"} =>
            LET k == cl[bc.holder]
            IN  /\ k.db \in {NoDb, sv.db}
                /\ k.charset = sv.charset
                /\ sv.in[i].op = "execute" => Decoded(sv.in[i]) = k.cmd.args

(* A client gets an answer only to a command it waits for, and one only,   *)
(* but for one error as its session ends (dispatch, handleStmtPrepare, and *)
(* Run, which answers for a handler that failed); and what a session reads *)
(* as the answer of the server was sent in answer to what it asks.         *)
OneAnswer ==
    /\ \A c \in Clients :
          Len(cl[c].got) <= (IF cl[c].waits THEN 1 ELSE 0) + (IF ss[c].open THEN 0 ELSE 1)
    /\ bc.read # None =>
          LET r == ReadPacket(sv.out, bc.seq)
          IN  r.res = "ok" => r.p.to = Head(ss[bc.holder].todo)

(* Every command is answered, or the session is closed, unless the server  *)
(* has sent an answer of the two kinds whose end the proxy does not see    *)
(* (Prepare, readResult, FieldList).                                       *)
CommandsAnswered == \A c \in Clients : cl[c].waits ~> (~cl[c].waits \/ sv.endless)

(* Rows that answer COM_STMT_EXECUTE are in the binary protocol.           *)
ExecuteInBinary ==
    \A c \in Clients : cl[c].waits /\ cl[c].cmd.op = "execute" => ~Contains(cl[c].got, "text")
=============================================================================
