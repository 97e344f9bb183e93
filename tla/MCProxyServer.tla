---------------------------- MODULE MCProxyServer ----------------------------
(***************************************************************************)
(* An instance of ProxyServer: two files that differ in every setting a    *)
(* reload applies, and one that has a user without a schema.               *)
(***************************************************************************)
EXTENDS ProxyServer, TLC

CONSTANTS c1, c2, o1, ip1, ip2, ip3, q1, u1, u2, a1, a2

MCAddrOf == c1 :> ip1 @@ c2 :> ip2
MCUserOf == c1 :> u1 @@ c2 :> u2

FileA == [users |-> {u1, u2}, schemas |-> {u1, u2}, allow_ip |-> <<ip1, ip2, ip3>>,
          bls |-> TRUE, black_sql |-> {}, slow_log_time |-> 100, log_sql |-> "on",
          slaves |-> <<a1>>]
FileB == [FileA EXCEPT !.users = {u1}, !.schemas = {u1}, !.allow_ip = <<>>, !.black_sql = {q1},
                       !.slow_log_time = 0, !.slaves = <<Empty>>]
FileC == [FileB EXCEPT !.users = {u1, u2}, !.bls = FALSE]
MCFirst == FileA

Cmd(opt, k, v) == [opt |-> opt, k |-> k, v |-> v]
Save == Cmd("save", "proxy", "config")
Reload == Cmd("reload", "", None)
IpCommands == {Cmd("del", "allow_ip", ip1), Cmd("del", "allow_ip", ip2), Cmd("add", "allow_ip", ip2)}
SqlCommands == {Cmd("add", "black_sql", q1), Cmd("del", "black_sql", q1)}
StatusCommands == {Cmd("change", "proxy", "offline"), Cmd("change", "proxy", "idle")}
OtherCommands == {Cmd("add", "slave", a2), Cmd("del", "slave", a1), Cmd("change", "slow_log_time", 50)}
MCMenus == <<IpCommands \cup {Reload, Cmd("edit", "file", FileB)},
             SqlCommands \cup StatusCommands \cup {Save, Reload},
             OtherCommands \cup {Save, Reload, Cmd("edit", "file", FileC)}>>
ReloadMenu == <<{Reload, Cmd("edit", "file", FileB)}>>
=============================================================================
