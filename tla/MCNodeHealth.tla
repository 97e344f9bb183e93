---------------------------- MODULE MCNodeHealth ----------------------------
(* Small instances of NodeHealth for TLC.                                   *)
EXTENDS NodeHealth

CONSTANTS m1, s1, s2

OneSlave == <<[addr |-> s1, weight |-> 2]>>
OnSlave == [op : {"up", "down"}, kind : {"slave"}, addr : {s1}]
OnBoth == OnSlave \cup {[op |-> "down", kind |-> "master", addr |-> m1]}
AddOne == [addr : {s1}, weight : {1}]
AddTwo == [addr : {s2}, weight : {1}]
Ids == 0..6
=============================================================================
