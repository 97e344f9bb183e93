------------------------------- MODULE MCWire -------------------------------
(***************************************************************************)
(* Instances of Wire.  MaxPayloadLen is 2 and SequenceSize 4, so that      *)
(* rows take two frames and sequence numbers wrap within one answer.  One  *)
(* client logs in with a database; the other may choose the one that the   *)
(* connection is in from earlier sessions.                                 *)
(***************************************************************************)
EXTENDS Wire, TLC

CONSTANTS c1, c2, d1, d2, bad, utf8, gbk, sel, ins, plain

Cmd(op, v) == [op |-> op, v |-> v]
MCParams == sel :> 2 @@ ins :> 1 @@ plain :> 0
MCColumns == sel :> 1 @@ ins :> 0 @@ plain :> 1
Number(v) == [t |-> "int", v |-> v]

MCLoginDb == c1 :> d2 @@ c2 :> NoDb
MCCommands == c1 :> {Cmd("use", d1), Cmd("use", bad), Cmd("query", sel), Cmd("prepare", sel), Cmd("prepare", ins)}
           @@ c2 :> {Cmd("use", d1), Cmd("names", gbk), Cmd("names", bad), Cmd("query", ins), Cmd("fields", None),
                     Cmd("ping", None), Cmd("other", None)}
PlainCommands == c1 :> {Cmd("prepare", plain)} @@ c2 :> {}
MCArgs == {NULL, Number(7)}
=============================================================================
