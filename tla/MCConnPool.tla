----------------------------- MODULE MCConnPool -----------------------------
(* ConnPool for TLC.                                                        *)
EXTENDS ConnPool
=============================================================================
