---------------------------- MODULE MCTxSession -----------------------------
(* TxSession for TLC.                                                       *)
EXTENDS TxSession
=============================================================================
