---------------------------- MODULE MCTxExecutor ----------------------------
(***************************************************************************)
(* Two attempts are enough for a transaction of the first, or its thread,  *)
(* to meet the transactions of the second; one foreign transaction is      *)
(* enough to take a nonce away from either.                                *)
(***************************************************************************)
EXTENDS TxExecutor
=============================================================================
