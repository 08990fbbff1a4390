--------------------------- MODULE MCWalletWorker ---------------------------
(***************************************************************************)
(* WalletWorker has no parameters: its state space is finite as it stands. *)
(***************************************************************************)
EXTENDS WalletWorker
=============================================================================
