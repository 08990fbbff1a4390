------------------------------- MODULE MCScan -------------------------------
(***************************************************************************)
(* Two DEXes and two listed pairs: a batch of two reverse quotes for each  *)
(* of two forward quotes, so that a stop finds work left in every loop.    *)
(***************************************************************************)
EXTENDS Scan

CONSTANTS d1, d2
=============================================================================
