---------------------------- MODULE MCSupervisor ----------------------------
(***************************************************************************)
(* Small instances of Supervisor.  Wallets and task identities are model   *)
(* values that no definition tells apart, so they may be permuted when     *)
(* only safety is checked.                                                 *)
(*                                                                         *)
(* The liveness run has three wallets: two that keep dying could starve a  *)
(* third one if the round that stops them did not go in the order of the   *)
(* dictionary.  Two restrictions keep it small.  Both bind only users,     *)
(* stop and Ctrl-C, and no step that fairness speaks of: users toggle      *)
(* while a poll is on its way (nothing else looks at wanted, so a toggle   *)
(* at another moment is as good as one in the next poll), and stop and     *)
(* Ctrl-C come when at most two wallets are wanted or have a task.         *)
(***************************************************************************)
EXTENDS Supervisor, TLC

CONSTANTS w1, w2, w3, i1, i2

MCInPlay == wanted \cup {t[1] : t \in {u \in Task : Used(u)}}

MCQuietUsers ==
    /\ wanted' # wanted => pc = "poll"
    /\ stopEvent' \/ interrupted' => Cardinality(MCInPlay') <= 2

MCFairSpec == Init /\ [][Next /\ MCQuietUsers]_vars /\ Fairness

MCWallets  == {w1, w2}
MCIds      == {i1, i2}
MCSymmetry == Permutations(MCWallets) \cup Permutations(MCIds)
=============================================================================
