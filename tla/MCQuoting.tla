----------------------------- MODULE MCQuoting ------------------------------
(***************************************************************************)
(* A list of three names: two aliases of one gated adapter (Uniswap V2)    *)
(* and one that looks its pools up in a table (Fluid); two pools each, so  *)
(* that a failing pool comes before or after a good one.                   *)
(***************************************************************************)
EXTENDS Quoting

CONSTANTS uniswap, uniswap_v2, fluid, V2, Fluid

MCcanonical == [n \in {uniswap, uniswap_v2, fluid} |->
                   IF n = fluid THEN Fluid ELSE V2]
=============================================================================
