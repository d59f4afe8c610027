----------------------------- MODULE MCHotSwap -----------------------------
(* One node with models and one directory suffice for a swap into the       *)
(* directory it serves while the drainer books a sale.                      *)
EXTENDS HotSwap
=============================================================================
