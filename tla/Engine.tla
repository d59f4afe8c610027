------------------------------- MODULE Engine -------------------------------
(* What the parts of one engine share: its nodes, its capital, and how its  *)
(* slow paths rebuild.                                                      *)
EXTENDS Integers

CONSTANTS
  NumNodes,   \* nodes of the engine
  Start,      \* starting_balance of the account
  Lazy        \* MASK_ML_CFG_LAZY_REBUILD_ENABLED

ASSUME EngineAssumption ==
  {NumNodes, Start} \subseteq Nat \ {0} /\ Lazy \in BOOLEAN

Node == 0 .. NumNodes - 1           \* tt::NodeIdx
=============================================================================
