--------------------------- MODULE MCNodeTrading ---------------------------
(* One node with a single leg: the least instances of the two violations.   *)
EXTENDS NodeTrading

Either == BOOLEAN
=============================================================================
