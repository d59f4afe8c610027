------------------------------ MODULE MCFaults ------------------------------
(* What a crash may cut short, and must leave the state it happens to       *)
(* consistent.  Two parts that share no state, one at a time:               *)
(*   books:  crashes, full rings and paper resets, over one node and rings  *)
(*           of one, so that every second fill is applied in line;          *)
(*   zoos:   crashes and restarts while the slow paths of two nodes         *)
(*           exchange models, into two directories they may share.          *)
EXTENDS Ledger, HotSwap

MCResults == {-1, 1}

VARIABLE part

(* A part at rest is in one initial state of its own.                       *)
FaultsInit ==
  /\ part \in {"books", "zoos"} /\ LedgerInit /\ SwapInit
  /\ part # "books" => ~live /\ ~partial_on
  /\ part # "zoos" => foreign = {}

FaultsNext ==
  \/ part = "books" /\ LedgerNext /\ UNCHANGED <<part, swapVars>>
  \/ part = "zoos" /\ SwapNext /\ UNCHANGED <<part, ledgerVars>>
FaultsSpec == FaultsInit /\ [][FaultsNext]_<<part, ledgerVars, swapVars>>
=============================================================================
