------------------------------ MODULE Account ------------------------------
(***************************************************************************)
(* What the ledger promises: whatever is sold changes the account, once, by *)
(* the result of the sale and the moment it happens, and nothing else does; *)
(* a checkpoint keeps account and holdings together, and a restart takes    *)
(* all of it back or starts afresh.                                         *)
(***************************************************************************)
EXTENDS Engine

CONSTANTS Slot, Owner(_), Results

VARIABLES account, checkpoint

Fresh == [cash |-> Start, earned |-> [n \in Node |-> 0], held |-> [s \in Slot |-> 0]]

AccountInit == account = Fresh /\ checkpoint = Fresh

Bought(s) ==
  /\ account'.held[s] > account.held[s]
  /\ account' = [account EXCEPT !.held[s] = account'.held[s]]
  /\ UNCHANGED checkpoint
Sold(s, net) ==
  /\ account'.held[s] < account.held[s]
  /\ account' = [account EXCEPT !.held[s] = account'.held[s], !.cash = @ + net,
                                !.earned[Owner(s)] = @ + net]
  /\ UNCHANGED checkpoint
Checkpoint == checkpoint' = account /\ UNCHANGED account
ComeBack == account' \in {checkpoint, Fresh} /\ UNCHANGED checkpoint

AccountNext ==
  \/ \E s \in Slot : Bought(s) \/ \E net \in Results : Sold(s, net)
  \/ Checkpoint \/ ComeBack
=============================================================================
