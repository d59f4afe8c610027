--------------------------- MODULE ParameterCell ---------------------------
(***************************************************************************)
(* What ParameterSlot.hpp promises: a cell that holds one parameter pack.  *)
(* A write replaces the pack in one step; a read takes, in one step, a     *)
(* copy of the pack the cell holds.                                        *)
(***************************************************************************)
CONSTANT Packs       \* the packs a producer may publish, each with its tick

VARIABLES cell,      \* the pack the producer published last
          seen       \* the pack the consumer's last read returned

Init == cell \in Packs /\ seen = cell

Publish == cell' \in Packs /\ UNCHANGED seen
Observe == seen' = cell /\ UNCHANGED cell

Next == Publish \/ Observe
Spec == Init /\ [][Next]_<<cell, seen>>
=============================================================================
