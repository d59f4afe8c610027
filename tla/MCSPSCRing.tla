----------------------------- MODULE MCSPSCRing -----------------------------
(* A two-slot ring (the smallest the static_assert admits) that two threads *)
(* push into, as they do into submit_queues[slot]: the drainer and the      *)
(* node's slow-path thread.                                                 *)
EXTENDS SPSCRing

CONSTANTS a, b, drainer, slowPath
MCItems  == {a, b}
TwoOwners == {drainer, slowPath}
=============================================================================
