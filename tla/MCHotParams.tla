---------------------------- MODULE MCHotParams ----------------------------
(* A two-word pack and four writes: the producer can lap a slow reader      *)
(* twice, the second time with the same active buffer, and can complete a   *)
(* write in each gap of the hot thread's refresh.                           *)
EXTENDS HotParams

CONSTANTS gate, sizing   \* two words of a pack
MCWords == {gate, sizing}
=============================================================================
