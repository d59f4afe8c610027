---------------------------- MODULE MCWsFlatten ----------------------------
(* Two slow paths, and a clock that can pass the threshold.                 *)
EXTENDS WsFlatten
=============================================================================
