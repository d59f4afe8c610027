----------------------------- MODULE HotParams -----------------------------
(***************************************************************************)
(* CoreFrameworks/ExecutionCore.hpp: how the hot thread uses its parameter *)
(* slot.  It keeps the last snapshot (got: cached_params with              *)
(* cached_publish_tick) and the sequence number it believes the snapshot   *)
(* belongs to, and calls ParameterSlot_Read only when the slot's sequence  *)
(* number differs from that.                                               *)
(***************************************************************************)
EXTENDS ParameterSlot

VARIABLES
  cached_seq,   \* cached_seq; -1 until the first tick
  tpc           \* where the tick is: "idle", "read" or "reload"

hotVars == <<cached_seq, tpc>>

HInit == Init /\ cached_seq = -1 /\ tpc = "idle"

(* The tick loads seq once; a mismatch or an odd value is a miss.          *)
TickMiss ==
  /\ tpc = "idle" /\ (seq # cached_seq \/ ~Even(seq))
  /\ ReadCall
  /\ tpc' = "read"
  /\ UNCHANGED cached_seq

TickHit ==
  /\ tpc = "idle" /\ seq = cached_seq /\ Even(seq)
  /\ UNCHANGED <<vars, cached_seq, tpc>>

(* ParameterSlot_Read inside the tick.                                     *)
TickRead ==
  /\ tpc = "read" /\ ReadLoop
  /\ tpc' = IF rpc' = "idle" THEN "reload" ELSE "read"
  /\ UNCHANGED cached_seq

(* Mutation: the second load is stored as it is, odd or not.                *)
TickReloadUnmasked ==
  /\ tpc = "reload"
  /\ cached_seq' = seq
  /\ tpc' = "idle"
  /\ UNCHANGED vars

(* A second load of seq, after the read has returned.                      *)
TickReload ==
  /\ tpc = "reload"
  /\ cached_seq' = 2 * (seq \div 2)
  /\ tpc' = "idle"
  /\ UNCHANGED vars

(* ExecutionCore_SetParameters on the slow thread.                         *)
SetParameters == Write /\ UNCHANGED hotVars

HNext == SetParameters \/ TickMiss \/ TickHit \/ TickRead \/ TickReload
HSpec == HInit /\ [][HNext]_<<vars, hotVars>>

(* A write that began is finished and a tick that began is finished; no     *)
(* write and no tick is obliged to begin.                                   *)
HFairSpec ==
  /\ HSpec
  /\ WF_<<vars, hotVars>>((WriteWord \/ WriteTick \/ WriteCommit) /\ UNCHANGED hotVars)
  /\ WF_<<vars, hotVars>>(TickRead \/ TickReload)

-----------------------------------------------------------------------------
(* "If they match (and cached_seq is even = "stable"), the cached_params    *)
(* are still current and we use them directly" (ExecutionCore.hpp:119-121): *)
(* a tick that finds seq equal to cached_seq runs on the pack the slot      *)
(* holds.                                                                   *)
HitIsCurrent ==
  tpc = "idle" /\ cached_seq = seq /\ Even(seq) => got.tick = seq \div 2

(* The cache errs on one side only: its pack is never newer than the        *)
(* sequence number stored beside it, so the next completed write is always  *)
(* a miss and replaces the pack.                                            *)
CacheNotAhead ==
  /\ tpc = "idle" /\ cached_seq # -1 => 2 * got.tick <= cached_seq
  /\ cached_seq <= seq /\ (cached_seq # -1 => Even(cached_seq))
=============================================================================
