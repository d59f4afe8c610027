--------------------------- MODULE ParameterSlot ---------------------------
(***************************************************************************)
(* CoreFrameworks/ParameterSlot.hpp: the double-buffered sequence lock     *)
(* through which a slow thread hands a parameter pack to the thread that   *)
(* reads it on every tick.                                                 *)
(*                                                                         *)
(* The pack is copied word by word, in an order the compiler chooses, and  *)
(* the other thread may run between any two words.  The n-th write stores  *)
(* n in every word and n as its publish tick, so two words that differ are *)
(* a torn pack.  Loads and stores take effect in program order (x86-TSO).  *)
(***************************************************************************)
EXTENDS Integers

CONSTANTS
  Words,      \* the words of the pack
  MaxWrites   \* bound on the number of ParameterSlot_Write calls

ASSUME SlotAssumption == Words # {} /\ MaxWrites \in Nat

VARIABLES
  seq,            \* seq: bit 0 a write is in progress, bit 1 the active buffer
  buffers,        \* buffers[2]
  publish_ticks,  \* publish_ticks[2]
  wpc, s, wtodo,  \* the writer: its step, the seq it loaded, words to copy
  rpc, s1, rtodo, \* the reader: its step, the seq it loaded, words to copy
  out, out_tick,  \* what the reader has copied so far
  got             \* the snapshot the last completed read returned

slotVars   == <<seq, buffers, publish_ticks>>
writerVars == <<wpc, s, wtodo>>
readerVars == <<rpc, s1, rtodo, out, out_tick, got>>
vars       == <<slotVars, writerVars, readerVars>>

Version  == 0 .. MaxWrites
Even(n)  == n % 2 = 0
Active(n)   == (n \div 2) % 2            \* the active buffer of a sequence number
Inactive(n) == 1 - Active(n)
Whole(v) == [w \in Words |-> v]

Init ==
  /\ seq = 0
  /\ buffers = [i \in {0, 1} |-> Whole(0)]
  /\ publish_ticks = [i \in {0, 1} |-> 0]
  /\ wpc = "idle" /\ s = 0 /\ wtodo = {}
  /\ rpc = "idle" /\ s1 = 0 /\ rtodo = {}
  /\ out = Whole(0) /\ out_tick = 0
  /\ got = [params |-> Whole(0), tick |-> 0]

-----------------------------------------------------------------------------
(* ParameterSlot_Write: one producer, no retries.                          *)

NewVersion == (s \div 2) + 1

WriteBegin ==                       \* seq becomes odd
  /\ wpc = "idle" /\ seq < 2 * MaxWrites
  /\ s' = seq /\ seq' = seq + 1
  /\ wpc' = "copy" /\ wtodo' = Words
  /\ UNCHANGED <<buffers, publish_ticks, readerVars>>

WriteWord ==                        \* into the buffer nobody is pointed at
  /\ wpc = "copy"
  /\ \E w \in wtodo :
       /\ buffers' = [buffers EXCEPT ![Inactive(s)][w] = NewVersion]
       /\ wtodo' = wtodo \ {w}
  /\ UNCHANGED <<seq, publish_ticks, wpc, s, readerVars>>

WriteTick ==
  /\ wpc = "copy" /\ wtodo = {}
  /\ publish_ticks' = [publish_ticks EXCEPT ![Inactive(s)] = NewVersion]
  /\ wpc' = "commit"
  /\ UNCHANGED <<seq, buffers, s, wtodo, readerVars>>

(* Mutation: two is added to the odd value.                                 *)
WriteCommitOdd ==
  /\ wpc = "commit"
  /\ seq' = seq + 2
  /\ wpc' = "idle"
  /\ UNCHANGED <<buffers, publish_ticks, s, wtodo, readerVars>>

WriteCommit ==                      \* even again, the other buffer active
  /\ wpc = "commit"
  /\ seq' = s + 2
  /\ wpc' = "idle"
  /\ UNCHANGED <<buffers, publish_ticks, s, wtodo, readerVars>>

-----------------------------------------------------------------------------
(* ParameterSlot_Read: retries until no write landed during the copy.      *)

ReadCall ==
  /\ rpc = "idle"
  /\ rpc' = "load"
  /\ UNCHANGED <<slotVars, writerVars, s1, rtodo, out, out_tick, got>>

ReadLoad ==                         \* spins while seq is odd
  /\ rpc = "load"
  /\ s1' = seq
  /\ rpc' = IF Even(seq) THEN "copy" ELSE "load"
  /\ rtodo' = Words
  /\ UNCHANGED <<slotVars, writerVars, out, out_tick, got>>

ReadWord ==
  /\ rpc = "copy"
  /\ \E w \in rtodo :
       /\ out' = [out EXCEPT ![w] = buffers[Active(s1)][w]]
       /\ rtodo' = rtodo \ {w}
  /\ UNCHANGED <<slotVars, writerVars, rpc, s1, out_tick, got>>

ReadTick ==
  /\ rpc = "copy" /\ rtodo = {}
  /\ out_tick' = publish_ticks[Active(s1)]
  /\ rpc' = "check"
  /\ UNCHANGED <<slotVars, writerVars, s1, rtodo, out, got>>

(* Mutation: the second load of seq is not compared with the first.         *)
ReadReturnUnchecked ==
  /\ rpc = "check"
  /\ got' = [params |-> out, tick |-> out_tick]
  /\ rpc' = "idle"
  /\ UNCHANGED <<slotVars, writerVars, s1, rtodo, out, out_tick>>

ReadReturn ==                       \* s1 = s2
  /\ rpc = "check" /\ seq = s1
  /\ got' = [params |-> out, tick |-> out_tick]
  /\ rpc' = "idle"
  /\ UNCHANGED <<slotVars, writerVars, s1, rtodo, out, out_tick>>

ReadRetry ==                        \* s1 # s2
  /\ rpc = "check" /\ seq # s1
  /\ rpc' = "load"
  /\ UNCHANGED <<slotVars, writerVars, s1, rtodo, out, out_tick, got>>

-----------------------------------------------------------------------------
Write    == WriteBegin \/ WriteWord \/ WriteTick \/ WriteCommit
ReadLoop == ReadLoad \/ ReadWord \/ ReadTick \/ ReadReturn \/ ReadRetry
Next     == Write \/ ReadCall \/ ReadLoop

Spec == Init /\ [][Next]_vars

(* Both threads keep running: each is a pinned thread that never blocks    *)
(* inside the slot.  Nothing obliges the writer to start a write or the    *)
(* reader to call Read.                                                    *)
Fairness == /\ WF_vars(WriteWord \/ WriteTick \/ WriteCommit)
            /\ WF_vars(ReadLoop)
FairSpec == Spec /\ Fairness

-----------------------------------------------------------------------------
TypeOK ==
  /\ seq \in 0 .. 2 * MaxWrites
  /\ buffers \in [{0, 1} -> [Words -> Version]]
  /\ publish_ticks \in [{0, 1} -> Version]
  /\ wpc \in {"idle", "copy", "commit"}
  /\ s \in 0 .. 2 * MaxWrites /\ wtodo \subseteq Words
  /\ rpc \in {"idle", "load", "copy", "check"}
  /\ s1 \in 0 .. 2 * MaxWrites /\ rtodo \subseteq Words
  /\ out \in [Words -> Version] /\ out_tick \in Version
  /\ got \in [params : [Words -> Version], tick : Version]

(* "The read MUST not return a torn buffer" (ParameterSlot.hpp): every word *)
(* a completed ParameterSlot_Read returned, and the publish tick it         *)
(* returned beside them, were stored by one and the same                    *)
(* ParameterSlot_Write, however many writes ran during the copy.            *)
NoTornRead == got.params = Whole(got.tick)

(* ParameterSlot_Read's retry loop ends once the producer lets it: every    *)
(* call returns, since no write is left half done and the bounded producer  *)
(* stops (the loop is lock-free, not wait-free).                            *)
ReadReturns == (rpc = "load") ~> (rpc = "idle")

-----------------------------------------------------------------------------
(* What the slot promises: an atomic cell (module ParameterCell).  The cell *)
(* is the active buffer with its publish tick.                              *)
Cell == INSTANCE ParameterCell WITH
          Packs <- [params : [Words -> Version], tick : Version],
          cell  <- [params |-> buffers[Active(seq)],
                    tick   |-> publish_ticks[Active(seq)]],
          seen  <- got

(* Every completed read returns the pack that is current at the instant it  *)
(* returns, and the current pack changes only in one step, at the final     *)
(* seq store of ParameterSlot_Write.                                        *)
ImplementsCell == Cell!Spec
=============================================================================
