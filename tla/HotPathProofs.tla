--------------------------- MODULE HotPathProofs ---------------------------
(***************************************************************************)
(* The parts of a hot core, and the arithmetic it decides with.            *)
(*   Slot and cache, for every pack and every number of writes: a read     *)
(* returns one whole write and the slot implements an atomic cell; the     *)
(* cached pack is never newer than the sequence number beside it, so the   *)
(* next completed write is always a miss.                                  *)
(*   Ring, for every capacity, every set of items and any number of        *)
(* pushes: with one producer it is race-free and implements a bounded      *)
(* queue.                                                                  *)
(*   Tick, for every capacity of the event ring, one leg or two, and every *)
(* outcome of the gates: the flags follow the events the ring took, and    *)
(* the events of a leg alternate.                                          *)
(*   Money, for every limb, word and scale that meet MoneyAssumption, and   *)
(* so for 64-bit limbs, 128-bit words, 10^8 and its magic constant: the     *)
(* arithmetic is exact.                                                     *)
(***************************************************************************)
EXTENDS HotParams, SPSCRing, ExecutionCore, Money, SequenceTheorems, TLAPS

-----------------------------------------------------------------------------
(* The slot.                                                                *)

(* The stable sequence numbers: the active buffer is complete, with its tick. *)
ActiveWhole ==
  /\ buffers[Active(seq)] = Whole(seq \div 2)
  /\ publish_ticks[Active(seq)] = seq \div 2

(* Between WriteBegin and WriteCommit the words not yet to do are the new   *)
(* ones; outside, seq is even.                                              *)
WriterInv ==
  /\ wpc = "idle" => Even(seq)
  /\ wpc # "idle" =>
       /\ Even(s) /\ seq = s + 1 /\ seq < 2 * MaxWrites
       /\ \A w \in Words \ wtodo : buffers[Inactive(s)][w] = NewVersion
  /\ wpc = "commit" => wtodo = {} /\ publish_ticks[Inactive(s)] = NewVersion

(* A reader whose sequence number is still the slot's holds a prefix of the *)
(* active buffer.                                                           *)
ReaderInv ==
  /\ rpc \in {"copy", "check"} =>
       /\ Even(s1) /\ s1 <= seq
       /\ s1 = seq => \A w \in Words \ rtodo : out[w] = s1 \div 2
  /\ rpc = "check" => rtodo = {} /\ (s1 = seq => out_tick = s1 \div 2)

SlotInv == TypeOK /\ ActiveWhole /\ WriterInv /\ ReaderInv /\ NoTornRead

-----------------------------------------------------------------------------
(* There are two buffers.                                                   *)
LEMMA TwoBuffers == \A n \in Nat : Active(n) \in {0, 1}
BY DEF Active

(* The buffer a write goes to is not the active one, and becomes the active *)
(* one when seq moves on by two.                                            *)
LEMMA BufferIndex ==
  ASSUME NEW n \in Nat, Even(n)
  PROVE  /\ Active(n) \in {0, 1} /\ Inactive(n) \in {0, 1}
         /\ Inactive(n) # Active(n)
         /\ Active(n + 1) = Active(n) /\ (n + 1) \div 2 = n \div 2
         /\ Active(n + 2) = Inactive(n) /\ (n + 2) \div 2 = (n \div 2) + 1
         /\ Even(n + 2) /\ ~Even(n + 1)
BY DEF Even, Active, Inactive

LEMMA SlotInitInv == Init => SlotInv
BY SlotAssumption DEF Init, SlotInv, TypeOK, ActiveWhole, WriterInv, ReaderInv,
   NoTornRead, Whole, Even, Active, Version

(* One step of the writer keeps the invariant: it works on the inactive     *)
(* buffer, and a reader it overtakes will see that seq has moved.           *)
LEMMA WriterStep == SlotInv /\ Write => SlotInv'
<1> SUFFICES ASSUME SlotInv, Write PROVE SlotInv'
  OBVIOUS
<1> USE DEF SlotInv
<1>1. CASE WriteBegin
  <2>1. seq \in Nat /\ Even(seq) /\ seq + 2 <= 2 * MaxWrites
    BY <1>1, SlotAssumption DEF WriteBegin, WriterInv, TypeOK, Even
  <2>2. TypeOK'
    BY <1>1, <2>1, SlotAssumption
    DEF WriteBegin, TypeOK, slotVars, readerVars
  <2>3. ActiveWhole'
    BY <1>1, <2>1, BufferIndex DEF WriteBegin, ActiveWhole
  <2>4. WriterInv'
    BY <1>1, <2>1, SlotAssumption DEF WriteBegin, WriterInv, Even
  <2>5. ReaderInv'
    BY <1>1, <2>1 DEF WriteBegin, ReaderInv, readerVars, TypeOK
  <2>6. NoTornRead'
    BY <1>1 DEF WriteBegin, NoTornRead, readerVars
  <2> QED BY <2>2, <2>3, <2>4, <2>5, <2>6
<1>2. CASE WriteWord
  <2> PICK w \in wtodo :
        /\ buffers' = [buffers EXCEPT ![Inactive(s)][w] = NewVersion]
        /\ wtodo' = wtodo \ {w}
    BY <1>2 DEF WriteWord
  <2>1. s \in Nat /\ Even(s) /\ seq = s + 1 /\ NewVersion \in Version /\ w \in Words
    BY <1>2, SlotAssumption
    DEF WriteWord, WriterInv, TypeOK, NewVersion, Version, Even
  <2>2. Inactive(s) \in {0, 1} /\ Inactive(s) # Active(seq) /\ Active(seq) \in {0, 1}
    BY <2>1, BufferIndex
  <2>3. TypeOK'
    BY <1>2, <2>1, <2>2 DEF WriteWord, TypeOK, slotVars, readerVars
  <2>4. ActiveWhole'
    BY <1>2, <2>2 DEF WriteWord, ActiveWhole, TypeOK
  <2>5. WriterInv'
    BY <1>2, <2>1, <2>2 DEF WriteWord, WriterInv, TypeOK, NewVersion
  <2>6. ReaderInv'
    BY <1>2 DEF WriteWord, ReaderInv, readerVars
  <2>7. NoTornRead'
    BY <1>2 DEF WriteWord, NoTornRead, readerVars
  <2> QED BY <2>3, <2>4, <2>5, <2>6, <2>7
<1>3. CASE WriteTick
  <2>1. s \in Nat /\ Even(s) /\ seq = s + 1 /\ NewVersion \in Version
    BY <1>3, SlotAssumption
    DEF WriteTick, WriterInv, TypeOK, NewVersion, Version, Even
  <2>2. Inactive(s) \in {0, 1} /\ Inactive(s) # Active(seq) /\ Active(seq) \in {0, 1}
    BY <2>1, BufferIndex
  <2>3. TypeOK'
    BY <1>3, <2>1, <2>2 DEF WriteTick, TypeOK, slotVars, readerVars
  <2>4. ActiveWhole'
    BY <1>3, <2>2 DEF WriteTick, ActiveWhole, TypeOK
  <2>5. WriterInv'
    BY <1>3, <2>1, <2>2 DEF WriteTick, WriterInv, TypeOK, NewVersion
  <2>6. ReaderInv'
    BY <1>3 DEF WriteTick, ReaderInv, readerVars
  <2>7. NoTornRead'
    BY <1>3 DEF WriteTick, NoTornRead, readerVars
  <2> QED BY <2>3, <2>4, <2>5, <2>6, <2>7
<1>4. CASE WriteCommit
  <2>1. s \in Nat /\ Even(s) /\ seq = s + 1 /\ wtodo = {} /\ s + 2 <= 2 * MaxWrites
    BY <1>4, SlotAssumption DEF WriteCommit, WriterInv, TypeOK, Even
  <2>2. /\ Inactive(s) \in {0, 1} /\ Active(s + 2) = Inactive(s)
        /\ (s + 2) \div 2 = NewVersion /\ Even(s + 2)
    BY <2>1, BufferIndex DEF NewVersion
  <2>3. TypeOK'
    BY <1>4, <2>1, SlotAssumption DEF WriteCommit, TypeOK, slotVars, readerVars
  <2>4. ActiveWhole'
    <3>1. \A w \in Words : buffers[Inactive(s)][w] = NewVersion
      BY <1>4, <2>1 DEF WriteCommit, WriterInv
    <3>2. buffers[Inactive(s)] = Whole(NewVersion)
      BY <3>1, <2>2 DEF Whole, TypeOK
    <3>3. publish_ticks[Inactive(s)] = NewVersion
      BY <1>4 DEF WriteCommit, WriterInv
    <3> QED BY <1>4, <2>2, <3>2, <3>3 DEF WriteCommit, ActiveWhole
  <2>5. WriterInv'
    BY <1>4, <2>1, <2>2 DEF WriteCommit, WriterInv
  <2>6. ReaderInv'
    BY <1>4, <2>1 DEF WriteCommit, ReaderInv, readerVars, Even, TypeOK
  <2>7. NoTornRead'
    BY <1>4 DEF WriteCommit, NoTornRead, readerVars
  <2> QED BY <2>3, <2>4, <2>5, <2>6, <2>7
<1> QED BY <1>1, <1>2, <1>3, <1>4 DEF Write

(* One step of the reader keeps the invariant: what it copies is the active *)
(* buffer as long as seq has not moved, and it returns only then.           *)
LEMMA ReaderStep == SlotInv /\ (ReadCall \/ ReadLoop) => SlotInv'
<1> SUFFICES ASSUME SlotInv, ReadCall \/ ReadLoop PROVE SlotInv'
  OBVIOUS
<1> USE DEF SlotInv
<1>0. seq \in Nat /\ s1 \in Nat
  BY DEF TypeOK
<1>1. CASE ReadCall
  BY <1>1 DEF ReadCall, TypeOK, ActiveWhole, WriterInv, ReaderInv, NoTornRead,
     slotVars, writerVars, NewVersion
<1>2. CASE ReadLoad
  <2>1. TypeOK'
    BY <1>2 DEF ReadLoad, TypeOK, slotVars, writerVars
  <2>2. ReaderInv'
    BY <1>2, <1>0 DEF ReadLoad, ReaderInv, slotVars
  <2> QED
    BY <1>2, <2>1, <2>2 DEF ReadLoad, ActiveWhole, WriterInv, NoTornRead,
       slotVars, writerVars, NewVersion
<1>3. CASE ReadWord
  <2> PICK w \in rtodo :
        /\ out' = [out EXCEPT ![w] = buffers[Active(s1)][w]]
        /\ rtodo' = rtodo \ {w}
    BY <1>3 DEF ReadWord
  <2>1. w \in Words /\ Even(s1) /\ Active(s1) \in {0, 1}
    BY <1>3, <1>0, BufferIndex DEF ReadWord, ReaderInv, TypeOK
  <2>2. TypeOK'
    BY <1>3, <2>1 DEF ReadWord, TypeOK, slotVars, writerVars
  <2>3. ASSUME s1 = seq PROVE buffers[Active(s1)][w] = s1 \div 2
    BY <2>1, <2>3 DEF ActiveWhole, Whole
  <2>4. ReaderInv'
    BY <1>3, <2>1, <2>3 DEF ReadWord, ReaderInv, slotVars, TypeOK
  <2> QED
    BY <1>3, <2>2, <2>4 DEF ReadWord, ActiveWhole, WriterInv, NoTornRead,
       slotVars, writerVars, NewVersion
<1>4. CASE ReadTick
  <2>1. Even(s1) /\ Active(s1) \in {0, 1}
    BY <1>4, <1>0, BufferIndex DEF ReadTick, ReaderInv
  <2>2. TypeOK'
    BY <1>4, <2>1 DEF ReadTick, TypeOK, slotVars, writerVars
  <2>3. ReaderInv'
    BY <1>4 DEF ReadTick, ReaderInv, ActiveWhole, slotVars
  <2> QED
    BY <1>4, <2>2, <2>3 DEF ReadTick, ActiveWhole, WriterInv, NoTornRead,
       slotVars, writerVars, NewVersion
<1>5. CASE ReadReturn
  <2>1. TypeOK'
    BY <1>5 DEF ReadReturn, TypeOK, slotVars, writerVars
  <2>2. out = Whole(out_tick)
    BY <1>5 DEF ReadReturn, ReaderInv, TypeOK, Whole
  <2> QED
    BY <1>5, <2>1, <2>2 DEF ReadReturn, ActiveWhole, WriterInv, ReaderInv,
       NoTornRead, slotVars, writerVars, NewVersion
<1>6. CASE ReadRetry
  BY <1>6 DEF ReadRetry, TypeOK, ActiveWhole, WriterInv, ReaderInv, NoTornRead,
     slotVars, writerVars, NewVersion
<1> QED BY <1>1, <1>2, <1>3, <1>4, <1>5, <1>6 DEF ReadLoop

LEMMA SlotInvStep == SlotInv /\ [Next]_vars => SlotInv'
<1>1. SlotInv /\ UNCHANGED vars => SlotInv'
  BY DEF SlotInv, TypeOK, ActiveWhole, WriterInv, ReaderInv, NoTornRead, vars,
     slotVars, writerVars, readerVars, NewVersion
<1> QED BY <1>1, WriterStep, ReaderStep DEF Next

(* ParameterSlot.hpp's fields and both threads' locals keep their types.    *)
THEOREM SlotTypeCorrect == Spec => []TypeOK
<1>1. SlotInv => TypeOK
  BY DEF SlotInv
<1> QED BY <1>1, SlotInitInv, SlotInvStep, PTL DEF Spec

(* ParameterSlot_Read never returns a torn pack, nor one with another       *)
(* write's publish tick, at any producer rate.                              *)
THEOREM NeverTorn == Spec => []NoTornRead
<1>1. SlotInv => NoTornRead
  BY DEF SlotInv
<1> QED BY <1>1, SlotInitInv, SlotInvStep, PTL DEF Spec

-----------------------------------------------------------------------------
(* ParameterSlot_Write and ParameterSlot_Read implement an atomic cell: the *)
(* pack changes in one step of the writer, and a read returns what the slot *)
(* holds at the instant it returns.                                         *)
THEOREM SlotImplementsCell == Spec => ImplementsCell
<1> DEFINE P == [params : [Words -> Version], tick : Version]
           C == [params |-> buffers[Active(seq)], tick |-> publish_ticks[Active(seq)]]
<1>1. SlotInv => C \in P
  BY DEF SlotInv, ActiveWhole, TypeOK, Active
<1>2. Init => Cell!Init
  BY <1>1, SlotInitInv DEF Init, Cell!Init, Active, Whole
<1>3. SlotInv /\ SlotInv' /\ [Next]_vars => [Cell!Next]_<<C, got>>
  <2> SUFFICES ASSUME SlotInv, SlotInv', [Next]_vars PROVE [Cell!Next]_<<C, got>>
    OBVIOUS
  <2>1. C' \in P
    <3>1. TypeOK'
      BY DEF SlotInv
    <3>2. seq' \in Nat
      BY <3>1, SlotAssumption DEF TypeOK
    <3>3. Active(seq') \in {0, 1}
      BY <3>2, TwoBuffers
    <3>4. buffers'[Active(seq')] \in [Words -> Version] /\ publish_ticks'[Active(seq')] \in Version
      BY <3>1, <3>3 DEF TypeOK
    <3> QED BY <3>4
  <2>2. CASE Write
    BY <2>1, <2>2 DEF Write, WriteBegin, WriteWord, WriteTick, WriteCommit, readerVars,
       Cell!Next, Cell!Publish
  <2>3. CASE ReadReturn
    <3>1. C = [params |-> out, tick |-> out_tick]
      BY <2>3 DEF ReadReturn, SlotInv, ActiveWhole, ReaderInv, TypeOK, Whole
    <3> QED
      BY <2>3, <3>1 DEF ReadReturn, slotVars, Cell!Next, Cell!Observe
  <2>4. CASE ReadCall \/ ReadLoad \/ ReadWord \/ ReadTick \/ ReadRetry \/ UNCHANGED vars
    BY <2>4 DEF ReadCall, ReadLoad, ReadWord, ReadTick, ReadRetry, vars, slotVars,
       readerVars
  <2> QED BY <2>2, <2>3, <2>4 DEF Next, ReadLoop
<1> QED BY <1>2, <1>3, SlotInitInv, SlotInvStep, PTL DEF Spec, ImplementsCell, Cell!Spec

-----------------------------------------------------------------------------
(* The cache.                                                               *)

(* seq only grows, and the pack last read is of a write at or before it;    *)
(* the read of a tick that has returned was current when it returned.       *)
HotInv ==
  /\ SlotInv
  /\ 2 * got.tick <= seq
  /\ tpc \in {"idle", "read", "reload"}
  /\ cached_seq \in Int /\ cached_seq <= seq
  /\ cached_seq # -1 => Even(cached_seq)
  /\ tpc = "idle" /\ cached_seq # -1 => 2 * got.tick <= cached_seq

-----------------------------------------------------------------------------
(* The steps of the cache are steps of the slot, or leave it alone.         *)
LEMMA SlotSteps == [HNext]_<<vars, hotVars>> => [Next]_vars
BY DEF HNext, SetParameters, TickMiss, TickHit, TickRead, TickReload, Next, vars

LEMMA HotInit == HInit => HotInv
<1> SUFFICES ASSUME HInit PROVE HotInv
  OBVIOUS
<1>1. SlotInv
  BY SlotInitInv DEF HInit
<1>2. got.tick = 0 /\ seq = 0
  BY DEF HInit, Init
<1> QED BY <1>1, <1>2 DEF HotInv, HInit

(* A slot step never takes seq back, and what a read returns is of a write  *)
(* that seq has passed.                                                     *)
LEMMA SlotMoves ==
  ASSUME SlotInv, 2 * got.tick <= seq, [Next]_vars
  PROVE  /\ seq \in Int /\ seq' \in Int /\ seq' >= seq
         /\ got.tick \in Int /\ got'.tick \in Int /\ 2 * got'.tick <= seq'
<1>1. seq \in Int /\ got.tick \in Int /\ s \in Int
  BY SlotAssumption DEF SlotInv, TypeOK, Version
<1>2. SlotInv'
  BY SlotInvStep
<1>3. seq' \in Int /\ got'.tick \in Int
  BY <1>2, SlotAssumption DEF SlotInv, TypeOK, Version
<1>4. seq' >= seq
  <2>1. CASE WriteBegin
    BY <1>1, <2>1 DEF WriteBegin
  <2>2. CASE WriteCommit
    BY <1>1, <2>2 DEF WriteCommit, SlotInv, WriterInv
  <2>3. CASE WriteWord \/ WriteTick
    BY <1>1, <2>3 DEF WriteWord, WriteTick
  <2>4. CASE ReadCall \/ ReadLoop
    BY <1>1, <2>4 DEF ReadCall, ReadLoop, ReadLoad, ReadWord, ReadTick, ReadReturn,
       ReadRetry, slotVars
  <2>5. CASE UNCHANGED vars
    BY <1>1, <2>5 DEF vars, slotVars
  <2> QED BY <2>1, <2>2, <2>3, <2>4, <2>5 DEF Next, Write
<1>5. CASE ReadReturn
  <2>1. Even(s1) /\ s1 = seq /\ out_tick = s1 \div 2 /\ seq' = seq
    BY <1>5 DEF ReadReturn, SlotInv, ReaderInv, slotVars
  <2>2. 2 * (s1 \div 2) = s1
    BY <1>1, <2>1 DEF Even
  <2>3. got'.tick = out_tick
    BY <1>5 DEF ReadReturn
  <2> QED BY <1>1, <1>3, <1>4, <2>1, <2>2, <2>3
<1>6. CASE ~ReadReturn
  <2>1. got' = got
    BY <1>6 DEF Next, Write, WriteBegin, WriteWord, WriteTick, WriteCommit, ReadCall,
       ReadLoop, ReadLoad, ReadWord, ReadTick, ReadRetry, vars, readerVars
  <2> QED BY <1>1, <1>3, <1>4, <2>1
<1> QED BY <1>5, <1>6

LEMMA HotStep == HotInv /\ [HNext]_<<vars, hotVars>> => HotInv'
<1> SUFFICES ASSUME HotInv, [HNext]_<<vars, hotVars>> PROVE HotInv'
  OBVIOUS
<1>1. SlotInv'
  BY SlotSteps, SlotInvStep DEF HotInv
<1>2. /\ seq \in Int /\ seq' \in Int /\ seq' >= seq
      /\ got.tick \in Int /\ got'.tick \in Int /\ 2 * got'.tick <= seq'
  BY SlotSteps, SlotMoves DEF HotInv
<1>3. CASE UNCHANGED hotVars
  <2>1. tpc = "idle" => got' = got
    BY <1>3 DEF HNext, SetParameters, TickMiss, TickHit, TickRead, TickReload, Write,
       WriteBegin, WriteWord, WriteTick, WriteCommit, vars, readerVars, hotVars
  <2> QED BY <1>1, <1>2, <1>3, <2>1 DEF HotInv, hotVars
<1>4. CASE TickMiss
  BY <1>1, <1>2, <1>4 DEF TickMiss, HotInv
<1>5. CASE TickRead
  BY <1>1, <1>2, <1>5 DEF TickRead, HotInv
<1>6. CASE TickReload
  <2> DEFINE reloaded == 2 * (seq \div 2)
  <2>1. reloaded \in Int /\ reloaded <= seq /\ Even(reloaded) /\ 2 * got.tick <= reloaded
    BY <1>2 DEF HotInv, Even
  <2>2. cached_seq' = reloaded /\ seq' = seq /\ got' = got /\ tpc' = "idle"
    BY <1>6 DEF TickReload, vars, slotVars, readerVars
  <2> QED BY <1>1, <1>2, <2>1, <2>2 DEF HotInv
<1> QED
  BY <1>3, <1>4, <1>5, <1>6 DEF HNext, SetParameters, TickHit, hotVars

(* The cache's pack is never newer than cached_seq says, so the next        *)
(* completed write is always seen as a miss (ExecutionCore.hpp:455).        *)
THEOREM CacheBehind == HSpec => []CacheNotAhead
<1>1. HotInv => CacheNotAhead
  BY DEF HotInv, CacheNotAhead
<1> QED BY HotInit, HotStep, <1>1, PTL DEF HSpec

(* Used by the hot core, the slot never tears either: the cached pack is    *)
(* one write's in full.                                                     *)
THEOREM CacheWhole == HSpec => []NoTornRead
<1>1. HotInv => NoTornRead
  BY DEF HotInv, SlotInv
<1> QED BY HotInit, HotStep, <1>1, PTL DEF HSpec

-----------------------------------------------------------------------------
(* The ring.                                                                *)

(* A producer inside TryPush works at head, and once past its check there   *)
(* is room for one more.                                                    *)
ProducerInv ==
  \A p \in Producers :
    /\ ppc[p] # "idle" => my_head[p] = head /\ item[p] \in Items
    /\ ppc[p] \in {"write", "publish"} => head + 1 - cached_tail <= N
    /\ ppc[p] = "publish" => slots[Slot(head)] = item[p]

(* A consumer past its check has an entry in front of it.                   *)
ConsumerInv ==
  /\ cpc \in {"read", "publish"} => tail < cached_head
  /\ cpc = "publish" => copied = slots[Slot(tail)]

(* Every entry between tail and head has been written.                      *)
EntriesWritten == \A n \in tail .. head - 1 : slots[Slot(n)] \in Items

RingInv == RingTypeOK /\ CountersBounded /\ ProducerInv /\ ConsumerInv /\ EntriesWritten

-----------------------------------------------------------------------------
LEMMA SlotType == \A n \in Nat : Slot(n) \in 0 .. N - 1
BY RingAssumption DEF Slot

(* Two counters less than N apart name different slots.                     *)
LEMMA SlotsDiffer ==
  ASSUME NEW m \in Nat, NEW n \in Nat, m < n, n - m < N
  PROVE  Slot(m) # Slot(n)
<1>1. N \in Nat /\ N > 0
  BY RingAssumption
<1> DEFINE qm == m \div N
           qn == n \div N
<1>2. /\ qm \in Int /\ qn \in Int
      /\ m = N * qm + (m % N) /\ n = N * qn + (n % N)
  BY <1>1
<1>3. SUFFICES ASSUME m % N = n % N PROVE FALSE
  BY DEF Slot
<1> HIDE DEF qm, qn
<1>4. n - m = N * (qn - qm)
  BY <1>1, <1>2, <1>3
<1>5. qn - qm >= 1
  BY <1>1, <1>2, <1>4
<1> QED BY <1>1, <1>2, <1>4, <1>5

LEMMA RingInitInv == RingInit => RingInv
BY RingAssumption DEF RingInit, RingInv, RingTypeOK, CountersBounded, ProducerInv, ConsumerInv,
   EntriesWritten

(* What the invariant says of the slots two threads may hold at once: the   *)
(* slot at head is none of those between tail and head while a push is      *)
(* past its check.                                                          *)
LEMMA HeadSlotFree ==
  ASSUME RingInv, NEW p \in Producers, ppc[p] \in {"write", "publish"}
  PROVE  /\ head - tail < N
         /\ \A n \in tail .. head - 1 : Slot(n) # Slot(head)
<1>1. head \in Nat /\ tail \in Nat /\ N \in Nat
  BY RingAssumption DEF RingInv, RingTypeOK
<1>2. head - tail < N
  BY <1>1 DEF RingInv, CountersBounded, ProducerInv, RingTypeOK
<1>3. ASSUME NEW n \in tail .. head - 1 PROVE Slot(n) # Slot(head)
  BY <1>1, <1>2, SlotsDiffer
<1> QED BY <1>2, <1>3

(* One step of the only producer keeps the invariant.                       *)
LEMMA RingPushStep ==
  ASSUME OneProducer, RingInv, NEW p \in Producers, TryPush(p)
  PROVE  RingInv'
<1> USE DEF RingInv
<1>0. /\ head \in Nat /\ tail \in Nat /\ cached_tail \in Nat /\ N \in Nat
      /\ \A q \in Producers : q = p
  BY RingAssumption DEF RingTypeOK, OneProducer
<1>1. CASE PushCall(p)
  BY <1>0, <1>1 DEF PushCall, RingTypeOK, CountersBounded, ProducerInv, ConsumerInv,
     EntriesWritten, consumerVars
<1>2. CASE PushRefresh(p)
  <2>1. my_head[p] = head
    BY <1>2 DEF PushRefresh, ProducerInv
  <2>2. RingTypeOK'
    BY <1>0, <1>2 DEF PushRefresh, RingTypeOK, consumerVars
  <2>3. ProducerInv'
    BY <1>0, <1>2, <2>1 DEF PushRefresh, ProducerInv, RingTypeOK, consumerVars
  <2> QED
    BY <1>0, <1>2, <2>2, <2>3 DEF PushRefresh, CountersBounded, ConsumerInv,
       EntriesWritten, consumerVars
<1>3. CASE PushWrite(p)
  <2>1. my_head[p] = head /\ item[p] \in Items /\ Slot(head) \in 0 .. N - 1
    BY <1>0, <1>3, SlotType DEF PushWrite, ProducerInv
  <2>2. \A n \in tail .. head - 1 : Slot(n) # Slot(head)
    BY <1>3, HeadSlotFree DEF PushWrite
  <2>3. RingTypeOK'
    BY <1>3, <2>1 DEF PushWrite, RingTypeOK, consumerVars
  <2>4. ProducerInv'
    BY <1>0, <1>3, <2>1 DEF PushWrite, ProducerInv, RingTypeOK
  <2>5. ConsumerInv'
    <3>1. cpc = "publish" => tail \in tail .. head - 1
      BY <1>0 DEF ConsumerInv, CountersBounded, RingTypeOK
    <3>2. cpc = "publish" => slots'[Slot(tail)] = slots[Slot(tail)]
      BY <1>3, <2>1, <2>2, <3>1 DEF PushWrite, RingTypeOK
    <3> QED BY <1>3, <3>2 DEF PushWrite, ConsumerInv, consumerVars
  <2>6. EntriesWritten'
    BY <1>0, <1>3, <2>1, <2>2 DEF PushWrite, EntriesWritten, RingTypeOK, consumerVars
  <2> QED
    BY <1>3, <2>3, <2>4, <2>5, <2>6 DEF PushWrite, CountersBounded, consumerVars
<1>4. CASE PushPublish(p)
  <2>1. my_head[p] = head /\ item[p] \in Items /\ slots[Slot(head)] = item[p]
    BY <1>4 DEF PushPublish, ProducerInv
  <2>2. head - tail < N
    BY <1>4, HeadSlotFree DEF PushPublish
  <2>3. RingTypeOK' /\ CountersBounded'
    BY <1>0, <1>4, <2>1, <2>2 DEF PushPublish, RingTypeOK, CountersBounded, consumerVars
  <2>4. ProducerInv' /\ ConsumerInv'
    BY <1>0, <1>4 DEF PushPublish, ProducerInv, ConsumerInv, RingTypeOK, consumerVars
  <2>5. EntriesWritten'
    BY <1>0, <1>4, <2>1 DEF PushPublish, EntriesWritten, consumerVars
  <2> QED BY <2>3, <2>4, <2>5
<1> QED BY <1>1, <1>2, <1>3, <1>4 DEF TryPush

(* One step of the consumer keeps the invariant.                            *)
LEMMA RingPopStep == ASSUME RingInv, TryPop PROVE RingInv'
<1> USE DEF RingInv
<1>0. /\ head \in Nat /\ tail \in Nat /\ cached_tail \in Nat /\ cached_head \in Nat
      /\ N \in Nat
  BY RingAssumption DEF RingTypeOK
<1>1. CASE PopCall
  BY <1>0, <1>1 DEF PopCall, RingTypeOK, CountersBounded, ProducerInv, ConsumerInv,
     EntriesWritten, producerVars
<1>2. CASE PopRefresh
  BY <1>0, <1>2 DEF PopRefresh, RingTypeOK, CountersBounded, ProducerInv, ConsumerInv,
     EntriesWritten, producerVars
<1>3. CASE PopRead
  <2>1. slots[Slot(tail)] \in Items
    BY <1>0, <1>3 DEF PopRead, EntriesWritten, ConsumerInv, CountersBounded
  <2> QED
    BY <1>0, <1>3, <2>1 DEF PopRead, RingTypeOK, CountersBounded, ProducerInv,
       ConsumerInv, EntriesWritten, producerVars
<1>4. CASE PopPublish
  BY <1>0, <1>4 DEF PopPublish, RingTypeOK, CountersBounded, ProducerInv, ConsumerInv,
     EntriesWritten, producerVars
<1> QED BY <1>1, <1>2, <1>3, <1>4 DEF TryPop

LEMMA RingInvStep == ASSUME OneProducer PROVE RingInv /\ [RingNext]_ringVars => RingInv'
<1>1. RingInv /\ UNCHANGED ringVars => RingInv'
  BY DEF RingInv, RingTypeOK, CountersBounded, ProducerInv, ConsumerInv, EntriesWritten, ringVars,
     producerVars, consumerVars
<1> QED BY <1>1, RingPushStep, RingPopStep DEF RingNext

(* SPSCRing's fields and both sides' locals keep their types.               *)
THEOREM RingTypeCorrect == ASSUME OneProducer PROVE RingSpec => []RingTypeOK
<1>1. RingInv => RingTypeOK
  BY DEF RingInv
<1> QED BY <1>1, RingInitInv, RingInvStep, PTL DEF RingSpec

(* The ring never overruns nor reads past head, whatever the cached         *)
(* counters say.                                                            *)
THEOREM NeverOverrun == ASSUME OneProducer PROVE RingSpec => []CountersBounded
<1>1. RingInv => CountersBounded
  BY DEF RingInv
<1> QED BY <1>1, RingInitInv, RingInvStep, PTL DEF RingSpec

(* With one producer no slot is ever written while it is read.              *)
THEOREM NeverRaces == ASSUME OneProducer PROVE RingSpec => []NoSlotRace
<1>1. RingInv => NoSlotRace
  <2> SUFFICES ASSUME RingInv, NEW p \in Producers, ppc[p] \in {"write", "publish"},
                      cpc \in {"read", "publish"}
               PROVE  Slot(my_head[p]) # Slot(tail)
    BY DEF NoSlotRace
  <2>1. my_head[p] = head
    BY DEF RingInv, ProducerInv
  <2>2. tail \in tail .. head - 1
    BY DEF RingInv, RingTypeOK, ConsumerInv, CountersBounded
  <2> QED BY <2>1, <2>2, HeadSlotFree
<1> QED BY <1>1, RingInitInv, RingInvStep, PTL DEF RingSpec

-----------------------------------------------------------------------------
(* The abstract queue, spelled out.                                         *)
QueueInv ==
  /\ Published \in Seq(Items) /\ Len(Published) = head - tail
  /\ \A i \in 1 .. head - tail : Published[i] = slots[Slot(tail + i - 1)]

LEMMA QueueContents == RingInv => QueueInv
<1> SUFFICES ASSUME RingInv PROVE QueueInv
  OBVIOUS
<1>1. head - tail \in Nat /\ head \in Nat /\ tail \in Nat
  BY DEF RingInv, RingTypeOK, CountersBounded
<1>2. \A i \in 1 .. head - tail : slots[Slot(tail + i - 1)] \in Items
  <2> SUFFICES ASSUME NEW i \in 1 .. head - tail PROVE slots[Slot(tail + i - 1)] \in Items
    OBVIOUS
  <2>1. tail + i - 1 \in tail .. head - 1
    BY <1>1
  <2> QED BY <2>1 DEF RingInv, EntriesWritten
<1> QED BY <1>1, <1>2 DEF Published, QueueInv

(* A step of the producer asks, appends what it asked for, is refused by a  *)
(* full queue, or is not seen.                                              *)
LEMMA PushMaps ==
  ASSUME OneProducer, RingInv, RingInv', NEW p \in Producers, TryPush(p)
  PROVE  \/ Fifo!Ask(p) \/ Fifo!Push(p) \/ Fifo!PushRefused(p)
         \/ UNCHANGED <<Published, item, pushed, popped>>
<1>0. /\ head \in Nat /\ tail \in Nat /\ N \in Nat /\ head - tail \in Nat
      /\ head - tail <= N
  BY RingAssumption DEF RingInv, RingTypeOK, CountersBounded
<1>1. CASE PushCall(p)
  BY <1>1 DEF PushCall, Fifo!Ask, Published, consumerVars
<1>2. CASE PushRefresh(p)
  <2>1. my_head[p] = head
    BY <1>2 DEF PushRefresh, RingInv, ProducerInv
  <2>2. Published' = Published
    BY <1>2 DEF PushRefresh, Published, consumerVars
  <2>3. CASE head + 1 - tail > N
    <3>1. Len(Published) = N
      BY <1>0, <2>3, QueueContents DEF QueueInv
    <3> QED BY <1>2, <2>1, <2>2, <2>3, <3>1 DEF PushRefresh, Fifo!PushRefused, consumerVars
  <2>4. CASE ~(head + 1 - tail > N)
    BY <1>2, <2>1, <2>2, <2>4 DEF PushRefresh, consumerVars
  <2> QED BY <2>3, <2>4
<1>3. CASE PushWrite(p)
  <2>1. my_head[p] = head
    BY <1>3 DEF PushWrite, RingInv, ProducerInv
  <2>2. \A n \in tail .. head - 1 : slots'[Slot(n)] = slots[Slot(n)]
    <3> SUFFICES ASSUME NEW n \in tail .. head - 1 PROVE slots'[Slot(n)] = slots[Slot(n)]
      OBVIOUS
    <3>1. Slot(n) # Slot(head)
      BY <1>3, HeadSlotFree DEF PushWrite
    <3>2. Slot(n) \in 0 .. N - 1
      BY <1>0, SlotType
    <3> QED BY <1>3, <2>1, <3>1, <3>2 DEF PushWrite, RingInv, RingTypeOK
  <2>3. \A i \in 1 .. head - tail : slots'[Slot(tail + i - 1)] = slots[Slot(tail + i - 1)]
    <3> SUFFICES ASSUME NEW i \in 1 .. head - tail
                 PROVE  slots'[Slot(tail + i - 1)] = slots[Slot(tail + i - 1)]
      OBVIOUS
    <3>1. tail + i - 1 \in tail .. head - 1
      BY <1>0
    <3> QED BY <2>2, <3>1
  <2>4. Published' = Published
    BY <1>3, <2>3 DEF PushWrite, Published, consumerVars
  <2> QED BY <1>3, <2>4 DEF PushWrite, consumerVars
<1>4. CASE PushPublish(p)
  <2>1. my_head[p] = head /\ item[p] \in Items /\ slots[Slot(head)] = item[p]
    BY <1>4 DEF PushPublish, RingInv, ProducerInv
  <2>2. head - tail < N
    BY <1>4, HeadSlotFree DEF PushPublish
  <2>3. head' = head + 1 /\ tail' = tail /\ slots' = slots
    BY <1>4, <2>1 DEF PushPublish, consumerVars
  <2>4. /\ Published \in Seq(Items) /\ Len(Published) = head - tail
        /\ \A i \in 1 .. head - tail : Published[i] = slots[Slot(tail + i - 1)]
    BY QueueContents DEF QueueInv
  <2>5. /\ Published' \in Seq(Items) /\ Len(Published') = (head + 1) - tail
        /\ \A i \in 1 .. (head + 1) - tail : Published'[i] = slots[Slot(tail + i - 1)]
    <3>1. QueueInv'
      BY QueueContents, PTL
    <3> QED BY <2>3, <3>1 DEF QueueInv
  <2> DEFINE Q == Append(Published, item[p])
  <2>6. /\ Q \in Seq(Items) /\ Len(Q) = Len(Published) + 1
        /\ \A i \in 1 .. Len(Published) : Q[i] = Published[i]
        /\ Q[Len(Published) + 1] = item[p]
    BY <2>1, <2>4, AppendProperties
  <2>7. \A i \in 1 .. Len(Q) : Q[i] = Published'[i]
    <3> SUFFICES ASSUME NEW i \in 1 .. Len(Q) PROVE Q[i] = Published'[i]
      OBVIOUS
    <3> HIDE DEF Q
    <3>1. CASE i \in 1 .. head - tail
      BY <1>0, <2>4, <2>5, <2>6, <3>1
    <3>2. CASE i = head - tail + 1
      <4>1. tail + i - 1 = head
        BY <1>0, <3>2
      <4> QED BY <1>0, <2>1, <2>4, <2>5, <2>6, <3>2, <4>1
    <3> QED BY <1>0, <2>4, <2>6, <3>1, <3>2
  <2>8. Len(Q) = Len(Published')
    BY <1>0, <2>4, <2>5, <2>6
  <2>9. Published' = Q
    <3> HIDE DEF Q
    <3> QED BY <2>5, <2>6, <2>7, <2>8, SeqEqual
  <2> QED BY <1>0, <1>4, <2>2, <2>4, <2>9 DEF PushPublish, Fifo!Push, consumerVars
<1> QED BY <1>1, <1>2, <1>3, <1>4 DEF TryPush

(* A step of the consumer takes the oldest entry, is refused by an empty    *)
(* queue, or is not seen.                                                   *)
LEMMA PopMaps ==
  ASSUME RingInv, RingInv', TryPop
  PROVE  Fifo!Pop \/ Fifo!PopRefused \/ UNCHANGED <<Published, item, pushed, popped>>
<1>0. /\ head \in Nat /\ tail \in Nat /\ cached_head \in Nat /\ head - tail \in Nat
      /\ cached_head <= head
  BY DEF RingInv, RingTypeOK, CountersBounded
<1>1. CASE PopCall \/ PopRead
  BY <1>1 DEF PopCall, PopRead, Published, producerVars
<1>2. CASE PopRefresh
  <2>1. Published' = Published
    BY <1>2 DEF PopRefresh, Published, producerVars
  <2>2. CASE tail >= head
    <3>1. Len(Published) = 0 /\ Published \in Seq(Items)
      BY <1>0, <2>2, QueueContents DEF QueueInv
    <3>2. Published = << >>
      BY <3>1, EmptySeq
    <3> QED BY <1>2, <2>1, <2>2, <3>2 DEF PopRefresh, Fifo!PopRefused, producerVars
  <2>3. CASE ~(tail >= head)
    BY <1>2, <2>1, <2>3 DEF PopRefresh, producerVars
  <2> QED BY <2>2, <2>3
<1>3. CASE PopPublish
  <2>1. /\ tail < head /\ copied = slots[Slot(tail)]
        /\ head' = head /\ tail' = tail + 1 /\ slots' = slots
    BY <1>0, <1>3 DEF PopPublish, RingInv, ConsumerInv, producerVars
  <2>2. /\ Published \in Seq(Items) /\ Len(Published) = head - tail
        /\ \A i \in 1 .. head - tail : Published[i] = slots[Slot(tail + i - 1)]
    BY QueueContents DEF QueueInv
  <2>3. /\ Published' \in Seq(Items) /\ Len(Published') = head - (tail + 1)
        /\ \A i \in 1 .. head - (tail + 1) : Published'[i] = slots[Slot((tail + 1) + i - 1)]
    <3>1. QueueInv'
      BY QueueContents, PTL
    <3> QED BY <2>1, <3>1 DEF QueueInv, Slot
  <2>4. Published # << >>
    BY <1>0, <2>1, <2>2, EmptySeq
  <2> DEFINE Q == Tail(Published)
  <2>5. /\ Q \in Seq(Items) /\ Len(Q) = Len(Published) - 1
        /\ \A i \in 1 .. Len(Q) : Q[i] = Published[i + 1]
    BY <2>2, <2>4, HeadTailProperties
  <2>6. Len(Q) = Len(Published')
    BY <1>0, <2>2, <2>3, <2>5
  <2>7. \A i \in 1 .. Len(Q) : Q[i] = Published'[i]
    <3> HIDE DEF Q
    <3> SUFFICES ASSUME NEW i \in 1 .. Len(Q) PROVE Q[i] = Published'[i]
      OBVIOUS
    <3>1. /\ i \in 1 .. head - (tail + 1) /\ i + 1 \in 1 .. head - tail
          /\ tail + (i + 1) - 1 = (tail + 1) + i - 1
      BY <1>0, <2>2, <2>5
    <3>2. Published[i + 1] = slots[Slot(tail + (i + 1) - 1)]
      BY <2>2, <3>1
    <3> QED BY <2>3, <2>5, <3>1, <3>2
  <2>8. Published' = Q
    <3> HIDE DEF Q
    <3> QED BY <2>3, <2>5, <2>6, <2>7, SeqEqual
  <2>9. Head(Published) = copied
    <3>1. Head(Published) = Published[1]
      BY <2>2, <2>4
    <3>2. 1 \in 1 .. head - tail /\ tail + 1 - 1 = tail
      BY <1>0, <2>1
    <3> QED BY <2>1, <2>2, <3>1, <3>2
  <2> QED BY <1>3, <2>4, <2>8, <2>9 DEF PopPublish, Fifo!Pop, producerVars
<1> QED BY <1>1, <1>2, <1>3 DEF TryPop

(* With one producer SPSCRing_TryPush and SPSCRing_TryPop implement a       *)
(* bounded queue, for every capacity: nothing is lost, doubled or           *)
(* reordered, and a refusal is true at the instant the other side's counter *)
(* is loaded.                                                               *)
THEOREM RingImplementsFifo == ASSUME OneProducer PROVE RingSpec => ImplementsFifo
<1>1. RingInit => Fifo!Init
  <2> SUFFICES ASSUME RingInit PROVE Fifo!Init
    OBVIOUS
  <2>1. Published \in Seq(Items) /\ Len(Published) = 0
    BY RingInitInv, QueueContents DEF RingInit, QueueInv
  <2>2. Published = << >>
    BY <2>1, EmptySeq
  <2> QED BY <2>2 DEF RingInit, Fifo!Init
<1>2. RingInv /\ RingInv' /\ [RingNext]_ringVars => [Fifo!Next]_<<Published, item, pushed, popped>>
  <2> SUFFICES ASSUME RingInv, RingInv', [RingNext]_ringVars
               PROVE  [Fifo!Next]_<<Published, item, pushed, popped>>
    OBVIOUS
  <2>1. ASSUME NEW p \in Producers, TryPush(p)
        PROVE  [Fifo!Next]_<<Published, item, pushed, popped>>
    BY <2>1, PushMaps DEF Fifo!Next
  <2>2. CASE TryPop
    BY <2>2, PopMaps DEF Fifo!Next
  <2>3. CASE UNCHANGED ringVars
    BY <2>3 DEF ringVars, producerVars, consumerVars, Published
  <2> QED BY <2>1, <2>2, <2>3 DEF RingNext
<1> QED BY <1>1, <1>2, RingInitInv, RingInvStep, PTL DEF RingSpec, ImplementsFifo, Fifo!Spec

-----------------------------------------------------------------------------
(* The tick.                                                                *)

(* During a tick nobody else stores the flags, and a leg's last event is    *)
(* what TickStore will make its flag.                                       *)
TickInv ==
  /\ step # "idle" => active = loaded
  /\ step = "decide" => done = {}
  /\ step = "idle" => todo = << >>
  /\ step # "idle" => \A l \in Legs : last[l] = "ENTRY" <=> NewFlag(l)

(* What is left to push, and what was pushed before it: the entries of a    *)
(* flat node or the exits of active legs, each once, leg A first.           *)
PlanInv ==
  step = "push" =>
    \/ todo = << >>
    \/ loaded = Flat(Legs) /\ done = {} /\ todo = <<Event("ENTRY", 0)>>
    \/ /\ loaded = Flat(Legs) /\ 1 \in Legs
       /\ \/ done = {} /\ todo = <<Event("ENTRY", 0), Event("ENTRY", 1)>>
          \/ done = {Event("ENTRY", 0)} /\ todo = <<Event("ENTRY", 1)>>
    \/ loaded[0] /\ done = {} /\ todo = <<Event("EXIT", 0)>>
    \/ /\ 1 \in Legs /\ loaded[1]
       /\ \/ loaded[0] /\ done = {} /\ todo = <<Event("EXIT", 0), Event("EXIT", 1)>>
          \/ done \subseteq {Event("EXIT", 0)} /\ todo = <<Event("EXIT", 1)>>

CoreInv == CoreTypeOK /\ TickInv /\ PlanInv /\ FlagFollowsEvents

-----------------------------------------------------------------------------
(* The events, spelled out.                                                 *)
LEMMA EventsOfLegs ==
  /\ 0 \in Legs /\ \A l \in Legs : l \in {0, 1}
  /\ \A l \in Legs : Event("ENTRY", l) \in Events /\ Event("EXIT", l) \in Events
  /\ \A k, l : Event("ENTRY", k) # Event("EXIT", l)
  /\ Event("ENTRY", 0) # Event("ENTRY", 1) /\ Event("EXIT", 0) # Event("EXIT", 1)
BY CoreAssumption DEF Events, Event

LEMMA CoreInitInv == CoreInit => CoreInv
BY CoreAssumption DEF CoreInit, CoreInv, CoreTypeOK, TickInv, PlanInv, FlagFollowsEvents, Flat, Events

LEMMA CoreLoadStep == CoreInv /\ TickLoad => CoreInv'
BY EventsOfLegs DEF TickLoad, CoreInv, CoreTypeOK, TickInv, PlanInv, FlagFollowsEvents, NewFlag

(* The plan TickDecide makes.                                               *)
LEMMA DecideStep == CoreInv /\ TickDecide => CoreInv'
<1> SUFFICES ASSUME CoreInv, TickDecide PROVE CoreInv'
  OBVIOUS
<1>1. PICK gate \in EntryFires, fires \in [Legs -> ExitFires], pair \in BOOLEAN :
        /\ pair => 1 \in Legs
        /\ todo' = IF CanEnter(gate) THEN Entries(pair) ELSE Exits(fires)
  BY DEF TickDecide
<1>2. done = {} /\ done' = {} /\ loaded' = loaded /\ step' = "push"
  BY DEF TickDecide, CoreInv, TickInv
<1>3. CASE CanEnter(gate)
  <2>1. loaded = Flat(Legs) /\ todo' = Entries(pair)
    BY <1>1, <1>3 DEF CanEnter
  <2>2. PlanInv' /\ todo' \in Seq(Events)
    BY <1>1, <1>2, <2>1, EventsOfLegs DEF PlanInv, Entries, Flat
  <2> QED BY <1>2, <2>2 DEF TickDecide, CoreInv, CoreTypeOK, TickInv, NewFlag, FlagFollowsEvents
<1>4. CASE ~CanEnter(gate)
  <2>1. todo' = Exits(fires)
    BY <1>1, <1>4
  <2>2. \/ todo' = << >>
        \/ loaded[0] /\ todo' = <<Event("EXIT", 0)>>
        \/ 1 \in Legs /\ loaded[1] /\ todo' = <<Event("EXIT", 1)>>
        \/ /\ 1 \in Legs /\ loaded[0] /\ loaded[1]
           /\ todo' = <<Event("EXIT", 0), Event("EXIT", 1)>>
    BY <2>1 DEF Exits, Out
  <2>3. PlanInv' /\ todo' \in Seq(Events)
    BY <1>2, <2>2, EventsOfLegs DEF PlanInv
  <2> QED BY <1>2, <2>3 DEF TickDecide, CoreInv, CoreTypeOK, TickInv, NewFlag, FlagFollowsEvents
<1> QED BY <1>3, <1>4

(* Bookkeeping of a push: the event that is tried is one of the core's, and *)
(* it is the opposite of the leg's last.                                    *)
LEMMA NextEvent ==
  ASSUME CoreInv, step = "push", todo # << >>
  PROVE  /\ todo[1] \in Events /\ Tail(todo) \in Seq(Events)
         /\ todo[1] \notin done
         /\ todo[1].type = "ENTRY" => loaded = Flat(Legs)
         /\ todo[1].type = "EXIT" => loaded[todo[1].leg]
         /\ last[todo[1].leg] # todo[1].type
         /\ todo[1] = Event("ENTRY", 1) => last[0] = "ENTRY"
<1> USE EventsOfLegs DEF CoreInv, CoreTypeOK, PlanInv, TickInv, NewFlag
<1>1. CASE loaded = Flat(Legs) /\ done = {} /\ todo = <<Event("ENTRY", 0)>>
  BY <1>1 DEF Event, Flat
<1>2. CASE loaded = Flat(Legs) /\ 1 \in Legs /\ done = {} /\ todo = <<Event("ENTRY", 0), Event("ENTRY", 1)>>
  BY <1>2 DEF Event, Flat
<1>3. CASE loaded = Flat(Legs) /\ 1 \in Legs /\ done = {Event("ENTRY", 0)} /\ todo = <<Event("ENTRY", 1)>>
  BY <1>3 DEF Event, Flat
<1>4. CASE loaded[0] /\ done = {} /\ todo = <<Event("EXIT", 0)>>
  BY <1>4 DEF Event
<1>5. CASE /\ 1 \in Legs /\ loaded[1] /\ loaded[0] /\ done = {}
           /\ todo = <<Event("EXIT", 0), Event("EXIT", 1)>>
  BY <1>5 DEF Event
<1>6. CASE 1 \in Legs /\ loaded[1] /\ done \subseteq {Event("EXIT", 0)} /\ todo = <<Event("EXIT", 1)>>
  BY <1>6 DEF Event
<1> QED BY <1>1, <1>2, <1>3, <1>4, <1>5, <1>6

(* One push.  Whether the ring takes the event or not, what is left of the  *)
(* plan is again a plan, and only a leg whose event was taken changes.      *)
LEMMA CorePushStep == CoreInv /\ TickPush => CoreInv'
<1> SUFFICES ASSUME CoreInv, TickPush PROVE CoreInv'
  OBVIOUS
<1> DEFINE e == todo[1]
           fits == Len(event_ring) < RingCap
<1>1. /\ step = "push" /\ step' = "push" /\ todo # << >>
      /\ todo \in Seq(Events) /\ Head(todo) = e
      /\ UNCHANGED <<permission, active, loaded>>
  BY DEF TickPush, CoreInv, CoreTypeOK
<1>2. /\ event_ring' = IF fits THEN Append(event_ring, e) ELSE event_ring
      /\ done' = IF fits THEN done \cup {e} ELSE done
      /\ last' = IF fits THEN [last EXCEPT ![e.leg] = e.type] ELSE last
      /\ todo' = IF fits \/ e.type = "EXIT" THEN Tail(todo) ELSE << >>
  BY <1>1 DEF TickPush, Remaining
<1>3. /\ e \in Events /\ Tail(todo) \in Seq(Events)
      /\ e \notin done /\ last[e.leg] # e.type
      /\ e.type = "ENTRY" => loaded = Flat(Legs)
      /\ e.type = "EXIT" => loaded[e.leg]
  BY <1>1, NextEvent
<1>4. e.leg \in Legs /\ e.type \in {"ENTRY", "EXIT"} /\ e = Event(e.type, e.leg)
  BY <1>3 DEF Events, Event
<1>5. CoreTypeOK'
  <2>1. event_ring' \in Seq(Events) /\ Len(event_ring') <= RingCap
    BY <1>2, <1>3, CoreAssumption DEF CoreInv, CoreTypeOK
  <2> HIDE DEF e, fits
  <2>2. todo' \in Seq(Events) /\ done' \subseteq Events /\ last' \in [Legs -> {"ENTRY", "EXIT"}]
    BY <1>2, <1>3, <1>4 DEF CoreInv, CoreTypeOK
  <2> QED BY <1>1, <2>1, <2>2 DEF CoreInv, CoreTypeOK
<1>6. TickInv'
  <2>1. ASSUME NEW l \in Legs PROVE (last[l] = "ENTRY" <=> NewFlag(l))'
    <3> HIDE DEF e, fits
    <3>1. last[l] = "ENTRY" <=> NewFlag(l)
      BY <1>1 DEF CoreInv, TickInv
    <3>2. CASE ~fits \/ l # e.leg
      <4>1. last'[l] = last[l]
        BY <1>2, <1>4, <3>2 DEF CoreInv, CoreTypeOK
      <4>2. \A t : Event(t, l) \in done' <=> Event(t, l) \in done
        BY <1>2, <1>4, <3>2 DEF Event
      <4> QED BY <1>1, <3>1, <4>1, <4>2 DEF NewFlag
    <3>3. CASE fits /\ l = e.leg /\ e.type = "ENTRY"
      <4>1. last'[l] = "ENTRY"
        BY <1>2, <1>4, <3>3 DEF CoreInv, CoreTypeOK
      <4>2. Event("ENTRY", l) \in done'
        BY <1>2, <1>4, <3>3
      <4>3. Event("EXIT", l) \notin done'
        <5>1. ~loaded[l] /\ last[l] # "ENTRY"
          BY <1>3, <3>3 DEF Flat
        <5>2. Event("EXIT", l) \notin done
          BY <1>1, <1>3, <3>3, <5>1, EventsOfLegs DEF CoreInv, PlanInv, Flat
        <5> QED BY <1>2, <1>4, <3>3, <5>2, EventsOfLegs
      <4> QED BY <4>1, <4>2, <4>3 DEF NewFlag
    <3>4. CASE fits /\ l = e.leg /\ e.type = "EXIT"
      <4>1. last'[l] = "EXIT"
        BY <1>2, <1>4, <3>4 DEF CoreInv, CoreTypeOK
      <4>2. Event("EXIT", l) \in done'
        BY <1>2, <1>4, <3>4
      <4> QED BY <4>1, <4>2 DEF NewFlag
    <3> QED BY <1>4, <3>2, <3>3, <3>4
  <2> QED BY <1>1, <2>1 DEF CoreInv, TickInv
<1>7. PlanInv'
  <2> USE EventsOfLegs DEF PlanInv, CoreInv
  <2>1. CASE loaded = Flat(Legs) /\ done = {} /\ todo = <<Event("ENTRY", 0)>>
    BY <1>1, <1>2, <2>1 DEF Event
  <2>2. CASE loaded = Flat(Legs) /\ 1 \in Legs /\ done = {} /\ todo = <<Event("ENTRY", 0), Event("ENTRY", 1)>>
    BY <1>1, <1>2, <2>2 DEF Event
  <2>3. CASE loaded = Flat(Legs) /\ 1 \in Legs /\ done = {Event("ENTRY", 0)} /\ todo = <<Event("ENTRY", 1)>>
    BY <1>1, <1>2, <2>3 DEF Event
  <2>4. CASE loaded[0] /\ done = {} /\ todo = <<Event("EXIT", 0)>>
    BY <1>1, <1>2, <2>4 DEF Event
  <2>5. CASE /\ 1 \in Legs /\ loaded[1] /\ loaded[0] /\ done = {}
             /\ todo = <<Event("EXIT", 0), Event("EXIT", 1)>>
    BY <1>1, <1>2, <2>5 DEF Event
  <2>6. CASE 1 \in Legs /\ loaded[1] /\ done \subseteq {Event("EXIT", 0)} /\ todo = <<Event("EXIT", 1)>>
    BY <1>1, <1>2, <2>6 DEF Event
  <2> QED BY <1>1, <2>1, <2>2, <2>3, <2>4, <2>5, <2>6
<1> QED BY <1>1, <1>5, <1>6, <1>7 DEF CoreInv, FlagFollowsEvents

(* The store at the end of a tick makes the flags agree with the events.    *)
LEMMA StoreStep == CoreInv /\ TickStore => CoreInv'
BY DEF TickStore, CoreInv, CoreTypeOK, TickInv, PlanInv, FlagFollowsEvents, NewFlag, Flat

(* The other threads leave the flags, the tick and the history alone.       *)
LEMMA OthersStep == CoreInv /\ (SetPermission \/ PopEvent \/ UNCHANGED coreVars) => CoreInv'
<1> SUFFICES ASSUME CoreInv, SetPermission \/ PopEvent \/ UNCHANGED coreVars PROVE CoreInv'
  OBVIOUS
<1>1. UNCHANGED <<active, step, loaded, todo, done, last>>
  BY DEF SetPermission, PopEvent, coreVars
<1>2. TickInv' /\ PlanInv' /\ FlagFollowsEvents'
  BY <1>1 DEF CoreInv, TickInv, PlanInv, FlagFollowsEvents, NewFlag
<1>3. permission' \in BOOLEAN /\ event_ring' \in Seq(Events) /\ Len(event_ring') <= RingCap
  <2>1. /\ event_ring \in Seq(Events) /\ Len(event_ring) \in Nat /\ Len(event_ring) <= RingCap
        /\ permission \in BOOLEAN /\ RingCap \in Nat
    BY CoreAssumption DEF CoreInv, CoreTypeOK
  <2>2. CASE PopEvent
    <3>1. Tail(event_ring) \in Seq(Events) /\ Len(Tail(event_ring)) = Len(event_ring) - 1
      BY <2>1, <2>2 DEF PopEvent
    <3> QED BY <2>1, <2>2, <3>1 DEF PopEvent
  <2>3. CASE SetPermission
    BY <2>1, <2>3 DEF SetPermission
  <2>4. CASE UNCHANGED coreVars
    BY <2>1, <2>4 DEF coreVars
  <2> QED BY <2>2, <2>3, <2>4
<1> QED BY <1>1, <1>2, <1>3 DEF CoreInv, CoreTypeOK

LEMMA CoreInvStep == CoreInv /\ [CoreNext]_coreVars => CoreInv'
BY CoreLoadStep, DecideStep, CorePushStep, StoreStep, OthersStep DEF CoreNext, Tick

LEMMA CoreInductive == CoreSpec => []CoreInv
<1>1. CoreInv /\ [CoreNext]_coreVars => CoreInv'
  BY CoreInvStep
<1> QED BY CoreInitInv, <1>1, PTL DEF CoreSpec

-----------------------------------------------------------------------------
(* The hot core's state has the types of ExecutionCore.hpp, and the event   *)
(* ring never holds more than its capacity.                                 *)
THEOREM CoreTypeCorrect == CoreSpec => []CoreTypeOK
<1>1. CoreInv => CoreTypeOK
  BY DEF CoreInv
<1> QED BY CoreInductive, <1>1, PTL

(* Between ticks the flags ExecutionCore_Tick stored agree with the events  *)
(* the ring took, whichever pushes a full ring refused.                     *)
THEOREM FlagsAgree == CoreSpec => []FlagFollowsEvents
<1>1. CoreInv => FlagFollowsEvents
  BY DEF CoreInv
<1> QED BY CoreInductive, <1>1, PTL

(* The ring never carries two entries, or two exits, of a leg in a row, nor *)
(* an entry of leg B without that of leg A.                                 *)
THEOREM EventsOrdered == CoreSpec => EventsAlternate
<1> DEFINE e == todo[1]
           Pushed == Len(event_ring') > Len(event_ring) =>
             LET n == event_ring'[Len(event_ring')]
             IN last[n.leg] # n.type /\ (n = Event("ENTRY", 1) => last[0] = "ENTRY")
<1>1. CoreInv /\ [CoreNext]_coreVars => [Pushed]_coreVars
  <2> SUFFICES ASSUME CoreInv, CoreNext PROVE Pushed
    OBVIOUS
  <2>1. CASE TickPush /\ Len(event_ring) < RingCap
    <3>1. /\ event_ring' = Append(event_ring, e) /\ step = "push" /\ todo # << >>
          /\ e \in Events /\ event_ring \in Seq(Events)
      BY <2>1, NextEvent DEF TickPush, CoreInv, CoreTypeOK
    <3>2. event_ring'[Len(event_ring')] = e
      BY <3>1
    <3> QED BY <3>1, <3>2, NextEvent
  <2>2. CASE TickPush /\ ~(Len(event_ring) < RingCap)
    BY <2>2, CoreAssumption DEF TickPush, CoreInv, CoreTypeOK
  <2>3. CASE PopEvent
    BY <2>3 DEF PopEvent, CoreInv, CoreTypeOK
  <2>4. CASE TickLoad \/ TickDecide \/ TickStore \/ SetPermission
    BY <2>4 DEF TickLoad, TickDecide, TickStore, SetPermission, CoreInv, CoreTypeOK
  <2> QED BY <2>1, <2>2, <2>3, <2>4 DEF CoreNext, Tick
<1> QED BY CoreInductive, <1>1, PTL DEF CoreSpec, EventsAlternate


-----------------------------------------------------------------------------
(* Quotient and remainder, and the two facts about products that SMT does   *)
(* not find by itself.                                                      *)
LEMMA DivMod ==
  ASSUME NEW x \in Nat, NEW d \in Nat, d > 0
  PROVE  /\ x \div d \in Nat /\ x % d \in 0 .. d - 1
         /\ x = (x \div d) * d + (x % d)
  BY SMT

LEMMA DivUnique ==
  ASSUME NEW x \in Nat, NEW d \in Nat, d > 0, NEW q \in Nat, NEW r \in 0 .. d - 1,
         x = q * d + r
  PROVE  x \div d = q /\ x % d = r
  BY SMT

LEMMA ModSmall ==
  ASSUME NEW x \in Nat, NEW d \in Nat, x < d
  PROVE  x % d = x /\ x \div d = 0
<1>1. x = 0 * d + x /\ x \in 0 .. d - 1 /\ d > 0
  BY SMT
<1> QED BY <1>1, DivUnique

LEMMA MulMono ==
  ASSUME NEW x \in Nat, NEW y \in Nat, NEW u \in Nat, NEW v \in Nat, x <= u, y <= v
  PROVE  x * y \in Nat /\ x * y <= u * v
  BY SMT

LEMMA Distribute ==
  ASSUME NEW x \in Int, NEW y \in Int, NEW d \in Int
  PROVE  (x + y) * d = x * d + y * d
  BY SMT

LEMMA MulLess ==
  ASSUME NEW x \in Int, NEW y \in Int, NEW d \in Nat, x * d < y * d
  PROVE  x < y
  BY SMT

(* What the definitions and the assumption say of the widths.               *)
LEMMA Widths ==
  /\ Half \in Nat /\ Half > 1 /\ Limb \in Nat /\ Limb = 2 * Half
  /\ Word \in Nat /\ Word = Limb * Limb /\ Word = 2 * Top
  /\ Top \in Nat /\ Top = Half * Limb /\ Top > 1 /\ Limb < Word
  /\ Lim \in Nat /\ Lim = Half - 1 /\ Lim < Top /\ Lim > 0
  /\ Scale \in Nat /\ Scale > 0 /\ Scale < Limb /\ Scale < Top
  /\ Bits \in Nat /\ Bits > 0
<1>1. Half \in Nat /\ Half > 1 /\ Limb \in Nat /\ Limb = 2 * Half /\ Lim = Half - 1
  BY SMTT(30), MoneyAssumption DEF Limb, Lim
<1>2. Top = Half * Limb /\ Word = Limb * Limb /\ Word = 2 * Top
  BY <1>1, SMT DEF Top, Word, Limb
<1>3. Top \in Nat /\ Top >= Limb /\ Word \in Nat
  BY <1>1, <1>2, SMT
<1>4. Scale \in Nat /\ Scale > 0 /\ Scale < Limb /\ Bits \in Nat /\ Bits > 0
  BY MoneyAssumption
<1> QED BY <1>1, <1>2, <1>3, <1>4

-----------------------------------------------------------------------------
(* The product of two words below 2^127 comes out whole: no carry between   *)
(* the limbs is lost.                                                       *)
LEMMA UmulExact ==
  ASSUME NEW a \in 0 .. Top - 1, NEW b \in 0 .. Top - 1
  PROVE  /\ Umul(a, b).hi \in Nat /\ Umul(a, b).lo \in 0 .. Word - 1
         /\ a * b = Umul(a, b).hi * Word + Umul(a, b).lo
<1> DEFINE al == a % Limb
           ah == a \div Limb
           bl == b % Limb
           bh == b \div Limb
           ll == al * bl
           sum == al * bh + ah * bl + ll \div Limb
           mid == sum % Word
           top == ah * bh + mid \div Limb
<1> USE Widths
<1>1. /\ ah \in Nat /\ al \in 0 .. Limb - 1 /\ a = ah * Limb + al
      /\ bh \in Nat /\ bl \in 0 .. Limb - 1 /\ b = bh * Limb + bl
  <2>1. a \in Nat /\ b \in Nat /\ Limb > 0
    OBVIOUS
  <2>2. ah \in Nat /\ al \in 0 .. Limb - 1 /\ a = ah * Limb + al
    BY <2>1, DivMod
  <2>3. bh \in Nat /\ bl \in 0 .. Limb - 1 /\ b = bh * Limb + bl
    BY <2>1, DivMod
  <2> QED BY <2>2, <2>3
<1> HIDE DEF al, ah, bl, bh
<1>2. ah <= Half - 1 /\ bh <= Half - 1
  <2>1. ah * Limb < Half * Limb /\ bh * Limb < Half * Limb
    BY <1>1
  <2> QED BY <2>1, <1>1, MulLess
<1>3. /\ ll \in Nat /\ ll <= (Limb - 1) * (Limb - 1)
      /\ ll \div Limb \in Nat /\ ll % Limb \in 0 .. Limb - 1
      /\ ll = (ll \div Limb) * Limb + (ll % Limb)
  <2>1. al \in Nat /\ bl \in Nat /\ Limb - 1 \in Nat /\ al <= Limb - 1 /\ bl <= Limb - 1
    BY <1>1
  <2>2. ll \in Nat /\ ll <= (Limb - 1) * (Limb - 1)
    BY <2>1, MulMono
  <2> HIDE DEF ll
  <2>3. /\ ll \div Limb \in Nat /\ ll % Limb \in 0 .. Limb - 1
        /\ ll = (ll \div Limb) * Limb + (ll % Limb)
    BY <2>2, DivMod
  <2> QED BY <2>2, <2>3
<1>4. ll \div Limb <= Limb - 1
  <2> HIDE DEF ll
  <2>1. (Limb - 1) * (Limb - 1) < Limb * Limb
    BY SMT
  <2>2. (ll \div Limb) * Limb < Limb * Limb
    BY <2>1, <1>3
  <2>3. ll \div Limb < Limb
    BY <2>2, <1>3, MulLess
  <2> QED BY <2>3, <1>3
<1> HIDE DEF ll
<1>5. sum \in Nat /\ sum < Word
  <2>1. al * bh \in Nat /\ al * bh <= (Limb - 1) * (Half - 1)
    BY <1>1, <1>2, MulMono
  <2>2. ah * bl \in Nat /\ ah * bl <= (Half - 1) * (Limb - 1)
    BY <1>1, <1>2, MulMono
  <2>3. (Limb - 1) * (Half - 1) + (Half - 1) * (Limb - 1) + Limb - 1 < Word
    BY SMT
  <2> HIDE DEF sum
  <2>4. sum = al * bh + ah * bl + ll \div Limb
    BY DEF sum
  <2> QED BY <2>1, <2>2, <2>3, <2>4, <1>3, <1>4
<1> HIDE DEF sum
<1>6. mid = sum /\ mid \div Limb \in Nat /\ mid % Limb \in 0 .. Limb - 1
      /\ sum = (mid \div Limb) * Limb + (mid % Limb)
  <2>1. mid = sum
    BY <1>5, ModSmall
  <2> HIDE DEF mid
  <2>2. /\ sum \div Limb \in Nat /\ sum % Limb \in 0 .. Limb - 1
        /\ sum = (sum \div Limb) * Limb + (sum % Limb)
    BY <1>5, DivMod
  <2> QED BY <2>1, <2>2
<1> HIDE DEF mid
<1>7. a * b = top * Word + ((mid % Limb) * Limb + (ll % Limb))
  <2>1. a * b = (ah * Limb + al) * (bh * Limb + bl)
    BY <1>1
  <2>2. @ = (ah * bh) * Word + (al * bh + ah * bl) * Limb + al * bl
    BY <1>1, SMT
  <2>3. (al * bh + ah * bl) * Limb + al * bl = sum * Limb + (ll % Limb)
    <3> DEFINE cross == al * bh + ah * bl
    <3>1. al * bl = (ll \div Limb) * Limb + (ll % Limb)
      BY <1>3 DEF ll
    <3>2. cross \in Nat /\ sum = cross + ll \div Limb
      BY <1>1 DEF sum
    <3> HIDE DEF cross
    <3>3. cross * Limb + ((ll \div Limb) * Limb + (ll % Limb)) = sum * Limb + (ll % Limb)
      <4>1. ll \div Limb \in Int /\ ll % Limb \in Int /\ cross \in Int /\ Limb \in Int
        BY <3>2, <1>3
      <4>2. (cross + ll \div Limb) * Limb = cross * Limb + (ll \div Limb) * Limb
        BY ONLY <4>1, Distribute
      <4> QED BY ONLY <4>1, <4>2, <3>2, SMT
    <3> QED BY <3>1, <3>3 DEF cross
  <2>4. sum * Limb = (mid \div Limb) * Word + (mid % Limb) * Limb
    BY <1>5, <1>6, SMT
  <2>5. top * Word = (ah * bh) * Word + (mid \div Limb) * Word
    <3> DEFINE carry == mid \div Limb
    <3>1. ah * bh \in Int /\ carry \in Int /\ Word \in Int
      BY <1>1, <1>6
    <3> HIDE DEF carry
    <3>2. (ah * bh + carry) * Word = (ah * bh) * Word + carry * Word
      BY ONLY <3>1, Distribute
    <3> QED BY <3>2 DEF carry
  <2>6. /\ (ah * bh) * Word \in Nat /\ (mid \div Limb) * Word \in Nat
        /\ (mid % Limb) * Limb \in Nat /\ al * bl \in Nat
        /\ (al * bh + ah * bl) * Limb \in Nat
    BY <1>1, <1>6, SMT
  <2> HIDE DEF top
  <2> QED BY <2>1, <2>2, <2>3, <2>4, <2>5, <2>6, <1>3
<1>8. (mid % Limb) * Limb + (ll % Limb) \in 0 .. Word - 1
  <2>1. (mid % Limb) * Limb \in Nat /\ (mid % Limb) * Limb <= (Limb - 1) * Limb
    <3>1. mid % Limb \in Nat /\ mid % Limb <= Limb - 1 /\ Limb - 1 \in Nat
      BY <1>6
    <3> QED BY <3>1, MulMono
  <2>2. (Limb - 1) * Limb + Limb = Word
    BY SMT
  <2> QED BY <2>1, <2>2, <1>3
<1>9. top \in Nat /\ top < Word
  <2>1. ah * bh \in Nat
    BY <1>1
  <2>2. top \in Nat
    BY <2>1, <1>6
  <2>3. a * b <= (Top - 1) * (Top - 1)
    BY MulMono
  <2> HIDE DEF top
  <2>4. top * Word < Word * Word
    BY <2>2, <2>3, <1>7, <1>8, SMT
  <2> QED BY <2>2, <2>4, MulLess
<1>10. Umul(a, b) = [hi |-> top % Word, lo |-> (mid % Limb) * Limb + (ll % Limb)]
  BY DEF Umul, top, mid, sum, ll, al, ah, bl, bh
<1>11. top % Word = top
  BY <1>9, ModSmall
<1> QED BY <1>7, <1>8, <1>9, <1>10, <1>11

(* A product below a word has no high part.                                 *)
LEMMA UmulSmall ==
  ASSUME NEW a \in 0 .. Top - 1, NEW b \in 0 .. Top - 1, a * b < Word
  PROVE  Umul(a, b).hi = 0 /\ Umul(a, b).lo = a * b
<1> DEFINE h == Umul(a, b).hi
           l == Umul(a, b).lo
<1>1. h \in Nat /\ l \in 0 .. Word - 1 /\ a * b = h * Word + l
  BY UmulExact
<1> HIDE DEF h, l
<1>2. h * Word < 1 * Word
  BY <1>1, Widths
<1>3. h = 0
  BY <1>1, <1>2, MulLess, Widths
<1> QED BY <1>1, <1>3, Widths DEF h, l

(* The reciprocal of divmul_pow10 gives the quotient by Scale, for every    *)
(* word below 2^127.                                                        *)
LEMMA DivPow10Exact ==
  ASSUME NEW p \in 0 .. Top - 1
  PROVE  DivPow10(p) \in Nat /\ p - DivPow10(p) * Scale \in 0 .. Scale - 1
<1> DEFINE h == Umul(p, Magic).hi
           l == Umul(p, Magic).lo
           q == p \div Scale
           g == h \div Drop
           e == Magic * Scale - Word * Drop
<1> USE Widths
<1>1. h \in Nat /\ l \in 0 .. Word - 1 /\ p * Magic = h * Word + l
  <2>1. Magic \in 0 .. Top - 1
    BY MoneyAssumption
  <2> QED BY <2>1, UmulExact
<1>2. q \in Nat /\ p % Scale \in 0 .. Scale - 1 /\ p = q * Scale + (p % Scale)
  BY DivMod
<1>3. Drop \in Nat /\ Drop > 0 /\ Magic \in Nat
  BY MoneyAssumption
<1>4. g \in Nat /\ h % Drop \in 0 .. Drop - 1 /\ h = g * Drop + (h % Drop)
  BY <1>1, <1>3, DivMod
<1>5. e \in Nat /\ e <= 2 * Drop /\ Magic * Scale = Word * Drop + e
  BY <1>3, MoneyAssumption
<1> HIDE DEF h, l, q, g, e
<1>6. q <= g
  <2>1. (q * Drop * Word) * Scale <= (p * Magic) * Scale
    <3>1. q * Scale <= p
      BY <1>2
    <3>2. (q * Scale) * (Word * Drop) <= p * (Word * Drop + e)
      BY <3>1, <1>2, <1>3, <1>5, MulMono
    <3> QED BY <3>2, <1>2, <1>3, <1>5, SMT
  <2>2. (q * Drop) * Word <= p * Magic
    BY <2>1, <1>2, <1>3, SMT
  <2>3. (q * Drop) * Word < (h + 1) * Word
    BY <2>2, <1>1, <1>2, <1>3, SMT
  <2>4. q * Drop < h + 1
    BY <2>3, <1>1, <1>2, <1>3, MulLess
  <2>5. q * Drop < (g + 1) * Drop
    BY <2>4, <1>2, <1>3, <1>4, SMT
  <2> QED BY <2>5, <1>2, <1>3, <1>4, MulLess
<1>7. g <= q
  <2>1. p * e < Word * Drop
    <3>1. p * e \in Nat /\ p * e <= (Top - 1) * (2 * Drop)
      BY <1>3, <1>5, MulMono
    <3> QED BY <3>1, <1>3, SMT
  <2>2. (p * Magic) * Scale < (q + 1) * (Word * Drop) * Scale
    <3>1. p <= (q + 1) * Scale - 1
      BY <1>2
    <3>2. p * (Word * Drop) <= ((q + 1) * Scale - 1) * (Word * Drop)
      BY <3>1, <1>2, <1>3, MulMono
    <3>3. (p * Magic) * Scale = p * (Word * Drop) + p * e
      BY <1>3, <1>5, SMT
    <3> QED BY <2>1, <3>2, <3>3, <1>2, <1>3, <1>5, SMT
  <2>3. p * Magic < ((q + 1) * Drop) * Word
    BY <2>2, <1>2, <1>3, SMT
  <2>4. h * Word < ((q + 1) * Drop) * Word
    BY <2>3, <1>1, <1>2, <1>3, SMT
  <2>5. h < (q + 1) * Drop
    BY <2>4, <1>1, <1>2, <1>3, MulLess
  <2>6. g * Drop < (q + 1) * Drop
    BY <2>5, <1>2, <1>3, <1>4
  <2> QED BY <2>6, <1>2, <1>3, <1>4, MulLess
<1>8. DivPow10(p) = q
  BY <1>2, <1>4, <1>6, <1>7 DEF DivPow10, g, h
<1> QED BY <1>2, <1>8
-----------------------------------------------------------------------------
(* Rounding.  Of a quotient that does not fill the word, it gives the       *)
(* nearest, ties to even.                                                   *)
LEMMA RoundNearest ==
  ASSUME NEW n \in Nat, NEW d \in Nat, d > 0, NEW q \in 0 .. Word - 2,
         NEW r \in 0 .. d - 1, n = q * d + r
  PROVE  /\ RoundHalfEven(q, r, d) \in Nat
         /\ Nearest(RoundHalfEven(q, r, d), n, d)
<1> DEFINE h == d \div 2
           up == r > h \/ (r = h /\ d % 2 = 0 /\ q % 2 = 1)
           v == IF up THEN q + 1 ELSE q
<1>1. Word \in Nat /\ q \in Nat /\ r \in Nat
  BY Widths
<1>2. RoundHalfEven(q, r, d) = v
  <2>1. v \in Nat /\ v < Word
    BY <1>1
  <2>2. v % Word = v
    BY <1>1, <2>1, ModSmall
  <2> QED BY <1>1, <2>2 DEF RoundHalfEven
<1>3. CASE up
  <2>1. v = q + 1 /\ 2 * r >= d /\ (2 * r = d => q % 2 = 1)
    BY <1>1, <1>3
  <2>2. v * d - n = d - r
    <3>1. (q + 1) * d = q * d + d
      BY <1>1, SMT
    <3>2. q * d \in Nat
      BY <1>1
    <3> QED BY <2>1, <3>1, <3>2
  <2>3. 2 * (d - r) <= d /\ d - r >= 0 /\ (2 * (d - r) = d => v % 2 = 0)
    BY <1>1, <2>1
  <2>4. Mag(v * d - n) = d - r
    BY <2>2, <2>3 DEF Mag
  <2> QED BY <1>1, <1>2, <2>1, <2>3, <2>4 DEF Nearest
<1>4. CASE ~up
  <2>1. v = q /\ 2 * r <= d /\ (2 * r = d => q % 2 = 0)
    BY <1>1, <1>4
  <2>2. v * d - n = -r
    <3>1. q * d \in Nat
      BY <1>1
    <3> QED BY <2>1, <3>1, <1>1
  <2>3. Mag(v * d - n) = r
    BY <1>1, <2>2 DEF Mag
  <2> QED BY <1>1, <1>2, <2>1, <2>3 DEF Nearest
<1> QED BY <1>3, <1>4

(* A reduced product is its quotient by Scale to the nearest.               *)
LEMMA Pow10Nearest ==
  ASSUME NEW p \in 0 .. Top - 1
  PROVE  Pow10Rounded(p) \in Nat /\ Nearest(Pow10Rounded(p), p, Scale)
<1> DEFINE q == DivPow10(p)
           r == p - q * Scale
<1>1. q \in Nat /\ r \in 0 .. Scale - 1 /\ p \in Nat
  BY DivPow10Exact, Widths
<1>2. q <= p
  <2> HIDE DEF q
  <2>1. q * 1 <= q * Scale
    BY <1>1, Widths, MulMono
  <2> QED BY <1>1, <2>1, Widths
<1>3. q \in 0 .. Word - 2 /\ r < Word /\ r \in Nat /\ p = q * Scale + r
  BY <1>1, <1>2, Widths
<1>4. r % Word = r
  BY <1>3, ModSmall, Widths
<1>5. Pow10Rounded(p) = RoundHalfEven(q, r, Scale)
  BY <1>4 DEF Pow10Rounded
<1> HIDE DEF q, r
<1> QED BY <1>1, <1>3, <1>5, RoundNearest, Widths

-----------------------------------------------------------------------------
(* From magnitudes to signed amounts.                                       *)
LEMMA MagType ==
  ASSUME NEW v \in Int
  PROVE  Mag(v) \in Nat /\ (v = Mag(v) \/ v = -Mag(v)) /\ Mag(-v) = Mag(v)
  BY DEF Mag

LEMMA NearestNegated ==
  ASSUME NEW v \in Int, NEW n \in Int, NEW d \in Nat, Nearest(v, n, d)
  PROVE  Nearest(-v, -n, d)
<1>1. (-v) * d - (-n) = -(v * d - n)
  BY SMT
<1>2. v * d - n \in Int
  BY SMT
<1>3. Mag(-(v * d - n)) = Mag(v * d - n)
  BY <1>2, MagType
<1>4. v % 2 = 0 => (-v) % 2 = 0
  BY SMT
<1> QED BY <1>1, <1>3, <1>4 DEF Nearest

(* What rounds beyond the limit is beyond it by half a unit at least.       *)
LEMMA BeyondLimit ==
  ASSUME NEW n \in Nat, NEW d \in Nat, NEW v \in Nat, Nearest(v, n, d), v > Lim
  PROVE  2 * n >= (2 * Lim + 1) * d
<1>1. v * d \in Nat
  BY SMT
<1>2. 2 * (v * d - n) <= d
  BY <1>1 DEF Nearest, Mag
<1>3. (Lim + 1) * d <= v * d
  BY Widths, MulMono
<1>4. (2 * Lim + 1) * d = 2 * ((Lim + 1) * d) - d
  BY Widths, SMT
<1>5. (Lim + 1) * d \in Nat
  BY Widths
<1> QED BY <1>1, <1>2, <1>3, <1>4, <1>5

LEMMA ResultExact ==
  ASSUME NEW n \in Int, NEW d \in Nat, NEW mag \in Nat, NEW neg \in BOOLEAN,
         NEW over \in BOOLEAN,
         n < 0 => neg, n > 0 => ~neg,
         over => 2 * Mag(n) >= (2 * Lim + 1) * d, d > 0,
         ~over => Nearest(mag, Mag(n), d) /\ mag <= Lim
  PROVE  ExactAmount(Result(mag, neg, over), n, d)
<1>1. CASE over
  <2>1. n # 0
    <3>1. (2 * Lim + 1) * d \in Nat /\ (2 * Lim + 1) * d > 0
      <4>1. 2 * Lim + 1 \in Nat /\ 1 <= 2 * Lim + 1 /\ 1 <= d
        BY Widths
      <4>2. 1 * 1 <= (2 * Lim + 1) * d /\ (2 * Lim + 1) * d \in Nat
        BY ONLY <4>1, d \in Nat, MulMono, SMT
      <4> QED BY <4>2
    <3>2. 2 * Mag(n) > 0
      BY <3>1, <1>1, Widths, MagType
    <3> QED BY <3>2 DEF Mag
  <2>2. neg = (n < 0)
    BY <2>1
  <2> QED BY <1>1, <2>2 DEF ExactAmount, Result
<1>2. CASE ~over
  <2> DEFINE v == Signed(mag, neg)
  <2>1. Nearest(mag, Mag(n), d) /\ mag <= Lim /\ Mag(n) \in Nat
    BY <1>2, MagType
  <2>2. v \in Closed
    BY <2>1, Widths DEF Signed, Closed
  <2>3. Nearest(v, n, d)
    <3>1. CASE n # 0
      <4>1. n = Signed(Mag(n), neg)
        BY <3>1 DEF Signed, Mag
      <4>2. Nearest(-mag, -Mag(n), d)
        BY <2>1, NearestNegated
      <4> QED BY <4>1, <4>2, <2>1 DEF Signed
    <3>2. CASE n = 0
      <4>1. Mag(n) = n /\ -Mag(n) = n
        <5>1. \A x \in Int : x >= 0 /\ x <= 0 => -x = x
          BY SMT
        <5>2. Mag(n) >= 0 /\ Mag(n) <= 0 /\ Mag(n) = n
          BY <3>2 DEF Mag
        <5> QED BY <5>1, <5>2
      <4>2. Nearest(-mag, -Mag(n), d)
        BY <2>1, NearestNegated
      <4> QED BY <4>1, <4>2, <2>1, <3>2 DEF Signed
    <3> QED BY <3>1, <3>2
  <2>4. Result(mag, neg, over) = [value |-> v, flags |-> {}]
    BY <1>2 DEF Result
  <2> QED BY <2>2, <2>3, <2>4 DEF ExactAmount
<1> QED BY <1>1, <1>2

(* The sign of a product.                                                   *)
LEMMA SignOfProduct ==
  ASSUME NEW a \in Int, NEW b \in Int
  PROVE  /\ Mag(a * b) = Mag(a) * Mag(b)
         /\ a * b \in Int
         /\ a * b < 0 => (a < 0) # (b < 0)
         /\ a * b > 0 => ~((a < 0) # (b < 0))
<1>1. CASE a >= 0 /\ b >= 0
  BY <1>1 DEF Mag
<1>2. CASE a >= 0 /\ b < 0
  BY <1>2 DEF Mag
<1>3. CASE a < 0 /\ b >= 0
  BY <1>3 DEF Mag
<1>4. CASE a < 0 /\ b < 0
  BY <1>4 DEF Mag
<1> QED BY <1>1, <1>2, <1>3, <1>4
-----------------------------------------------------------------------------
(* The operations that do not divide.                                       *)
LEMMA ClosedMag ==
  ASSUME NEW a \in Closed
  PROVE  a \in Int /\ Mag(a) \in Nat /\ Mag(a) <= Lim /\ Mag(a) \in 0 .. Top - 1
  BY Widths DEF Closed, Mag

LEMMA Money_Mul_Exact ==
  ASSUME NEW a \in Closed, NEW b \in Closed
  PROVE  ExactAmount(Money_Mul(a, b), a * b, Scale)
<1> DEFINE p == Mag(a) * Mag(b)
           mag == Pow10Rounded(p)
<1>1. /\ a \in Int /\ Mag(a) \in Nat /\ Mag(a) <= Lim /\ Mag(a) \in 0 .. Top - 1
      /\ b \in Int /\ Mag(b) \in Nat /\ Mag(b) <= Lim /\ Mag(b) \in 0 .. Top - 1
  BY ClosedMag
<1>2. p \in 0 .. Top - 1
  <2>1. p \in Nat /\ p <= Lim * Lim
    BY <1>1, Widths, MulMono
  <2>2. Lim * Lim < Top
    <3>1. (Half - 1) * (Half - 1) < Half * (2 * Half)
      BY Widths, SMT
    <3> QED BY <3>1, Widths
  <2> QED BY <2>1, <2>2, Widths
<1>3. Umul(Mag(a), Mag(b)).hi = 0 /\ Umul(Mag(a), Mag(b)).lo = p
  BY <1>1, <1>2, UmulSmall, Widths
<1>4. mag \in Nat /\ Nearest(mag, p, Scale)
  BY <1>2, Pow10Nearest
<1>5. Money_Mul(a, b) = Result(mag, (a < 0) # (b < 0), mag > Lim)
  BY <1>3 DEF Money_Mul
<1> DEFINE n == a * b
           neg == (a < 0) # (b < 0)
           over == mag > Lim
<1>6. Mag(n) = p /\ n \in Int /\ (n < 0 => neg) /\ (n > 0 => ~neg)
  BY <1>1, SignOfProduct
<1>7. neg \in BOOLEAN /\ over \in BOOLEAN
  OBVIOUS
<1> HIDE DEF p, mag, n, neg
<1>8. over => 2 * Mag(n) >= (2 * Lim + 1) * Scale
  BY <1>2, <1>4, <1>6, BeyondLimit, Widths
<1>9. ~over => Nearest(mag, Mag(n), Scale) /\ mag <= Lim
  BY <1>4, <1>6, Widths
<1>10. Scale \in Nat /\ Scale > 0
  BY Widths
<1> HIDE DEF over
<1>11. ExactAmount(Result(mag, neg, over), n, Scale)
  BY ONLY <1>4, <1>6, <1>7, <1>8, <1>9, <1>10, ResultExact
<1> QED BY <1>5, <1>11 DEF n, neg, over

LEMMA Money_Add_Exact ==
  ASSUME NEW a \in Closed, NEW b \in Closed
  PROVE  /\ ExactAmount(Money_Add(a, b), a + b, 1)
         /\ ExactAmount(Money_Add(a, -b), a - b, 1)
<1>1. ASSUME NEW val \in Int
      PROVE  ExactAmount(Result(Mag(val), val < 0, val > Lim \/ val < -Lim), val, 1)
  <2>1. Mag(val) \in Nat /\ Mag(Mag(val)) = Mag(val)
    BY DEF Mag
  <2>2. Nearest(Mag(val), Mag(val), 1)
    BY <2>1 DEF Nearest, Mag
  <2>3. val > Lim \/ val < -Lim => 2 * Mag(val) >= (2 * Lim + 1) * 1
    BY Widths DEF Mag
  <2>4. ~(val > Lim \/ val < -Lim) => Mag(val) <= Lim
    BY Widths DEF Mag
  <2> DEFINE neg == val < 0
             over == val > Lim \/ val < -Lim
  <2>5. neg \in BOOLEAN /\ over \in BOOLEAN /\ 1 \in Nat /\ 1 > 0
    OBVIOUS
  <2>6. (val < 0 => neg) /\ (val > 0 => ~neg) /\ (~over => Mag(val) <= Lim)
        /\ (~over => Nearest(Mag(val), Mag(val), 1))
        /\ (over => 2 * Mag(val) >= (2 * Lim + 1) * 1)
    BY <2>2, <2>3, <2>4
  <2> HIDE DEF neg, over
  <2>7. ExactAmount(Result(Mag(val), neg, over), val, 1)
    BY ONLY val \in Int, <2>1, <2>5, <2>6, ResultExact
  <2> QED BY <2>7 DEF neg, over
<1>2. a + b \in Int /\ a + (-b) = a - b /\ a - b \in Int
  BY Widths DEF Closed
<1> QED BY <1>1, <1>2 DEF Money_Add

(* Across the seam.                                                         *)
LEMMA ToBinaryExact ==
  ASSUME NEW m \in Closed
  PROVE  LET v == Money_ToBinary(m).value
         IN /\ Nearest(v, m * Limb, Scale) /\ v \in 1 - Top .. Top - 1
            /\ Money_ToBinary(m).flags = {}
<1> DEFINE p == Mag(m) * Limb
           mag == Pow10Rounded(p)
<1>1. m \in Int /\ Mag(m) \in Nat /\ Mag(m) <= Lim
  BY ClosedMag
<1>2. p \in Nat /\ p <= Top - Limb
  <2>1. p \in Nat /\ p <= Lim * Limb
    BY <1>1, Widths, MulMono
  <2>2. Lim * Limb = Top - Limb
    BY Widths, SMT
  <2> QED BY <2>1, <2>2
<1> HIDE DEF p
<1>3. p % Word = p
  BY <1>2, Widths, ModSmall
<1>4. mag \in Nat /\ Nearest(mag, p, Scale)
  BY <1>2, Pow10Nearest, Widths
<1>5. Money_ToBinary(m) = [value |-> Signed(mag, m < 0), flags |-> {}]
  BY <1>3 DEF Money_ToBinary, p
<1> HIDE DEF mag
<1>6. mag <= Top - 1
  <2>1. mag * Scale \in Nat /\ mag * 1 <= mag * Scale
    BY <1>4, Widths, MulMono
  <2>2. p \in Int /\ mag * Scale - p \in Int
    BY <1>2, <2>1
  <2>3. mag * Scale - p <= Mag(mag * Scale - p)
    BY <2>2 DEF Mag
  <2>4. 2 * Mag(mag * Scale - p) <= Scale
    BY <1>4 DEF Nearest
  <2>5. Mag(mag * Scale - p) \in Nat
    BY <2>2, MagType
  <2> QED BY <1>2, <1>4, <2>1, <2>3, <2>4, <2>5, Widths
<1>7. Nearest(Signed(mag, m < 0), m * Limb, Scale)
  <2>1. CASE m < 0
    <3>1. m * Limb = -p
      <4>1. Mag(m) = -m
        BY <1>1, <2>1 DEF Mag
      <4>2. (-m) * Limb = -(m * Limb) /\ m * Limb \in Int
        BY <1>1, Widths, SMT
      <4> QED BY <4>1, <4>2 DEF p
    <3>2. Nearest(-mag, -p, Scale)
      BY <1>2, <1>4, NearestNegated, Widths
    <3> QED BY <2>1, <3>1, <3>2 DEF Signed
  <2>2. CASE ~(m < 0)
    BY <1>1, <1>4, <2>2 DEF Signed, Mag, p
  <2> QED BY <2>1, <2>2
<1>8. Signed(mag, m < 0) \in 1 - Top .. Top - 1
  BY <1>4, <1>6, Widths DEF Signed
<1> QED BY <1>5, <1>7, <1>8

(* The 192 bits above the lowest limb of a product.                         *)
LEMMA HighPart ==
  ASSUME NEW x \in 0 .. Top - 1, NEW y \in 0 .. Top - 1,
         NEW q, q = ((Umul(x, y).hi * Limb) % Word) + Umul(x, y).lo \div Limb
  PROVE  /\ q \in Nat /\ Umul(x, y).lo % Limb \in 0 .. Limb - 1
         /\ Umul(x, y).hi \div Limb = 0 =>
              x * y = q * Limb + (Umul(x, y).lo % Limb)
         /\ Umul(x, y).hi \div Limb # 0 => x * y >= Limb * Word
<1> DEFINE h == Umul(x, y).hi
           l == Umul(x, y).lo
<1>1. h \in Nat /\ l \in 0 .. Word - 1 /\ x * y = h * Word + l
  BY UmulExact
<1>q. q = ((h * Limb) % Word) + l \div Limb
  OBVIOUS
<1> HIDE DEF h, l
<1> USE Widths
<1>2. l \div Limb \in Nat /\ l % Limb \in 0 .. Limb - 1
      /\ l = (l \div Limb) * Limb + (l % Limb)
  <2>1. l \in Nat /\ Limb \in Nat /\ Limb > 0
    BY <1>1
  <2> QED BY ONLY <2>1, DivMod
<1>3. h \div Limb \in Nat /\ h % Limb \in 0 .. Limb - 1
      /\ h = (h \div Limb) * Limb + (h % Limb)
  <2>1. h \in Nat /\ Limb \in Nat /\ Limb > 0
    BY <1>1
  <2> QED BY ONLY <2>1, DivMod
<1>4. h * Limb \in Nat
  BY <1>1
<1>5. q \in Nat
  <2>1. (h * Limb) % Word \in Nat
    BY <1>4, DivMod
  <2> QED BY <1>q, <1>2, <2>1
<1>6. ASSUME h \div Limb = 0 PROVE x * y = q * Limb + (l % Limb)
  <2>1. h <= Limb - 1
    BY <1>3, <1>6
  <2>2. h * Limb < Word
    BY <1>1, <2>1, SMT
  <2>3. q = h * Limb + l \div Limb
    BY <1>4, <1>q, <2>2, ModSmall
  <2>4. q * Limb = (h * Limb) * Limb + (l \div Limb) * Limb
    BY ONLY <2>3, <1>2, <1>4, Distribute, Limb \in Nat, SMT
  <2>5. (h * Limb) * Limb = h * Word
    BY <1>1, SMT
  <2> QED BY <1>1, <1>2, <2>4, <2>5
<1>7. ASSUME h \div Limb # 0 PROVE x * y >= Limb * Word
  <2>1. h >= Limb
    <3> DEFINE k == h \div Limb
    <3>1. k \in Nat /\ 1 <= k /\ h = k * Limb + (h % Limb)
      BY <1>3, <1>7
    <3> HIDE DEF k
    <3>2. 1 * Limb <= k * Limb
      BY ONLY <3>1, Limb \in Nat, MulMono, SMT
    <3>3. k * Limb \in Nat /\ h % Limb \in Nat
      BY <3>1, <1>3
    <3> QED BY <3>1, <3>2, <3>3
  <2>2. Limb * Word <= h * Word
    BY <1>1, <2>1, MulMono
  <2> QED BY <1>1, <2>2
<1> QED BY <1>2, <1>5, <1>6, <1>7 DEF h, l

LEMMA FromBinaryExact ==
  ASSUME NEW b \in 1 - Top .. Top - 1
  PROVE  ExactAmount(Money_FromBinary(b), b * Scale, Limb)
<1> DEFINE p == Umul(Mag(b), Scale)
           f == ((p.hi * Limb) % Word) + p.lo \div Limb
           q == RoundHalfEven(f, p.lo % Limb, Limb)
           n == Mag(b) * Scale
           over == p.hi \div Limb # 0 \/ q > Lim
<1>1. b \in Int /\ Mag(b) \in 0 .. Top - 1 /\ Scale \in 0 .. Top - 1
  BY Widths DEF Mag
<1>2. /\ f \in Nat /\ p.lo % Limb \in 0 .. Limb - 1
      /\ p.hi \div Limb = 0 => n = f * Limb + (p.lo % Limb)
      /\ p.hi \div Limb # 0 => n >= Limb * Word
  BY <1>1, HighPart
<1>3. n \in Nat /\ n <= (Top - 1) * Limb /\ (Top - 1) * Limb < Limb * Word
  <2>1. n \in Nat /\ n <= (Top - 1) * Limb
    BY <1>1, Widths, MulMono
  <2>2. (Top - 1) * Limb <= Word * Limb - 1
    BY Widths, SMT
  <2> QED BY <2>1, <2>2, Widths, SMT
<1> HIDE DEF f, p, n
<1>4. ~(p.hi \div Limb # 0)
  BY <1>2, <1>3, Widths
<1>5. f <= Word - 2
  <2>1. f * Limb <= (Top - 1) * Limb
    BY <1>2, <1>3, <1>4, Widths
  <2>2. f * Limb < Top * Limb
    BY <2>1, <1>2, Widths, SMT
  <2>3. f < Top
    BY <1>2, <2>2, MulLess, Widths
  <2> QED BY <1>2, <2>3, Widths
<1>6. q \in Nat /\ Nearest(q, n, Limb)
  BY <1>2, <1>3, <1>4, <1>5, RoundNearest, Widths
<1> HIDE DEF q
<1>7. over => 2 * n >= (2 * Lim + 1) * Limb
  BY <1>3, <1>4, <1>6, BeyondLimit, Widths
<1>8. ~over => q <= Lim
  BY <1>6, Widths
<1> DEFINE val == b * Scale
           neg == b < 0
<1>9. Mag(val) = n /\ val \in Int /\ (val < 0 => neg) /\ (val > 0 => ~neg)
  <2>1. Scale \in Int /\ ~(Scale < 0) /\ Mag(Scale) = Scale
    BY Widths DEF Mag
  <2> QED BY <1>1, <2>1, SignOfProduct DEF n
<1>10. Money_FromBinary(b) = Result(q, b < 0, over)
  BY DEF Money_FromBinary, q, f, p
<1>11. over \in BOOLEAN /\ neg \in BOOLEAN /\ Limb \in Nat /\ Limb > 0
  BY Widths
<1> HIDE DEF over, val, neg
<1>12. (over => 2 * Mag(val) >= (2 * Lim + 1) * Limb)
       /\ (~over => Nearest(q, Mag(val), Limb) /\ q <= Lim)
  BY <1>6, <1>7, <1>8, <1>9
<1>13. ExactAmount(Result(q, neg, over), val, Limb)
  BY ONLY <1>6, <1>9, <1>11, <1>12, ResultExact
<1> QED BY <1>10, <1>13 DEF val, neg

(* An amount survives the seam there and back.                              *)
LEMMA SeamReturns ==
  ASSUME NEW m \in Closed, NEW v \in 1 - Top .. Top - 1, Nearest(v, m * Limb, Scale)
  PROVE  Money_FromBinary(v) = [value |-> m, flags |-> {}]
<1> DEFINE result == Money_FromBinary(v)
<1>1. ExactAmount(result, v * Scale, Limb)
  BY FromBinaryExact
<1>2. result = [value |-> result.value, flags |-> result.flags]
  BY DEF Money_FromBinary, Result, Signed
<1>3. m \in Int /\ Mag(m) <= Lim /\ v \in Int /\ v * Scale \in Int /\ m * Limb \in Int
  BY ClosedMag, Widths
<1>4. -Scale <= 2 * (v * Scale - m * Limb) /\ 2 * (v * Scale - m * Limb) <= Scale
  BY <1>3, Widths DEF Nearest, Mag
<1> HIDE DEF result
<1>5. CASE Nearest(result.value, v * Scale, Limb) /\ result.value \in Closed /\ result.flags = {}
  <2> DEFINE u == result.value
  <2>1. u \in Int /\ u * Limb \in Int
    BY <1>5, Widths DEF Closed
  <2> HIDE DEF u
  <2>2. -Limb <= 2 * (u * Limb - v * Scale) /\ 2 * (u * Limb - v * Scale) <= Limb
    BY <1>3, <1>5, <2>1, Widths DEF Nearest, Mag, u
  <2>3. -2 * Limb < 2 * (u * Limb - m * Limb) /\ 2 * (u * Limb - m * Limb) < 2 * Limb
    BY <1>3, <1>4, <2>1, <2>2, Widths
  <2>4. u * Limb < (m + 1) * Limb /\ m * Limb < (u + 1) * Limb
    BY <1>3, <2>1, <2>3, Widths, SMT
  <2>5. u < m + 1 /\ m < u + 1
    BY <1>3, <2>1, <2>4, MulLess, Widths
  <2>6. u = m
    BY <1>3, <2>1, <2>5
  <2> QED BY <1>2, <1>5, <2>6 DEF u, result
<1>6. CASE 2 * Mag(v * Scale) >= (2 * Lim + 1) * Limb
  <2>1. Mag(m * Limb) = Mag(m) * Limb
    <3>1. Mag(Limb) = Limb /\ Limb \in Int
      BY Widths DEF Mag
    <3> QED BY <1>3, <3>1, SignOfProduct
  <2>2. Mag(m) * Limb \in Nat /\ Mag(m) * Limb <= Lim * Limb
    BY <1>3, MagType, Widths, MulMono
  <2>3. 2 * Mag(v * Scale) <= 2 * Mag(m * Limb) + Scale
    BY <1>3, <1>4, Widths DEF Mag
  <2>4. (2 * Lim + 1) * Limb = 2 * (Lim * Limb) + Limb
    BY Widths, SMT
  <2>5. Mag(v * Scale) \in Nat /\ Lim * Limb \in Nat
    BY <1>3, MagType, Widths
  <2> QED BY <1>6, <2>1, <2>2, <2>3, <2>4, <2>5, Widths
<1> QED BY <1>1, <1>5, <1>6 DEF ExactAmount
-----------------------------------------------------------------------------
(* The binary core without its division.                                    *)
LEMMA SaturatedExact ==
  ASSUME NEW n \in Int, NEW d \in Nat, NEW mag \in Nat, NEW neg \in BOOLEAN,
         NEW over \in BOOLEAN,
         n < 0 => neg, n > 0 => ~neg, d > 0,
         over => Mag(n) >= Top * d,
         ~over => mag * d <= Mag(n) /\ Mag(n) < (mag + 1) * d /\ mag < Top
  PROVE  ExactBinary(Saturated(mag, neg, over).value, n, d)
<1>1. CASE over
  <2>1. Top * d > 0 /\ Top * d \in Nat
    <3>1. 1 * 1 <= Top * d /\ Top * d \in Nat
      BY Widths, MulMono
    <3> QED BY <3>1
  <2>2. n # 0
    <3>1. Mag(n) > 0
      BY <1>1, <2>1, MagType
    <3> QED BY <3>1 DEF Mag
  <2>3. neg = (n < 0)
    BY <2>2
  <2> QED BY <1>1, <2>3 DEF ExactBinary, Saturated
<1>2. CASE ~over
  <2> DEFINE v == Signed(mag, neg)
  <2>1. mag * d <= Mag(n) /\ Mag(n) < (mag + 1) * d /\ mag < Top
    BY <1>2
  <2>2. Mag(v) = mag
    BY DEF Signed, Mag
  <2>3. v # 0 => (v < 0) = (n < 0)
    <3>1. ASSUME v # 0 PROVE n # 0
      <4>1. mag > 0
        BY <3>1 DEF Signed
      <4>2. 1 * 1 <= mag * d /\ mag * d \in Nat
        BY <4>1, MulMono
      <4>3. Mag(n) > 0
        BY <2>1, <4>2, MagType
      <4> QED BY <4>3 DEF Mag
    <3> QED BY <3>1 DEF Signed
  <2>4. Saturated(mag, neg, over).value = v
    BY <1>2 DEF Saturated
  <2> HIDE DEF v
  <2> QED BY <2>1, <2>2, <2>3, <2>4 DEF ExactBinary, Cut
<1> QED BY <1>1, <1>2

LEMMA fp2_mul_Exact ==
  ASSUME NEW a \in 1 - Top .. Top - 1, NEW b \in 1 - Top .. Top - 1
  PROVE  ExactBinary(fp2_mul(a, b).value, a * b, Limb)
<1> DEFINE p == Umul(Mag(a), Mag(b))
           mag == ((p.hi * Limb) % Word) + p.lo \div Limb
           n == a * b
           neg == (a < 0) # (b < 0)
           over == p.hi \div Limb # 0 \/ mag \div Top # 0
<1>1. a \in Int /\ b \in Int /\ Mag(a) \in 0 .. Top - 1 /\ Mag(b) \in 0 .. Top - 1
  BY Widths DEF Mag
<1>2. Mag(n) = Mag(a) * Mag(b) /\ n \in Int /\ (n < 0 => neg) /\ (n > 0 => ~neg)
  BY <1>1, SignOfProduct
<1>3. /\ mag \in Nat /\ p.lo % Limb \in 0 .. Limb - 1
      /\ p.hi \div Limb = 0 => Mag(a) * Mag(b) = mag * Limb + (p.lo % Limb)
      /\ p.hi \div Limb # 0 => Mag(a) * Mag(b) >= Limb * Word
  BY <1>1, HighPart
<1>4. fp2_mul(a, b) = Saturated(mag, neg, over)
  BY DEF fp2_mul
<1>5. neg \in BOOLEAN /\ over \in BOOLEAN /\ Limb \in Nat /\ Limb > 0
  BY Widths
<1> HIDE DEF p, mag, n, neg
<1>6. Mag(n) \in Nat
  BY <1>2, MagType
<1>7. ASSUME over PROVE Mag(n) >= Top * Limb
  <2>1. CASE p.hi \div Limb # 0
    <3>1. Limb * Top <= Limb * Word /\ Limb * Top = Top * Limb
      BY Widths, MulMono, SMT
    <3> QED BY <1>2, <1>3, <1>6, <2>1, <3>1, Widths
  <2>2. CASE p.hi \div Limb = 0
    <3>1. mag >= Top
      <4> SUFFICES ASSUME mag < Top PROVE FALSE
        BY <1>3, Widths
      <4>1. mag \div Top = 0
        BY ONLY <1>3, mag < Top, Widths, ModSmall
      <4> QED BY <1>7, <2>2, <4>1
    <3>2. Top * Limb <= mag * Limb /\ mag * Limb \in Nat
      BY <1>3, <3>1, MulMono, Widths
    <3> QED BY <1>2, <1>3, <2>2, <3>2, Widths
  <2> QED BY <2>1, <2>2
<1>8. ASSUME ~over PROVE mag * Limb <= Mag(n) /\ Mag(n) < (mag + 1) * Limb /\ mag < Top
  <2>1. p.hi \div Limb = 0 /\ mag \div Top = 0
    BY <1>8
  <2>2. mag < Top
    <3>1. mag = (mag \div Top) * Top + (mag % Top) /\ mag % Top \in 0 .. Top - 1
      BY <1>3, DivMod, Widths
    <3> QED BY <2>1, <3>1, Widths
  <2>3. mag * Limb \in Nat /\ (mag + 1) * Limb = mag * Limb + Limb
    BY <1>3, Widths, SMT
  <2> QED BY <1>2, <1>3, <2>1, <2>2, <2>3, Widths
<1> HIDE DEF over
<1>9. ExactBinary(Saturated(mag, neg, over).value, n, Limb)
  BY ONLY <1>2, <1>3, <1>5, <1>7, <1>8, SaturatedExact
<1> QED BY <1>4, <1>9 DEF n

(* A sum and a difference: a sign that cannot be is how the code sees that  *)
(* the word has wrapped.                                                    *)
LEMMA fp2_addsat_Exact ==
  ASSUME NEW a \in 1 - Top .. Top - 1, NEW b \in 1 - Top .. Top - 1
  PROVE  LET v == fp2_addsat(a, b).value
         IN ExactBinary(v, a + b, 1) \/ (v = -Top /\ v = a + b)
<1>1. CASE a + b >= Top \/ a + b < -Top
  <2>1. fp2_addsat(a, b) = Saturated(0, a < 0, TRUE)
    <3> DEFINE val == Wrapped(a + b)
    <3>1. CASE a + b >= Top
      <4>1. val < 0 /\ ~(a < 0) /\ ~(b < 0)
        BY <3>1, Widths DEF Wrapped
      <4> HIDE DEF val
      <4>2. (a < 0) = (b < 0) /\ (a < 0) # (val < 0)
        BY <4>1
      <4> QED BY <4>2, Zenon DEF fp2_addsat, val
    <3>2. CASE a + b < -Top
      <4>1. ~(val < 0) /\ a < 0 /\ b < 0
        BY <3>2, Widths DEF Wrapped
      <4> HIDE DEF val
      <4>2. (a < 0) = (b < 0) /\ (a < 0) # (val < 0)
        BY <4>1
      <4> QED BY <4>2, Zenon DEF fp2_addsat, val
    <3> QED BY <1>1, <3>1, <3>2
  <2>2. (a < 0) = (a + b < 0) /\ Mag(a + b) >= Top * 1
    BY <1>1, Widths DEF Mag
  <2> QED BY <2>1, <2>2 DEF Saturated, ExactBinary
<1>2. CASE -Top <= a + b /\ a + b < Top
  <2>1. fp2_addsat(a, b).value = a + b
    <3> DEFINE val == Wrapped(a + b)
    <3>1. val = a + b
      BY <1>2, Widths DEF Wrapped
    <3>2. ~((a < 0) = (b < 0) /\ (a < 0) # (val < 0))
      BY <3>1, Widths
    <3> HIDE DEF val
    <3>3. fp2_addsat(a, b) = [value |-> val, flags |-> {}]
      BY <3>2 DEF fp2_addsat, val
    <3> QED BY <3>1, <3>3
  <2>2. a + b # -Top => Cut(a + b, a + b, 1) /\ Mag(a + b) < Top
    BY <1>2, Widths DEF Cut, Mag
  <2> QED BY <2>1, <2>2 DEF ExactBinary
<1> QED BY <1>1, <1>2, Widths

LEMMA fp2_sub_Exact ==
  ASSUME NEW a \in 1 - Top .. Top - 1, NEW b \in 1 - Top .. Top - 1
  PROVE  LET v == fp2_sub(a, b).value
         IN ExactBinary(v, a - b, 1) \/ (v = -Top /\ v = a - b)
<1>1. CASE a - b >= Top \/ a - b < -Top
  <2>1. fp2_sub(a, b) = Saturated(0, a < 0, TRUE)
    <3> DEFINE val == Wrapped(a - b)
    <3>1. CASE a - b >= Top
      <4>1. val < 0 /\ ~(a < 0) /\ b < 0
        BY <3>1, Widths DEF Wrapped
      <4> HIDE DEF val
      <4> QED BY <4>1 DEF fp2_sub, val
    <3>2. CASE a - b < -Top
      <4>1. ~(val < 0) /\ a < 0 /\ ~(b < 0)
        BY <3>2, Widths DEF Wrapped
      <4> HIDE DEF val
      <4> QED BY <4>1 DEF fp2_sub, val
    <3> QED BY <1>1, <3>1, <3>2
  <2>2. (a < 0) = (a - b < 0) /\ Mag(a - b) >= Top * 1
    BY <1>1, Widths DEF Mag
  <2> QED BY <2>1, <2>2 DEF Saturated, ExactBinary
<1>2. CASE -Top <= a - b /\ a - b < Top
  <2>1. fp2_sub(a, b).value = a - b
    <3> DEFINE val == Wrapped(a - b)
    <3>1. val = a - b
      BY <1>2, Widths DEF Wrapped
    <3>2. ~((a < 0) # (b < 0) /\ (a < 0) # (val < 0))
      BY <3>1, Widths
    <3> HIDE DEF val
    <3>3. fp2_sub(a, b) = [value |-> val, flags |-> {}]
      BY <3>2 DEF fp2_sub, val
    <3> QED BY <3>1, <3>3
  <2>2. a - b # -Top => Cut(a - b, a - b, 1) /\ Mag(a - b) < Top
    BY <1>2, Widths DEF Cut, Mag
  <2> QED BY <2>1, <2>2 DEF ExactBinary
<1> QED BY <1>1, <1>2, Widths
-----------------------------------------------------------------------------
(* The long division.  After t trips the dividend times 2^t is the quotient *)
(* so far times the divisor, with what remains; unless the high word is no  *)
(* less than the divisor: then the first bit of the quotient is set, and    *)
(* stays where a saturation looks for it.                                   *)
High == Dividend(call.op, call.a).hi
Low == Dividend(call.op, call.a).lo
Divisor == Mag(call.b)

Divides(op, a, b) ==
  \/ op = "Money_Div" /\ a \in Closed /\ b \in Closed
  \/ op = "Money_QuantizeToStep" /\ a \in Closed /\ b \in Closed /\ b > 0
  \/ op = "fp2_div" /\ a \in Binaries /\ b \in Binaries

DivisionInv ==
  /\ trip \in 0 .. Bits /\ quo \in 0 .. Pow2[trip] - 1
  /\ rem_hi \in 0 .. Word - 1 /\ rem_lo \in 0 .. Word - 1
  /\ High < Divisor =>
       /\ rem_hi < Divisor
       /\ (High * Word + Low) * Pow2[trip] = (quo * Divisor) * Word + rem_hi * Word + rem_lo
  /\ High >= Divisor =>
       IF trip = 0 THEN rem_hi = High ELSE quo >= Pow2[trip - 1]

LEMMA Powers ==
  /\ Pow2[0] = 1 /\ Pow2[Bits] = Word /\ Pow2[Bits - 1] = Top
  /\ \A i \in 0 .. Bits : Pow2[i] \in 1 .. Word
  /\ \A i \in 0 .. Bits - 1 : Pow2[i + 1] = 2 * Pow2[i]
<1>1. /\ Pow2[0] = 1 /\ Pow2[Bits] = Word /\ \A i \in 0 .. Bits : Pow2[i] \in 1 .. Word
      /\ \A i \in 0 .. Bits - 1 : Pow2[i + 1] = 2 * Pow2[i]
  BY MoneyAssumption
<1>2. Pow2[(Bits - 1) + 1] = 2 * Pow2[Bits - 1] /\ (Bits - 1) + 1 = Bits
  BY <1>1, Widths
<1>3. Pow2[Bits - 1] \in 1 .. Word
  BY <1>1, Widths
<1> QED BY <1>1, <1>2, <1>3, Widths

LEMMA DividendOK ==
  ASSUME NEW op, NEW a, NEW b, Divides(op, a, b)
  PROVE  LET high == Dividend(op, a).hi
             low == Dividend(op, a).lo
         IN /\ a \in 1 - Top .. Top - 1 /\ b \in 1 - Top .. Top - 1
            /\ high \in 0 .. Top - 1 /\ low \in 0 .. Word - 1
            /\ Mag(b) \in 0 .. Top - 1 /\ (b # 0 => Mag(b) > 0)
            /\ op = "Money_Div" => high = 0 /\ low = Mag(a) * Scale /\ low < Top
            /\ op = "Money_QuantizeToStep" => high = 0 /\ low = Mag(a)
            /\ op = "fp2_div" => high * Word + low = Mag(a) * Limb
<1> DEFINE m == Mag(a)
           high == Dividend(op, a).hi
           low == Dividend(op, a).lo
<1>1. a \in 1 - Top .. Top - 1 /\ b \in 1 - Top .. Top - 1
  <2>1. Binaries \subseteq 1 - Top .. Top - 1
    BY MoneyAssumption
  <2>2. Closed \subseteq 1 - Top .. Top - 1
    BY Widths DEF Closed
  <2> QED BY ONLY <2>1, <2>2, Divides(op, a, b) DEF Divides
<1>2. m \in 0 .. Top - 1 /\ Mag(b) \in 0 .. Top - 1 /\ (b # 0 => Mag(b) > 0)
  BY <1>1, Widths DEF Mag
<1>3. ASSUME op = "Money_Div"
      PROVE  high = 0 /\ low = m * Scale /\ low \in 0 .. Top - 1
  <2>1. m \in Nat /\ m <= Lim
    BY <1>3, ClosedMag DEF Divides
  <2> HIDE DEF m
  <2>2. m * Scale \in Nat /\ m * Scale <= Lim * Limb
    BY <2>1, MulMono, Widths
  <2>3. Lim * Limb < Top
    BY Widths, SMT
  <2>4. Umul(m, Scale).hi = 0 /\ Umul(m, Scale).lo = m * Scale
    BY <1>2, <2>2, <2>3, UmulSmall, Widths
  <2> QED BY <1>3, <2>2, <2>3, <2>4, Widths DEF Dividend, m
<1>4. ASSUME op = "Money_QuantizeToStep"
      PROVE  high = 0 /\ low = m
  BY <1>4 DEF Dividend
<1>5. ASSUME op = "fp2_div"
      PROVE  /\ high \in 0 .. Top - 1 /\ low \in 0 .. Word - 1
             /\ high * Word + low = m * Limb
  <2> DEFINE h == m \div Limb
             l == m % Limb
  <2>1. high = h /\ low = (m * Limb) % Word
    BY <1>5 DEF Dividend
  <2> HIDE DEF m
  <2>2. h \in Nat /\ l \in 0 .. Limb - 1 /\ m = h * Limb + l /\ m \in Nat /\ m < Top
    <3>1. m \in Nat /\ m < Top /\ Limb \in Nat /\ Limb > 0
      BY <1>2, Widths
    <3> QED BY ONLY <3>1, DivMod
  <2> HIDE DEF h, l
  <2>3. l * Limb \in Nat /\ l * Limb <= (Limb - 1) * Limb /\ (Limb - 1) * Limb <= Word - 1
    BY <2>2, MulMono, Widths, SMT
  <2>4. m * Limb = h * Word + l * Limb /\ m * Limb \in Nat
    BY <2>2, Widths, SMT
  <2>5. (m * Limb) % Word = l * Limb
    <3>1. m * Limb \in Nat /\ Word \in Nat /\ Word > 0 /\ h \in Nat /\ l * Limb \in 0 .. Word - 1
      BY <2>2, <2>3, <2>4, Widths
    <3> QED BY ONLY <3>1, <2>4, DivUnique
  <2>6. h <= m
    <3>1. h * 1 <= h * Limb /\ h * Limb \in Nat
      BY <2>2, MulMono, Widths
    <3> QED BY <2>2, <3>1
  <2> QED BY <2>1, <2>2, <2>3, <2>4, <2>5, <2>6, Widths DEF m
<1> QED BY <1>1, <1>2, <1>3, <1>4, <1>5, Widths DEF Divides

(* One trip.                                                                *)
LEMMA TripKeepsDivision ==
  ASSUME Divides(call.op, call.a, call.b), DivisionInv, Trip
  PROVE  DivisionInv'
<1> DEFINE carry == rem_lo \div Top
           shifted == (2 * rem_hi + carry) % Word
           ge == shifted >= Divisor
           bit == IF ge THEN 1 ELSE 0
           hi2 == IF ge THEN shifted - Divisor ELSE shifted
           lo2 == (2 * rem_lo) % Word
           pow == Pow2[trip]
           dividend == High * Word + Low
<1>1. /\ trip \in 0 .. Bits - 1 /\ trip' = trip + 1 /\ rem_hi' = hi2 /\ rem_lo' = lo2
      /\ quo' = (2 * quo + bit) % Word /\ call' = call
  BY Widths DEF Trip, DivisionInv, Divisor
<1>2. /\ High' = High /\ Low' = Low /\ Divisor' = Divisor
      /\ High \in 0 .. Top - 1 /\ Low \in 0 .. Word - 1 /\ Divisor \in 0 .. Top - 1
  BY <1>1, DividendOK DEF High, Low, Divisor
<1>3. pow \in Nat /\ pow >= 1 /\ Pow2[trip + 1] = 2 * pow /\ 2 * pow <= Word
  BY <1>1, Powers, Widths
<1>4. quo \in Nat /\ quo < pow /\ rem_hi \in 0 .. Word - 1 /\ rem_lo \in 0 .. Word - 1
  BY <1>3 DEF DivisionInv
<1>5. carry \in {0, 1} /\ lo2 \in 0 .. Word - 1 /\ 2 * rem_lo = carry * Word + lo2
  <2>1. CASE rem_lo < Top
    <3>1. carry = 0
      BY <1>4, <2>1, ModSmall, Widths
    <3>2. lo2 = 2 * rem_lo
      <4>1. 2 * rem_lo \in Nat /\ Word \in Nat /\ 2 * rem_lo < Word
        BY <1>4, <2>1, Widths
      <4> QED BY ONLY <4>1, ModSmall
    <3> HIDE DEF carry, lo2
    <3> QED BY <1>4, <2>1, <3>1, <3>2, Widths
  <2>2. CASE rem_lo >= Top
    <3>1. rem_lo = 1 * Top + (rem_lo - Top) /\ rem_lo - Top \in 0 .. Top - 1
      BY <1>4, <2>2, Widths
    <3>2. carry = 1
      BY <1>4, <3>1, DivUnique, Widths
    <3>3. 2 * rem_lo = 1 * Word + (2 * rem_lo - Word) /\ 2 * rem_lo - Word \in 0 .. Word - 1
      BY <1>4, <2>2, Widths
    <3>4. lo2 = 2 * rem_lo - Word
      BY <1>4, <3>3, DivUnique, Widths
    <3> HIDE DEF carry, lo2
    <3> QED BY <1>4, <3>2, <3>3, <3>4, Widths
  <2> QED BY <1>4, <2>1, <2>2, Widths
<1> HIDE DEF carry, lo2
<1>6. bit \in {0, 1} /\ 2 * quo + bit \in 0 .. 2 * pow - 1 /\ (2 * quo + bit) % Word = 2 * quo + bit
  <2>1. bit \in {0, 1}
    OBVIOUS
  <2> HIDE DEF bit
  <2>2. 2 * quo + bit \in Nat /\ 2 * quo + bit < 2 * pow
    BY <2>1, <1>3, <1>4
  <2>3. (2 * quo + bit) % Word = 2 * quo + bit
    <3>1. 2 * quo + bit \in Nat /\ Word \in Nat /\ 2 * quo + bit < Word
      BY <2>2, <1>3, Widths
    <3> QED BY ONLY <3>1, ModSmall
  <2> QED BY <2>1, <2>2, <2>3, <1>3
<1>7. shifted \in 0 .. Word - 1 /\ hi2 \in 0 .. Word - 1
  <2>1. shifted \in 0 .. Word - 1
    BY <1>4, <1>5, DivMod, Widths
  <2> HIDE DEF shifted
  <2> QED BY <2>1, <1>2, Widths
<1>8. rem_hi < Top => shifted = 2 * rem_hi + carry
  BY SMTT(30), <1>4, <1>5, ModSmall, Widths
<1> HIDE DEF shifted
<1>9. ASSUME High < Divisor
      PROVE  hi2 < Divisor /\ dividend * (2 * pow) =
               ((2 * quo + bit) * Divisor) * Word + hi2 * Word + lo2
  <2>1. /\ rem_hi < Divisor
        /\ dividend * pow = (quo * Divisor) * Word + rem_hi * Word + rem_lo
    BY <1>9 DEF DivisionInv
  <2>2. shifted = 2 * rem_hi + carry
    BY <1>2, <1>4, <1>8, <2>1, Widths
  <2>3. hi2 < Divisor /\ hi2 = shifted - bit * Divisor
    BY <1>2, <1>4, <1>5, <2>1, <2>2
  <2> HIDE DEF hi2, bit, dividend, pow
  <2>4. (2 * quo + bit) * Divisor + hi2 = 2 * (quo * Divisor) + 2 * rem_hi + carry
    BY <1>2, <1>4, <1>5, <1>6, <2>2, <2>3, SMT
  <2> DEFINE x == (2 * quo + bit) * Divisor
             y == quo * Divisor
  <2>5. x \in Int /\ y \in Int /\ hi2 \in Int /\ dividend \in Int /\ pow \in Int
    BY <1>2, <1>3, <1>4, <1>6, <1>7, Widths DEF dividend
  <2>6. x + hi2 = 2 * y + 2 * rem_hi + carry
    BY <2>4
  <2> HIDE DEF x, y
  <2>7. x * Word + hi2 * Word = 2 * (y * Word) + 2 * (rem_hi * Word) + carry * Word
    <3>1. (x + hi2) * Word = x * Word + hi2 * Word
      BY ONLY <2>5, Widths, Distribute
    <3>2. (2 * y + 2 * rem_hi + carry) * Word = 2 * (y * Word) + 2 * (rem_hi * Word) + carry * Word
      <4>1. Word \in Int /\ y \in Int /\ rem_hi \in Int /\ carry \in Int
        BY <2>5, <1>4, <1>5, Widths
      <4> QED BY ONLY <4>1, SMT
    <3> QED BY <2>6, <3>1, <3>2
  <2>8. dividend * (2 * pow) = 2 * (dividend * pow)
    BY <2>5, SMT
  <2>9. dividend * pow = y * Word + rem_hi * Word + rem_lo
    BY <2>1 DEF y
  <2>10. y * Word \in Int /\ rem_hi * Word \in Int /\ x * Word \in Int /\ hi2 * Word \in Int
    BY <2>5, <1>4, Widths
  <2>11. dividend * (2 * pow) = x * Word + hi2 * Word + lo2
    BY <1>4, <1>5, <2>7, <2>8, <2>9, <2>10, Widths
  <2> QED BY <2>3, <2>11 DEF x
<1>10. ASSUME High >= Divisor PROVE 2 * quo + bit >= pow
  <2>1. CASE trip = 0
    <3>1. rem_hi = High /\ pow = 1
      BY <1>10, <2>1, Powers DEF DivisionInv
    <3>2. shifted = 2 * rem_hi + carry
      <4>1. rem_hi < Top
        BY ONLY <1>2, <3>1, Widths
      <4> QED BY ONLY <1>8, <4>1
    <3>3. bit = 1
      BY <1>2, <1>4, <1>5, <1>10, <3>1, <3>2
    <3> QED BY <1>4, <3>1, <3>3
  <2>2. CASE trip # 0
    <3>1. quo >= Pow2[trip - 1]
      BY <1>10, <2>2 DEF DivisionInv
    <3>2. Pow2[(trip - 1) + 1] = 2 * Pow2[trip - 1] /\ Pow2[trip - 1] \in Nat
      BY <1>1, <2>2, Powers, Widths
    <3>3. (trip - 1) + 1 = trip
      BY <1>1, Widths
    <3> QED BY <1>4, <1>6, <3>1, <3>2, <3>3
  <2> QED BY <2>1, <2>2
<1> HIDE DEF hi2, bit
<1>11. trip' \in 0 .. Bits /\ trip' # 0 /\ Pow2[trip'] = 2 * pow /\ Pow2[trip' - 1] = pow
  <2>1. trip' - 1 = trip
    BY <1>1, Widths
  <2> QED BY <1>1, <1>3, <2>1, Widths
<1> HIDE DEF pow
<1>12. quo' = 2 * quo + bit
  BY <1>1, <1>6
<1> QED BY <1>1, <1>2, <1>3, <1>5, <1>6, <1>7, <1>9, <1>10, <1>11, <1>12 DEF DivisionInv
(* After the last trip.                                                     *)
LEMMA DivisionDone ==
  ASSUME Divides(call.op, call.a, call.b), DivisionInv, trip = Bits
  PROVE  /\ quo \in 0 .. Word - 1
         /\ High < Divisor =>
              /\ rem_hi \in 0 .. Divisor - 1
              /\ High * Word + Low = quo * Divisor + rem_hi
         /\ High >= Divisor => quo >= Top
<1> DEFINE dividend == High * Word + Low
           q == quo * Divisor + rem_hi
<1>1. Pow2[trip] = Word /\ Pow2[trip - 1] = Top /\ trip # 0
  BY Powers, Widths
<1>2. /\ High \in 0 .. Top - 1 /\ Low \in 0 .. Word - 1 /\ Divisor \in 0 .. Top - 1
  BY DividendOK DEF High, Low, Divisor
<1>3. quo \in 0 .. Word - 1 /\ rem_hi \in 0 .. Word - 1 /\ rem_lo \in 0 .. Word - 1
  BY <1>1, Widths DEF DivisionInv
<1>4. ASSUME High < Divisor
      PROVE  rem_hi \in 0 .. Divisor - 1 /\ dividend = q
  <2>1. /\ rem_hi < Divisor
        /\ dividend * Word = (quo * Divisor) * Word + rem_hi * Word + rem_lo
    BY <1>1, <1>4 DEF DivisionInv
  <2>2. quo * Divisor \in Nat /\ High * Word \in Nat /\ Word \in Nat /\ Word > 0
    BY <1>2, <1>3, Widths, MulMono
  <2>3. q \in Nat /\ dividend \in Nat
    BY <1>2, <1>3, <2>2
  <2>4. q * Word = (quo * Divisor) * Word + rem_hi * Word
    BY <1>3, <2>2, Distribute
  <2> HIDE DEF q, dividend
  <2>5. dividend * Word \in Nat
    BY <2>2, <2>3, MulMono
  <2>6. dividend * Word = q * Word + rem_lo /\ dividend * Word = dividend * Word + 0
    BY <2>1, <2>4, <2>5
  <2>7. (dividend * Word) \div Word = q
    BY ONLY <1>3, <2>2, <2>3, <2>5, <2>6, DivUnique
  <2>8. (dividend * Word) \div Word = dividend
    <3>1. 0 \in 0 .. Word - 1
      BY <2>2
    <3> QED BY ONLY <3>1, <2>2, <2>3, <2>5, <2>6, DivUnique
  <2>9. rem_hi \in 0 .. Divisor - 1
    BY ONLY <1>2, <1>3, <2>1
  <2> QED BY ONLY <2>7, <2>8, <2>9
<1>5. High >= Divisor => quo >= Top
  BY <1>1 DEF DivisionInv
<1> QED BY <1>3, <1>4, <1>5

LEMMA TowardsSign ==
  ASSUME NEW a \in Int, NEW b \in Int, NEW val \in Nat, b # 0
  PROVE  LET n == Towards(a * val, b)
         IN /\ n \in Int /\ Mag(n) = Mag(a) * val
            /\ n < 0 => (a < 0) # (b < 0)
            /\ n > 0 => ~((a < 0) # (b < 0))
<1>1. /\ Mag(a * val) = Mag(a) * val /\ a * val \in Int
      /\ a * val < 0 => a < 0
      /\ a * val > 0 => ~(a < 0)
  BY SignOfProduct DEF Mag
<1> QED BY <1>1, MagType DEF Towards

LEMMA Money_Div_Exact ==
  ASSUME NEW a \in Closed, NEW b \in Closed, b # 0, NEW q \in Nat,
         NEW r \in 0 .. Mag(b) - 1,
         Mag(a) * Scale = q * Mag(b) + r, Mag(a) * Scale < Top
  PROVE  ExactAmount(Money_Div(a, b, q, r), Towards(a * Scale, b), Mag(b))
<1> DEFINE d == Mag(b)
           p == Mag(a) * Scale
           n == Towards(a * Scale, b)
           neg == (a < 0) # (b < 0)
           mag == RoundHalfEven(q, r, d)
           over == mag > Lim
<1>1. a \in Int /\ b \in Int /\ Mag(a) \in Nat /\ d \in Nat /\ d > 0
  <2>1. d > 0
    BY Widths DEF Closed, Mag
  <2> QED BY <2>1, ClosedMag
<1>2. p \in Nat /\ p = q * d + r /\ p < Top /\ r \in 0 .. d - 1
  BY <1>1, Widths, MulMono
<1>3. Mag(n) = p /\ n \in Int /\ (n < 0 => neg) /\ (n > 0 => ~neg)
  BY <1>1, Widths, TowardsSign
<1>4. Money_Div(a, b, q, r) = Result(mag, neg, over)
  BY DEF Money_Div, Result
<1>5. neg \in BOOLEAN /\ over \in BOOLEAN
  OBVIOUS
<1> HIDE DEF d, p, n, neg, mag
<1>6. q \in 0 .. Word - 2
  <2>1. q * 1 <= q * d /\ q * d \in Nat
    BY ONLY <1>1, q \in Nat, MulMono, SMT
  <2> QED BY <1>2, <2>1, Widths
<1>7. mag \in Nat /\ Nearest(mag, p, d)
  BY ONLY <1>1, <1>2, <1>6, RoundNearest DEF mag
<1>8. over => 2 * Mag(n) >= (2 * Lim + 1) * d
  BY <1>1, <1>2, <1>3, <1>7, BeyondLimit
<1>9. ~over => Nearest(mag, Mag(n), d) /\ mag <= Lim
  BY <1>3, <1>7, Widths
<1> HIDE DEF over
<1>10. ExactAmount(Result(mag, neg, over), n, d)
  BY ONLY <1>1, <1>3, <1>5, <1>7, <1>8, <1>9, ResultExact
<1> QED BY <1>4, <1>10 DEF n, d

LEMMA Quantize_Exact ==
  ASSUME NEW a \in Closed, NEW b \in Closed, b > 0, NEW q \in Nat, NEW r \in 0 .. b - 1,
         Mag(a) = q * b + r
  PROVE  \E n \in Closed : /\ Signed((q * b) % Word, a < 0) = n * b
                           /\ Cut(n, a, b)
<1> DEFINE n == Signed(q, a < 0)
           p == q * b
<1>1. a \in Int /\ b \in Nat /\ Mag(a) \in Nat /\ Mag(a) <= Lim
  BY ClosedMag, Widths DEF Closed
<1>2. p \in Nat /\ (q + 1) * b = p + b
  BY <1>1, MulMono, Distribute
<1>3. q <= Mag(a)
  <2>1. q * 1 <= q * b
    BY <1>1, MulMono
  <2> QED BY <1>1, <1>2, <2>1
<1>4. n \in Closed /\ Mag(n) = q
  BY <1>1, <1>3, Widths DEF Closed, Signed, Mag
<1>5. n * b = Signed(p, a < 0)
  <2>1. (-q) * b = -(q * b)
    BY <1>1, SMT
  <2> QED BY <2>1 DEF Signed
<1>6. p % Word = p
  <2>1. p \in Nat /\ Word \in Nat /\ p < Word
    BY <1>1, <1>2, Widths
  <2> QED BY ONLY <2>1, ModSmall
<1>7. n # 0 => (n < 0) = (a < 0)
  BY DEF Signed
<1> HIDE DEF n
<1>8. Cut(n, a, b)
  BY <1>1, <1>2, <1>4, <1>7 DEF Cut
<1> QED BY <1>4, <1>5, <1>6, <1>8

LEMMA fp2_div_Exact ==
  ASSUME NEW a \in 1 - Top .. Top - 1, NEW b \in 1 - Top .. Top - 1, b # 0,
         NEW q \in 0 .. Word - 1,
         q < Top => \E r \in 0 .. Mag(b) - 1 : Mag(a) * Limb = q * Mag(b) + r,
         q >= Top => Mag(a) * Limb >= Top * Mag(b)
  PROVE  ExactBinary(Saturated(q, (a < 0) # (b < 0), q \div Top # 0).value,
                     Towards(a * Limb, b), Mag(b))
<1> DEFINE d == Mag(b)
           n == Towards(a * Limb, b)
           neg == (a < 0) # (b < 0)
           over == q \div Top # 0
<1>1. a \in Int /\ b \in Int /\ d \in Nat /\ d > 0 /\ q \in Nat
  BY Widths DEF Mag
<1>2. Mag(n) = Mag(a) * Limb /\ n \in Int /\ (n < 0 => neg) /\ (n > 0 => ~neg)
  BY <1>1, Widths, TowardsSign
<1>3. over = (q >= Top)
  <2>1. CASE q < Top
    BY ONLY <1>1, <2>1, ModSmall, Widths
  <2>2. CASE q >= Top
    <3>1. q = 1 * Top + (q - Top) /\ q - Top \in 0 .. Top - 1
      BY <1>1, <2>2, Widths
    <3>2. q \div Top = 1
      BY ONLY <1>1, <3>1, DivUnique, Widths
    <3> QED BY <2>2, <3>2
  <2> QED BY <1>1, <2>1, <2>2, Widths
<1>4. neg \in BOOLEAN /\ over \in BOOLEAN
  OBVIOUS
<1>5. over => Mag(n) >= Top * d
  BY <1>2, <1>3
<1>6. ~over => q * d <= Mag(n) /\ Mag(n) < (q + 1) * d /\ q < Top
  <2> SUFFICES ASSUME ~over PROVE q * d <= Mag(n) /\ Mag(n) < (q + 1) * d /\ q < Top
    OBVIOUS
  <2>1. q < Top
    BY <1>1, <1>3, Widths
  <2>2. PICK r \in 0 .. d - 1 : Mag(n) = q * d + r
    BY <1>2, <2>1
  <2>3. q * d \in Nat /\ (q + 1) * d = q * d + d
    BY <1>1, MulMono, Distribute
  <2> QED BY <1>1, <2>1, <2>2, <2>3
<1> HIDE DEF d, n, neg, over
<1>7. ExactBinary(Saturated(q, neg, over).value, n, d)
  BY ONLY <1>1, <1>2, <1>4, <1>5, <1>6, SaturatedExact
<1> QED BY <1>7 DEF d, n, neg, over
-----------------------------------------------------------------------------
(* The invariant: a division under way keeps its equation, and a result     *)
(* that is out keeps its promise.                                           *)
MoneyInv ==
  /\ call = [op |-> call.op, a |-> call.a, b |-> call.b, at |-> call.at]
  /\ call.at # "done" => flags = {}
  /\ call.at = "divides" => Divides(call.op, call.a, call.b) /\ DivisionInv
  /\ MoneyExact /\ BinaryExact /\ SeamRoundTrips

(* What a result must be for the call it answers.                           *)
Promised(op, a, b, result) ==
  /\ result = [value |-> result.value, flags |-> result.flags]
  /\ MoneyPromise(op, a, b, result) /\ BinaryPromise(op, a, b, result.value)
  /\ op = "Money_ToBinary" =>
       Money_FromBinary(result.value) = [value |-> a, flags |-> {}]

LEMMA DirectPromised ==
  ASSUME NEW op, NEW a, NEW b,
         \/ op \in {"Money_Mul", "Money_Add", "Money_Sub"} /\ a \in Closed /\ b \in Closed
         \/ op = "Money_QuantizeToStep" /\ a \in Closed /\ b \in Closed /\ ~(b > 0)
         \/ op \in {"fp2_mul", "fp2_addsat", "fp2_sub"}
              /\ a \in 1 - Top .. Top - 1 /\ b \in 1 - Top .. Top - 1
         \/ op = "Money_ToBinary" /\ a \in Closed
         \/ op = "Money_FromBinary" /\ a \in 1 - Top .. Top - 1
  PROVE  Promised(op, a, b, Direct(op, a, b))
<1>1. CASE op = "Money_Mul" /\ a \in Closed /\ b \in Closed
  <2>1. ExactAmount(Money_Mul(a, b), a * b, Scale)
    BY <1>1, Money_Mul_Exact
  <2>2. Money_Mul(a, b) = [value |-> Money_Mul(a, b).value, flags |-> Money_Mul(a, b).flags]
    BY DEF Money_Mul, Result
  <2> QED BY <1>1, <2>1, <2>2 DEF Direct, Promised, MoneyPromise, BinaryPromise
<1>2. CASE op \in {"Money_Add", "Money_Sub"} /\ a \in Closed /\ b \in Closed
  <2>1. /\ ExactAmount(Money_Add(a, b), a + b, 1)
        /\ ExactAmount(Money_Add(a, -b), a - b, 1)
    BY <1>2, Money_Add_Exact
  <2>2. \A x, y : Money_Add(x, y) =
          [value |-> Money_Add(x, y).value, flags |-> Money_Add(x, y).flags]
    BY DEF Money_Add, Result
  <2>a. CASE op = "Money_Add"
    <3>1. Direct(op, a, b) = Money_Add(a, b)
      BY <2>a DEF Direct
    <3> QED BY <2>1, <2>2, <2>a, <3>1 DEF Promised, MoneyPromise, BinaryPromise
  <2>b. CASE op = "Money_Sub"
    <3>1. Direct(op, a, b) = Money_Add(a, -b)
      BY <2>b DEF Direct
    <3> QED BY <2>1, <2>2, <2>b, <3>1 DEF Promised, MoneyPromise, BinaryPromise
  <2> QED BY <1>2, <2>a, <2>b
<1>3. CASE op = "Money_QuantizeToStep" /\ a \in Closed /\ b \in Closed /\ ~(b > 0)
  <2>1. b <= 0
    BY <1>3, Widths DEF Closed
  <2> QED BY <1>3, <2>1 DEF Direct, Promised, MoneyPromise, BinaryPromise
<1>4. CASE op = "fp2_mul" /\ a \in 1 - Top .. Top - 1 /\ b \in 1 - Top .. Top - 1
  <2>1. ExactBinary(fp2_mul(a, b).value, a * b, Limb)
    BY <1>4, fp2_mul_Exact
  <2>2. fp2_mul(a, b) = [value |-> fp2_mul(a, b).value, flags |-> fp2_mul(a, b).flags]
    BY DEF fp2_mul, Saturated
  <2> QED BY <1>4, <2>1, <2>2 DEF Direct, Promised, MoneyPromise, BinaryPromise
<1>5. CASE op = "fp2_addsat" /\ a \in 1 - Top .. Top - 1 /\ b \in 1 - Top .. Top - 1
  <2> DEFINE v == fp2_addsat(a, b).value
  <2>1. ExactBinary(v, a + b, 1) \/ (v = -Top /\ v = a + b)
    BY <1>5, fp2_addsat_Exact
  <2>2. fp2_addsat(a, b) = [value |-> v, flags |-> fp2_addsat(a, b).flags]
    BY DEF fp2_addsat, Saturated
  <2> QED BY <1>5, <2>1, <2>2 DEF Direct, Promised, MoneyPromise, BinaryPromise
<1>6. CASE op = "fp2_sub" /\ a \in 1 - Top .. Top - 1 /\ b \in 1 - Top .. Top - 1
  <2> DEFINE v == fp2_sub(a, b).value
  <2>1. ExactBinary(v, a - b, 1) \/ (v = -Top /\ v = a - b)
    BY <1>6, fp2_sub_Exact
  <2>2. fp2_sub(a, b) = [value |-> v, flags |-> fp2_sub(a, b).flags]
    BY DEF fp2_sub, Saturated
  <2> QED BY <1>6, <2>1, <2>2 DEF Direct, Promised, MoneyPromise, BinaryPromise
<1>7. CASE op = "Money_ToBinary" /\ a \in Closed
  <2> DEFINE result == Money_ToBinary(a)
  <2>1. /\ Nearest(result.value, a * Limb, Scale) /\ result.value \in 1 - Top .. Top - 1
        /\ result.flags = {}
    BY <1>7, ToBinaryExact
  <2>2. Money_FromBinary(result.value) = [value |-> a, flags |-> {}]
    BY <1>7, <2>1, SeamReturns
  <2>3. result = [value |-> result.value, flags |-> result.flags]
    BY DEF Money_ToBinary
  <2> QED BY <1>7, <2>1, <2>2, <2>3 DEF Direct, Promised, MoneyPromise, BinaryPromise
<1>8. CASE op = "Money_FromBinary" /\ a \in 1 - Top .. Top - 1
  <2> DEFINE result == Money_FromBinary(a)
  <2>1. ExactAmount(result, a * Scale, Limb)
    BY <1>8, FromBinaryExact
  <2>2. result = [value |-> result.value, flags |-> result.flags]
    BY DEF Money_FromBinary, Result
  <2> QED BY <1>8, <2>1, <2>2 DEF Direct, Promised, MoneyPromise, BinaryPromise
<1> QED BY <1>1, <1>2, <1>3, <1>4, <1>5, <1>6, <1>7, <1>8

LEMMA DividedPromised ==
  ASSUME NEW op, NEW a, NEW b, Divides(op, a, b), NEW q \in 0 .. Word - 1, NEW r,
         LET high == Dividend(op, a).hi
             low == Dividend(op, a).lo
         IN /\ high < Mag(b) => /\ r \in 0 .. Mag(b) - 1
                                /\ high * Word + low = q * Mag(b) + r
            /\ high >= Mag(b) => q >= Top
  PROVE  Promised(op, a, b, Divided(op, a, b, q, r))
<1> DEFINE high == Dividend(op, a).hi
           low == Dividend(op, a).lo
           result == Divided(op, a, b, q, r)
<1>1. /\ q \in Nat
      /\ high < Mag(b) => /\ r \in 0 .. Mag(b) - 1
                          /\ high * Word + low = q * Mag(b) + r
      /\ high >= Mag(b) => q >= Top
  BY Widths
<1>2. /\ a \in 1 - Top .. Top - 1 /\ b \in 1 - Top .. Top - 1
      /\ high \in 0 .. Top - 1 /\ low \in 0 .. Word - 1
      /\ Mag(b) \in 0 .. Top - 1 /\ (b # 0 => Mag(b) > 0)
      /\ op = "Money_Div" => high = 0 /\ low = Mag(a) * Scale /\ low < Top
      /\ op = "Money_QuantizeToStep" => high = 0 /\ low = Mag(a)
      /\ op = "fp2_div" => high * Word + low = Mag(a) * Limb
  BY DividendOK
<1> SUFFICES Promised(op, a, b, result)
  OBVIOUS
<1> HIDE DEF high, low
<1>3. CASE op = "Money_Div"
  <2>1. a \in Closed /\ b \in Closed
    BY <1>3 DEF Divides
  <2>2. result = Money_Div(a, b, q, r)
    BY <1>3 DEF Divided
  <2> HIDE DEF result
  <2>3. result = [value |-> result.value, flags |-> result.flags]
    BY <2>2 DEF Money_Div
  <2>4. CASE b = 0
    <3>1. result = [value |-> Signed(Lim, a < 0), flags |-> {"DIVZERO"}]
      <4>1. a \in Int /\ ((a < 0) # (b < 0)) = (a < 0)
        BY <1>2, <2>4, Widths
      <4> QED BY <2>2, <2>4, <4>1 DEF Money_Div, Signed
    <3> QED BY <1>3, <2>3, <2>4, <3>1 DEF Promised, MoneyPromise, BinaryPromise
  <2>5. CASE b # 0
    <3>1. /\ r \in 0 .. Mag(b) - 1 /\ Mag(a) * Scale = q * Mag(b) + r
          /\ Mag(a) * Scale < Top
      <4>1. /\ r \in 0 .. Mag(b) - 1 /\ 0 * Word + low = q * Mag(b) + r
            /\ low = Mag(a) * Scale /\ low < Top /\ low \in Int
        BY <1>1, <1>2, <1>3, <2>5
      <4> QED BY ONLY <4>1, Widths
    <3>2. ExactAmount(result, Towards(a * Scale, b), Mag(b))
      BY ONLY <1>1, <2>1, <2>2, <2>5, <3>1, Money_Div_Exact
    <3> QED BY <1>3, <2>3, <2>5, <3>2 DEF Promised, MoneyPromise, BinaryPromise
  <2> QED BY <2>4, <2>5
<1>4. CASE op = "Money_QuantizeToStep"
  <2>1. a \in Closed /\ b \in Closed /\ b > 0 /\ b \in Int /\ Mag(b) = b
    <3>1. a \in Closed /\ b \in Closed /\ b > 0
      BY <1>4 DEF Divides
    <3>2. b \in Int
      BY <3>1, ClosedMag
    <3> QED BY <3>1, <3>2 DEF Mag
  <2>2. result = [value |-> Signed((q * b) % Word, a < 0), flags |-> {}]
    BY <1>4 DEF Divided
  <2> HIDE DEF result
  <2>3. r \in 0 .. b - 1 /\ Mag(a) = q * b + r
    <3>1. r \in 0 .. b - 1 /\ 0 * Word + low = q * b + r /\ low = Mag(a)
          /\ low \in Int
      BY <1>1, <1>2, <1>4, <2>1
    <3> QED BY ONLY <3>1, Widths
  <2>4. \E n \in Closed : result.value = n * b /\ Cut(n, a, b)
    <3>1. \E n \in Closed : Signed((q * b) % Word, a < 0) = n * b /\ Cut(n, a, b)
      BY ONLY <1>1, <2>1, <2>3, Quantize_Exact
    <3> QED BY <2>2, <3>1
  <2>5. ~(b <= 0)
    BY <2>1
  <2>6. result = [value |-> result.value, flags |-> result.flags]
    BY <2>2
  <2> QED BY <1>4, <2>4, <2>5, <2>6 DEF Promised, MoneyPromise, BinaryPromise
<1>5. CASE op = "fp2_div"
  <2>1. result = Saturated(q, (a < 0) # (b < 0), q \div Top # 0)
    BY <1>5 DEF Divided
  <2> HIDE DEF result
  <2>2. result = [value |-> result.value, flags |-> result.flags]
    BY <2>1 DEF Saturated
  <2>3. CASE b = 0
    <3>1. q >= Top
      BY <1>1, <1>2, <2>3 DEF Mag
    <3>2. q \div Top # 0
      <4>1. q = (q \div Top) * Top + (q % Top) /\ q % Top \in 0 .. Top - 1
        <5>1. Top \in Nat /\ Top > 0
          BY Widths
        <5> QED BY ONLY <1>1, <5>1, DivMod
      <4> QED BY <3>1, <4>1, Widths
    <3>3. result.value = Signed(Top - 1, a < 0)
      BY <2>1, <2>3, <3>2 DEF Saturated
    <3> QED BY <1>5, <2>2, <2>3, <3>3 DEF Promised, MoneyPromise, BinaryPromise
  <2>4. CASE b # 0
    <3>1. ASSUME q < Top
          PROVE  \E x \in 0 .. Mag(b) - 1 : Mag(a) * Limb = q * Mag(b) + x
      BY <1>1, <1>2, <1>5, <3>1, Widths
    <3>2. ASSUME q >= Top PROVE Mag(a) * Limb >= Top * Mag(b)
      <4>1. CASE high < Mag(b)
        <5>1. Mag(a) * Limb = q * Mag(b) + r /\ r >= 0
          BY <1>1, <1>2, <1>5, <4>1
        <5>2. Top * Mag(b) <= q * Mag(b) /\ q * Mag(b) \in Nat
          BY <1>1, <1>2, <3>2, Widths, MulMono
        <5>3. r \in Int /\ Top * Mag(b) \in Nat
          BY <1>1, <1>2, <4>1, Widths, MulMono
        <5> QED BY ONLY <5>1, <5>2, <5>3
      <4>2. CASE high >= Mag(b)
        <5>1. Mag(b) * Top <= high * Word /\ high * Word \in Nat
          BY <1>2, <4>2, Widths, MulMono
        <5>2. Mag(b) * Top = Top * Mag(b)
          BY <1>2, Widths, SMT
        <5> QED BY <1>2, <1>5, <5>1, <5>2, Widths
      <4> QED BY <1>2, <4>1, <4>2, Widths
    <3>3. ExactBinary(result.value, Towards(a * Limb, b), Mag(b))
      BY ONLY <1>1, <1>2, <2>1, <2>4, <3>1, <3>2, fp2_div_Exact
    <3> QED BY <1>5, <2>2, <2>4, <3>3 DEF Promised, MoneyPromise, BinaryPromise
  <2> QED BY <2>3, <2>4
<1>6. op \in {"Money_Div", "Money_QuantizeToStep", "fp2_div"}
  BY DEF Divides
<1> QED BY <1>3, <1>4, <1>5, <1>6
-----------------------------------------------------------------------------
(* A call that returns at once, and one that starts a division.             *)
LEMMA CallDirectKeeps ==
  ASSUME MoneyInv, NEW op, NEW a, NEW b,
         CallDirect(op, a, b), Promised(op, a, b, Direct(op, a, b))
  PROVE  MoneyInv'
<1>1. /\ call' = [op |-> op, a |-> a, b |-> b, at |-> "done"] /\ flags = {}
      /\ value' = Direct(op, a, b).value /\ flags' = Direct(op, a, b).flags
  BY DEF MoneyInv, CallDirect, Returns
<1>2. Returned' = Direct(op, a, b)
  BY <1>1 DEF Returned, Promised
<1>3. MoneyExact' /\ BinaryExact' /\ SeamRoundTrips'
  BY <1>1, <1>2 DEF MoneyExact, BinaryExact, SeamRoundTrips, Promised
<1> QED BY <1>1, <1>3 DEF MoneyInv

LEMMA CallDividingKeeps ==
  ASSUME MoneyInv, NEW op, NEW a, NEW b,
         CallDividing(op, a, b), Divides(op, a, b)
  PROVE  MoneyInv'
<1>1. /\ call' = [op |-> op, a |-> a, b |-> b, at |-> "divides"]
      /\ trip' = 0 /\ quo' = 0 /\ value' = value /\ flags' = flags /\ flags = {}
      /\ rem_hi' = Dividend(op, a).hi /\ rem_lo' = Dividend(op, a).lo
  BY DEF MoneyInv, CallDividing
<1>2. High' = rem_hi' /\ Low' = rem_lo' /\ Divisor' = Mag(b)
  BY <1>1 DEF High, Low, Divisor
<1>3. /\ rem_hi' \in 0 .. Top - 1 /\ rem_lo' \in 0 .. Word - 1
      /\ Mag(b) \in 0 .. Top - 1
  BY <1>1, DividendOK
<1>4. Pow2[trip'] = 1 /\ trip' \in 0 .. Bits
  BY <1>1, Powers, Widths
<1>5. /\ (rem_hi' * Word + rem_lo') * 1 = (0 * Mag(b)) * Word + rem_hi' * Word + rem_lo'
      /\ rem_hi' \in 0 .. Word - 1
  <2>1. rem_hi' * Word \in Nat
    <3>1. rem_hi' \in Nat /\ Word \in Nat
      BY <1>3, Widths
    <3>2. \A x, y \in Nat : x * y \in Nat
      BY ONLY SMT
    <3> QED BY ONLY <3>1, <3>2
  <2>2. 0 * Mag(b) = 0 /\ 0 * Word = 0
    BY <1>3, Widths
  <2> QED BY <1>3, <2>1, <2>2, Widths
<1>6. DivisionInv'
  BY <1>1, <1>2, <1>3, <1>4, <1>5 DEF DivisionInv
<1>7. MoneyExact' /\ BinaryExact' /\ SeamRoundTrips'
  BY <1>1 DEF MoneyExact, BinaryExact, SeamRoundTrips
<1> QED BY <1>1, <1>6, <1>7 DEF MoneyInv

LEMMA TripKeeps ==
  ASSUME MoneyInv, Trip PROVE MoneyInv'
<1>1. Divides(call.op, call.a, call.b) /\ DivisionInv /\ flags = {}
      /\ call' = call /\ value' = value /\ flags' = flags /\ call.at = "divides"
  BY DEF MoneyInv, Trip
<1>2. DivisionInv'
  BY <1>1, TripKeepsDivision
<1>3. MoneyExact' /\ BinaryExact' /\ SeamRoundTrips'
  BY <1>1 DEF MoneyExact, BinaryExact, SeamRoundTrips
<1> QED BY <1>1, <1>2, <1>3 DEF MoneyInv

LEMMA FinishDivisionKeeps ==
  ASSUME MoneyInv, FinishDivision PROVE MoneyInv'
<1> DEFINE result == Divided(call.op, call.a, call.b, quo, rem_hi)
<1>1. /\ Divides(call.op, call.a, call.b) /\ DivisionInv /\ flags = {} /\ trip = Bits
      /\ value' = result.value /\ flags' = result.flags
  BY DEF MoneyInv, FinishDivision, Returns
<1>2. call' = [op |-> call.op, a |-> call.a, b |-> call.b, at |-> "done"]
  BY DEF MoneyInv, FinishDivision
<1>3. Promised(call.op, call.a, call.b, result)
  <2>1. /\ quo \in 0 .. Word - 1
        /\ High < Divisor => rem_hi \in 0 .. Divisor - 1
                             /\ High * Word + Low = quo * Divisor + rem_hi
        /\ High >= Divisor => quo >= Top
    BY <1>1, DivisionDone
  <2> QED BY <1>1, <2>1, DividedPromised DEF High, Low, Divisor
<1> HIDE DEF result
<1>4. Returned' = result
  BY <1>1, <1>3 DEF Returned, Promised
<1>5. MoneyExact' /\ BinaryExact' /\ SeamRoundTrips'
  BY <1>1, <1>2, <1>3, <1>4 DEF MoneyExact, BinaryExact, SeamRoundTrips, Promised
<1> QED BY <1>2, <1>5 DEF MoneyInv

LEMMA MoneyInductive ==
  /\ MoneyInit => MoneyInv
  /\ MoneyInv /\ [MoneyNext]_moneyVars => MoneyInv'
<1> USE DEF Idle
<1>1. MoneyInit => MoneyInv
  BY DEF MoneyInit, MoneyInv, MoneyExact, BinaryExact, SeamRoundTrips
<1>2. ASSUME MoneyInv, [MoneyNext]_moneyVars PROVE MoneyInv'
  <2>1. Closed \subseteq Int /\ Binaries \subseteq 1 - Top .. Top - 1 /\ 0 \in Int
        /\ Binaries \subseteq Int
    <3>1. Binaries \subseteq 1 - Top .. Top - 1 /\ 1 - Top .. Top - 1 \subseteq Int
      BY MoneyAssumption, Widths
    <3> QED BY <3>1, Widths DEF Closed
  <2>2. ASSUME NEW a \in Closed, NEW b \in Closed,
               NEW op \in {"Money_Mul", "Money_Add", "Money_Sub"}, CallDirect(op, a, b)
        PROVE  MoneyInv'
    BY <1>2, <2>1, <2>2, DirectPromised, CallDirectKeeps
  <2>3. ASSUME NEW a \in Closed, NEW b \in Closed, CallDividing("Money_Div", a, b)
        PROVE  MoneyInv'
    <3>1. Divides("Money_Div", a, b)
      BY DEF Divides
    <3> QED BY <1>2, <2>1, <2>3, <3>1, CallDividingKeeps
  <2>4. ASSUME NEW a \in Closed, NEW b \in Closed,
               IF b > 0 THEN CallDividing("Money_QuantizeToStep", a, b)
                        ELSE CallDirect("Money_QuantizeToStep", a, b)
        PROVE  MoneyInv'
    <3>1. CASE b > 0
      <4>1. Divides("Money_QuantizeToStep", a, b)
        BY <3>1 DEF Divides
      <4> QED BY <1>2, <2>1, <2>4, <3>1, <4>1, CallDividingKeeps
    <3>2. CASE ~(b > 0)
      BY <1>2, <2>1, <2>4, <3>2, DirectPromised, CallDirectKeeps
    <3> QED BY <3>1, <3>2
  <2>5. ASSUME NEW a \in Binaries, NEW b \in Binaries,
               NEW op \in {"fp2_mul", "fp2_addsat", "fp2_sub"}, CallDirect(op, a, b)
        PROVE  MoneyInv'
    BY <1>2, <2>1, <2>5, DirectPromised, CallDirectKeeps
  <2>6. ASSUME NEW a \in Binaries, NEW b \in Binaries, CallDividing("fp2_div", a, b)
        PROVE  MoneyInv'
    <3>1. Divides("fp2_div", a, b)
      BY DEF Divides
    <3> QED BY <1>2, <2>1, <2>6, <3>1, CallDividingKeeps
  <2>7. ASSUME NEW a \in Closed, CallDirect("Money_ToBinary", a, 0)
        PROVE  MoneyInv'
    BY <1>2, <2>1, <2>7, DirectPromised, CallDirectKeeps
  <2>8. ASSUME NEW a \in Binaries, CallDirect("Money_FromBinary", a, 0)
        PROVE  MoneyInv'
    BY <1>2, <2>1, <2>8, DirectPromised, CallDirectKeeps
  <2>9. ASSUME Drain PROVE MoneyInv'
    BY <2>9 DEF Drain, MoneyInv, MoneyExact, BinaryExact, SeamRoundTrips
  <2>10. ASSUME UNCHANGED moneyVars PROVE MoneyInv'
    BY <1>2, <2>10 DEF moneyVars, MoneyInv, MoneyExact, BinaryExact, SeamRoundTrips,
       Returned, DivisionInv, High, Low, Divisor
  <2> QED BY <1>2, <2>2, <2>3, <2>4, <2>5, <2>6, <2>7, <2>8, <2>9, <2>10,
          TripKeeps, FinishDivisionKeeps DEF MoneyNext
<1> QED BY <1>1, <1>2

LEMMA MoneyInvariant == MoneySpec => []MoneyInv
  BY MoneyInductive, PTL DEF MoneySpec

(* For every width: what a money operation returns is the exact amount      *)
(* rounded half to even, or the limit and a flag; no limb carry, no rounded *)
(* quotient and no trip of the division wraps (Money_Mul, Money_Div,        *)
(* Money_Add, the seam, Money_QuantizeToStep).                              *)
THEOREM MoneyIsExact == MoneySpec => []MoneyExact
<1>1. MoneyInv => MoneyExact
  BY DEF MoneyInv
<1> QED BY <1>1, MoneyInvariant, PTL

(* For every width: the binary core returns the exact value cut off, or the *)
(* limit of its sign (fp2_mul, fp2_div, fp2_addsat, fp2_sub).               *)
THEOREM BinaryIsExact == MoneySpec => []BinaryExact
<1>1. MoneyInv => BinaryExact
  BY DEF MoneyInv
<1> QED BY <1>1, MoneyInvariant, PTL

(* For every width: an amount taken to the binary side comes back the same  *)
(* (Money_ToBinary, Money_FromBinary).                                      *)
THEOREM SeamIsLossless == MoneySpec => []SeamRoundTrips
<1>1. MoneyInv => SeamRoundTrips
  BY DEF MoneyInv
<1> QED BY <1>1, MoneyInvariant, PTL
=============================================================================
