------------------------------ MODULE SPSCRing ------------------------------
(***************************************************************************)
(* CoreFrameworks/SPSCRing.hpp: the ring every pair of threads of the      *)
(* engine talks through.  A push and a pop are split at each load or store *)
(* of shared memory.  head and tail only grow; each side keeps a copy of   *)
(* the other side's counter and refreshes it only when the copy says the   *)
(* ring is full (or empty).                                                *)
(*                                                                         *)
(* Producers is a set because the class is handed out by reference: the    *)
(* contract is one producer, and MCSPSCRingShared.cfg shows what two do.   *)
(***************************************************************************)
EXTENDS Integers, Sequences

CONSTANTS
  N,          \* capacity, SPSCRing<T, N>
  Items,      \* what is pushed
  Producers,  \* the threads that call SPSCRing_TryPush on this ring
  NoItem,     \* contents of a slot never written
  MaxPushes   \* bound on head

ASSUME RingAssumption == N \in Nat \ {0} /\ MaxPushes \in Nat /\ NoItem \notin Items

VARIABLES
  head, cached_tail,      \* the producer's cache line
  tail, cached_head,      \* the consumer's cache line
  slots,                  \* slots[N]
  ppc, my_head, item,     \* each producer: step, local head, item being pushed
  pushed,                 \* what each producer's last TryPush returned
  cpc, copied,            \* the consumer: step, slot contents copied out
  popped                  \* what the last TryPop returned: an item or NoItem

producerVars == <<head, cached_tail, slots, ppc, my_head, item, pushed>>
consumerVars == <<tail, cached_head, cpc, copied, popped>>
ringVars == <<producerVars, consumerVars>>

Slot(n) == n % N

RingInit ==
  /\ head = 0 /\ cached_tail = 0 /\ tail = 0 /\ cached_head = 0
  /\ slots = [i \in 0 .. N - 1 |-> NoItem]
  /\ ppc = [p \in Producers |-> "idle"]
  /\ my_head = [p \in Producers |-> 0]
  /\ item = [p \in Producers |-> NoItem]
  /\ pushed = [p \in Producers |-> TRUE]
  /\ cpc = "idle" /\ copied = NoItem /\ popped = NoItem

-----------------------------------------------------------------------------
(* SPSCRing_TryPush                                                        *)

(* Mutation: off by one in the full check.                                  *)
PushCallOffByOne(p) ==
  /\ ppc[p] = "idle" /\ head < MaxPushes
  /\ \E x \in Items : item' = [item EXCEPT ![p] = x]
  /\ my_head' = [my_head EXCEPT ![p] = head]
  /\ ppc' = [ppc EXCEPT ![p] = IF head - cached_tail > N THEN "refresh" ELSE "write"]
  /\ UNCHANGED <<head, cached_tail, slots, pushed, consumerVars>>

PushCall(p) ==
  /\ ppc[p] = "idle" /\ head < MaxPushes
  /\ \E x \in Items : item' = [item EXCEPT ![p] = x]
  /\ my_head' = [my_head EXCEPT ![p] = head]
  /\ ppc' = [ppc EXCEPT ![p] = IF head + 1 - cached_tail > N THEN "refresh" ELSE "write"]
  /\ UNCHANGED <<head, cached_tail, slots, pushed, consumerVars>>

(* Mutation: the copy is refreshed, the decision is taken on the old one.   *)
PushRefreshStale(p) ==
  /\ ppc[p] = "refresh"
  /\ cached_tail' = tail
  /\ ppc' = [ppc EXCEPT ![p] = "idle"]
  /\ pushed' = [pushed EXCEPT ![p] = FALSE]
  /\ UNCHANGED <<head, slots, my_head, item, consumerVars>>

PushRefresh(p) ==                    \* cached_tail says full: look again
  /\ ppc[p] = "refresh"
  /\ cached_tail' = tail
  /\ IF my_head[p] + 1 - tail > N
       THEN /\ ppc' = [ppc EXCEPT ![p] = "idle"]
            /\ pushed' = [pushed EXCEPT ![p] = FALSE]
       ELSE /\ ppc' = [ppc EXCEPT ![p] = "write"]
            /\ UNCHANGED pushed
  /\ UNCHANGED <<head, slots, my_head, item, consumerVars>>

PushWrite(p) ==
  /\ ppc[p] = "write"
  /\ slots' = [slots EXCEPT ![Slot(my_head[p])] = item[p]]
  /\ ppc' = [ppc EXCEPT ![p] = "publish"]
  /\ UNCHANGED <<head, cached_tail, my_head, item, pushed, consumerVars>>

PushPublish(p) ==                    \* head.store(next_head, release)
  /\ ppc[p] = "publish"
  /\ head' = my_head[p] + 1
  /\ ppc' = [ppc EXCEPT ![p] = "idle"]
  /\ pushed' = [pushed EXCEPT ![p] = TRUE]
  /\ UNCHANGED <<cached_tail, slots, my_head, item, consumerVars>>

-----------------------------------------------------------------------------
(* SPSCRing_TryPop                                                         *)

(* Mutation: an empty copy is believed.                                     *)
PopCallNoRefresh ==
  /\ cpc = "idle"
  /\ IF tail >= cached_head THEN cpc' = "idle" /\ popped' = NoItem
                            ELSE cpc' = "read" /\ UNCHANGED popped
  /\ UNCHANGED <<tail, cached_head, copied, producerVars>>

PopCall ==
  /\ cpc = "idle"
  /\ cpc' = IF tail >= cached_head THEN "refresh" ELSE "read"
  /\ UNCHANGED <<tail, cached_head, copied, popped, producerVars>>

PopRefresh ==                        \* cached_head says empty: look again
  /\ cpc = "refresh"
  /\ cached_head' = head
  /\ IF tail >= head THEN cpc' = "idle" /\ popped' = NoItem
                     ELSE cpc' = "read" /\ UNCHANGED popped
  /\ UNCHANGED <<tail, copied, producerVars>>

PopRead ==
  /\ cpc = "read"
  /\ copied' = slots[Slot(tail)]
  /\ cpc' = "publish"
  /\ UNCHANGED <<tail, cached_head, popped, producerVars>>

PopPublish ==                        \* tail.store(tail + 1, release)
  /\ cpc = "publish"
  /\ tail' = tail + 1
  /\ popped' = copied
  /\ cpc' = "idle"
  /\ UNCHANGED <<cached_head, copied, producerVars>>

-----------------------------------------------------------------------------
TryPush(p) == PushCall(p) \/ PushRefresh(p) \/ PushWrite(p) \/ PushPublish(p)
TryPop     == PopCall \/ PopRefresh \/ PopRead \/ PopPublish
RingNext == (\E p \in Producers : TryPush(p)) \/ TryPop

RingSpec == RingInit /\ [][RingNext]_ringVars

(* The consumer thread polls its ring in a loop and a producer that entered *)
(* TryPush runs to its return; nothing obliges a producer to push.          *)
RingFairness == /\ WF_ringVars(TryPop)
            /\ \A p \in Producers :
                 WF_ringVars(PushRefresh(p) \/ PushWrite(p) \/ PushPublish(p))
RingFairSpec == RingSpec /\ RingFairness

-----------------------------------------------------------------------------
RingTypeOK ==
  /\ head \in Nat /\ cached_tail \in Nat /\ tail \in Nat /\ cached_head \in Nat
  /\ slots \in [0 .. N - 1 -> Items \cup {NoItem}]
  /\ ppc \in [Producers -> {"idle", "refresh", "write", "publish"}]
  /\ my_head \in [Producers -> Nat]
  /\ item \in [Producers -> Items \cup {NoItem}]
  /\ pushed \in [Producers -> BOOLEAN]
  /\ cpc \in {"idle", "refresh", "read", "publish"}
  /\ copied \in Items \cup {NoItem} /\ popped \in Items \cup {NoItem}

(* The contract of the class: one thread pushes.                            *)
OneProducer == \A p, q \in Producers : p = q

(* The ring never holds more than N entries and never fewer than none, and  *)
(* the copies of the counters only lag: SPSCRing_TryPush may refuse early   *)
(* but never overruns, SPSCRing_TryPop may report empty but never reads     *)
(* past head.                                                               *)
CountersBounded ==
  /\ tail <= head /\ head - tail <= N
  /\ cached_tail <= tail /\ cached_head <= head

(* No slot is written while it is read: a producer between its full check   *)
(* and its release store and the consumer between its empty check and its   *)
(* own never work on the same slot.                                         *)
NoSlotRace ==
  \A p \in Producers :
    ppc[p] \in {"write", "publish"} /\ cpc \in {"read", "publish"}
      => Slot(my_head[p]) # Slot(tail)

(* An entry that was published is handed to the consumer, whatever the      *)
(* cached counters claim.                                                   *)
EverythingPopped == \A n \in 1 .. MaxPushes : head >= n ~> tail >= n

-----------------------------------------------------------------------------
(* What the ring promises: a bounded first-in-first-out queue (module       *)
(* BoundedFifo) whose refusals are true: TryPush answers false only at an   *)
(* instant the queue is full, TryPop only at an instant it is empty.        *)
Published == [i \in 1 .. head - tail |-> slots[Slot(tail + i - 1)]]

Fifo == INSTANCE BoundedFifo WITH Capacity <- N, queue <- Published

(* TryPush and TryPop implement the queue: nothing published is lost,       *)
(* duplicated, reordered or overwritten before it is popped.                *)
ImplementsFifo == Fifo!Spec
=============================================================================
