---------------------------- MODULE NodeTrading ----------------------------
(***************************************************************************)
(* One execution node end to end: its hot core (ExecutionCore), the        *)
(* drainer that turns events into submissions and books the fills          *)
(* (OrderManager) and the adapter and venue behind it (BinanceAdapter),    *)
(* with the other threads that close positions:                            *)
(*   EngineCommon.hpp            EngineCommon_DrainEventsAndSubmit          *)
(*   EngineSharded/SlowPath.hpp  EngineSharded_SlowPath_DrainManualCloses   *)
(*   ControllerEventLoop.hpp     EventLoop_TimeExitOneCore and FlattenAll   *)
(***************************************************************************)
EXTENDS ExecutionCore, OrderManager

CONSTANTS
  ManualCloses,  \* the operator may close positions by hand
  SlowExits      \* the slow path may close positions (time, model, flatten)

ASSUME TradingAssumption ==
  /\ {ManualCloses, SlowExits} \subseteq BOOLEAN
  /\ Nodes = {0} /\ PartialOn = (Legs = {0, 1})
  /\ Slots = Legs

VARIABLES
  blind,    \* history: an EXIT event found no position and was skipped
  overlaid, \* history: a SELL was asked for while one for the slot was under way
  aside     \* history: a position was closed beside the hot core

raceVars == <<blind, overlaid, aside>>
allVars == <<vars, coreVars, raceVars>>

RaceInit == blind = FALSE /\ overlaid = FALSE /\ aside = FALSE
TInit == Init /\ CoreInit /\ RaceInit

LegSlotShared(l) == 0                \* mutation: the leg of the event is ignored
LegSlot(l) == l                      \* Sharded_LegSlot of node 0
LegOf(s) == s

(* A SELL for slot s that is queued or in the table.                        *)
Selling(s) ==
  \/ \E i \in DOMAIN submit_queues[s] : submit_queues[s][i].type = "SELL"
  \/ \E k \in order_bitmap : orders[k].pslot = s /\ orders[k].type = "SELL"

Overlay(s) == overlaid' = (overlaid \/ Selling(s))

-----------------------------------------------------------------------------
(* The hot core.  An entry is a request: what is bounded is how often the   *)
(* core, the operator and the slow path decide.                             *)
HotTick ==
  /\ Tick
  /\ IF step = "decide" /\ todo' # << >> /\ todo'[1].type = "ENTRY"
       THEN requests < MaxRequests /\ requests' = requests + 1
       ELSE UNCHANGED requests
  /\ UNCHANGED <<adapterVars, tableVars, positions, submit_queues, close_bucket,
                 open_bucket, phase, cursor, raceVars>>

Permit ==
  /\ SetPermission
  /\ UNCHANGED <<vars, raceVars>>

(* EngineCommon_DrainEventsAndSubmit: an entry buys the intended quantity,  *)
(* an exit sells what the position holds at this moment and is skipped when *)
(* that is nothing.                                                         *)
PumpEvent ==
  /\ phase = "pump" /\ PopEvent
  /\ LET e == Head(event_ring)
         s == LegSlot(e.leg)
     IN \/ /\ e.type = "ENTRY"
           /\ PushSubmit(s, "BUY", MaxQty)
           /\ UNCHANGED raceVars
        \/ /\ e.type = "EXIT" /\ positions[s] > 0
           /\ PushSubmit(s, "SELL", positions[s])
           /\ Overlay(s) /\ UNCHANGED <<blind, aside>>
        \/ /\ e.type = "EXIT" /\ positions[s] = 0
           /\ blind' = TRUE
           /\ UNCHANGED <<submit_queues, overlaid, aside>>
  /\ UNCHANGED <<adapterVars, tableVars, positions, close_bucket, open_bucket,
                 phase, cursor, requests>>

EventsDone ==
  /\ phase = "pump" /\ event_ring = << >>
  /\ phase' = "manual"
  /\ UNCHANGED <<adapterVars, tableVars, positions, submit_queues, close_bucket,
                 open_bucket, cursor, requests, coreVars, raceVars>>

(* EngineSharded_SlowPath_DrainManualCloses: sells what the slot holds and  *)
(* clears the hot core's flag, with a plain store the core's own store may  *)
(* follow.  A pass visits each slot once, in order.                         *)
ManualClose(s) ==
  /\ ManualCloses /\ phase = "manual" /\ s >= cursor /\ ExitRequest(s)
  /\ cursor' = s + 1
  /\ active' = [active EXCEPT ![LegOf(s)] = FALSE]
  /\ Overlay(s) /\ aside' = TRUE
  /\ UNCHANGED <<permission, event_ring, step, loaded, todo, done, last, blind>>

(* EventLoop_TimeExitOneCore, the model exit of the slow-path cycle and     *)
(* EventLoop_FlattenAll: on another thread, at any time, flags untouched.   *)
SlowExit(s) ==
  /\ SlowExits /\ ExitRequest(s)
  /\ Overlay(s) /\ aside' = TRUE
  /\ UNCHANGED <<coreVars, blind, cursor>>

Pass ==
  /\ (phase = "manual" /\ PumpDone) \/ BookPass
  /\ UNCHANGED <<coreVars, raceVars>>

Outside == Adapter /\ UNCHANGED <<coreVars, raceVars>>

TNext == \/ HotTick \/ Permit \/ PumpEvent \/ EventsDone \/ Pass \/ Outside
         \/ \E s \in Slots : ManualClose(s) \/ SlowExit(s)

TSpec == TInit /\ [][TNext]_allVars

-----------------------------------------------------------------------------
(* Nothing of the node is on its way: no tick, no event, no order.          *)
NothingUnderWay ==
  /\ step = "idle" /\ event_ring = << >> /\ order_bitmap = {}
  /\ \A s \in DOMAIN submit_queues : submit_queues[s] = << >>
  /\ close_bucket = << >> /\ open_bucket = << >>

(* The hot flag and the position agree when nothing is under way            *)
(* (BITMAP_CONSISTENT, ShardedSnapshot.hpp:452-464).                        *)
FlagsMatchBooks ==
  NothingUnderWay => \A s \in Slots : active[LegOf(s)] <=> positions[s] > 0

(* The venue's position of node 0: what its orders bought less what they    *)
(* sold.                                                                    *)
Executed(type) ==
  FoldSet(LAMBDA id, t : t + venue[id].executed, 0,
          {id \in DOMAIN venue : venue[id].type = type})

(* "Worst case is one duplicate exit event that HandleFill dedups via the   *)
(* empty-slot bitmap check" (EngineSharded/SlowPath.hpp:145-147): the node  *)
(* never sells at the venue what it did not buy there.                      *)
NeverOversold == Executed("SELL") <= Executed("BUY")

(* In paper trading a position that is held is watched by the hot core,     *)
(* whoever closes positions beside it: only an exit that found its entry    *)
(* not yet booked, or a second SELL over one under way, can leave a         *)
(* position whose flag is cleared, and so without take-profit and stop-loss *)
(* (ExecutionCore_Tick).  While nobody closes beside it, a flag that is set *)
(* has its position too (ShardedSnapshot.hpp:452-464).                      *)
HeldStaysWatched ==
  ~Live /\ NothingUnderWay /\ ~blind /\ ~overlaid =>
    \A s \in DOMAIN positions :
      /\ positions[s] > 0 => active[LegOf(s)]
      /\ active[LegOf(s)] /\ ~aside => positions[s] > 0
=============================================================================
