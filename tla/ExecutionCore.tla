---------------------------- MODULE ExecutionCore ----------------------------
(***************************************************************************)
(* CoreFrameworks/ExecutionCore.hpp: one hot core.  On every tick it loads *)
(* its two flags, decides, pushes the events that fire into its event ring *)
(* and stores the flags back.  Prices are left out: whether the entry gate *)
(* or a leg's take-profit or stop-loss fires on a tick is a choice, drawn  *)
(* from EntryFires and ExitFires.  The other threads may run between the   *)
(* loads, each push and the stores.                                        *)
(***************************************************************************)
EXTENDS Integers, Sequences

CONSTANTS
  Legs,        \* {0}, or {0, 1} when the node trades in pairs (legs A and B)
  RingCap,     \* EXECUTION_NODE_EVENT_RING_SIZE
  EntryFires,  \* the outcomes of the entry gate, a subset of BOOLEAN
  ExitFires    \* the outcomes of a leg's exit gate, a subset of BOOLEAN

ASSUME CoreAssumption ==
  /\ Legs \in {{0}, {0, 1}} /\ RingCap \in Nat \ {0}
  /\ EntryFires \subseteq BOOLEAN /\ ExitFires \subseteq BOOLEAN

VARIABLES
  permission,  \* permission, written by the slow path
  active,      \* active and active_b
  event_ring,  \* event_ring: [type, leg]
  step,        \* where the tick is
  loaded,      \* the flags the tick loaded
  todo,        \* the events it decided to push, in order
  done,        \* those the ring took
  last         \* history: the last event of each leg the ring took

coreVars == <<permission, active, event_ring, step, loaded, todo, done, last>>

Event(type, leg) == [type |-> type, leg |-> leg]
Flat(legs) == [l \in legs |-> FALSE]   \* no leg active, for any instance's legs

CoreInit ==
  /\ permission = FALSE
  /\ active = Flat(Legs)
  /\ event_ring = << >>
  /\ step = "idle" /\ loaded = Flat(Legs) /\ todo = << >> /\ done = {}
  /\ last = [l \in Legs |-> "EXIT"]

-----------------------------------------------------------------------------
TickLoad ==
  /\ step = "idle"
  /\ loaded' = active
  /\ step' = "decide" /\ todo' = << >> /\ done' = {}
  /\ UNCHANGED <<permission, active, event_ring, last>>

(* A leg exits when it is active and its gate fires; the node enters when   *)
(* no leg is active, it has permission and the entry gate fires.  Leg B     *)
(* enters behind leg A when the parameters say so (GATE_FLAG_PAIR_ACTIVE).  *)
Out(l, fires) == l \in Legs /\ loaded[l] /\ fires[l]
Exits(fires) ==
  IF Out(0, fires)
    THEN IF Out(1, fires) THEN <<Event("EXIT", 0), Event("EXIT", 1)>>
                          ELSE <<Event("EXIT", 0)>>
    ELSE IF Out(1, fires) THEN <<Event("EXIT", 1)>> ELSE << >>
Entries(pair) == IF pair THEN <<Event("ENTRY", 0), Event("ENTRY", 1)>>
                         ELSE <<Event("ENTRY", 0)>>
CanEnter(gate) == gate /\ permission /\ loaded = Flat(Legs)

TickDecide ==
  /\ step = "decide"
  /\ \E gate \in EntryFires, fires \in [Legs -> ExitFires], pair \in BOOLEAN :
       /\ pair => 1 \in Legs
       /\ todo' = IF CanEnter(gate) THEN Entries(pair) ELSE Exits(fires)
  /\ step' = "push"
  /\ UNCHANGED <<permission, active, event_ring, loaded, done, last>>

(* Leg B is not tried when leg A's entry did not get into the ring.         *)
(* (Mutation: leg B is tried in any case.)                                  *)
RemainingAlways(pushed) == Tail(todo)

Remaining(pushed) ==
  IF pushed \/ Head(todo).type = "EXIT" THEN Tail(todo) ELSE << >>

(* Mutation: the result of the push is ignored, as before the fix that the  *)
(* comment at ExecutionCore.hpp:624-642 describes.                          *)
TickPushUnchecked ==
  /\ step = "push" /\ todo # << >>
  /\ LET e    == Head(todo)
         fits == Len(event_ring) < RingCap
     IN /\ event_ring' = IF fits THEN Append(event_ring, e) ELSE event_ring
        /\ last' = IF fits THEN [last EXCEPT ![e.leg] = e.type] ELSE last
        /\ done' = done \cup {e} /\ todo' = Tail(todo)
  /\ UNCHANGED <<permission, active, step, loaded>>

TickPush ==
  /\ step = "push" /\ todo # << >>
  /\ LET e    == Head(todo)
         fits == Len(event_ring) < RingCap
     IN /\ event_ring' = IF fits THEN Append(event_ring, e) ELSE event_ring
        /\ done' = IF fits THEN done \cup {e} ELSE done
        /\ last' = IF fits THEN [last EXCEPT ![e.leg] = e.type] ELSE last
        /\ todo' = Remaining(fits)
  /\ UNCHANGED <<permission, active, step, loaded>>

(* Only the legs whose event got into the ring flip, and from the flags     *)
(* the tick loaded.                                                         *)
NewFlag(l) == (loaded[l] \/ Event("ENTRY", l) \in done) /\ Event("EXIT", l) \notin done

TickStore ==
  /\ step = "push" /\ todo = << >>
  /\ active' = [l \in Legs |-> NewFlag(l)]
  /\ step' = "idle"
  /\ loaded' = Flat(Legs) /\ done' = {}
  /\ UNCHANGED <<permission, event_ring, todo, last>>

SetPermission ==                     \* ExecutionCore_SetPermission
  /\ permission' \in BOOLEAN
  /\ UNCHANGED <<active, event_ring, step, loaded, todo, done, last>>

Tick == TickLoad \/ TickDecide \/ TickPush \/ TickStore

(* The drainer takes the oldest event (what it does with it is in module    *)
(* NodeTrading).                                                            *)
PopEvent ==
  /\ event_ring # << >>
  /\ event_ring' = Tail(event_ring)
  /\ UNCHANGED <<permission, active, step, loaded, todo, done, last>>

CoreNext == Tick \/ PopEvent \/ SetPermission
CoreSpec == CoreInit /\ [][CoreNext]_coreVars

(* Ticks keep coming and the drainer keeps popping.  The price of an active *)
(* leg comes back beyond its exit again and again; entries and permission   *)
(* are under no obligation.                                                 *)
DecideExit(l) == TickDecide /\ \E i \in DOMAIN todo' : todo'[i] = Event("EXIT", l)
CoreFairSpec == /\ CoreSpec /\ WF_coreVars(Tick) /\ WF_coreVars(PopEvent)
                /\ \A l \in Legs : SF_coreVars(DecideExit(l))

-----------------------------------------------------------------------------
Events == [type : {"ENTRY", "EXIT"}, leg : Legs]

CoreTypeOK ==
  /\ permission \in BOOLEAN /\ active \in [Legs -> BOOLEAN]
  /\ event_ring \in Seq(Events) /\ Len(event_ring) <= RingCap
  /\ step \in {"idle", "decide", "push"} /\ loaded \in [Legs -> BOOLEAN]
  /\ todo \in Seq(Events) /\ done \subseteq Events
  /\ last \in [Legs -> {"ENTRY", "EXIT"}]

(* "Only flip the active flag for legs whose event actually queued"         *)
(* (ExecutionCore.hpp:639-641): between ticks a leg's flag is set exactly   *)
(* when the last event of the leg that reached the ring is an ENTRY,        *)
(* whichever pushes a full ring refused.                                    *)
FlagFollowsEvents ==
  step = "idle" => \A l \in Legs : active[l] <=> last[l] = "ENTRY"

(* A leg's events alternate, and leg B is entered only together with leg A: *)
(* the ring never carries a second entry, or a second exit, of a leg.       *)
EventsAlternate ==
  [][Len(event_ring') > Len(event_ring) =>
       LET e == event_ring'[Len(event_ring')]
       IN /\ last[e.leg] # e.type
          /\ e = Event("ENTRY", 1) => last[0] = "ENTRY"]_coreVars

(* "Failed pushes leave active unchanged -> next tick retries naturally"    *)
(* (ExecutionCore.hpp:640-641): when the price comes beyond the exit again  *)
(* and again, a leg that was entered gets its exit into the ring, however   *)
(* often the ring was full.                                                 *)
ExitRetried == \A l \in Legs : last[l] = "ENTRY" ~> last[l] = "EXIT"
=============================================================================
