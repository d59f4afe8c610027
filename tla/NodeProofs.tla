----------------------------- MODULE NodeProofs -----------------------------
(***************************************************************************)
(* For any table, queues and rings that are large enough, one leg or a      *)
(* pair, and whoever closes positions beside the hot core: what a node      *)
(* holds on paper is watched by its hot core.                               *)
(*   The hot core and the drainer share only the event ring and the flags.  *)
(* What the drainer does is told to the core by one fact for each slot,     *)
(* After: whether it holds anything once the requests and the orders under  *)
(* way are booked.  What the core does is told to the drainer by another,   *)
(* Flag: the flag once the tick is over.  The events in the ring lead from  *)
(* the first to the second (Agrees).                                        *)
(***************************************************************************)
EXTENDS NodeTrading, ReportProofs

(* EXECUTION_NODE_EVENT_RING_SIZE may be anything.  A slot has at most one  *)
(* SELL and one BUY under way, for which OMS_SUBMIT_QUEUE_SIZE and          *)
(* MAX_INFLIGHT_ORDERS leave ample room.                                    *)
RoomForBoth ==
  MaxQty > 0 /\ SubmitCap >= 2 /\ 2 * Cardinality(Slots) <= Cardinality(OrderSlots)

(* A tick pushes, of each leg, the one event that the flag it loaded calls  *)
(* for.                                                                     *)
Called(e) == loaded[e.leg] <=> e.type = "EXIT"
Plan ==
  /\ step = "push" =>
       \A i \in 1 .. Len(todo) :
         /\ Called(todo[i]) /\ todo[i] \notin done
         /\ \A j \in 1 .. Len(todo) : j # i => todo[j].leg # todo[i].leg
  /\ step # "push" => done = {}
  /\ \A e \in done : Called(e)

(* The paper fills say what their orders asked for, those that open are in  *)
(* the bucket of the opens, and the rings are empty when bookings begin.    *)
Whole(ords) == {cmd \in Command : cmd.qty = ords[cmd.id.slot].requested}
Opens(ords) == {cmd \in Whole(ords) : ords[cmd.id.slot].type = "BUY"}
RingsDrained == phase \in {"drainws", "closes"} => \A n \in Nodes : result_rings[n] = << >>
PaperWhole ==
  /\ close_bucket \in Seq(Whole(orders)) /\ open_bucket \in Seq(Opens(orders))
  /\ \A n \in Nodes : result_rings[n] \in Seq(Whole(orders))
Calm == ~Live => PaperWhole /\ RingsDrained

(* What is under way for a slot: a SELL of all it holds, and behind it a    *)
(* BUY.                                                                     *)
Queued(s, type) == \E i \in 1 .. Len(submit_queues[s]) : submit_queues[s][i].type = type
IsOf(k, s, type) == orders[k].pslot = s /\ orders[k].type = type
Placed(s, type) == \E k \in order_bitmap : IsOf(k, s, type)
UnderWay(s, type) == Queued(s, type) \/ Placed(s, type)

SellThenBuy(q) == \A i, j \in 1 .. Len(q) : i < j => q[i].type = "SELL" /\ q[j].type = "BUY"
Single(s) ==
  \A type \in Side : \A k, j \in order_bitmap : IsOf(k, s, type) /\ IsOf(j, s, type) => k = j
SellsAll(s) ==
  /\ \A i \in 1 .. Len(submit_queues[s]) :
       submit_queues[s][i].type = "SELL" => submit_queues[s][i].qty = positions[s]
  /\ \A k \in order_bitmap : IsOf(k, s, "SELL") => orders[k].requested = positions[s]
Lined(s) ==
  /\ SellThenBuy(submit_queues[s]) /\ Single(s) /\ SellsAll(s)
  /\ Placed(s, "BUY") => submit_queues[s] = << >>
  /\ Placed(s, "SELL") => ~Queued(s, "SELL")
  /\ UnderWay(s, "SELL") => positions[s] > 0
  /\ UnderWay(s, "BUY") /\ ~UnderWay(s, "SELL") => positions[s] = 0

After(s) == UnderWay(s, "BUY") \/ (positions[s] > 0 /\ ~UnderWay(s, "SELL"))
Flag(s) == IF step = "idle" THEN active[s] ELSE NewFlag(s)

(* The last event of leg s before and after each one in the ring; it was    *)
(* an EXIT when the slot will be empty.  Only an EXIT lets an ENTRY follow. *)
Course(h, ring, s) ==
  \A i \in 1 .. Len(ring) :
    IF ring[i].leg = s
      THEN h[i] = ring[i].type /\ (h[i] = "ENTRY" => h[i - 1] = "EXIT")
      ELSE h[i] = h[i - 1]
Courses(ring) == [0 .. Len(ring) -> {"ENTRY", "EXIT"}]
LeadsTo(h, ring, s, after, flag, beside) ==
  /\ Course(h, ring, s)
  /\ h[0] = "ENTRY" <=> after
  /\ h[Len(ring)] = "ENTRY" => flag
  /\ ~beside /\ flag => h[Len(ring)] = "ENTRY"
Agree(ring, s, after, flag, beside) ==
  \E h \in Courses(ring) : LeadsTo(h, ring, s, after, flag, beside)
Agrees(s) == Agree(event_ring, s, After(s), Flag(s), aside)

(* A close beside the core has sold what the next EXIT is for: that will    *)
(* find nothing to sell (blind).                                            *)
ExitFirst(ring, s) ==
  \E d \in 1 .. Len(ring) : /\ ring[d] = Event("EXIT", s)
                            /\ \A j \in 1 .. d - 1 : ring[j].leg # s
Doomed(s) == ExitFirst(event_ring, s) /\ ~After(s)

Watched ==
  ~Live /\ ~blind /\ ~overlaid => \A s \in Slots : Lined(s) /\ (Agrees(s) \/ Doomed(s))

BaseInv == IInv /\ RInv /\ WInv /\ PInv
NodeInv == BaseInv /\ CoreTypeOK /\ Plan /\ Calm /\ Watched

-----------------------------------------------------------------------------
(* The order manager's part of each step.                                   *)
LEMMA LegIsSlot ==
  /\ Slots = Legs /\ Legs \subseteq {0, 1} /\ Nodes = {0}
  /\ \A l \in Legs : LegSlot(l) = l /\ LegOf(l) = l
BY TradingAssumption, CoreAssumption DEF LegSlot, LegOf

LEMMA StepKinds ==
  ASSUME RoomForBoth, BaseInv, CoreTypeOK, [TNext]_allVars
  PROVE  Still \/ (\E s \in Slots : Asks(s)) \/ BookPass \/ Adapter
<1>1. CASE HotTick \/ Permit \/ EventsDone \/ UNCHANGED allVars
  BY <1>1 DEF HotTick, Permit, EventsDone, allVars, vars, omsVars, Still
<1>2. CASE PumpEvent
  <2> DEFINE e == Head(event_ring)
  <2>1. e \in Events
    BY <1>2, HeadTyped DEF PumpEvent, PopEvent, CoreTypeOK
  <2>2. e.leg \in Slots /\ LegSlot(e.leg) = e.leg
    BY <2>1, LegIsSlot DEF Events
  <2> HIDE DEF e
  <2>3. /\ \/ PushSubmit(e.leg, "BUY", MaxQty)
           \/ positions[e.leg] > 0 /\ PushSubmit(e.leg, "SELL", positions[e.leg])
           \/ UNCHANGED submit_queues
        /\ UNCHANGED <<adapterVars, tableVars, positions, close_bucket, open_bucket>>
    BY <1>2, <2>2 DEF PumpEvent, e
  <2>4. MaxQty \in Nat /\ MaxQty > 0 /\ positions[e.leg] \in Nat
    BY <2>2, OmsAssumption DEF RoomForBoth, BaseInv, IInv, OmsTypeOK, PositionsOK
  <2>5. "BUY" \in Side /\ "SELL" \in Side
    BY DEF Side
  <2> QED BY <2>2, <2>3, <2>4, <2>5 DEF Asks, Still
<1>3. CASE \E s \in Slots : ManualClose(s) \/ SlowExit(s)
  BY <1>3, RequestAsks DEF ManualClose, SlowExit, BaseInv
<1>4. CASE Pass
  BY <1>4, PassStill DEF Pass
<1>5. CASE Outside
  BY <1>5 DEF Outside
<1> QED BY <1>1, <1>2, <1>3, <1>4, <1>5 DEF TNext

LEMMA BaseKept ==
  ASSUME FillsFit, BaseInv, Still \/ (\E s \in Slots : Asks(s)) \/ BookPass \/ Adapter
  PROVE  BaseInv'
<1> USE DEF BaseInv
<1>1. CASE Still
  <2>1. IInv'
    BY <1>1, PassStep
  <2> QED BY <1>1, <2>1, PassRoad, PassWithin, PassPaper
<1>2. CASE \E s \in Slots : Asks(s)
  <2>1. IInv'
    BY <1>2, RequestStep
  <2> QED BY <1>2, <2>1, RequestRoad, PassWithin, RequestPaper
<1>3. CASE BookPass \/ Adapter
  <2>1. [Next]_vars
    BY <1>3 DEF Next
  <2> QED BY <2>1, NextInv, NextRoad, NextWithin, NextPaper
<1> QED BY <1>1, <1>2, <1>3

-----------------------------------------------------------------------------
(* The hot core's part.                                                     *)
CoreSteps ==
  \/ Tick \/ SetPermission \/ PopEvent \/ UNCHANGED coreVars
  \/ /\ \E s \in Slots : active' = [active EXCEPT ![LegOf(s)] = FALSE]
     /\ UNCHANGED <<permission, event_ring, step, loaded, todo, done, last>>

LEMMA CoreKinds == ASSUME [TNext]_allVars PROVE CoreSteps
<1>1. CASE HotTick \/ Permit \/ PumpEvent \/ UNCHANGED allVars
  BY <1>1 DEF HotTick, Permit, PumpEvent, allVars, CoreSteps
<1>2. CASE EventsDone \/ Pass \/ Outside
  BY <1>2 DEF EventsDone, Pass, Outside, CoreSteps
<1>3. CASE \E s \in Slots : ManualClose(s) \/ SlowExit(s)
  BY <1>3 DEF ManualClose, SlowExit, CoreSteps
<1> QED BY <1>1, <1>2, <1>3 DEF TNext

(* What TickDecide may plan.                                                *)
LEMMA Decided ==
  ASSUME CoreTypeOK, TickDecide
  PROVE  /\ todo' \in Seq(Events)
         /\ \A i \in 1 .. Len(todo') : Called(todo'[i])
         /\ \A i, j \in 1 .. Len(todo') : j # i => todo'[j].leg # todo'[i].leg
<1> DEFINE One1(t, l) == <<Event(t, l)>>
           Two(t) == <<Event(t, 0), Event(t, 1)>>
<1>1. loaded \in [Legs -> BOOLEAN] /\ Legs \in {{0}, {0, 1}}
  BY CoreAssumption DEF CoreTypeOK
<1>2. PICK gate \in EntryFires, fires \in [Legs -> ExitFires], pair \in BOOLEAN :
        /\ pair => 1 \in Legs
        /\ todo' = IF CanEnter(gate) THEN Entries(pair) ELSE Exits(fires)
  BY DEF TickDecide
<1>3. ASSUME NEW t \in {"ENTRY", "EXIT"}, NEW l \in Legs, todo' = One1(t, l),
             loaded[l] <=> t = "EXIT"
      PROVE  /\ todo' \in Seq(Events)
             /\ \A i \in 1 .. Len(todo') : Called(todo'[i])
             /\ \A i, j \in 1 .. Len(todo') : j # i => todo'[j].leg # todo'[i].leg
  <2>1. Event(t, l) \in Events /\ Event(t, l).leg = l /\ Event(t, l).type = t
    BY DEF Event, Events
  <2>2. /\ Len(todo') = 1 /\ todo'[1] = Event(t, l)
        /\ todo' \in Seq(Events)
    BY <1>3, <2>1
  <2>3. Called(todo'[1])
    BY <1>3, <2>1, <2>2 DEF Called
  <2>4. \A i \in 1 .. Len(todo') : i = 1
    BY <2>2
  <2> QED BY <2>2, <2>3, <2>4
<1>4. ASSUME NEW t \in {"ENTRY", "EXIT"}, todo' = Two(t), 1 \in Legs,
             loaded[0] <=> t = "EXIT", loaded[1] <=> t = "EXIT"
      PROVE  /\ todo' \in Seq(Events)
             /\ \A i \in 1 .. Len(todo') : Called(todo'[i])
             /\ \A i, j \in 1 .. Len(todo') : j # i => todo'[j].leg # todo'[i].leg
  <2>1. /\ Event(t, 0) \in Events /\ Event(t, 0).leg = 0 /\ Event(t, 0).type = t
        /\ Event(t, 1) \in Events /\ Event(t, 1).leg = 1 /\ Event(t, 1).type = t
    BY <1>1, <1>4 DEF Event, Events
  <2>2. /\ Len(todo') = 2 /\ todo'[1] = Event(t, 0) /\ todo'[2] = Event(t, 1)
        /\ todo' \in Seq(Events)
    BY <1>4, <2>1
  <2>3. Called(todo'[1]) /\ Called(todo'[2])
    BY <1>4, <2>1, <2>2 DEF Called
  <2>4. \A i \in 1 .. Len(todo') : i = 1 \/ i = 2
    BY <2>2
  <2>5. todo'[1].leg = 0 /\ todo'[2].leg = 1
    BY <2>1, <2>2
  <2> QED BY <2>2, <2>3, <2>4, <2>5
<1>5. CASE todo' = << >>
  BY <1>5
<1>6. CASE CanEnter(gate)
  <2>1. \A l \in Legs : loaded[l] = FALSE
    BY <1>6 DEF CanEnter, Flat
  <2>2. todo' = Entries(pair) /\ 0 \in Legs
    BY <1>1, <1>2, <1>6
  <2>3. CASE pair
    <3>1. todo' = Two("ENTRY") /\ 1 \in Legs
      BY <1>2, <2>2, <2>3 DEF Entries
    <3>2. ~loaded[0] /\ ~loaded[1]
      BY <2>1, <2>2, <3>1
    <3> QED BY <1>4, <3>1, <3>2
  <2>4. CASE ~pair
    <3>1. todo' = One1("ENTRY", 0)
      BY <2>2, <2>4 DEF Entries
    <3>2. ~loaded[0]
      BY <2>1, <2>2
    <3> QED BY <1>3, <2>2, <3>1, <3>2
  <2> QED BY <2>3, <2>4
<1>7. CASE ~CanEnter(gate)
  <2>1. todo' = Exits(fires) /\ 0 \in Legs
    BY <1>1, <1>2, <1>7
  <2>2. CASE Out(0, fires) /\ Out(1, fires)
    <3>1. todo' = Two("EXIT") /\ 1 \in Legs /\ loaded[0] /\ loaded[1]
      BY <2>1, <2>2 DEF Exits, Out
    <3> QED BY <1>4, <3>1
  <2>3. CASE Out(0, fires) /\ ~Out(1, fires)
    <3>1. todo' = One1("EXIT", 0) /\ loaded[0]
      BY <2>1, <2>3 DEF Exits, Out
    <3> QED BY <1>3, <2>1, <3>1
  <2>4. CASE ~Out(0, fires) /\ Out(1, fires)
    <3>1. todo' = One1("EXIT", 1) /\ loaded[1] /\ 1 \in Legs
      BY <2>1, <2>4 DEF Exits, Out
    <3> QED BY <1>3, <3>1
  <2>5. CASE ~Out(0, fires) /\ ~Out(1, fires)
    BY <1>5, <2>1, <2>5 DEF Exits
  <2> QED BY <2>2, <2>3, <2>4, <2>5
<1> QED BY <1>6, <1>7

LEMMA PushKeeps ==
  ASSUME CoreTypeOK, Plan, TickPush
  PROVE  CoreTypeOK' /\ Plan'
<1> DEFINE e    == Head(todo)
           fits == Len(event_ring) < RingCap
<1> USE DEF CoreTypeOK
<1>1. e \in Events /\ Tail(todo) \in Seq(Events) /\ todo # << >> /\ step = "push"
  BY HeadTyped DEF TickPush
<1>2. /\ Len(todo) \in Nat /\ Len(todo) >= 1 /\ e = todo[1]
      /\ Len(Tail(todo)) = Len(todo) - 1
      /\ \A i \in 1 .. Len(Tail(todo)) : Tail(todo)[i] = todo[i + 1] /\ i + 1 \in 2 .. Len(todo)
  BY <1>1
<1>3. /\ \/ event_ring' = event_ring /\ done' = done /\ last' = last
         \/ /\ Len(event_ring) < RingCap /\ event_ring' = Append(event_ring, e)
            /\ done' = done \cup {e} /\ last' = [last EXCEPT ![e.leg] = e.type]
      /\ todo' = Tail(todo) \/ todo' = << >>
      /\ UNCHANGED <<permission, active, step, loaded>>
  BY DEF TickPush, Remaining
<1> HIDE DEF e, fits
<1>4. CoreTypeOK'
  <2>1. e.leg \in Legs /\ e.type \in {"ENTRY", "EXIT"}
    BY <1>1 DEF Events
  <2>2. event_ring' \in Seq(Events) /\ Len(event_ring') <= RingCap
    BY <1>1, <1>3, CoreAssumption
  <2>3. todo' \in Seq(Events) /\ done' \subseteq Events
    <3>1. todo' \in Seq(Events)
      <4>1. << >> \in Seq(Events)
        OBVIOUS
      <4> QED BY <1>1, <1>3, <4>1, Zenon
    <3>2. done' = done \/ done' = done \cup {e}
      BY <1>3
    <3> QED BY <1>1, <3>1, <3>2
  <2>4. last' \in [Legs -> {"ENTRY", "EXIT"}]
    BY <1>3, <2>1
  <2> QED BY <1>3, <2>2, <2>3, <2>4
<1>5. Plan'
  <2>1. Called(e) /\ \A i \in 2 .. Len(todo) : Called(todo[i]) /\ todo[i] \notin done /\ todo[i] # e
    BY <1>1, <1>2 DEF Plan
  <2>2. \A i, j \in 2 .. Len(todo) : j # i => todo[j].leg # todo[i].leg
    BY <1>1, <1>2 DEF Plan
  <2>3. loaded' = loaded /\ step' = "push"
    BY <1>1, <1>3
  <2>4. \A c \in done' : Called(c)
    BY <1>3, <2>1 DEF Plan
  <2>5. \A c : Called(c)' <=> Called(c)
    BY <2>3 DEF Called
  <2>6. \A i \in 1 .. Len(todo') : /\ Called(todo'[i]) /\ todo'[i] \notin done'
                                   /\ \A j \in 1 .. Len(todo') : j # i => todo'[j].leg # todo'[i].leg
    <3>1. CASE todo' = << >>
      BY <3>1
    <3>2. CASE todo' = Tail(todo)
      <4> SUFFICES ASSUME NEW i \in 1 .. Len(todo')
                   PROVE  /\ Called(todo'[i]) /\ todo'[i] \notin done'
                          /\ \A j \in 1 .. Len(todo') : j # i => todo'[j].leg # todo'[i].leg
        OBVIOUS
      <4>1. i \in Nat /\ todo'[i] = todo[i + 1] /\ i + 1 \in 2 .. Len(todo)
        BY <1>2, <3>2
      <4>2. todo'[i] \notin done'
        BY <1>3, <2>1, <4>1
      <4>3. ASSUME NEW j \in 1 .. Len(todo'), j # i PROVE todo'[j].leg # todo'[i].leg
        <5>1. j \in Nat /\ todo'[j] = todo[j + 1] /\ j + 1 \in 2 .. Len(todo) /\ j + 1 # i + 1
          BY <1>2, <3>2, <4>1, <4>3
        <5> QED BY <2>2, <4>1, <5>1
      <4> QED BY <2>1, <4>1, <4>2, <4>3
    <3> QED BY <1>3, <3>1, <3>2
  <2> QED BY <2>3, <2>4, <2>5, <2>6 DEF Plan, Called
<1> QED BY <1>4, <1>5

LEMMA CoreKept ==
  ASSUME CoreTypeOK, Plan, CoreSteps
  PROVE  CoreTypeOK' /\ Plan'
<1>1. Flat(Legs) \in [Legs -> BOOLEAN]
  BY DEF Flat
<1>2. CASE TickLoad
  BY <1>2 DEF TickLoad, CoreTypeOK, Plan
<1>3. CASE TickDecide
  <2>1. /\ todo' \in Seq(Events)
        /\ \A i \in 1 .. Len(todo') : Called(todo'[i])
        /\ \A i, j \in 1 .. Len(todo') : j # i => todo'[j].leg # todo'[i].leg
    BY <1>3, Decided
  <2>2. done = {} /\ step' = "push" /\ UNCHANGED <<permission, active, event_ring, loaded, done, last>>
    BY <1>3 DEF TickDecide, Plan
  <2>3. CoreTypeOK'
    BY <2>1, <2>2 DEF CoreTypeOK
  <2>4. step' = "push" /\ done' = {} /\ loaded' = loaded
    BY <2>2
  <2> QED BY <2>1, <2>3, <2>4 DEF Plan, Called
<1>4. CASE TickPush
  BY <1>4, PushKeeps
<1>5. CASE TickStore
  <2>1. active' \in [Legs -> BOOLEAN]
    <3>1. \A l \in Legs : NewFlag(l) \in BOOLEAN
      BY DEF NewFlag
    <3> QED BY <1>5, <3>1 DEF TickStore
  <2> QED BY <1>1, <1>5, <2>1 DEF TickStore, CoreTypeOK, Plan
<1>6. CASE SetPermission \/ UNCHANGED coreVars
  BY <1>6 DEF SetPermission, coreVars, CoreTypeOK, Plan, Called
<1>7. CASE PopEvent
  <2>1. event_ring' \in Seq(Events) /\ Len(event_ring') <= RingCap
    BY <1>7, CoreAssumption DEF PopEvent, CoreTypeOK
  <2> QED BY <1>7, <2>1 DEF PopEvent, CoreTypeOK, Plan, Called
<1>8. CASE /\ \E s \in Slots : active' = [active EXCEPT ![LegOf(s)] = FALSE]
           /\ UNCHANGED <<permission, event_ring, step, loaded, todo, done, last>>
  BY <1>8 DEF CoreTypeOK, Plan, Called
<1> QED BY <1>2, <1>3, <1>4, <1>5, <1>6, <1>7, <1>8 DEF CoreSteps, Tick

-----------------------------------------------------------------------------
(* The drainer's part: what the paper fills say.                            *)
LEMMA SaySame ==
  ASSUME NEW B, NEW ords, NEW ords2, \A k \in B : ords2[k] = ords[k],
         NEW q \in Seq(Command), \A i \in 1 .. Len(q) : q[i].id.slot \in B
  PROVE  /\ q \in Seq(Whole(ords)) => q \in Seq(Whole(ords2))
         /\ q \in Seq(Opens(ords)) => q \in Seq(Opens(ords2))
<1>1. ASSUME q \in Seq(Whole(ords)) PROVE q \in Seq(Whole(ords2))
  <2>1. \A i \in 1 .. Len(q) : q[i] \in Whole(ords)
    BY <1>1
  <2>2. \A i \in 1 .. Len(q) : q[i] \in Whole(ords2)
    BY <2>1 DEF Whole
  <2> QED BY <2>2, SeqOfMembers
<1>2. ASSUME q \in Seq(Opens(ords)) PROVE q \in Seq(Opens(ords2))
  <2>1. \A i \in 1 .. Len(q) : q[i] \in Opens(ords)
    BY <1>2
  <2>2. \A i \in 1 .. Len(q) : q[i] \in Opens(ords2)
    BY <2>1 DEF Opens, Whole
  <2> QED BY <2>2, SeqOfMembers
<1> QED BY <1>1, <1>2

(* The reports under way on paper are of orders of the table.               *)
LEMMA FillSlots ==
  ASSUME NEW bm, NEW ords, NEW q \in Seq(Fills(bm, ords))
  PROVE  q \in Seq(Command) /\ \A i \in 1 .. Len(q) : q[i] \in Fills(bm, ords) /\ q[i].id.slot \in bm
<1>1. q \in Seq(Command)
  BY SeqGrows DEF Fills
<1>2. \A i \in 1 .. Len(q) : q[i] \in Fills(bm, ords)
  OBVIOUS
<1> QED BY <1>1, <1>2 DEF Fills

LEMMA PaperPlaced ==
  ASSUME BaseInv, ~Live, NEW s \in Slots, SubmitOne(s)
  PROVE  LET cmd == Head(submit_queues[s])
         IN \/ OrderSlots \subseteq order_bitmap /\ UNCHANGED <<order_bitmap, orders, result_rings>>
            \/ \E k \in OrderSlots \ order_bitmap :
                 LET o == NewOrder(s, cmd, k)
                 IN /\ order_bitmap' = order_bitmap \cup {k}
                    /\ orders' = [orders EXCEPT ![k] = o] /\ ResultPush(SynthFill(o))
                    /\ o \in Order /\ o.id.slot = k /\ o.id.node \in Nodes
<1> DEFINE cmd  == Head(submit_queues[s])
           free == OrderSlots \ order_bitmap
           k    == Min(free)
           o    == NewOrder(s, cmd, k)
<1>1. Submit(s, cmd, order_bitmap, orders) /\ cmd \in SubmitCommands
  BY HeadTyped DEF SubmitOne, BaseInv, IInv, OmsTypeOK, QueuesOK
<1>2. CASE free = {}
  BY <1>1, <1>2 DEF Submit
<1>3. CASE free # {}
  <2>1. /\ order_bitmap' = order_bitmap \cup {k}
        /\ orders' = [orders EXCEPT ![k] = o] /\ ResultPush(SynthFill(o))
    BY <1>1, <1>3 DEF Submit
  <2>2. free \in SUBSET Nat
    BY OmsAssumption
  <2>3. k \in free
    BY <1>3, <2>2, MinIsMember
  <2> HIDE DEF k, cmd
  <2>4. o \in Order
    BY <1>1, <2>3, NewOrderTyped DEF BaseInv, IInv, OmsTypeOK, TableOK
  <2>5. o.id.slot = k /\ o.id.node = NodeOf(s)
    BY DEF NewOrder
  <2> QED BY <2>1, <2>3, <2>4, <2>5, OmsAssumption DEF cmd
<1> QED BY <1>2, <1>3

LEMMA CalmStays ==
  ASSUME Calm, UNCHANGED <<mode, orders, close_bucket, open_bucket>>, ~Live => UNCHANGED result_rings,
         phase' = phase \/ phase' \notin {"drainws", "closes"}
  PROVE  Calm'
BY DEF Calm, Live, PaperWhole, RingsDrained

LEMMA SubmitCalm ==
  ASSUME BaseInv, Calm, NEW s \in Slots, SubmitOne(s)
  PROVE  Calm'
<1>1. UNCHANGED <<mode, close_bucket, open_bucket, phase>> /\ phase = "submit"
  BY DEF SubmitOne
<1> SUFFICES ASSUME ~Live PROVE Calm'
  BY <1>1 DEF Calm, Live
<1> DEFINE cmd == Head(submit_queues[s])
<1>2. CASE UNCHANGED <<order_bitmap, orders, result_rings>>
  BY <1>1, <1>2, CalmStays
<1>3. ASSUME NEW k \in OrderSlots \ order_bitmap,
             order_bitmap' = order_bitmap \cup {k},
             orders' = [orders EXCEPT ![k] = NewOrder(s, cmd, k)],
             ResultPush(SynthFill(NewOrder(s, cmd, k))),
             NewOrder(s, cmd, k) \in Order, NewOrder(s, cmd, k).id.slot = k
      PROVE  Calm'
  <2> DEFINE o    == NewOrder(s, cmd, k)
             fill == SynthFill(o)
  <2>1. fill \in Command /\ fill.id = o.id /\ fill.qty = o.requested
    <3>1. o.id \in OrderId /\ o.requested \in Nat
      BY <1>3 DEF Order
    <3> HIDE DEF o
    <3>2. fill \in Command
      BY <3>1, ReportTyped DEF SynthFill
    <3> QED BY <3>2 DEF SynthFill, Report
  <2>2. /\ PaperWhole /\ PaperRoad /\ result_rings \in [Nodes -> Seq(Command)]
        /\ orders \in [OrderSlots -> Order]
    BY DEF Calm, BaseInv, PInv, IInv, OmsTypeOK, RoadOK, TableOK
  <2>3. orders'[k] = o /\ \A j \in order_bitmap : orders'[j] = orders[j]
    BY <1>3, <2>2
  <2>4. ResultPush(fill) /\ o.id.slot = k
    BY <1>3
  <2> HIDE DEF o, fill
  <2>5. fill \in Whole(orders')
    BY <2>1, <2>3, <2>4 DEF Whole
  <2>6. \A q \in Seq(FillsNow) : /\ q \in Seq(Whole(orders)) => q \in Seq(Whole(orders'))
                                 /\ q \in Seq(Opens(orders)) => q \in Seq(Opens(orders'))
    BY <2>3, FillSlots, SaySame DEF FillsNow
  <2>7. close_bucket' \in Seq(Whole(orders')) /\ open_bucket' \in Seq(Opens(orders'))
    BY <1>1, <2>2, <2>6 DEF PaperWhole, PaperRoad
  <2>8. ASSUME NEW n \in Nodes PROVE result_rings'[n] \in Seq(Whole(orders'))
    <3>1. result_rings[n] \in Seq(Whole(orders'))
      BY <2>2, <2>6 DEF PaperWhole, PaperRoad
    <3>2. Offer(result_rings[n], fill, ResultCap) \in Seq(Whole(orders'))
      BY <2>5, <3>1, OfferTyped
    <3>3. result_rings'[n] = result_rings[n]
          \/ result_rings'[n] = Offer(result_rings[n], fill, ResultCap)
      BY <2>2, <2>4 DEF ResultPush
    <3> QED BY <3>1, <3>2, <3>3
  <2> QED BY <1>1, <2>7, <2>8 DEF Calm, PaperWhole, RingsDrained
<1> QED BY <1>2, <1>3, PaperPlaced

LEMMA DrainCalm ==
  ASSUME BaseInv, Calm, DrainResult \/ DrainWs
  PROVE  Calm'
<1>1. UNCHANGED <<mode, orders, order_bitmap>>
  BY DEF DrainResult, DrainWs, tableVars
<1> SUFFICES ASSUME ~Live PROVE Calm'
  BY <1>1 DEF Calm, Live
<1>2. PaperWhole /\ RingsDrained /\ PaperRoad /\ result_rings \in [Nodes -> Seq(Command)]
      /\ orders \in [OrderSlots -> Order] /\ order_bitmap \subseteq OrderSlots
  BY DEF Calm, BaseInv, PInv, IInv, OmsTypeOK, RoadOK, TableOK
<1>3. CASE DrainWs
  <2>1. UNCHANGED <<close_bucket, open_bucket, result_rings>>
    BY <1>2, <1>3 DEF DrainWs, PaperRoad
  <2>2. \A n \in Nodes : result_rings[n] = << >>
    BY <1>2, <1>3 DEF DrainWs, RingsDrained, Filled
  <2> QED BY <1>1, <1>2, <2>1, <2>2 DEF Calm, PaperWhole, RingsDrained
<1>4. CASE DrainResult
  <2> DEFINE n   == Min(Filled)
             cmd == Head(result_rings[n])
  <2>1. n \in Nodes /\ result_rings[n] # << >>
    <3>1. Filled \in SUBSET Nat /\ Filled # {}
      BY <1>4, AdapterAssumption DEF Filled, DrainResult
    <3> QED BY <3>1, MinIsMember DEF Filled
  <2>2. /\ Bucket(cmd) /\ result_rings' = [result_rings EXCEPT ![n] = Tail(@)]
        /\ phase' = phase /\ phase = "drain"
    BY <1>4 DEF DrainResult
  <2> HIDE DEF n
  <2>3. /\ cmd \in Whole(orders) /\ Tail(result_rings[n]) \in Seq(Whole(orders))
        /\ cmd \in FillsNow
    BY <1>2, <2>1, HeadTyped DEF PaperWhole, PaperRoad
  <2>4. orders[cmd.id.slot].type # "SELL" => cmd \in Opens(orders)
    <3>1. cmd.id.slot \in OrderSlots
      BY <1>2, <2>3 DEF FillsNow, Fills
    <3>2. orders[cmd.id.slot].type \in Side
      BY <1>2, <3>1 DEF Order
    <3> QED BY <2>3, <3>2 DEF Opens, Side
  <2> HIDE DEF cmd
  <2>5. close_bucket' \in Seq(Whole(orders)) /\ open_bucket' \in Seq(Opens(orders))
    <3>1. close_bucket \in Seq(Whole(orders)) /\ open_bucket \in Seq(Opens(orders))
      BY <1>2 DEF PaperWhole
    <3> QED BY <2>2, <2>3, <2>4, <3>1, OfferTyped DEF Bucket
  <2>6. \A m \in Nodes : result_rings'[m] \in Seq(Whole(orders))
    BY <1>2, <2>1, <2>2, <2>3 DEF PaperWhole
  <2> QED BY <1>1, <2>2, <2>5, <2>6 DEF Calm, PaperWhole, RingsDrained
<1> QED BY <1>3, <1>4

LEMMA PaperBooked ==
  ASSUME BaseInv, ~Live, ProcessClose \/ ProcessOpen
  PROVE  \E cmd \in FillsNow :
           /\ order_bitmap' = order_bitmap \ {cmd.id.slot} /\ UNCHANGED result_rings
           /\ \A i \in order_bitmap \ {cmd.id.slot} : orders'[i] = orders[i]
           /\ HandleFill(orders[cmd.id.slot], cmd.qty)
           /\ \/ /\ close_bucket # << >> /\ cmd = Head(close_bucket)
                 /\ close_bucket' = Tail(close_bucket) /\ open_bucket' = open_bucket
              \/ /\ close_bucket = << >> /\ open_bucket # << >> /\ cmd = Head(open_bucket)
                 /\ open_bucket' = Tail(open_bucket) /\ close_bucket' = close_bucket
<1>1. /\ PaperTable /\ IInv /\ close_bucket \in Seq(FillsNow) /\ open_bucket \in Seq(FillsNow)
  BY DEF BaseInv, PInv, PaperRoad
<1>2. CASE ProcessClose
  <2>1. Head(close_bucket) \in FillsNow /\ ProcessFillCommand(Head(close_bucket))
    BY <1>1, <1>2, HeadTyped DEF ProcessClose
  <2> QED BY <1>1, <1>2, <2>1, FillBooked DEF ProcessClose
<1>3. CASE ProcessOpen
  <2>1. Head(open_bucket) \in FillsNow /\ ProcessFillCommand(Head(open_bucket))
    BY <1>1, <1>3, HeadTyped DEF ProcessOpen
  <2> QED BY <1>1, <1>3, <2>1, FillBooked DEF ProcessOpen
<1> QED BY <1>2, <1>3

LEMMA BookCalm ==
  ASSUME BaseInv, BaseInv', Calm, ProcessClose \/ ProcessOpen
  PROVE  Calm'
<1>1. UNCHANGED <<mode, phase>> /\ phase = "closes"
  BY DEF ProcessClose, ProcessOpen
<1> SUFFICES ASSUME ~Live PROVE Calm'
  BY <1>1 DEF Calm, Live
<1>2. PaperWhole /\ RingsDrained
  BY DEF Calm
<1>3. PaperRoad'
  BY <1>1 DEF BaseInv, PInv, Live
<1>4. PICK cmd \in FillsNow :
        /\ order_bitmap' = order_bitmap \ {cmd.id.slot} /\ UNCHANGED result_rings
        /\ \A i \in order_bitmap \ {cmd.id.slot} : orders'[i] = orders[i]
        /\ \/ close_bucket # << >> /\ close_bucket' = Tail(close_bucket) /\ open_bucket' = open_bucket
           \/ open_bucket # << >> /\ open_bucket' = Tail(open_bucket) /\ close_bucket' = close_bucket
  BY PaperBooked
<1>5. \A q \in Seq(FillsNow') : q \in Seq(Command) /\ \A i \in 1 .. Len(q) : q[i].id.slot \in order_bitmap'
  <2>1. FillsNow' = Fills(order_bitmap', orders')
    BY DEF FillsNow
  <2> QED BY <2>1, FillSlots
<1>6. \A q \in Seq(FillsNow') : /\ q \in Seq(Whole(orders)) => q \in Seq(Whole(orders'))
                                /\ q \in Seq(Opens(orders)) => q \in Seq(Opens(orders'))
  BY <1>4, <1>5, SaySame
<1>7. close_bucket' \in Seq(Whole(orders')) /\ open_bucket' \in Seq(Opens(orders'))
  <2>1. close_bucket' \in Seq(Whole(orders)) /\ open_bucket' \in Seq(Opens(orders))
    BY <1>2, <1>4, HeadTyped DEF PaperWhole
  <2> QED BY <1>3, <1>6, <2>1 DEF PaperRoad
<1>8. \A n \in Nodes : result_rings'[n] \in Seq(Whole(orders'))
  BY <1>2, <1>3, <1>4, <1>6 DEF PaperWhole, PaperRoad
<1> QED BY <1>1, <1>2, <1>4, <1>7, <1>8 DEF Calm, PaperWhole, RingsDrained

LEMMA CalmKept ==
  ASSUME BaseInv, BaseInv', Calm, [TNext]_allVars
  PROVE  Calm'
<1>1. CASE HotTick \/ Permit \/ PumpEvent \/ EventsDone \/ UNCHANGED allVars
  <2>1. UNCHANGED <<mode, orders, close_bucket, open_bucket, result_rings>>
    BY <1>1 DEF HotTick, Permit, PumpEvent, EventsDone, allVars, vars, omsVars, adapterVars, tableVars
  <2>2. phase' = phase \/ phase' = "manual"
    BY <1>1 DEF HotTick, Permit, PumpEvent, EventsDone, allVars, vars, omsVars
  <2> QED BY <2>1, <2>2, CalmStays
<1>2. CASE \E s \in Slots : ManualClose(s) \/ SlowExit(s)
  <2>1. UNCHANGED <<mode, orders, close_bucket, open_bucket, result_rings, phase>>
    BY <1>2 DEF ManualClose, SlowExit, ExitRequest, Request, adapterVars, tableVars
  <2> QED BY <2>1, CalmStays
<1>3. CASE PumpDone \/ PassDone \/ \E s \in Slots : SubmitNext(s)
  <2>1. UNCHANGED <<mode, orders, close_bucket, open_bucket, result_rings>>
    BY <1>3 DEF PumpDone, PassDone, SubmitNext, adapterVars, tableVars
  <2>2. phase' = phase \/ phase' \in {"submit", "pump", "drain"}
    BY <1>3 DEF PumpDone, PassDone, SubmitNext
  <2> QED BY <2>1, <2>2, CalmStays
<1>4. CASE Adapter
  <2>1. mode' = mode /\ (~Live => UNCHANGED result_rings)
    BY <1>4, AdapterIdle DEF BaseInv
  <2>2. UNCHANGED <<orders, close_bucket, open_bucket, phase>>
    BY <1>4 DEF Adapter, omsVars, tableVars
  <2> QED BY <2>1, <2>2, CalmStays
<1>5. CASE \E s \in Slots : SubmitOne(s)
  BY <1>5, SubmitCalm
<1>6. CASE DrainResult \/ DrainWs
  BY <1>6, DrainCalm
<1>7. CASE ProcessClose \/ ProcessOpen
  BY <1>7, BookCalm
<1> QED BY <1>1, <1>2, <1>3, <1>4, <1>5, <1>6, <1>7 DEF TNext, Pass, Outside, BookPass

-----------------------------------------------------------------------------
(* The drainer's part: what is under way for a slot.                        *)
OrdersSame(s) ==
  \A k \in OrderSlots :
    /\ k \in order_bitmap' /\ orders'[k].pslot = s <=> k \in order_bitmap /\ orders[k].pslot = s
    /\ k \in order_bitmap /\ orders[k].pslot = s =>
         orders'[k].type = orders[k].type /\ orders'[k].requested = orders[k].requested

Kept(s) == Lined(s)' /\ (After(s)' <=> After(s))

LEMMA SlotSame ==
  ASSUME TableOK, TableOK', NEW s \in Slots, Lined(s), OrdersSame(s),
         submit_queues'[s] = submit_queues[s], positions'[s] = positions[s]
  PROVE  Kept(s)
<1>1. order_bitmap \subseteq OrderSlots /\ order_bitmap' \subseteq OrderSlots
  BY DEF TableOK
<1>2. ASSUME NEW type
      PROVE  /\ Placed(s, type)' <=> Placed(s, type)
             /\ Queued(s, type)' <=> Queued(s, type)
  BY <1>1 DEF OrdersSame, Placed, Queued, IsOf
<1>3. ASSUME NEW type PROVE UnderWay(s, type)' <=> UnderWay(s, type)
  BY <1>2 DEF UnderWay
<1>4. Single(s)'
  <2> SUFFICES ASSUME NEW type \in Side, NEW k \in order_bitmap', NEW j \in order_bitmap',
                      IsOf(k, s, type)', IsOf(j, s, type)'
               PROVE  k = j
    BY DEF Single
  <2>1. k \in order_bitmap /\ j \in order_bitmap /\ IsOf(k, s, type) /\ IsOf(j, s, type)
    BY <1>1 DEF OrdersSame, IsOf
  <2> QED BY <2>1 DEF Lined, Single
<1>5. SellsAll(s)'
  <2>1. ASSUME NEW k \in order_bitmap', IsOf(k, s, "SELL")' PROVE orders'[k].requested = positions'[s]
    <3>1. k \in order_bitmap /\ IsOf(k, s, "SELL") /\ orders'[k].requested = orders[k].requested
      BY <1>1, <2>1 DEF OrdersSame, IsOf
    <3> QED BY <3>1 DEF Lined, SellsAll
  <2> QED BY <2>1 DEF Lined, SellsAll
<1>6. Lined(s)'
  BY <1>2, <1>3, <1>4, <1>5 DEF Lined
<1>7. After(s)' <=> After(s)
  BY <1>3 DEF After
<1> QED BY <1>6, <1>7 DEF Kept

LEMMA TableSame ==
  ASSUME TableOK, UNCHANGED tableVars, NEW s \in Slots
  PROVE  OrdersSame(s) /\ TableOK'
BY DEF OrdersSame, tableVars, TableOK

LEMMA SellingIs ==
  ASSUME QueuesOK, NEW s \in Slots
  PROVE  Selling(s) <=> UnderWay(s, "SELL")
<1>1. submit_queues[s] \in Seq(SubmitCommands)
  BY DEF QueuesOK
<1>2. DOMAIN submit_queues[s] = 1 .. Len(submit_queues[s])
  BY <1>1
<1> QED BY <1>2 DEF Selling, UnderWay, Queued, Placed, IsOf

LEMMA QueuedTyped ==
  ASSUME QueuesOK, NEW s \in Slots, ~Queued(s, "BUY"), ~Queued(s, "SELL")
  PROVE  submit_queues[s] = << >>
<1>1. submit_queues[s] \in Seq(SubmitCommands)
  BY DEF QueuesOK
<1>2. ASSUME submit_queues[s] # << >> PROVE FALSE
  <2>1. 1 \in 1 .. Len(submit_queues[s]) /\ submit_queues[s][1] \in SubmitCommands
    BY <1>1, <1>2
  <2>2. submit_queues[s][1].type \in {"BUY", "SELL"}
    BY <2>1 DEF SubmitCommands, Side
  <2> QED BY <2>1, <2>2 DEF Queued
<1> QED BY <1>2

(* A SELL of all that the slot holds is asked for, by whoever it may be.    *)
LEMMA SellAsked ==
  ASSUME RoomForBoth, BaseInv, BaseInv', NEW s \in Slots, Lined(s),
         positions[s] > 0, ~UnderWay(s, "SELL"), PushSubmit(s, "SELL", positions[s]),
         UNCHANGED <<tableVars, positions>>
  PROVE  Lined(s)' /\ After(s) /\ ~After(s)'
<1>1. /\ QueuesOK /\ submit_queues \in [Slots -> Seq(SubmitCommands)]
      /\ positions[s] \in Nat /\ SubmitCap \in Nat /\ TableOK
  BY OmsAssumption DEF BaseInv, IInv, OmsTypeOK, QueuesOK, PositionsOK
<1>2. ~UnderWay(s, "BUY")
  BY <1>1 DEF Lined
<1>3. submit_queues[s] = << >>
  BY <1>1, <1>2, QueuedTyped DEF UnderWay
<1> DEFINE cmd == SubmitCommand("SELL", positions[s], NodeOf(s))
<1>4. submit_queues'[s] = <<cmd>>
  <2>1. Offer(<< >>, cmd, SubmitCap) = <<cmd>>
    BY <1>1 DEF Offer, RoomForBoth
  <2> QED BY <1>1, <1>3, <2>1 DEF PushSubmit
<1>5. cmd.type = "SELL" /\ cmd.qty = positions[s]
  BY DEF SubmitCommand
<1> HIDE DEF cmd
<1>6. Len(submit_queues'[s]) = 1 /\ submit_queues'[s][1] = cmd
  BY <1>4
<1>7. /\ Queued(s, "SELL")' /\ ~Queued(s, "BUY")'
  BY <1>5, <1>6 DEF Queued
<1>8. ASSUME NEW type PROVE Placed(s, type)' <=> Placed(s, type)
  BY DEF Placed, IsOf, tableVars
<1>9. UnderWay(s, "SELL")' /\ ~UnderWay(s, "BUY")'
  BY <1>2, <1>7, <1>8 DEF UnderWay
<1>10. Single(s)' /\ SellThenBuy(submit_queues'[s])
  BY <1>6 DEF Lined, Single, IsOf, tableVars, SellThenBuy
<1>11. SellsAll(s)'
  BY <1>5, <1>6 DEF Lined, SellsAll, IsOf, tableVars
<1>12. ~Placed(s, "BUY")' /\ ~Placed(s, "SELL")'
  BY <1>2, <1>8 DEF UnderWay
<1>13. Lined(s)'
  BY <1>9, <1>10, <1>11, <1>12 DEF Lined
<1> QED BY <1>9, <1>13 DEF After

(* A BUY is asked for: the slot is empty, or about to be.                   *)
LEMMA BuyAsked ==
  ASSUME RoomForBoth, BaseInv, BaseInv', NEW s \in Slots, Lined(s), ~After(s),
         PushSubmit(s, "BUY", MaxQty), UNCHANGED <<tableVars, positions>>
  PROVE  Lined(s)' /\ After(s)'
<1> DEFINE q   == submit_queues[s]
           cmd == SubmitCommand("BUY", MaxQty, NodeOf(s))
<1>1. /\ QueuesOK /\ submit_queues \in [Slots -> Seq(SubmitCommands)]
      /\ positions[s] \in Nat /\ SubmitCap \in Nat /\ SubmitCap >= 2 /\ q \in Seq(SubmitCommands)
  BY OmsAssumption DEF BaseInv, IInv, OmsTypeOK, QueuesOK, PositionsOK, RoomForBoth
<1>2. ~UnderWay(s, "BUY") /\ (positions[s] = 0 \/ UnderWay(s, "SELL"))
  BY <1>1 DEF After
<1>3. Len(q) <= 1
  <2> SUFFICES ASSUME Len(q) > 1 PROVE FALSE
    BY <1>1
  <2>1. 1 \in 1 .. Len(q) /\ 2 \in 1 .. Len(q)
    BY <1>1
  <2>2. q[2].type = "BUY"
    BY <2>1 DEF Lined, SellThenBuy
  <2> QED BY <1>2, <2>1, <2>2 DEF UnderWay, Queued
<1>4. submit_queues'[s] = Append(q, cmd)
  <2>1. Offer(q, cmd, SubmitCap) = Append(q, cmd)
    BY <1>1, <1>3 DEF Offer
  <2> QED BY <1>1, <2>1 DEF PushSubmit
<1>5. cmd.type = "BUY"
  BY DEF SubmitCommand
<1> DEFINE r == submit_queues'[s]
<1> HIDE DEF cmd
<1>6. /\ Len(r) = Len(q) + 1 /\ r[Len(q) + 1] = cmd /\ Len(q) \in Nat
      /\ \A i \in 1 .. Len(q) : r[i] = q[i]
  BY <1>1, <1>4
<1> HIDE DEF q, r
<1>7. \A i \in 1 .. Len(q) : q[i].type = "SELL"
  <2>1. \A i \in 1 .. Len(q) : q[i] \in SubmitCommands
    BY <1>1
  <2>2. \A i \in 1 .. Len(q) : q[i].type \in {"BUY", "SELL"} /\ q[i].type # "BUY"
    BY <1>2, <2>1 DEF UnderWay, Queued, SubmitCommands, Side, q
  <2> QED BY <2>2
<1>8. /\ Queued(s, "BUY")' /\ (Queued(s, "SELL")' <=> Queued(s, "SELL"))
  <2>1. Queued(s, "BUY")'
    <3>1. Len(q) + 1 \in 1 .. Len(r) /\ r[Len(q) + 1].type = "BUY"
      BY <1>5, <1>6
    <3> QED BY <3>1 DEF Queued, r
  <2>2. ASSUME Queued(s, "SELL") PROVE Queued(s, "SELL")'
    <3>1. PICK i \in 1 .. Len(q) : q[i].type = "SELL"
      BY <2>2 DEF Queued, q
    <3>2. i \in 1 .. Len(r) /\ r[i].type = "SELL"
      BY <1>6, <3>1
    <3> QED BY <3>2 DEF Queued, r
  <2>3. ASSUME Queued(s, "SELL")' PROVE Queued(s, "SELL")
    <3>1. PICK i \in 1 .. Len(r) : r[i].type = "SELL"
      BY <2>3 DEF Queued, r
    <3>2. i \in 1 .. Len(q) \/ i = Len(q) + 1
      BY <1>6
    <3>3. i \in 1 .. Len(q) /\ q[i].type = "SELL"
      BY <1>5, <1>6, <3>1, <3>2
    <3> QED BY <3>3 DEF Queued, q
  <2> QED BY <2>1, <2>2, <2>3
<1>9. ASSUME NEW type PROVE Placed(s, type)' <=> Placed(s, type)
  BY DEF Placed, IsOf, tableVars
<1>10. SellThenBuy(r)
  <2> SUFFICES ASSUME NEW i \in 1 .. Len(r), NEW j \in 1 .. Len(r), i < j
               PROVE  r[i].type = "SELL" /\ r[j].type = "BUY"
    BY DEF SellThenBuy
  <2>1. i \in 1 .. Len(q) /\ j = Len(q) + 1
    BY <1>3, <1>6
  <2> QED BY <1>5, <1>6, <1>7, <2>1
<1>11. Single(s)'
  BY DEF Lined, Single, IsOf, tableVars
<1>12. SellsAll(s)'
  <2>1. ASSUME NEW i \in 1 .. Len(r), r[i].type = "SELL" PROVE r[i].qty = positions[s]
    <3>1. i \in 1 .. Len(q) \/ i = Len(q) + 1
      BY <1>6
    <3>2. i \in 1 .. Len(q) /\ q[i] = r[i]
      BY <1>5, <1>6, <2>1, <3>1
    <3> QED BY <2>1, <3>2 DEF Lined, SellsAll, q
  <2> QED BY <2>1 DEF Lined, SellsAll, IsOf, tableVars, r
<1>13. UnderWay(s, "BUY")' /\ (UnderWay(s, "SELL")' <=> UnderWay(s, "SELL"))
  BY <1>8, <1>9 DEF UnderWay
<1>14. ~Placed(s, "BUY")' /\ (Placed(s, "SELL")' => ~Queued(s, "SELL")')
  BY <1>2, <1>8, <1>9 DEF UnderWay, Lined
<1>15. Lined(s)'
  BY <1>2, <1>10, <1>11, <1>12, <1>13, <1>14 DEF Lined, r
<1> QED BY <1>13, <1>15 DEF After

LEMMA PlacesForBoth ==
  /\ IsFiniteSet(Slots \X Side)
  /\ Cardinality(Slots \X Side) = 2 * Cardinality(Slots) /\ Cardinality(Slots) \in Nat
<1>1. IsFiniteSet(Slots)
  <2>1. IsFiniteSet({0}) /\ IsFiniteSet({0} \cup {1})
    BY FS_Singleton, FS_AddElement
  <2>2. {0, 1} = {0} \cup {1}
    OBVIOUS
  <2>3. Slots \in {{0}, {0, 1}}
    BY TradingAssumption, CoreAssumption
  <2> QED BY <2>1, <2>2, <2>3
<1>2. IsFiniteSet(Side) /\ Cardinality(Side) = 2
  <2>1. IsFiniteSet({"BUY"}) /\ Cardinality({"BUY"}) = 1 /\ "SELL" \notin {"BUY"}
    BY FS_Singleton
  <2>2. /\ IsFiniteSet({"BUY"} \cup {"SELL"})
        /\ Cardinality({"BUY"} \cup {"SELL"}) = Cardinality({"BUY"}) + 1
    BY <2>1, FS_AddElement
  <2>3. Side = {"BUY"} \cup {"SELL"}
    BY DEF Side
  <2>4. Cardinality({"BUY"}) + 1 = 2
    BY <2>1
  <2> QED BY <2>2, <2>3, <2>4
<1>3. IsFiniteSet(Slots \X Side) /\ Cardinality(Slots \X Side) = Cardinality(Slots) * Cardinality(Side)
  BY <1>1, <1>2, FS_Product
<1>4. Cardinality(Slots) \in Nat
  BY <1>1, FS_CardinalityType
<1>5. Cardinality(Slots) * 2 = 2 * Cardinality(Slots)
  BY <1>4
<1> QED BY <1>2, <1>3, <1>4, <1>5

(* What a queue asks for is not in the table yet.                           *)
LEMMA HeadNotPlaced ==
  ASSUME QueuesOK, NEW s \in Slots, Lined(s), submit_queues[s] # << >>
  PROVE  LET q == submit_queues[s]
         IN /\ Head(q) \in SubmitCommands /\ Head(q).type \in Side
            /\ ~Placed(s, "BUY") /\ ~Placed(s, Head(q).type)
<1> DEFINE q == submit_queues[s]
<1>1. /\ q \in Seq(SubmitCommands) /\ Head(q) = q[1] /\ 1 \in 1 .. Len(q)
      /\ Head(q) \in SubmitCommands
  BY DEF QueuesOK
<1>2. Head(q).type \in {"BUY", "SELL"}
  BY <1>1 DEF SubmitCommands, Side
<1>3. Head(q).type = "SELL" => Queued(s, "SELL")
  BY <1>1 DEF Queued
<1> QED BY <1>1, <1>2, <1>3 DEF Lined, Side

(* MAX_INFLIGHT_ORDERS is enough: OrderManager_Submit finds a free slot.    *)
LEMMA RoomLeft ==
  ASSUME FillsFit, RoomForBoth, BaseInv, \A p \in Slots : Lined(p),
         NEW s \in Slots, submit_queues[s] # << >>
  PROVE  ~(OrderSlots \subseteq order_bitmap)
<1> SUFFICES ASSUME OrderSlots \subseteq order_bitmap PROVE FALSE
  OBVIOUS
<1>1. /\ order_bitmap = OrderSlots /\ orders \in [OrderSlots -> Order] /\ QueuesOK
  BY DEF BaseInv, IInv, OmsTypeOK, TableOK
<1> DEFINE x == <<s, Head(submit_queues[s]).type>>
           T == (Slots \X Side) \ {x}
           f == [k \in OrderSlots |-> <<orders[k].pslot, orders[k].type>>]
<1>2. x \in Slots \X Side /\ ~Placed(s, Head(submit_queues[s]).type)
  BY <1>1, HeadNotPlaced
<1>3. f \in Injection(OrderSlots, T)
  <2>1. \A k \in OrderSlots : orders[k].pslot \in Slots /\ orders[k].type \in Side
    BY <1>1 DEF Order
  <2>2. ASSUME NEW k \in OrderSlots PROVE f[k] \in T
    <3>1. f[k] = <<orders[k].pslot, orders[k].type>> /\ f[k] \in Slots \X Side
      BY <2>1
    <3>2. ASSUME f[k] = x PROVE FALSE
      BY <1>1, <1>2, <3>1, <3>2 DEF Placed, IsOf
    <3> QED BY <3>1, <3>2
  <2>3. ASSUME NEW k \in OrderSlots, NEW j \in OrderSlots, f[k] = f[j] PROVE k = j
    <3>1. orders[k].pslot = orders[j].pslot /\ orders[k].type = orders[j].type
      BY <2>3
    <3>2. /\ IsOf(k, orders[k].pslot, orders[k].type) /\ IsOf(j, orders[k].pslot, orders[k].type)
          /\ Single(orders[k].pslot) /\ orders[k].type \in Side
      BY <2>1, <3>1 DEF IsOf, Lined
    <3> QED BY <1>1, <3>2 DEF Single
  <2>4. f \in [OrderSlots -> T]
    <3>1. f = [k \in OrderSlots |-> f[k]]
      OBVIOUS
    <3> HIDE DEF f, T
    <3> QED BY <2>2, <3>1
  <2> HIDE DEF f, T
  <2> QED BY <2>3, <2>4 DEF Injection, IsInjective
<1>4. /\ IsFiniteSet(T) /\ Cardinality(T) = Cardinality(Slots \X Side) - 1
  BY <1>2, PlacesForBoth, FS_RemoveElement
<1> HIDE DEF f, T
<1>5. Cardinality(OrderSlots) <= Cardinality(T)
  BY <1>3, <1>4, FS_Injection
<1>6. Cardinality(OrderSlots) \in Nat
  BY FS_CardinalityType DEF FillsFit
<1> QED BY <1>4, <1>5, <1>6, PlacesForBoth DEF RoomForBoth

LEMMA SubmitKept ==
  ASSUME FillsFit, RoomForBoth, BaseInv, BaseInv', ~Live, \A p \in Slots : Lined(p),
         NEW s \in Slots, SubmitOne(s), NEW p \in Slots
  PROVE  Kept(p)
<1> DEFINE q   == submit_queues[s]
           cmd == Head(q)
<1>1. /\ QueuesOK /\ QueuesOK' /\ TableOK /\ TableOK' /\ orders \in [OrderSlots -> Order]
      /\ q \in Seq(SubmitCommands) /\ order_bitmap \subseteq OrderSlots
      /\ submit_queues \in [Slots -> Seq(SubmitCommands)]
  BY DEF BaseInv, IInv, OmsTypeOK, QueuesOK, TableOK
<1>2. /\ q # << >> /\ submit_queues' = [submit_queues EXCEPT ![s] = Tail(@)]
      /\ UNCHANGED positions
  BY DEF SubmitOne
<1>3. PICK k \in OrderSlots \ order_bitmap :
        /\ order_bitmap' = order_bitmap \cup {k}
        /\ orders' = [orders EXCEPT ![k] = NewOrder(s, cmd, k)]
  BY <1>2, PaperPlaced, RoomLeft
<1> DEFINE o == NewOrder(s, cmd, k)
<1>4. o.pslot = s /\ o.type = cmd.type /\ o.requested = cmd.qty
  BY DEF NewOrder
<1>5. /\ orders'[k] = o /\ \A j \in order_bitmap : orders'[j] = orders[j] /\ j # k
      /\ k \in order_bitmap'
  BY <1>1, <1>3
<1> HIDE DEF o
<1>6. CASE p # s
  <2>1. OrdersSame(p)
    BY <1>3, <1>4, <1>5, <1>6 DEF OrdersSame
  <2> QED BY <1>1, <1>2, <1>6, <2>1, SlotSame
<1>7. CASE p = s
  <2>1. /\ cmd.type \in {"BUY", "SELL"} /\ ~Placed(s, "BUY") /\ ~Placed(s, cmd.type)
        /\ Lined(s)
    BY <1>1, <1>2, HeadNotPlaced DEF Side
  <2> DEFINE r == submit_queues'[s]
  <2>2. /\ r = Tail(q) /\ Len(q) \in Nat /\ Len(q) >= 1 /\ Len(r) = Len(q) - 1 /\ cmd = q[1]
        /\ \A i \in 1 .. Len(r) : r[i] = q[i + 1] /\ i + 1 \in 2 .. Len(q) /\ i \in Nat
    BY <1>1, <1>2
  <2> HIDE DEF q, cmd, r
  <2>3. \A i \in 1 .. Len(r) : r[i].type = "BUY" /\ cmd.type = "SELL"
    <3> SUFFICES ASSUME NEW i \in 1 .. Len(r) PROVE r[i].type = "BUY" /\ cmd.type = "SELL"
      OBVIOUS
    <3>1. 1 \in 1 .. Len(q) /\ i + 1 \in 1 .. Len(q) /\ 1 < i + 1
      BY <2>2
    <3> QED BY <2>1, <2>2, <3>1 DEF Lined, SellThenBuy, q
  <2>4. cmd.type = "BUY" => r = << >>
    <3>1. r \in Seq(SubmitCommands)
      BY <1>1 DEF r, QueuesOK
    <3> QED BY <2>3, <3>1
  <2>5. ASSUME NEW type PROVE Placed(s, type)' <=> Placed(s, type) \/ type = cmd.type
    <3>1. ASSUME NEW j \in order_bitmap PROVE IsOf(j, s, type)' <=> IsOf(j, s, type)
      BY <1>5, <3>1 DEF IsOf
    <3>2. IsOf(k, s, type)' <=> type = cmd.type
      BY <1>4, <1>5 DEF IsOf
    <3> QED BY <1>3, <3>1, <3>2 DEF Placed
  <2>6. ASSUME NEW type PROVE Queued(s, type) <=> Queued(s, type)' \/ type = cmd.type
    <3>1. ASSUME Queued(s, type) PROVE Queued(s, type)' \/ type = cmd.type
      <4>1. PICK i \in 1 .. Len(q) : q[i].type = type
        BY <3>1 DEF Queued, q
      <4>2. CASE i = 1
        BY <2>2, <4>1, <4>2
      <4>3. CASE i # 1
        <5>1. i - 1 \in 1 .. Len(r) /\ r[i - 1] = q[(i - 1) + 1] /\ (i - 1) + 1 = i
          BY <2>2, <4>3
        <5>2. r[i - 1].type = type
          BY <4>1, <5>1
        <5> QED BY <5>1, <5>2 DEF Queued, r
      <4> QED BY <4>2, <4>3
    <3>2. ASSUME Queued(s, type)' PROVE Queued(s, type)
      <4>1. PICK i \in 1 .. Len(r) : r[i].type = type
        BY <3>2 DEF Queued, r
      <4>2. i + 1 \in 1 .. Len(q) /\ q[i + 1].type = type
        BY <2>2, <4>1
      <4> QED BY <4>2 DEF Queued, q
    <3>3. ASSUME type = cmd.type PROVE Queued(s, type)
      <4>1. 1 \in 1 .. Len(q) /\ q[1].type = type
        BY <2>2, <3>3
      <4> QED BY <4>1 DEF Queued, q
    <3> QED BY <3>1, <3>2, <3>3
  <2>7. ASSUME NEW type PROVE UnderWay(s, type)' <=> UnderWay(s, type)
    BY <2>5, <2>6 DEF UnderWay
  <2>8. Single(s)'
    <3> SUFFICES ASSUME NEW type \in Side, NEW i \in order_bitmap', NEW j \in order_bitmap',
                        IsOf(i, s, type)', IsOf(j, s, type)'
                 PROVE  i = j
      BY DEF Single
    <3>1. ASSUME NEW h \in order_bitmap, IsOf(h, s, type)' PROVE IsOf(h, s, type) /\ type # cmd.type
      <4>1. IsOf(h, s, type)
        BY <1>5, <3>1 DEF IsOf
      <4> QED BY <2>1, <4>1 DEF Placed
    <3>2. IsOf(k, s, type)' => type = cmd.type
      BY <1>4, <1>5 DEF IsOf
    <3>3. i \in order_bitmap \/ i = k
      BY <1>3
    <3>4. j \in order_bitmap \/ j = k
      BY <1>3
    <3> QED BY <2>1, <3>1, <3>2, <3>3, <3>4 DEF Lined, Single
  <2>9. SellsAll(s)'
    <3>1. ASSUME NEW i \in 1 .. Len(r), r[i].type = "SELL" PROVE FALSE
      BY <2>3, <3>1
    <3>2. ASSUME NEW j \in order_bitmap', IsOf(j, s, "SELL")' PROVE orders'[j].requested = positions[s]
      <4>1. CASE j = k
        <5>1. cmd.type = "SELL" /\ q[1] = cmd /\ 1 \in 1 .. Len(q)
          BY <1>4, <1>5, <2>2, <3>2, <4>1 DEF IsOf
        <5>2. cmd.qty = positions[s]
          BY <2>1, <5>1 DEF Lined, SellsAll, q
        <5> QED BY <1>4, <1>5, <4>1, <5>2
      <4>2. CASE j # k
        <5>1. j \in order_bitmap /\ orders'[j] = orders[j]
          BY <1>3, <1>5, <4>2
        <5>2. IsOf(j, s, "SELL")
          BY <3>2, <5>1 DEF IsOf
        <5> QED BY <2>1, <5>1, <5>2 DEF Lined, SellsAll
      <4> QED BY <4>1, <4>2
    <3> QED BY <1>2, <3>1, <3>2 DEF SellsAll, r
  <2>10. SellThenBuy(r)
    BY <2>2, <2>3 DEF SellThenBuy, Lined, q
  <2>11. ~Queued(s, "SELL")'
    BY <2>3 DEF Queued, r
  <2>12. Placed(s, "BUY")' => r = << >>
    BY <2>1, <2>4, <2>5
  <2>13. Lined(s)'
    BY <1>2, <2>1, <2>7, <2>8, <2>9, <2>10, <2>11, <2>12 DEF Lined, r
  <2>14. After(s)' <=> After(s)
    BY <1>2, <2>7 DEF After
  <2> QED BY <1>7, <2>13, <2>14 DEF Kept
<1> QED BY <1>6, <1>7


(* A paper fill is booked: order k leaves the table.                        *)
LEMMA PlacedLess ==
  ASSUME NEW k \in order_bitmap, order_bitmap' = order_bitmap \ {k},
         \A i \in order_bitmap \ {k} : orders'[i] = orders[i],
         NEW s \in Slots, NEW type, Single(s)
  PROVE  /\ Single(s)'
         /\ Placed(s, type)' => Placed(s, type)
         /\ ~IsOf(k, s, type) => (Placed(s, type)' <=> Placed(s, type))
         /\ IsOf(k, s, type) /\ type \in Side => ~Placed(s, type)'
<1>1. ASSUME NEW j \in order_bitmap', NEW t PROVE j \in order_bitmap /\ j # k /\ (IsOf(j, s, t)' <=> IsOf(j, s, t))
  BY <1>1 DEF IsOf
<1>2. Single(s)'
  BY <1>1 DEF Single
<1>3. Placed(s, type)' => Placed(s, type)
  BY <1>1 DEF Placed
<1>4. ASSUME ~IsOf(k, s, type), Placed(s, type) PROVE Placed(s, type)'
  <2>1. PICK j \in order_bitmap : IsOf(j, s, type)
    BY <1>4 DEF Placed
  <2>2. j \in order_bitmap'
    BY <1>4, <2>1
  <2> QED BY <1>1, <2>1, <2>2 DEF Placed
<1>5. ASSUME IsOf(k, s, type), type \in Side, Placed(s, type)' PROVE FALSE
  <2>1. PICK j \in order_bitmap' : IsOf(j, s, type)'
    BY <1>5 DEF Placed
  <2> QED BY <1>1, <1>5, <2>1 DEF Single
<1> QED BY <1>2, <1>3, <1>4, <1>5

LEMMA SellBooked ==
  ASSUME BaseInv, NEW k \in order_bitmap, NEW s \in Slots, Lined(s), IsOf(k, s, "SELL"),
         order_bitmap' = order_bitmap \ {k},
         \A i \in order_bitmap \ {k} : orders'[i] = orders[i],
         UNCHANGED submit_queues, HandleFill(orders[k], orders[k].requested)
  PROVE  Kept(s)
<1>1. /\ positions \in [Slots -> Nat] /\ "SELL" \in Side /\ "BUY" \in Side
  BY DEF BaseInv, IInv, OmsTypeOK, PositionsOK, Side
<1>2. Placed(s, "SELL") /\ UnderWay(s, "SELL") /\ ~Queued(s, "SELL") /\ Single(s)
  BY DEF Placed, UnderWay, Lined
<1>3. orders[k].requested = positions[s] /\ orders[k].type = "SELL" /\ orders[k].pslot = s
  BY DEF Lined, SellsAll, IsOf
<1>4. positions'[s] = 0
  <2>1. Min({positions[s]}) \in {positions[s]}
    BY <1>1, MinIsMember
  <2>2. {positions[s], positions[s]} = {positions[s]}
    OBVIOUS
  <2>3. AfterFill(orders[k], orders[k].requested) = positions[s] - Min({positions[s], positions[s]})
    BY <1>3 DEF AfterFill
  <2>4. AfterFill(orders[k], orders[k].requested) = 0
    BY <1>1, <2>1, <2>2, <2>3
  <2> QED BY <1>1, <1>3, <2>4 DEF HandleFill
<1>5. Single(s)' /\ ~Placed(s, "SELL")'
  BY <1>1, <1>2, PlacedLess
<1>6. Placed(s, "BUY")' <=> Placed(s, "BUY")
  <2>1. ~IsOf(k, s, "BUY")
    BY <1>3 DEF IsOf
  <2> QED BY <1>2, <2>1, PlacedLess
<1>7. ASSUME NEW type PROVE Queued(s, type)' <=> Queued(s, type)
  BY DEF Queued
<1>8. ~UnderWay(s, "SELL")' /\ (UnderWay(s, "BUY")' <=> UnderWay(s, "BUY"))
  BY <1>2, <1>5, <1>6, <1>7 DEF UnderWay
<1>9. SellsAll(s)'
  BY <1>2, <1>5, <1>7 DEF SellsAll, Queued, Placed
<1>10. Lined(s)'
  BY <1>4, <1>5, <1>6, <1>8, <1>9 DEF Lined
<1>11. After(s)' <=> After(s)
  BY <1>2, <1>4, <1>8 DEF After
<1> QED BY <1>10, <1>11 DEF Kept

LEMMA BuyBooked ==
  ASSUME BaseInv, NEW k \in order_bitmap, NEW s \in Slots, Lined(s), IsOf(k, s, "BUY"),
         order_bitmap' = order_bitmap \ {k},
         \A i \in order_bitmap \ {k} : orders'[i] = orders[i],
         UNCHANGED submit_queues, ~Placed(s, "SELL"),
         NEW qty \in Nat, qty > 0, HandleFill(orders[k], qty)
  PROVE  Kept(s)
<1>1. /\ positions \in [Slots -> Nat] /\ "SELL" \in Side /\ "BUY" \in Side
  BY DEF BaseInv, IInv, OmsTypeOK, PositionsOK, Side
<1>2. Placed(s, "BUY") /\ UnderWay(s, "BUY") /\ submit_queues[s] = << >> /\ Single(s)
  BY DEF Placed, UnderWay, Lined
<1>3. positions'[s] > 0
  <2>1. orders[k].type = "BUY" /\ orders[k].pslot = s
    BY DEF IsOf
  <2>2. AfterFill(orders[k], qty) = positions[s] + qty
    BY <2>1 DEF AfterFill
  <2>3. positions'[s] = positions[s] + qty
    BY <1>1, <2>1, <2>2 DEF HandleFill
  <2> QED BY <1>1, <2>3
<1>4. Single(s)' /\ ~Placed(s, "SELL")' /\ ~Placed(s, "BUY")'
  BY <1>1, <1>2, PlacedLess
<1>5. ASSUME NEW type PROVE ~Queued(s, type)'
  BY <1>2 DEF Queued
<1>6. ~UnderWay(s, "SELL")' /\ ~UnderWay(s, "BUY")'
  BY <1>4, <1>5 DEF UnderWay
<1>7. SellsAll(s)'
  BY <1>4, <1>5 DEF SellsAll, Queued, Placed
<1>8. SellThenBuy(submit_queues'[s])
  BY DEF Lined
<1>9. Lined(s)'
  BY <1>4, <1>6, <1>7, <1>8 DEF Lined
<1> QED BY <1>2, <1>3, <1>6, <1>9 DEF Kept, After

(* OrderManager_ProcessBucket_Closes comes before the opens: a BUY is       *)
(* booked when no SELL is left in the table.                                *)
LEMMA ClosesFirst ==
  ASSUME BaseInv, Calm, ~Live, ProcessClose \/ ProcessOpen, close_bucket = << >>
  PROVE  \A j \in order_bitmap : orders[j].type = "BUY"
<1>1. /\ open_bucket \in Seq(Opens(orders)) /\ \A n \in Nodes : result_rings[n] = << >>
      /\ phase = "closes"
  BY DEF Calm, PaperWhole, RingsDrained, ProcessClose, ProcessOpen
<1>2. /\ PaperTable /\ TableConsistent /\ TableOK /\ open_bucket \in Seq(Command)
  BY DEF BaseInv, PInv, IInv, OmsTypeOK, QueuesOK, RoadOK
<1> SUFFICES ASSUME NEW j \in order_bitmap PROVE orders[j].type = "BUY"
  OBVIOUS
<1> DEFINE id == orders[j].id
<1>3. id \in OrderId /\ id.slot = j /\ id.node \in Nodes
  <2>1. orders[j] \in Order
    BY <1>2 DEF TableOK
  <2>2. id \in OrderId /\ orders[j].pslot \in Slots
    BY <2>1 DEF Order
  <2>3. id.slot = j /\ id.node = NodeOf(orders[j].pslot)
    BY <1>2 DEF TableConsistent
  <2> QED BY <2>2, <2>3, OmsAssumption
<1>4. Waiting(id) = 1
  BY <1>2, <1>3 DEF PaperTable
<1>5. Reports(open_bucket, id) # 0
  <2>1. Reports(close_bucket, id) = 0 /\ Reports(result_rings[id.node], id) = 0
    BY <1>1, <1>3, ReportsEmpty
  <2> HIDE DEF id
  <2>2. Waiting(id) = 0 + Reports(open_bucket, id) + 0
    BY <2>1 DEF Waiting
  <2> QED BY <1>4, <2>2
<1>6. PICK i \in 1 .. Len(open_bucket) : open_bucket[i].id = id
  BY <1>2, <1>5, ReportsNone
<1>7. open_bucket[i] \in Opens(orders)
  BY <1>1
<1> QED BY <1>3, <1>6, <1>7 DEF Opens

LEMMA BookKept ==
  ASSUME BaseInv, BaseInv', Calm, ~Live, \A p \in Slots : Lined(p),
         ProcessClose \/ ProcessOpen, NEW p \in Slots
  PROVE  Kept(p)
<1>1. PICK cmd \in FillsNow :
        /\ order_bitmap' = order_bitmap \ {cmd.id.slot}
        /\ \A i \in order_bitmap \ {cmd.id.slot} : orders'[i] = orders[i]
        /\ HandleFill(orders[cmd.id.slot], cmd.qty)
        /\ \/ close_bucket # << >> /\ cmd = Head(close_bucket)
           \/ close_bucket = << >> /\ open_bucket # << >> /\ cmd = Head(open_bucket)
  BY PaperBooked
<1> DEFINE k == cmd.id.slot
           s == orders[k].pslot
<1>2. /\ TableOK /\ TableOK' /\ orders \in [OrderSlots -> Order] /\ order_bitmap \subseteq OrderSlots
      /\ positions \in [Slots -> Nat]
  BY DEF BaseInv, IInv, OmsTypeOK, TableOK, PositionsOK
<1>3. /\ k \in order_bitmap /\ cmd.qty \in Nat /\ cmd.qty > 0 /\ orders[k].id = cmd.id
      /\ s \in Slots /\ orders[k].type \in {"BUY", "SELL"}
  <2>1. k \in order_bitmap /\ cmd \in Command /\ cmd.qty > 0 /\ orders[k].id = cmd.id
    BY DEF FillsNow, Fills
  <2>2. cmd.qty \in Nat
    BY <2>1 DEF Command
  <2>3. orders[k] \in Order
    BY <1>2, <2>1
  <2>4. orders[k].pslot \in Slots /\ orders[k].type \in Side
    BY <2>3 DEF Order
  <2> QED BY <2>1, <2>2, <2>4 DEF Side
<1>4. UNCHANGED submit_queues
  BY DEF ProcessClose, ProcessOpen
<1>5. CASE p # s
  <2>1. OrdersSame(p)
    BY <1>1, <1>2, <1>3, <1>5 DEF OrdersSame
  <2>2. positions'[p] = positions[p]
    BY <1>1, <1>2, <1>3, <1>5 DEF HandleFill
  <2> QED BY <1>2, <1>4, <2>1, <2>2, SlotSame
<1>6. CASE p = s
  <2>1. PaperWhole
    BY DEF Calm
  <2>2. CASE close_bucket # << >> /\ cmd = Head(close_bucket)
    <3>1. cmd \in Whole(orders) /\ cmd = close_bucket[1] /\ 1 \in 1 .. Len(close_bucket)
      <4>1. close_bucket \in Seq(Whole(orders))
        BY <2>1 DEF PaperWhole
      <4> QED BY <2>2, <4>1
    <3>2. Sells(close_bucket, order_bitmap, orders)
      BY DEF BaseInv, RInv, TableOwes, Owes
    <3>3. orders[k].type = "SELL"
      BY <1>3, <3>1, <3>2 DEF Sells
    <3>4. cmd.qty = orders[k].requested
      BY <3>1 DEF Whole
    <3>5. IsOf(k, s, "SELL") /\ HandleFill(orders[k], orders[k].requested)
      BY <1>1, <3>3, <3>4 DEF IsOf
    <3> HIDE DEF k, s
    <3> QED BY <1>1, <1>3, <1>4, <1>6, <3>5, SellBooked DEF k
  <2>3. CASE close_bucket = << >> /\ open_bucket # << >> /\ cmd = Head(open_bucket)
    <3>1. \A j \in order_bitmap : orders[j].type = "BUY"
      BY <2>3, ClosesFirst
    <3>2. IsOf(k, s, "BUY") /\ ~Placed(s, "SELL")
      BY <1>3, <3>1 DEF IsOf, Placed
    <3>3. HandleFill(orders[k], cmd.qty) /\ Lined(s)
      BY <1>1, <1>3
    <3> HIDE DEF s
    <3> QED BY <1>1, <1>3, <1>4, <1>6, <3>2, <3>3, BuyBooked
  <2> QED BY <1>1, <2>2, <2>3
<1> QED BY <1>5, <1>6


-----------------------------------------------------------------------------
(* The other steps of the order manager.                                    *)
LEMMA BooksKept ==
  ASSUME FillsFit, RoomForBoth, BaseInv, BaseInv', Calm, ~Live, \A p \in Slots : Lined(p),
         BookPass \/ Still \/ Adapter, NEW p \in Slots
  PROVE  Kept(p)
<1>1. TableOK /\ TableOK' /\ Lined(p)
  BY DEF BaseInv, IInv, OmsTypeOK
<1>2. CASE UNCHANGED <<tableVars, positions, submit_queues>>
  BY <1>1, <1>2, TableSame, SlotSame
<1>3. CASE Still \/ Adapter
  <2>1. UNCHANGED <<tableVars, positions, submit_queues>>
    BY <1>3 DEF Still, Adapter, omsVars
  <2> QED BY <1>2, <2>1
<1>4. CASE DrainResult \/ DrainWs \/ PassDone \/ \E s \in Slots : SubmitNext(s)
  <2>1. UNCHANGED <<tableVars, positions, submit_queues>>
    BY <1>4 DEF DrainResult, DrainWs, PassDone, SubmitNext
  <2> QED BY <1>2, <2>1
<1>5. CASE \E s \in Slots : SubmitOne(s)
  BY <1>5, SubmitKept
<1>6. CASE ProcessClose \/ ProcessOpen
  BY <1>6, BookKept
<1> QED BY <1>3, <1>4, <1>5, <1>6 DEF BookPass

(* A request for one slot leaves the others alone.                          *)
LEMMA AskedElsewhere ==
  ASSUME BaseInv, NEW s \in Slots, NEW type, NEW qty, PushSubmit(s, type, qty),
         UNCHANGED <<tableVars, positions>>, NEW p \in Slots, p # s, Lined(p)
  PROVE  Kept(p)
<1>1. TableOK /\ submit_queues \in [Slots -> Seq(SubmitCommands)]
  BY DEF BaseInv, IInv, OmsTypeOK, QueuesOK
<1>2. submit_queues'[p] = submit_queues[p]
  BY <1>1 DEF PushSubmit
<1> QED BY <1>1, <1>2, TableSame, SlotSame

-----------------------------------------------------------------------------
(* The ring: the hot core's side of the agreement.                          *)
(* Only a push moves the flag that a tick will leave.                       *)
LEMMA FlagStays ==
  ASSUME CoreTypeOK, Plan, TickLoad \/ TickDecide \/ TickStore, NEW s \in Slots
  PROVE  Flag(s)' <=> Flag(s)
<1>1. s \in Legs /\ active \in [Legs -> BOOLEAN]
  BY LegIsSlot DEF CoreTypeOK
<1>2. CASE TickLoad
  BY <1>1, <1>2 DEF TickLoad, Flag, NewFlag
<1>3. CASE TickDecide
  <2>1. step = "decide" /\ step' = "push" /\ loaded' = loaded /\ done' = done
    BY <1>3 DEF TickDecide
  <2> QED BY <2>1 DEF Flag, NewFlag
<1>4. CASE TickStore
  <2>1. step = "push" /\ step' = "idle" /\ active'[s] = NewFlag(s)
    BY <1>1, <1>4 DEF TickStore
  <2> QED BY <2>1 DEF Flag
<1> QED BY <1>2, <1>3, <1>4

(* An event that gets into the ring is the one the flag called for.         *)
LEMMA FlagPushed ==
  ASSUME CoreTypeOK, Plan, TickPush, Len(event_ring) < RingCap, NEW s \in Slots
  PROVE  LET e == Head(todo)
         IN /\ e \in Events /\ event_ring' = Append(event_ring, e)
            /\ e.leg # s => (Flag(s)' <=> Flag(s))
            /\ e.leg = s => (Flag(s) <=> e.type = "EXIT") /\ (Flag(s)' <=> e.type = "ENTRY")
<1> DEFINE e == Head(todo)
<1>1. /\ e \in Events /\ todo # << >> /\ step = "push" /\ done \subseteq Events
      /\ todo \in Seq(Events)
  BY HeadTyped DEF TickPush, CoreTypeOK
<1>2. /\ event_ring' = Append(event_ring, e) /\ done' = done \cup {e}
      /\ step' = step /\ loaded' = loaded
  BY DEF TickPush
<1>3. Called(e) /\ e \notin done /\ \A c \in done : Called(c)
  <2>1. e = todo[1] /\ 1 \in 1 .. Len(todo)
    BY <1>1
  <2> QED BY <1>1, <2>1 DEF Plan
<1> HIDE DEF e
<1>4. /\ e.leg \in Legs /\ e.type \in {"ENTRY", "EXIT"} /\ e = Event(e.type, e.leg)
  BY <1>1 DEF Events, Event
<1>5. /\ Event("ENTRY", s).leg = s /\ Event("ENTRY", s).type = "ENTRY"
      /\ Event("EXIT", s).leg = s /\ Event("EXIT", s).type = "EXIT"
  BY DEF Event
<1>6. /\ Flag(s) = NewFlag(s) /\ Flag(s)' = NewFlag(s)'
      /\ loaded \in [Legs -> BOOLEAN] /\ s \in Legs
  BY <1>1, <1>2, LegIsSlot DEF Flag, CoreTypeOK
<1>7. /\ Event("ENTRY", s) \in done => ~loaded[s]
      /\ Event("EXIT", s) \in done => loaded[s]
  BY <1>3, <1>5 DEF Called
<1>8. CASE e.leg # s
  <2>1. /\ Event("ENTRY", s) \in done' <=> Event("ENTRY", s) \in done
        /\ Event("EXIT", s) \in done' <=> Event("EXIT", s) \in done
    BY <1>2, <1>5, <1>8
  <2> QED BY <1>1, <1>2, <1>6, <1>8, <2>1 DEF NewFlag, e
<1>9. CASE e.leg = s /\ e.type = "EXIT"
  <2>1. loaded[s] /\ e = Event("EXIT", s)
    BY <1>3, <1>4, <1>9 DEF Called
  <2>2. NewFlag(s) /\ ~NewFlag(s)'
    BY <1>2, <1>3, <2>1 DEF NewFlag
  <2> QED BY <1>1, <1>2, <1>6, <1>9, <2>2 DEF e
<1>10. CASE e.leg = s /\ e.type = "ENTRY"
  <2>1. ~loaded[s] /\ e = Event("ENTRY", s)
    BY <1>3, <1>4, <1>10 DEF Called
  <2>2. ~NewFlag(s) /\ NewFlag(s)'
    BY <1>2, <1>3, <1>5, <1>7, <2>1 DEF NewFlag
  <2> QED BY <1>1, <1>2, <1>6, <1>10, <2>2 DEF e
<1> QED BY <1>4, <1>8, <1>9, <1>10


(* The rings of the node, as they grow and are popped.                      *)
LEMMA AgreeEmpty ==
  ASSUME NEW s, NEW after \in BOOLEAN, NEW flag \in BOOLEAN, NEW beside
  PROVE  /\ Agree(<< >>, s, after, flag, beside) =>
              (after => flag) /\ (flag /\ ~beside => after)
         /\ ~ExitFirst(<< >>, s)
         /\ Agree(<< >>, s, FALSE, FALSE, beside)
<1>1. ASSUME Agree(<< >>, s, after, flag, beside)
      PROVE  (after => flag) /\ (flag /\ ~beside => after)
  BY <1>1 DEF Agree, LeadsTo
<1>2. Agree(<< >>, s, FALSE, FALSE, beside)
  <2> DEFINE h == [i \in 0 .. 0 |-> "EXIT"]
  <2>1. h \in Courses(<< >>) /\ h[0] = "EXIT"
    BY DEF Courses
  <2> HIDE DEF h
  <2>2. LeadsTo(h, << >>, s, FALSE, FALSE, beside)
    BY <2>1 DEF LeadsTo, Course
  <2> QED BY <2>1, <2>2 DEF Agree
<1>3. ~ExitFirst(<< >>, s)
  <2>1. Len(<< >>) = 0
    OBVIOUS
  <2>2. 1 .. 0 = {}
    OBVIOUS
  <2> QED BY <2>1, <2>2 DEF ExitFirst
<1> QED BY <1>1, <1>2, <1>3

LEMMA AgreeBeside ==
  ASSUME NEW ring, NEW s, NEW after, NEW flag, NEW beside, Agree(ring, s, after, flag, beside)
  PROVE  Agree(ring, s, after, flag, TRUE)
BY DEF Agree, LeadsTo

LEMMA AgreeGrows ==
  ASSUME NEW ring \in Seq(Events), NEW e \in Events, NEW s, NEW after \in BOOLEAN,
         NEW flag \in BOOLEAN, NEW flag2 \in BOOLEAN, NEW beside,
         Agree(ring, s, after, flag, beside),
         e.leg # s => (flag2 <=> flag),
         e.leg = s => (flag <=> e.type = "EXIT") /\ (flag2 <=> e.type = "ENTRY")
  PROVE  Agree(Append(ring, e), s, after, flag2, beside)
<1> DEFINE n  == Len(ring)
           r2 == Append(ring, e)
<1>1. /\ n \in Nat /\ Len(r2) = n + 1 /\ r2[n + 1] = e
      /\ \A i \in 1 .. n : r2[i] = ring[i]
  OBVIOUS
<1>2. PICK h \in Courses(ring) : LeadsTo(h, ring, s, after, flag, beside)
  BY DEF Agree
<1> DEFINE g == [i \in 0 .. n + 1 |->
                   IF i = n + 1 THEN (IF e.leg = s THEN e.type ELSE h[n]) ELSE h[i]]
<1>3. e.type \in {"ENTRY", "EXIT"} /\ \A i \in 0 .. n : h[i] \in {"ENTRY", "EXIT"}
  BY <1>1 DEF Events, Courses
<1>4. /\ \A i \in 0 .. n : g[i] = h[i] /\ g[i] \in {"ENTRY", "EXIT"}
      /\ g[n + 1] = IF e.leg = s THEN e.type ELSE h[n]
  BY <1>1, <1>3
<1>5. g \in Courses(r2)
  <2>1. n \in 0 .. n /\ g[n + 1] \in {"ENTRY", "EXIT"}
    BY <1>1, <1>3, <1>4
  <2>2. \A i \in 0 .. n + 1 : i \in 0 .. n \/ i = n + 1
    BY <1>1
  <2>3. \A i \in 0 .. n + 1 : g[i] \in {"ENTRY", "EXIT"}
    BY <1>4, <2>1, <2>2
  <2>4. g = [i \in 0 .. n + 1 |-> g[i]]
    OBVIOUS
  <2> HIDE DEF g, r2, n
  <2> QED BY <1>1, <2>3, <2>4 DEF Courses
<1> HIDE DEF g, r2, n
<1>6. LeadsTo(g, r2, s, after, flag2, beside)
  <2>1. /\ 0 \in 0 .. n /\ n \in 0 .. n /\ g[0] = h[0] /\ g[n] = h[n]
    BY <1>1, <1>4
  <2>2. Course(g, r2, s)
    <3> SUFFICES ASSUME NEW i \in 1 .. n + 1
                 PROVE  IF r2[i].leg = s
                          THEN g[i] = r2[i].type /\ (g[i] = "ENTRY" => g[i - 1] = "EXIT")
                          ELSE g[i] = g[i - 1]
      BY <1>1 DEF Course
    <3>1. CASE i \in 1 .. n
      <4>1. i \in 0 .. n /\ i - 1 \in 0 .. n /\ r2[i] = ring[i]
        BY <1>1, <3>1
      <4>2. g[i] = h[i] /\ g[i - 1] = h[i - 1]
        BY <1>4, <4>1
      <4> QED BY <1>2, <3>1, <4>1, <4>2 DEF LeadsTo, Course, n
    <3>2. CASE i = n + 1
      <4>1. r2[i] = e /\ i - 1 = n /\ g[i - 1] = h[n]
        BY <1>1, <2>1, <3>2
      <4>2. e.leg # s => g[i] = h[n]
        BY <1>4, <3>2
      <4>3. e.leg = s => g[i] = e.type
        BY <1>4, <3>2
      <4>4. e.leg = s /\ e.type = "ENTRY" => h[n] = "EXIT"
        BY <1>2, <1>3, <2>1 DEF LeadsTo, n
      <4> QED BY <4>1, <4>2, <4>3, <4>4
    <3> QED BY <1>1, <3>1, <3>2
  <2>3. g[n + 1] = "ENTRY" => flag2
    BY <1>2, <1>4 DEF LeadsTo, n
  <2>4. ~beside /\ flag2 => g[n + 1] = "ENTRY"
    BY <1>2, <1>4 DEF LeadsTo, n
  <2>5. h[0] = "ENTRY" <=> after
    BY <1>2 DEF LeadsTo
  <2> QED BY <1>1, <2>1, <2>2, <2>3, <2>4, <2>5 DEF LeadsTo
<1> QED BY <1>5, <1>6 DEF Agree, r2

(* The oldest event of a ring is taken.                                     *)
LEMMA AgreePopped ==
  ASSUME NEW ring \in Seq(Events), ring # << >>, NEW s, NEW after \in BOOLEAN,
         NEW flag \in BOOLEAN, NEW beside, Agree(ring, s, after, flag, beside)
  PROVE  LET e == Head(ring)
         IN /\ e.leg # s => Agree(Tail(ring), s, after, flag, beside)
            /\ e.leg = s => /\ e.type = "ENTRY" => ~after /\ Agree(Tail(ring), s, TRUE, flag, beside)
                            /\ e.type = "EXIT" => Agree(Tail(ring), s, FALSE, flag, beside)
<1> DEFINE n  == Len(ring)
           r2 == Tail(ring)
           e  == Head(ring)
<1>1. /\ n \in Nat /\ n >= 1 /\ Len(r2) = n - 1 /\ ring[1] = e
      /\ \A i \in 1 .. n - 1 : r2[i] = ring[i + 1] /\ i \in Nat
  OBVIOUS
<1>2. PICK h \in Courses(ring) : LeadsTo(h, ring, s, after, flag, beside)
  BY DEF Agree
<1> DEFINE g == [i \in 0 .. n - 1 |-> h[i + 1]]
<1>3. \A i \in 0 .. n - 1 : g[i] = h[i + 1] /\ g[i] \in {"ENTRY", "EXIT"} /\ i \in Int
  BY <1>1, <1>2 DEF Courses
<1>4. g \in Courses(r2)
  <2>1. g = [i \in 0 .. n - 1 |-> g[i]]
    OBVIOUS
  <2> HIDE DEF g, r2, n
  <2> QED BY <1>1, <1>3, <2>1 DEF Courses
<1> HIDE DEF g, r2, n, e
<1>5. /\ 0 \in 0 .. n - 1 /\ n - 1 \in 0 .. n - 1 /\ g[0] = h[1] /\ g[n - 1] = h[n]
      /\ 1 \in 1 .. n
  <2>1. 0 \in 0 .. n - 1 /\ n - 1 \in 0 .. n - 1 /\ 1 \in 1 .. n /\ 0 + 1 = 1 /\ (n - 1) + 1 = n
    BY <1>1
  <2> QED BY <1>3, <2>1
<1>6. Course(g, r2, s)
  <2> SUFFICES ASSUME NEW i \in 1 .. n - 1
               PROVE  IF r2[i].leg = s
                        THEN g[i] = r2[i].type /\ (g[i] = "ENTRY" => g[i - 1] = "EXIT")
                        ELSE g[i] = g[i - 1]
    BY <1>1 DEF Course
  <2>1. /\ i \in 0 .. n - 1 /\ i - 1 \in 0 .. n - 1 /\ i + 1 \in 1 .. n /\ (i - 1) + 1 = (i + 1) - 1
    BY <1>1
  <2>2. r2[i] = ring[i + 1] /\ g[i] = h[i + 1] /\ g[i - 1] = h[(i + 1) - 1]
    <3>1. g[i - 1] = h[(i - 1) + 1]
      BY <1>3, <2>1
    <3> QED BY <1>1, <1>3, <2>1, <3>1
  <2>3. IF ring[i + 1].leg = s
          THEN /\ h[i + 1] = ring[i + 1].type
               /\ h[i + 1] = "ENTRY" => h[(i + 1) - 1] = "EXIT"
          ELSE h[i + 1] = h[(i + 1) - 1]
    BY <1>2, <2>1 DEF LeadsTo, Course, n
  <2> QED BY <2>2, <2>3
<1>7. /\ h[0] = "ENTRY" <=> after
      /\ h[n] = "ENTRY" => flag
      /\ ~beside /\ flag => h[n] = "ENTRY"
      /\ IF e.leg = s THEN h[1] = e.type /\ (h[1] = "ENTRY" => h[0] = "EXIT")
                      ELSE h[1] = h[0]
  <2>1. 1 - 1 = 0
    OBVIOUS
  <2> QED BY <1>1, <1>2, <1>5, <2>1 DEF LeadsTo, Course, n
<1>8. ASSUME NEW a \in BOOLEAN, h[1] = "ENTRY" <=> a PROVE Agree(r2, s, a, flag, beside)
  <2>1. LeadsTo(g, r2, s, a, flag, beside)
    BY <1>1, <1>5, <1>6, <1>7, <1>8 DEF LeadsTo
  <2> QED BY <1>4, <2>1 DEF Agree
<1>9. CASE e.leg # s
  <2>1. h[1] = "ENTRY" <=> after
    BY <1>7, <1>9
  <2>2. Agree(r2, s, after, flag, beside)
    BY <1>8, <2>1
  <2> QED BY <1>9, <2>2 DEF r2, e
<1>10. CASE e.leg = s
  <2>1. e.type = "ENTRY" => ~after /\ Agree(r2, s, TRUE, flag, beside)
    BY <1>7, <1>8, <1>10
  <2>2. e.type = "EXIT" => Agree(r2, s, FALSE, flag, beside)
    BY <1>7, <1>8, <1>10
  <2> QED BY <1>10, <2>1, <2>2 DEF r2, e
<1> QED BY <1>9, <1>10

(* A position is closed beside the core: the event that comes next for its  *)
(* leg, if there is one, is the EXIT for what is gone.                      *)
LEMMA AgreeClosed ==
  ASSUME NEW ring \in Seq(Events), NEW s, NEW flag \in BOOLEAN, NEW flag2 \in BOOLEAN,
         NEW beside, Agree(ring, s, TRUE, flag, beside)
  PROVE  ExitFirst(ring, s) \/ Agree(ring, s, FALSE, flag2, TRUE)
<1> DEFINE n == Len(ring)
<1>1. n \in Nat /\ \A i \in 1 .. n : ring[i] \in Events
  OBVIOUS
<1>2. CASE \A i \in 1 .. n : ring[i].leg # s
  <2> DEFINE g == [i \in 0 .. n |-> "EXIT"]
  <2>1. g \in Courses(ring) /\ \A i \in 0 .. n : g[i] = "EXIT"
    BY DEF Courses
  <2>2. 0 \in 0 .. n /\ n \in 0 .. n /\ \A i \in 1 .. n : i \in 0 .. n /\ i - 1 \in 0 .. n
    BY <1>1
  <2> HIDE DEF g
  <2>3. LeadsTo(g, ring, s, FALSE, flag2, TRUE)
    BY <1>2, <2>1, <2>2 DEF LeadsTo, Course
  <2> QED BY <2>1, <2>3 DEF Agree
<1>3. CASE \E i \in 1 .. n : ring[i].leg = s
  <2>1. PICK h \in Courses(ring) : LeadsTo(h, ring, s, TRUE, flag, beside)
    BY DEF Agree
  <2> DEFINE T == {i \in 1 .. n : ring[i].leg = s \/ h[i] # "ENTRY"}
  <2>2. T \subseteq Nat /\ T # {}
    BY <1>1, <1>3
  <2>3. PICK d \in T : \A j \in T : d <= j
    BY <2>2, LeastNumber
  <2>4. d \in 1 .. n /\ \A j \in 1 .. d - 1 : j \notin T /\ j \in 1 .. n
    BY <1>1, <2>3
  <2>5. \A j \in 1 .. d - 1 : ring[j].leg # s /\ h[j] = "ENTRY"
    BY <2>4
  <2>6. h[d - 1] = "ENTRY"
    <3>1. CASE d = 1
      BY <2>1, <3>1 DEF LeadsTo
    <3>2. CASE d # 1
      <4>1. d - 1 \in 1 .. d - 1
        BY <1>1, <2>4, <3>2
      <4> QED BY <2>5, <4>1
    <3> QED BY <3>1, <3>2
  <2>7. IF ring[d].leg = s
          THEN h[d] = ring[d].type /\ (h[d] = "ENTRY" => h[d - 1] = "EXIT")
          ELSE h[d] = h[d - 1]
    BY <2>1, <2>4 DEF LeadsTo, Course
  <2>8. ring[d].leg = s /\ ring[d].type # "ENTRY"
    BY <2>3, <2>6, <2>7
  <2>9. ring[d] = Event("EXIT", s)
    BY <1>1, <2>4, <2>8 DEF Events, Event
  <2> QED BY <2>4, <2>5, <2>9 DEF ExitFirst
<1> QED BY <1>2, <1>3

LEMMA ExitFirstGrows ==
  ASSUME NEW ring \in Seq(Events), NEW e \in Events, NEW s, ExitFirst(ring, s)
  PROVE  ExitFirst(Append(ring, e), s)
<1>1. PICK d \in 1 .. Len(ring) : /\ ring[d] = Event("EXIT", s)
                                  /\ \A j \in 1 .. d - 1 : ring[j].leg # s
  BY DEF ExitFirst
<1> DEFINE r2 == Append(ring, e)
<1>2. /\ d \in 1 .. Len(r2) /\ r2[d] = ring[d]
      /\ \A j \in 1 .. d - 1 : r2[j] = ring[j]
  OBVIOUS
<1> HIDE DEF r2
<1>3. ExitFirst(r2, s)
  BY <1>1, <1>2 DEF ExitFirst
<1> QED BY <1>3 DEF r2

LEMMA ExitFirstPopped ==
  ASSUME NEW ring \in Seq(Events), ring # << >>, NEW s, ExitFirst(ring, s)
  PROVE  /\ Head(ring).leg # s => ExitFirst(Tail(ring), s)
         /\ Head(ring).leg = s => Head(ring).type = "EXIT"
<1>1. PICK d \in 1 .. Len(ring) : /\ ring[d] = Event("EXIT", s)
                                  /\ \A j \in 1 .. d - 1 : ring[j].leg # s
  BY DEF ExitFirst
<1> DEFINE r2 == Tail(ring)
<1>2. /\ Len(ring) \in Nat /\ Head(ring) = ring[1] /\ Len(r2) = Len(ring) - 1
      /\ \A i \in 1 .. Len(r2) : r2[i] = ring[i + 1]
  OBVIOUS
<1>3. Event("EXIT", s).leg = s /\ Event("EXIT", s).type = "EXIT"
  BY DEF Event
<1>4. CASE d = 1
  BY <1>1, <1>2, <1>3, <1>4
<1>5. CASE d # 1
  <2>1. 1 \in 1 .. d - 1 /\ d - 1 \in 1 .. Len(r2) /\ (d - 1) + 1 = d
    BY <1>2, <1>5
  <2>2. Head(ring).leg # s /\ r2[d - 1] = Event("EXIT", s)
    BY <1>1, <1>2, <2>1
  <2>3. \A j \in 1 .. (d - 1) - 1 : j \in 1 .. Len(r2) /\ j + 1 \in 1 .. d - 1
    BY <1>2
  <2>4. \A j \in 1 .. (d - 1) - 1 : r2[j].leg # s
    BY <1>1, <1>2, <2>3
  <2> HIDE DEF r2
  <2>5. ExitFirst(r2, s)
    BY <2>1, <2>2, <2>4 DEF ExitFirst
  <2> QED BY <2>2, <2>5 DEF r2
<1> QED BY <1>4, <1>5


-----------------------------------------------------------------------------
(* What is held is watched, step by step.                                   *)
Bright == ~Live /\ ~blind /\ ~overlaid
WatchedSlot(s) == Lined(s) /\ (Agrees(s) \/ Doomed(s))

LEMMA RoadTyped ==
  ASSUME CoreTypeOK, CoreTypeOK', NEW s \in Slots
  PROVE  /\ event_ring \in Seq(Events) /\ event_ring' \in Seq(Events)
         /\ Flag(s) \in BOOLEAN /\ Flag(s)' \in BOOLEAN
         /\ After(s) \in BOOLEAN /\ After(s)' \in BOOLEAN
<1>1. After(s) \in BOOLEAN /\ After(s)' \in BOOLEAN
  BY DEF After
<1>2. Flag(s) \in BOOLEAN /\ Flag(s)' \in BOOLEAN
  BY LegIsSlot DEF CoreTypeOK, Flag, NewFlag
<1> QED BY <1>1, <1>2 DEF CoreTypeOK

(* Nothing moves but what is under way, and After is the same.              *)
LEMMA WatchedStays ==
  ASSUME NEW s \in Slots, WatchedSlot(s), Kept(s), UNCHANGED <<event_ring, aside>>,
         Flag(s)' <=> Flag(s), Flag(s) \in BOOLEAN, Flag(s)' \in BOOLEAN
  PROVE  WatchedSlot(s)'
<1>1. Flag(s)' = Flag(s) /\ After(s)' = After(s)
  BY DEF Kept, After
<1>2. Agrees(s) => Agrees(s)'
  BY <1>1 DEF Agrees
<1>3. Doomed(s) => Doomed(s)'
  BY <1>1 DEF Doomed
<1> QED BY <1>2, <1>3 DEF WatchedSlot, Kept


LEMMA ModeSame ==
  ASSUME BaseInv, Still \/ (\E s \in Slots : Asks(s)) \/ BookPass \/ Adapter
  PROVE  mode' = mode
<1>1. CASE Still \/ (\E s \in Slots : Asks(s))
  BY <1>1 DEF Still, Asks, adapterVars
<1>2. CASE BookPass
  BY <1>2 DEF BookPass, SubmitOne, SubmitNext, DrainResult, DrainWs, ProcessClose, ProcessOpen,
              PassDone, adapterVars
<1>3. CASE Adapter
  BY <1>3, AdapterIdle DEF BaseInv
<1> QED BY <1>1, <1>2, <1>3

LEMMA BrightBefore ==
  ASSUME RoomForBoth, BaseInv, CoreTypeOK, [TNext]_allVars, Bright'
  PROVE  Bright
<1>1. mode' = mode
  BY StepKinds, ModeSame
<1>2. blind' = blind \/ blind' = TRUE
  BY DEF TNext, HotTick, Permit, PumpEvent, EventsDone, Pass, Outside, ManualClose, SlowExit,
         allVars, raceVars
<1>3. overlaid' = overlaid \/ \E s \in Slots : overlaid' = (overlaid \/ Selling(s))
  <2>1. CASE PumpEvent
    <3> DEFINE s == LegSlot(Head(event_ring).leg)
    <3>1. Head(event_ring) \in Events
      BY <2>1, HeadTyped DEF PumpEvent, PopEvent, CoreTypeOK
    <3>2. s \in Slots
      BY <3>1, LegIsSlot DEF Events
    <3>3. overlaid' = overlaid \/ overlaid' = (overlaid \/ Selling(s))
      BY <2>1 DEF PumpEvent, Overlay, raceVars
    <3> QED BY <3>2, <3>3
  <2>2. CASE \E s \in Slots : ManualClose(s) \/ SlowExit(s)
    BY <2>2 DEF ManualClose, SlowExit, Overlay
  <2>3. CASE HotTick \/ Permit \/ EventsDone \/ Pass \/ Outside \/ UNCHANGED allVars
    BY <2>3 DEF HotTick, Permit, EventsDone, Pass, Outside, allVars, raceVars
  <2> QED BY <2>1, <2>2, <2>3 DEF TNext
<1>4. ~blind' /\ ~overlaid' /\ ~Live'
  BY DEF Bright
<1>5. ~blind
  BY <1>2, <1>4
<1>6. ~overlaid
  BY <1>3, <1>4
<1>7. ~Live
  BY <1>1, <1>4 DEF Live
<1> QED BY <1>5, <1>6, <1>7 DEF Bright

(* The hot core's tick.                                                     *)
LEMMA TickWatched ==
  ASSUME CoreTypeOK, CoreTypeOK', Plan, NEW s \in Slots, WatchedSlot(s), Kept(s), HotTick
  PROVE  WatchedSlot(s)'
<1>1. aside' = aside /\ Tick
  BY DEF HotTick, raceVars
<1>2. CASE TickLoad \/ TickDecide \/ TickStore
  <2>1. event_ring' = event_ring
    BY <1>2 DEF TickLoad, TickDecide, TickStore
  <2> QED BY <1>1, <1>2, <2>1, FlagStays, RoadTyped, WatchedStays
<1>3. CASE TickPush /\ ~(Len(event_ring) < RingCap)
  <2>1. UNCHANGED <<event_ring, step, active, loaded, done>>
    BY <1>3 DEF TickPush
  <2>2. Flag(s)' <=> Flag(s)
    BY <2>1 DEF Flag, NewFlag
  <2> QED BY <1>1, <2>1, <2>2, RoadTyped, WatchedStays
<1>4. CASE TickPush /\ Len(event_ring) < RingCap
  <2> DEFINE e == Head(todo)
  <2>1. /\ e \in Events /\ event_ring' = Append(event_ring, e)
        /\ e.leg # s => (Flag(s)' <=> Flag(s))
        /\ e.leg = s => (Flag(s) <=> e.type = "EXIT") /\ (Flag(s)' <=> e.type = "ENTRY")
    BY <1>4, FlagPushed
  <2> HIDE DEF e
  <2>2. After(s)' = After(s)
    BY DEF Kept, After
  <2>3. Agrees(s) => Agrees(s)'
    <3> SUFFICES ASSUME Agrees(s) PROVE Agrees(s)'
      OBVIOUS
    <3>1. Agree(event_ring, s, After(s), Flag(s), aside)
      BY DEF Agrees
    <3>2. Agree(Append(event_ring, e), s, After(s), Flag(s)', aside)
      BY <2>1, <3>1, RoadTyped, AgreeGrows
    <3> QED BY <1>1, <2>1, <2>2, <3>2 DEF Agrees
  <2>4. Doomed(s) => Doomed(s)'
    BY <2>1, <2>2, RoadTyped, ExitFirstGrows DEF Doomed
  <2> QED BY <2>3, <2>4 DEF WatchedSlot, Kept
<1> QED BY <1>1, <1>2, <1>3, <1>4 DEF Tick

(* EngineCommon_DrainEventsAndSubmit: an ENTRY finds its slot empty or      *)
(* about to be, an EXIT finds the position it is for.                       *)
LEMMA PumpWatched ==
  ASSUME RoomForBoth, BaseInv, BaseInv', CoreTypeOK, CoreTypeOK', ~blind', ~overlaid',
         \A p \in Slots : WatchedSlot(p), PumpEvent, NEW p \in Slots
  PROVE  WatchedSlot(p)'
<1> DEFINE e == Head(event_ring)
<1>1. /\ event_ring # << >> /\ event_ring' = Tail(event_ring)
      /\ UNCHANGED <<active, step, loaded, done, tableVars, positions>>
  BY DEF PumpEvent, PopEvent
<1>2. PICK s \in Slots : e.leg = s /\ LegSlot(s) = s /\ e.type \in {"ENTRY", "EXIT"}
  <2>1. e \in Events
    BY <1>1, HeadTyped DEF CoreTypeOK
  <2> QED BY <2>1, LegIsSlot DEF Events
<1>3. /\ aside' = aside
      /\ \/ e.type = "ENTRY" /\ PushSubmit(s, "BUY", MaxQty)
         \/ /\ e.type = "EXIT" /\ positions[s] > 0 /\ PushSubmit(s, "SELL", positions[s])
            /\ Overlay(s)
  BY <1>2 DEF PumpEvent, raceVars
<1>4. \A t \in Slots : (Flag(t)' <=> Flag(t)) /\ Flag(t)' = Flag(t)
  BY <1>1, RoadTyped DEF Flag, NewFlag
<1> HIDE DEF e
<1>5. CASE p # s
  <2>1. Kept(p)
    BY <1>1, <1>2, <1>3, <1>5, AskedElsewhere DEF WatchedSlot
  <2>2. After(p)' = After(p)
    BY <2>1 DEF Kept, After
  <2>3. Agrees(p) => Agrees(p)'
    <3> SUFFICES ASSUME Agrees(p) PROVE Agrees(p)'
      OBVIOUS
    <3>1. Agree(event_ring, p, After(p), Flag(p), aside) /\ e.leg # p
      BY <1>2, <1>5 DEF Agrees
    <3>2. Agree(Tail(event_ring), p, After(p), Flag(p), aside)
      BY <1>1, <3>1, RoadTyped, AgreePopped DEF e
    <3> QED BY <1>1, <1>3, <1>4, <2>2, <3>2 DEF Agrees
  <2>4. Doomed(p) => Doomed(p)'
    BY <1>1, <1>2, <1>5, <2>2, RoadTyped, ExitFirstPopped DEF Doomed, e
  <2> QED BY <2>1, <2>3, <2>4 DEF WatchedSlot, Kept
<1>6. CASE p = s
  <2>1. Lined(s) /\ (Agrees(s) \/ Doomed(s)) /\ s \in Slots /\ e.leg = s
    BY <1>2 DEF WatchedSlot
  <2>2. ASSUME Agrees(s)
        PROVE  /\ e.type = "ENTRY" => ~After(s) /\ Agree(event_ring', s, TRUE, Flag(s), aside)
               /\ e.type = "EXIT" => Agree(event_ring', s, FALSE, Flag(s), aside)
    <3>1. Agree(event_ring, s, After(s), Flag(s), aside)
      BY <2>2 DEF Agrees
    <3> QED BY <1>1, <2>1, <3>1, RoadTyped, AgreePopped DEF e
  <2>3. Doomed(s) => e.type = "EXIT" /\ ~After(s)
    BY <1>1, <2>1, RoadTyped, ExitFirstPopped DEF Doomed, e
  <2>4. CASE e.type = "ENTRY" /\ PushSubmit(s, "BUY", MaxQty)
    <3>1. Agrees(s) /\ ~After(s)
      BY <2>1, <2>2, <2>3, <2>4
    <3>2. Lined(s)' /\ After(s)'
      BY <1>1, <2>1, <2>4, <3>1, BuyAsked
    <3>3. After(s)' = TRUE /\ Flag(s)' = Flag(s) /\ aside' = aside
      BY <1>3, <1>4, <2>1, <3>2, RoadTyped
    <3>4. Agrees(s)'
      BY <2>2, <2>4, <3>1, <3>3 DEF Agrees
    <3> QED BY <1>6, <3>2, <3>4 DEF WatchedSlot
  <2>5. CASE e.type = "EXIT" /\ positions[s] > 0 /\ PushSubmit(s, "SELL", positions[s]) /\ Overlay(s)
    <3>1. ~UnderWay(s, "SELL")
      <4>1. ~Selling(s)
        BY <2>5 DEF Overlay
      <4>2. QueuesOK
        BY DEF BaseInv, IInv, OmsTypeOK
      <4> QED BY <2>1, <4>1, <4>2, SellingIs
    <3>2. Lined(s)' /\ After(s) /\ ~After(s)'
      BY <1>1, <2>1, <2>5, <3>1, SellAsked
    <3>3. After(s)' = FALSE /\ Flag(s)' = Flag(s) /\ aside' = aside
      BY <1>3, <1>4, <2>1, <3>2, RoadTyped
    <3>4. Agrees(s)
      BY <2>1, <2>3, <3>2
    <3>5. Agrees(s)'
      BY <2>2, <2>5, <3>3, <3>4 DEF Agrees
    <3> QED BY <1>6, <3>2, <3>5 DEF WatchedSlot
  <2> QED BY <1>3, <2>4, <2>5
<1> QED BY <1>5, <1>6

(* A close beside the core: what it sells is all that is held, and the      *)
(* ring's next EXIT for it comes too late.                                  *)
LEMMA CloseWatched ==
  ASSUME RoomForBoth, BaseInv, BaseInv', CoreTypeOK, CoreTypeOK', ~overlaid',
         \A p \in Slots : WatchedSlot(p), NEW s \in Slots, ManualClose(s) \/ SlowExit(s),
         NEW p \in Slots
  PROVE  WatchedSlot(p)'
<1>1. /\ positions[s] > 0 /\ PushSubmit(s, "SELL", positions[s]) /\ Overlay(s)
      /\ UNCHANGED <<tableVars, positions, event_ring, step, loaded, done>> /\ aside' = TRUE
      /\ active' = active \/ active' = [active EXCEPT ![s] = FALSE]
  BY LegIsSlot DEF ManualClose, SlowExit, ExitRequest, Request, coreVars
<1>2. CASE p # s
  <2>1. Kept(p)
    BY <1>1, <1>2, AskedElsewhere DEF WatchedSlot
  <2>2. After(p)' = After(p)
    BY <2>1 DEF Kept, After
  <2>3. Flag(p)' = Flag(p)
    <3>1. active'[p] = active[p]
      BY <1>1, <1>2, LegIsSlot DEF CoreTypeOK
    <3> QED BY <1>1, <3>1 DEF Flag, NewFlag
  <2>4. Agrees(p) => Agrees(p)'
    BY <1>1, <2>2, <2>3, AgreeBeside DEF Agrees
  <2>5. Doomed(p) => Doomed(p)'
    BY <1>1, <2>2 DEF Doomed
  <2> QED BY <2>1, <2>4, <2>5 DEF WatchedSlot, Kept
<1>3. CASE p = s
  <2>1. ~UnderWay(s, "SELL") /\ Lined(s)
    <3>1. ~Selling(s) /\ QueuesOK
      BY <1>1 DEF Overlay, BaseInv, IInv, OmsTypeOK
    <3> QED BY <3>1, SellingIs DEF WatchedSlot
  <2>2. Lined(s)' /\ After(s) /\ ~After(s)'
    BY <1>1, <2>1, SellAsked
  <2>3. After(s) = TRUE /\ After(s)' = FALSE
    BY <2>2, RoadTyped
  <2>4. Agree(event_ring, s, TRUE, Flag(s), aside)
    BY <2>2, <2>3 DEF WatchedSlot, Agrees, Doomed
  <2>5. ExitFirst(event_ring, s) \/ Agree(event_ring, s, FALSE, Flag(s)', TRUE)
    BY <2>4, RoadTyped, AgreeClosed
  <2>6. ExitFirst(event_ring, s) => Doomed(s)'
    BY <1>1, <2>2 DEF Doomed
  <2>7. Agree(event_ring, s, FALSE, Flag(s)', TRUE) => Agrees(s)'
    BY <1>1, <2>3 DEF Agrees
  <2> QED BY <1>3, <2>2, <2>5, <2>6, <2>7 DEF WatchedSlot
<1> QED BY <1>2, <1>3


LEMMA WatchedKept ==
  ASSUME FillsFit, RoomForBoth, NodeInv, BaseInv', CoreTypeOK', [TNext]_allVars
  PROVE  Watched'
<1> SUFFICES ASSUME Bright', NEW p \in Slots PROVE WatchedSlot(p)'
  BY DEF Watched, WatchedSlot, Bright, Live
<1> USE DEF NodeInv
<1>1. Bright /\ \A s \in Slots : WatchedSlot(s)
  <2>1. Bright
    BY BrightBefore
  <2> QED BY <2>1 DEF Watched, Bright, WatchedSlot
<1>2. ASSUME Still \/ BookPass \/ Adapter PROVE Kept(p)
  BY <1>1, <1>2, BooksKept DEF Bright, WatchedSlot
<1>3. CASE HotTick
  <2>1. Still
    BY <1>3 DEF HotTick, Still
  <2> QED BY <1>1, <1>2, <1>3, <2>1, TickWatched
<1>4. CASE PumpEvent
  BY <1>1, <1>4, PumpWatched DEF Bright
<1>5. CASE \E s \in Slots : ManualClose(s) \/ SlowExit(s)
  BY <1>1, <1>5, CloseWatched DEF Bright
<1>6. CASE Permit \/ EventsDone \/ Pass \/ Outside \/ UNCHANGED allVars
  <2>1. /\ UNCHANGED <<event_ring, aside, step, active, loaded, done>>
    BY <1>6 DEF Permit, SetPermission, EventsDone, Pass, Outside, allVars, coreVars, raceVars
  <2>2. Still \/ BookPass \/ Adapter
    BY <1>6, PassStill DEF Permit, EventsDone, Pass, Outside, allVars, vars, omsVars, Still
  <2>3. Flag(p)' <=> Flag(p)
    BY <2>1 DEF Flag, NewFlag
  <2> QED BY <1>1, <1>2, <2>1, <2>2, <2>3, RoadTyped, WatchedStays
<1> QED BY <1>3, <1>4, <1>5, <1>6 DEF TNext

LEMMA NodeStep ==
  ASSUME FillsFit, RoomForBoth, NodeInv, [TNext]_allVars
  PROVE  NodeInv'
<1>1. BaseInv'
  BY StepKinds, BaseKept DEF NodeInv
<1>2. CoreTypeOK' /\ Plan'
  BY CoreKinds, CoreKept DEF NodeInv
<1>3. Calm'
  BY <1>1, CalmKept DEF NodeInv
<1>4. Watched'
  BY <1>1, <1>2, WatchedKept
<1> QED BY <1>1, <1>2, <1>3, <1>4 DEF NodeInv

LEMMA InitNode == TInit => NodeInv
<1> SUFFICES ASSUME TInit PROVE NodeInv
  OBVIOUS
<1>1. BaseInv
  BY InitInv, InitRoad, InitWithin, InitPaper DEF TInit, BaseInv
<1>2. CoreTypeOK /\ Plan
  <2>1. << >> \in Seq(Events) /\ Len(<< >>) = 0
    OBVIOUS
  <2>2. Flat(Legs) \in [Legs -> BOOLEAN]
    BY DEF Flat
  <2>3. Len(event_ring) <= RingCap
    BY <2>1, CoreAssumption DEF TInit, CoreInit
  <2> QED BY <2>1, <2>2, <2>3 DEF TInit, CoreInit, CoreTypeOK, Plan
<1>3. Calm
  <2>1. /\ close_bucket = << >> /\ open_bucket = << >> /\ phase = "pump"
        /\ \A n \in Nodes : result_rings[n] = << >>
    BY DEF TInit, Init, OmsInit, AdapterInit
  <2>2. \A T : << >> \in Seq(T)
    OBVIOUS
  <2> QED BY <2>1, <2>2 DEF Calm, PaperWhole, RingsDrained
<1>4. ASSUME NEW s \in Slots PROVE WatchedSlot(s)
  <2>1. /\ submit_queues[s] = << >> /\ order_bitmap = {} /\ positions[s] = 0
        /\ event_ring = << >> /\ aside = FALSE /\ step = "idle" /\ ~active[s]
    BY LegIsSlot DEF TInit, Init, OmsInit, CoreInit, RaceInit, Flat
  <2>2. ASSUME NEW type PROVE ~Queued(s, type) /\ ~Placed(s, type) /\ ~UnderWay(s, type)
    BY <2>1 DEF Queued, Placed, UnderWay
  <2>3. Lined(s)
    BY <2>1, <2>2 DEF Lined, SellThenBuy, Single, SellsAll
  <2>4. After(s) = FALSE /\ Flag(s) = FALSE
    <3>1. ~After(s) /\ After(s) \in BOOLEAN
      BY <2>1, <2>2 DEF After
    <3>2. Flag(s) = active[s] /\ active[s] \in BOOLEAN
      BY <1>2, <2>1, LegIsSlot DEF Flag, CoreTypeOK
    <3> QED BY <2>1, <3>1, <3>2
  <2>5. Agrees(s)
    <3>1. Agree(<< >>, s, FALSE, FALSE, FALSE)
      BY AgreeEmpty
    <3> QED BY <2>1, <2>4, <3>1 DEF Agrees
  <2> QED BY <2>3, <2>5 DEF WatchedSlot
<1>5. Watched
  BY <1>4 DEF Watched, WatchedSlot
<1> QED BY <1>1, <1>2, <1>3, <1>5 DEF NodeInv

LEMMA WatchedHolds == NodeInv => HeldStaysWatched
<1> SUFFICES ASSUME NodeInv, ~Live, NothingUnderWay, ~blind, ~overlaid, NEW s \in DOMAIN positions
             PROVE  /\ positions[s] > 0 => active[LegOf(s)]
                    /\ active[LegOf(s)] /\ ~aside => positions[s] > 0
  BY DEF HeldStaysWatched
<1>1. s \in Slots /\ LegOf(s) = s /\ active[s] \in BOOLEAN
  BY LegIsSlot DEF NodeInv, BaseInv, IInv, OmsTypeOK, PositionsOK, CoreTypeOK
<1>2. event_ring = << >> /\ step = "idle" /\ order_bitmap = {} /\ submit_queues[s] = << >>
  BY <1>1 DEF NothingUnderWay, NodeInv, BaseInv, IInv, OmsTypeOK, QueuesOK
<1>3. After(s) <=> positions[s] > 0
  <2>1. ASSUME NEW type PROVE ~UnderWay(s, type)
    BY <1>2 DEF UnderWay, Queued, Placed
  <2> QED BY <2>1 DEF After
<1>4. Flag(s) = active[s] /\ After(s) \in BOOLEAN
  BY <1>2 DEF Flag, After
<1>5. Agrees(s) \/ Doomed(s)
  BY <1>1 DEF NodeInv, Watched
<1>6. Agree(<< >>, s, After(s), active[s], aside)
  <2>1. ~Doomed(s)
    BY <1>2, AgreeEmpty DEF Doomed
  <2> QED BY <1>2, <1>4, <1>5, <2>1 DEF Agrees
<1>7. (After(s) => active[s]) /\ (active[s] /\ ~aside => After(s))
  BY <1>1, <1>4, <1>6, AgreeEmpty
<1> QED BY <1>1, <1>3, <1>7

(* HeldStaysWatched: on paper, with a table and queues of any size that     *)
(* hold a SELL and a BUY of each slot, an event ring of any size, one leg   *)
(* or a pair, whatever the prices do and whoever closes positions by hand   *)
(* or from the slow path, a position that is held when nothing is under way *)
(* has its hot flag set, so that ExecutionCore_Tick watches its take-profit *)
(* and stop-loss, unless an EXIT found no position to sell                  *)
(* (EngineCommon_DrainEventsAndSubmit) or a SELL was asked for over one     *)
(* under way (EngineSharded_SlowPath_DrainManualCloses, the slow exits);    *)
(* and as long as nobody closes beside the hot core, a flag that is set has *)
(* its position (BITMAP_CONSISTENT, ShardedSnapshot.hpp:452-464).           *)
THEOREM HeldIsWatched ==
  ASSUME FillsFit, RoomForBoth
  PROVE  TSpec => []HeldStaysWatched
<1>1. TInit => NodeInv
  BY InitNode
<1>2. NodeInv /\ [TNext]_allVars => NodeInv'
  BY NodeStep
<1>3. NodeInv => HeldStaysWatched
  BY WatchedHolds
<1> QED BY <1>1, <1>2, <1>3, PTL DEF TSpec
=============================================================================
