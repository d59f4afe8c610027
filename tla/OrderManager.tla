---------------------------- MODULE OrderManager ----------------------------
(***************************************************************************)
(* CoreFrameworks/OrderManager.hpp with MemHeaders/OmsPhasedDrain.hpp: the *)
(* order table, the positions its fills open and close, and the drainer    *)
(* thread's pass over them.  Every operator here runs on the drainer       *)
(* except OMS_PushSubmit, which producers call.                            *)
(*                                                                         *)
(* An amount is a small number; prices, fees and the audit log are left    *)
(* out.  A producer decides in the actions EntryRequest and ExitRequest:   *)
(* what makes it decide is in module NodeTrading.                          *)
(***************************************************************************)
EXTENDS BinanceAdapter, SequencesExt, Sums

CONSTANTS
  Slots,       \* portfolio slots, 0 .. P - 1
  OrderSlots,  \* slots of the order table, 0 .. MAX_INFLIGHT_ORDERS - 1
  PartialOn,   \* PARTIAL_EXIT_ENABLED: a node owns two portfolio slots
  SubmitCap,   \* OMS_SUBMIT_QUEUE_SIZE
  BucketCap,   \* OMS_RESULT_QUEUE_SIZE, the size of a drain bucket
  MaxQty,      \* largest entry
  MaxRequests  \* bound on the requests producers make

VARIABLES
  next_order_id,
  order_bitmap,   \* the slots in use
  orders,         \* orders[slot]; a freed slot keeps its last order
  positions,      \* quantity held per portfolio slot; 0 when not active
  submit_queues,  \* submit_queues[portfolio slot]
  close_bucket, open_bucket,
  phase, cursor,  \* where the drainer's pass is, and in which submit queue
  requests        \* requests made so far

tableVars == <<next_order_id, order_bitmap, orders>>
omsVars == <<tableVars, positions, submit_queues, close_bucket, open_bucket,
             phase, cursor, requests>>
vars == <<adapterVars, omsVars>>

NodeOf(s) == IF PartialOn THEN s \div 2 ELSE s      \* BITMAP_SLOT_NODE

ASSUME OmsAssumption ==
  /\ PartialOn \in BOOLEAN
  /\ {SubmitCap, BucketCap, MaxQty, MaxRequests} \subseteq Nat
  /\ Slots \subseteq Nat /\ 0 \in Slots /\ OrderSlots \subseteq Nat
  /\ \A s \in Slots : NodeOf(s) \in Nodes

Stub == -1           \* NULL_PER_NODE_CFG_STUB: no fee rate bound
Terminal == {"FILLED", "REJECTED", "CANCELED"}
NoOrder == [id |-> NoSubmission.id, type |-> "BUY", pslot |-> 0, requested |-> 0,
            filled |-> 0, state |-> "PENDING", pre_resolved |-> Stub]

OmsInit ==
  /\ next_order_id = 1
  /\ order_bitmap = {}
  /\ orders = [k \in OrderSlots |-> NoOrder]
  /\ positions = [s \in Slots |-> 0]
  /\ submit_queues = [s \in Slots |-> << >>]
  /\ close_bucket = << >> /\ open_bucket = << >>
  /\ phase = "pump" /\ cursor = 0
  /\ requests = 0

Init == AdapterInit /\ OmsInit

-----------------------------------------------------------------------------
(* OMS_PushSubmit, and the two ways producers come to call it.              *)

SubmitCommand(type, qty, cfg) == [type |-> type, qty |-> qty, node_cfg |-> cfg]

PushSubmit(s, type, qty) ==
  submit_queues' = [submit_queues EXCEPT
    ![s] = Offer(@, SubmitCommand(type, qty, NodeOf(s)), SubmitCap)]

Request(s, type, qty) ==
  /\ requests < MaxRequests
  /\ requests' = requests + 1
  /\ PushSubmit(s, type, qty)
  /\ UNCHANGED <<adapterVars, tableVars, positions, close_bucket, open_bucket, phase>>

EntryRequest(s) == \E q \in 1 .. MaxQty : Request(s, "BUY", q)

(* Time exits, model exits, flattening and manual closes all read the       *)
(* quantity held and push a SELL for it; none looks for one in flight.      *)
ExitRequest(s) == positions[s] > 0 /\ Request(s, "SELL", positions[s])

-----------------------------------------------------------------------------
(* OrderManager_Submit over the table (bm, ords): the action also stands    *)
(* for the re-submission inside ProcessFillCommand, which has freed a slot. *)

NewOrder(s, cmd, k) ==
  [id |-> [n |-> next_order_id, node |-> NodeOf(s), slot |-> k],
   type |-> cmd.type, pslot |-> s, requested |-> cmd.qty, filled |-> 0,
   state |-> "SUBMITTED", pre_resolved |-> cmd.node_cfg]

(* Mutation: the paper fill does not say that it completes the order.       *)
SynthFillIncomplete(o) == Report("REST", o.id, TRUE, o.requested, FALSE, FALSE)

(* The paper fill: the whole order, complete.                               *)
SynthFill(o) == Report("REST", o.id, TRUE, o.requested, TRUE, FALSE)

Submit(s, cmd, bm, ords) ==
  LET free == OrderSlots \ bm
      k    == Min(free)
      o    == NewOrder(s, cmd, k)
  IN /\ next_order_id' = next_order_id + 1
     /\ \/ /\ free = {}                                     \* dropped
           /\ order_bitmap' = bm /\ orders' = ords
           /\ UNCHANGED <<submission_queue, result_rings>>
        \/ /\ free # {} /\ ~Live
           /\ order_bitmap' = bm \cup {k}
           /\ orders' = [ords EXCEPT ![k] = o]
           /\ ResultPush(SynthFill(o))
           /\ UNCHANGED submission_queue
        \/ /\ free # {} /\ Live /\ AdapterAccepts
           /\ order_bitmap' = bm \cup {k}
           /\ orders' = [ords EXCEPT ![k] = o]
           /\ Enqueue(o.id, o.type, o.requested)
           /\ UNCHANGED result_rings
        \/ /\ free # {} /\ Live /\ ~AdapterAccepts          \* refused, freed
           /\ order_bitmap' = bm
           /\ orders' = [ords EXCEPT ![k] = [o EXCEPT !.state = "REJECTED"]]
           /\ UNCHANGED <<submission_queue, result_rings>>

-----------------------------------------------------------------------------
(* EngineSharded_Drainer_BookPass: submissions, results, closes, opens.     *)

PumpDone ==                         \* what opens the pass has been done
  /\ phase \in {"pump", "manual"}
  /\ phase' = "submit" /\ cursor' = 0
  /\ UNCHANGED <<adapterVars, tableVars, positions, submit_queues, close_bucket,
                 open_bucket, requests>>

(* OMS_DrainSubmit empties the queues in slot order.                        *)
SubmitOne(s) ==
  /\ phase = "submit" /\ cursor = s /\ submit_queues[s] # << >>
  /\ Submit(s, Head(submit_queues[s]), order_bitmap, orders)
  /\ submit_queues' = [submit_queues EXCEPT ![s] = Tail(@)]
  /\ UNCHANGED <<mode, adapter_up, worker, venue, stream, ws_result_queue, positions,
                 close_bucket, open_bucket, phase, cursor, requests>>

SubmitNext(s) ==
  /\ phase = "submit" /\ cursor = s /\ submit_queues[s] = << >>
  /\ IF s + 1 \in Slots THEN cursor' = s + 1 /\ UNCHANGED phase
                        ELSE cursor' = 0 /\ phase' = "drain"
  /\ UNCHANGED <<adapterVars, tableVars, positions, submit_queues, close_bucket,
                 open_bucket, requests>>

(* A command goes to the bucket of the type of whatever order its slot      *)
(* holds or held last; a full bucket drops it.                              *)
Bucket(cmd) ==
  IF orders[cmd.id.slot].type = "SELL"
    THEN close_bucket' = Offer(close_bucket, cmd, BucketCap) /\ UNCHANGED open_bucket
    ELSE open_bucket' = Offer(open_bucket, cmd, BucketCap) /\ UNCHANGED close_bucket

Filled == {n \in Nodes : result_rings[n] # << >>}

DrainResult ==                       \* OMS_ResultPop scans from node 0
  /\ phase = "drain" /\ Filled # {}
  /\ LET n == Min(Filled)
     IN /\ Bucket(Head(result_rings[n]))
        /\ result_rings' = [result_rings EXCEPT ![n] = Tail(@)]
  /\ UNCHANGED <<mode, adapter_up, submission_queue, worker, venue, stream, ws_result_queue,
                 tableVars, positions, submit_queues, phase, cursor, requests>>

(* The rings were found empty one after the other; a result that arrives    *)
(* afterwards waits for the next pass.                                      *)
DrainWs ==
  /\ phase \in {"drain", "drainws"} /\ (phase = "drain" => Filled = {})
  /\ IF ws_result_queue # << >>
       THEN /\ Bucket(Head(ws_result_queue))
            /\ ws_result_queue' = Tail(ws_result_queue)
            /\ phase' = "drainws"
       ELSE /\ phase' = "closes"
            /\ UNCHANGED <<ws_result_queue, close_bucket, open_bucket>>
  /\ UNCHANGED <<mode, adapter_up, submission_queue, worker, venue, stream, result_rings,
                 tableVars, positions, submit_queues, cursor, requests>>

-----------------------------------------------------------------------------
(* OrderManager_ProcessFillCommand, one disjunct per outcome.               *)

(* Mutation: the slot lane of the id alone finds the order.                 *)
KnownBySlot(cmd) == cmd.id.slot \in order_bitmap

Known(cmd) == /\ cmd.id.slot \in order_bitmap
              /\ orders[cmd.id.slot].id = cmd.id

(* A quantity from REST after websocket legs is refused.                    *)
Tripwire(cmd) == cmd.from = "REST" /\ cmd.qty > 0 /\ orders[cmd.id.slot].filled > 0

(* Mutation: an order that ended without executing anything looks like an   *)
(* acknowledgement.                                                         *)
IsAckAny(cmd) == cmd.qty = 0

IsAck(cmd) == cmd.qty = 0 /\ ~cmd.terminal

Ignored(cmd) ==
  /\ ~Known(cmd) \/ (cmd.success /\ ~IsAck(cmd) /\ Tripwire(cmd))
  /\ UNCHANGED <<tableVars, positions, submission_queue, result_rings>>

Acknowledged(cmd) ==
  /\ Known(cmd) /\ cmd.success /\ IsAck(cmd)
  /\ orders' = [orders EXCEPT ![cmd.id.slot].state =
                  IF @ = "PARTIAL" THEN @ ELSE "ACKNOWLEDGED"]
  /\ UNCHANGED <<next_order_id, order_bitmap, positions, submission_queue, result_rings>>

Failed(cmd) ==
  /\ Known(cmd) /\ ~cmd.success
  /\ orders' = [orders EXCEPT ![cmd.id.slot].state = "REJECTED"]
  /\ order_bitmap' = order_bitmap \ {cmd.id.slot}
  /\ UNCHANGED <<next_order_id, positions, submission_queue, result_rings>>

(* Mutation: a buy opens a fresh position over the one that is held.        *)
AfterFillFresh(o, q) ==
  IF o.type = "BUY" THEN q
                    ELSE positions[o.pslot] - Min({q, positions[o.pslot]})

(* handle_buy_fill opens or adds to the slot's position; handle_sell_fill   *)
(* takes from it what it holds at most, and nothing from an empty one.      *)
AfterFill(o, q) ==
  IF o.type = "BUY" THEN positions[o.pslot] + q
                    ELSE positions[o.pslot] - Min({q, positions[o.pslot]})

HandleFill(o, q) == positions' = [positions EXCEPT ![o.pslot] = AfterFill(o, q)]

Leg(cmd) == Known(cmd) /\ cmd.success /\ ~IsAck(cmd) /\ ~Tripwire(cmd)

(* Mutation: every execution frees the slot (the unconditional free that    *)
(* the comment at OrderManager.hpp:2508-2511 tells of).                     *)
BookedFrees(cmd) ==
  LET k == cmd.id.slot
  IN /\ Leg(cmd) /\ ~(cmd.terminal /\ ~cmd.complete)
     /\ HandleFill(orders[k], cmd.qty)
     /\ orders' = [orders EXCEPT ![k].filled = @ + cmd.qty,
                     ![k].state = IF cmd.complete THEN "FILLED" ELSE "PARTIAL"]
     /\ order_bitmap' = order_bitmap \ {k}
     /\ UNCHANGED <<next_order_id, submission_queue, result_rings>>

(* Mutation: no execution frees it.                                         *)
BookedKeepsSlot(cmd) ==
  LET k == cmd.id.slot
  IN /\ Leg(cmd) /\ ~(cmd.terminal /\ ~cmd.complete)
     /\ HandleFill(orders[k], cmd.qty)
     /\ orders' = [orders EXCEPT ![k].filled = @ + cmd.qty,
                     ![k].state = IF cmd.complete THEN "FILLED" ELSE "PARTIAL"]
     /\ UNCHANGED <<next_order_id, order_bitmap, submission_queue, result_rings>>

(* An execution that leaves the order alive, or fills it.                   *)
Booked(cmd) ==
  LET k == cmd.id.slot
  IN /\ Leg(cmd) /\ ~(cmd.terminal /\ ~cmd.complete)
     /\ HandleFill(orders[k], cmd.qty)
     /\ orders' = [orders EXCEPT ![k].filled = @ + cmd.qty,
                     ![k].state = IF cmd.complete THEN "FILLED" ELSE "PARTIAL"]
     /\ order_bitmap' = IF cmd.complete THEN order_bitmap \ {k} ELSE order_bitmap
     /\ UNCHANGED <<next_order_id, submission_queue, result_rings>>

(* What the end of an order frees, and the fee binding it leaves to the     *)
(* order that sells the rest.  (Mutations: the slot is freed only after the *)
(* re-submission; the re-submission binds the stub it was given.)           *)
FreedLate(k) == order_bitmap
Freed(k) == order_bitmap \ {k}
UnboundFrom(dead) == Stub
BoundFrom(dead) == dead.pre_resolved

(* The order ended short: book what it executed, free its slot and, if it   *)
(* was selling and the slot still holds something, sell the rest at once.   *)
(* The new order inherits the fee binding; when Submit returned 0 the       *)
(* binding is written over that of orders[0].                               *)
EndedShort(cmd) ==
  LET k    == cmd.id.slot
      dead == orders[k]
      bm   == Freed(k)
      ords == [orders EXCEPT ![k].filled = @ + cmd.qty, ![k].state = "CANCELED"]
      rest == AfterFill(dead, cmd.qty)
      cfg  == BoundFrom(dead)
  IN /\ Leg(cmd) /\ cmd.terminal /\ ~cmd.complete
     /\ HandleFill(dead, cmd.qty)
     /\ IF dead.type = "SELL" /\ rest > 0
          THEN Submit(dead.pslot, SubmitCommand("SELL", rest, cfg), bm,
                      IF AdapterAccepts THEN ords
                                        ELSE [ords EXCEPT ![0].pre_resolved = cfg])
          ELSE /\ order_bitmap' = bm /\ orders' = ords
               /\ UNCHANGED <<next_order_id, submission_queue, result_rings>>

ProcessFillCommand(cmd) ==
  Ignored(cmd) \/ Acknowledged(cmd) \/ Failed(cmd) \/ Booked(cmd) \/ EndedShort(cmd)

ProcessClose ==                      \* OrderManager_ProcessBucket_Closes
  /\ phase = "closes" /\ close_bucket # << >>
  /\ ProcessFillCommand(Head(close_bucket))
  /\ close_bucket' = Tail(close_bucket)
  /\ UNCHANGED <<mode, adapter_up, worker, venue, stream, ws_result_queue, submit_queues,
                 open_bucket, phase, cursor, requests>>

ProcessOpen ==                       \* OrderManager_ProcessBucket_Opens
  /\ phase = "closes" /\ close_bucket = << >> /\ open_bucket # << >>
  /\ ProcessFillCommand(Head(open_bucket))
  /\ open_bucket' = Tail(open_bucket)
  /\ UNCHANGED <<mode, adapter_up, worker, venue, stream, ws_result_queue, submit_queues,
                 close_bucket, phase, cursor, requests>>

PassDone ==
  /\ phase = "closes" /\ close_bucket = << >> /\ open_bucket = << >>
  /\ phase' = "pump"
  /\ UNCHANGED <<adapterVars, tableVars, positions, submit_queues, close_bucket,
                 open_bucket, cursor, requests>>

-----------------------------------------------------------------------------
(* One pass of the drainer, without the event pump that opens it.           *)
BookPass == \/ \E s \in Slots : SubmitOne(s) \/ SubmitNext(s)
            \/ DrainResult \/ DrainWs \/ ProcessClose \/ ProcessOpen \/ PassDone

Adapter == AdapterNext /\ UNCHANGED omsVars

Producers == \E s \in Slots : EntryRequest(s) \/ ExitRequest(s)

Next == \/ Producers /\ UNCHANGED cursor
        \/ PumpDone \/ BookPass \/ Adapter

Spec == Init /\ [][Next]_vars

(* The drainer never stops passing; the worker and the websocket thread     *)
(* poll; the venue, an environment, ends every order it accepted (a market  *)
(* order never rests) and its stream is delivered.  No producer is obliged  *)
(* to ask for anything.                                                     *)
VenueSettles == \E id \in DOMAIN venue : VenueTrades(id) \/ VenueEnds(id)
Fairness == /\ WF_vars(PumpDone \/ BookPass)
            /\ WF_vars((WorkerPop \/ VenueAccepts \/ VenueRefuses \/ RestAnswer)
                         /\ UNCHANGED omsVars)
            /\ WF_vars(WsReceive /\ UNCHANGED omsVars)
            /\ WF_vars(VenueSettles /\ UNCHANGED omsVars)
FairSpec == Spec /\ Fairness

-----------------------------------------------------------------------------
(* A slot of the order table is in use exactly while its order is alive,    *)
(* and an id names the slot and the node of its order: what makes the       *)
(* O(1) lookup of OrderManager_ProcessFillCommand, and the routing of       *)
(* OMS_ResultPush, find the order a late or reordered report speaks of.     *)
TableConsistent ==
  \A k \in order_bitmap :
    /\ orders[k].state \notin Terminal
    /\ orders[k].id.slot = k /\ orders[k].id.node = NodeOf(orders[k].pslot)
    /\ orders[k].id.n < next_order_id
    /\ \A j \in order_bitmap : j # k => orders[j].id.n # orders[k].id.n

(* The quantity that the reports of one order carry which are still between *)
(* the venue and the books.                                                 *)
Amounts(q, id) == [i \in 1 .. Len(q) |-> IF q[i].id = id THEN q[i].qty ELSE 0]
Told(q, id) == SumSeq(Amounts(q, id))
Undelivered(id) ==
  Told(close_bucket, id) + Told(open_bucket, id) + Told(result_rings[id.node], id)
    + Told(ws_result_queue, id) + Told(wire, id)
InTable(id) == \E k \in order_bitmap : orders[k].id = id
Answering(id) == ~WsActive /\ worker.stage = "answer" /\ worker.sub.id = id

(* Nothing the venue executed is lost or counted twice, whatever the order  *)
(* in which the ack, the legs and the end of an order reach                 *)
(* OrderManager_ProcessFillCommand: the table has booked what was executed  *)
(* except for the reports still on their way, and an order leaves it only   *)
(* when the venue is done with it and has nothing more to tell.             *)
NoLegLost ==
  \A id \in DOMAIN venue :
    IF InTable(id)
      THEN Answering(id) \/
             orders[id.slot].filled + Undelivered(id) = venue[id].executed
      ELSE venue[id].status # "open" /\ Undelivered(id) = 0

(* What the venue holds for a node is never more than what the positions of *)
(* its slots hold once the reports under way are booked, however many       *)
(* requests of however many closers overlap (OrderManager_HandleFill):      *)
(* inventory nobody tracks would never be sold.                             *)
Signed(id, amount) == IF venue[id].type = "BUY" THEN amount ELSE -amount
ToCome(id) == IF Answering(id) THEN venue[id].executed ELSE Undelivered(id)
OrdersOf(n) == {id \in DOMAIN venue : id.node = n}
Held(n) == SumOver([s \in {s \in DOMAIN positions : NodeOf(s) = n} |-> positions[s]])
InventoryTracked == \A n \in Nodes :
  SumOver([id \in OrdersOf(n) |-> Signed(id, venue[id].executed)])
    <= Held(n) + SumOver([id \in OrdersOf(n) |-> Signed(id, ToCome(id))])

(* The other half of it holds even when a REST answer is lost, a websocket  *)
(* queue overflows or the adapter is shut down: the table never books more  *)
(* than the venue executed, whichever of the two roads told it, and in      *)
(* whatever order.                                                          *)
NothingInvented ==
  Live => \A k \in order_bitmap :
    LET id == orders[k].id
    IN orders[k].filled + Undelivered(id) <=
         IF id \in DOMAIN venue THEN venue[id].executed ELSE 0

(* "When ws_active == 0 (WS disconnected or not started), existing phase-02  *)
(* behavior is preserved - full fill data in the callback"                  *)
(* (BinanceAdapter.hpp:175-177): an answer given while the user-data stream *)
(* is down tells what the order has executed, which nothing else will.      *)
ToldWithoutStream ==
  [][worker.stage = "answer" /\ worker' = Idle /\ ~connected
       => LET id == worker.sub.id
          IN \E cmd \in ToSet(result_rings'[id.node]) :
               cmd.id = id /\ cmd.qty = venue[id].executed]_vars

(* Closing what is held.  When a SELL ends short and its slot still holds   *)
(* something, the same step of ProcessFillCommand puts a SELL for all of it *)
(* into the table: "the remainder exit is guaranteed >=1 free slot, so a    *)
(* FULL table can never silently drop it" (OrderManager.hpp:2436-2438).     *)
SellOf(s, q) == \E k \in order_bitmap :
  /\ orders[k].pslot = s /\ orders[k].type = "SELL"
  /\ orders[k].requested = q /\ orders[k].state = "SUBMITTED"
SellEndsShort(s) ==
  LET cmd == Head(close_bucket)
  IN /\ close_bucket # << >> /\ close_bucket' = Tail(close_bucket)
     /\ Known(cmd) /\ cmd.terminal /\ orders[cmd.id.slot].pslot = s
RemainderResubmitted ==
  [][\A s \in Slots : SellEndsShort(s) /\ positions'[s] > 0
                        => SellOf(s, positions[s])']_vars

(* Every order in the table carries the fee binding of its own node, also   *)
(* the remainder that inherits it from a dead order: what                   *)
(* OrderManager_HandleFill charges a fill.                                  *)
BoundToOwnNode == \A k \in order_bitmap : orders[k].pre_resolved = NodeOf(orders[k].pslot)

(* The paper fill of an order in the table is always on its way, so the     *)
(* result ring never refuses it ("structurally unreachable while            *)
(* OMS_RESULT_RING_PER_NODE >= MAX_INFLIGHT_ORDERS",                        *)
(* KillTripSiteRegistry.hpp:54-55): a refused one would leave its order in  *)
(* the table, and its position open, for ever.                              *)
Reports(q, id) == Cardinality({i \in 1 .. Len(q) : q[i].id = id})
PaperFillNeverDropped ==
  ~Live => \A k \in order_bitmap :
    LET id == orders[k].id
    IN Reports(close_bucket, id) + Reports(open_bucket, id)
         + Reports(result_rings[id.node], id) = 1

(* Every order the drainer submits leaves the table: in paper because its   *)
(* synthesized fill is booked, live because the venue settles it, the       *)
(* report of that is delivered and OrderManager_ProcessFillCommand frees    *)
(* the slot.                                                                *)
OrdersSettle == \A k \in OrderSlots : \A n \in 1 .. MaxRequests :
  (k \in order_bitmap /\ orders[k].id.n = n)
    ~> ~(k \in order_bitmap /\ orders[k].id.n = n)
=============================================================================
