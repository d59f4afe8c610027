------------------------- MODULE OrderManagerProofs -------------------------
(***************************************************************************)
(* For any nodes, slots, capacities and faults: the order table stays       *)
(* consistent.  A slot is in use exactly while its order is alive, its id   *)
(* names the slot and the node, and no two orders share a number.  Then the *)
(* road of an order: the submission queue never holds more than the table,  *)
(* so a remainder is always placed and keeps the binding of its node.       *)
(***************************************************************************)
EXTENDS OrderManager, FiniteSetTheorems, TLAPS

OrderId == [n : Nat, node : Nat, slot : Nat]
Side == {"BUY", "SELL"}
Submission == [id : OrderId, type : Side, qty : Nat]
VenueOrder == [type : Side, qty : Nat, executed : Nat, status : {"open", "filled", "ended"}]
Command == [from : {"REST", "WS"}, id : OrderId, success : BOOLEAN, qty : Nat,
            complete : BOOLEAN, terminal : BOOLEAN]
SubmitCommands == [type : Side, qty : Nat, node_cfg : Int]
Order == [id : OrderId, type : Side, pslot : Slots, requested : Nat, filled : Nat,
          state : {"PENDING", "SUBMITTED", "ACKNOWLEDGED", "PARTIAL"} \cup Terminal,
          pre_resolved : Int]

VenueOK ==
  /\ \A id \in DOMAIN venue : id \in OrderId /\ venue[id] \in VenueOrder
  /\ worker \in [stage : {"idle", "call", "answer"}, sub : Submission]
  /\ worker.stage = "answer" => worker.sub.id \in DOMAIN venue

RoadOK ==
  /\ submission_queue \in Seq(Submission)
  /\ wire \in Seq(Command) /\ ws_result_queue \in Seq(Command)
  /\ result_rings \in [Nodes -> Seq(Command)]

QueuesOK ==
  /\ close_bucket \in Seq(Command) /\ open_bucket \in Seq(Command)
  /\ submit_queues \in [Slots -> Seq(SubmitCommands)]

TableOK ==
  /\ next_order_id \in Nat
  /\ order_bitmap \subseteq OrderSlots
  /\ orders \in [OrderSlots -> Order]

PositionsOK == positions \in [Slots -> Nat]

OmsTypeOK == VenueOK /\ RoadOK /\ QueuesOK /\ TableOK /\ PositionsOK

IInv == OmsTypeOK /\ TableConsistent

-----------------------------------------------------------------------------
(* The least member of a set of numbers is one of its members.              *)
LEMMA MinIsMember == ASSUME NEW S \in SUBSET Nat, S # {} PROVE Min(S) \in S
<1> DEFINE Below == {ss \in Nat \X Nat : ss[1] < ss[2]}
<1>1. IsWellFoundedOn(Below, Nat)
  BY NatLessThanWellFounded DEF OpToRel
<1>2. PICK x \in S : \A y \in S : ~(<<y, x>> \in Below)
  BY <1>1, WFMin
<1>3. \A y \in S : x =< y
  <2> SUFFICES ASSUME NEW y \in S PROVE x =< y
    OBVIOUS
  <2>1. x \in Nat /\ y \in Nat
    OBVIOUS
  <2>2. <<y, x>> \in Nat \X Nat /\ <<y, x>>[1] = y /\ <<y, x>>[2] = x
    BY <2>1
  <2>3. ~(y < x)
    BY <1>2, <2>2
  <2> QED BY <2>1, <2>3
<1> QED BY <1>3, Zenon DEF Min

(* What handle_sell_fill takes is at most what is held.                     *)
LEMMA MinOfTwo ==
  ASSUME NEW a \in Nat, NEW b \in Nat
  PROVE  Min({a, b}) \in Nat /\ Min({a, b}) <= b
<1>1. CASE a <= b
  <2>1. \A y \in {a, b} : a =< y
    BY <1>1
  <2>2. \E x \in {a, b} : \A y \in {a, b} : x =< y
    BY <2>1
  <2>3. Min({a, b}) \in {a, b} /\ \A y \in {a, b} : Min({a, b}) =< y
    BY <2>2, Zenon DEF Min
  <2> QED BY <2>3
<1>2. CASE ~(a <= b)
  <2>1. \A y \in {a, b} : b =< y
    BY <1>2
  <2>2. \E x \in {a, b} : \A y \in {a, b} : x =< y
    BY <2>1
  <2>3. Min({a, b}) \in {a, b} /\ \A y \in {a, b} : Min({a, b}) =< y
    BY <2>2, Zenon DEF Min
  <2> QED BY <2>3
<1> QED BY <1>1, <1>2

(* A push leaves a queue of what it was a queue of.                         *)
LEMMA OfferTyped ==
  ASSUME NEW T, NEW q \in Seq(T), NEW cmd \in T, NEW cap
  PROVE  Offer(q, cmd, cap) \in Seq(T)
BY DEF Offer

LEMMA HeadTyped ==
  ASSUME NEW T, NEW q \in Seq(T), q # << >>
  PROVE  Head(q) \in T /\ Tail(q) \in Seq(T)
OBVIOUS

LEMMA ResultPushTyped ==
  ASSUME result_rings \in [Nodes -> Seq(Command)], NEW cmd \in Command, ResultPush(cmd)
  PROVE  result_rings' \in [Nodes -> Seq(Command)]
<1>1. \A n \in Nodes : Offer(result_rings[n], cmd, ResultCap) \in Seq(Command)
  BY OfferTyped
<1> QED BY <1>1 DEF ResultPush

LEMMA ReportTyped ==
  ASSUME NEW from \in {"REST", "WS"}, NEW id \in OrderId, NEW success \in BOOLEAN,
         NEW qty \in Nat, NEW complete \in BOOLEAN, NEW terminal \in BOOLEAN
  PROVE  Report(from, id, success, qty, complete, terminal) \in Command
BY DEF Report, Command

LEMMA FailureTyped ==
  ASSUME NEW from \in {"REST", "WS"}, NEW id \in OrderId
  PROVE  Failure(from, id) \in Command
BY ReportTyped DEF Failure

-----------------------------------------------------------------------------
(* The road to the venue and back: worker, venue and stream.                *)
LEMMA TellsTyped ==
  ASSUME wire \in Seq(Command), NEW cmd \in Command, Tells(cmd)
  PROVE  wire' \in Seq(Command)
BY DEF Tells

LEMMA WorkerStep ==
  ASSUME VenueOK, RoadOK,
         WorkerPop \/ VenueAccepts \/ VenueRefuses \/ RestAnswer \/ RestAnswerLost
  PROVE  VenueOK' /\ RoadOK'
<1> USE DEF VenueOK, RoadOK, stream
<1>1. Idle \in [stage : {"idle", "call", "answer"}, sub : Submission]
  BY DEF Idle, NoSubmission, Submission, OrderId, Side
<1>2. worker.sub.id \in OrderId
  BY DEF Submission
<1>3. CASE WorkerPop
  <2>1. Head(submission_queue) \in Submission /\ Tail(submission_queue) \in Seq(Submission)
    BY <1>3, HeadTyped DEF WorkerPop
  <2> QED BY <1>3, <2>1 DEF WorkerPop
<1>4. CASE VenueAccepts
  <2>1. worker' \in [stage : {"idle", "call", "answer"}, sub : Submission]
        /\ worker'.sub.id = worker.sub.id
    BY <1>4 DEF VenueAccepts
  <2>2. DOMAIN venue' = DOMAIN venue \cup {worker.sub.id}
    BY <1>4 DEF VenueAccepts
  <2>3. [type |-> worker.sub.type, qty |-> worker.sub.qty, executed |-> 0,
         status |-> "open"] \in VenueOrder
    BY DEF VenueOrder, Submission
  <2>4. \A id \in DOMAIN venue' : id \in OrderId /\ venue'[id] \in VenueOrder
    BY <1>2, <1>4, <2>2, <2>3 DEF VenueAccepts
  <2> QED BY <1>4, <2>1, <2>2, <2>4 DEF VenueAccepts
<1>5. CASE VenueRefuses
  <2>1. Failure("REST", worker.sub.id) \in Command /\ Failure("WS", worker.sub.id) \in Command
    BY <1>2, FailureTyped
  <2>2. result_rings' \in [Nodes -> Seq(Command)]
    BY <1>5, <2>1, ResultPushTyped DEF VenueRefuses
  <2>3. wire' \in Seq(Command)
    BY <1>5, <2>1, TellsTyped DEF VenueRefuses
  <2>4. worker' = Idle /\ UNCHANGED <<venue, submission_queue, ws_result_queue>>
    BY <1>5 DEF VenueRefuses
  <2> QED BY <1>1, <2>2, <2>3, <2>4 DEF Idle
<1>6. CASE RestAnswer
  <2> DEFINE o == venue[worker.sub.id]
  <2>1. o \in VenueOrder
    BY <1>6 DEF RestAnswer
  <2>2. o.executed \in Nat
    BY <2>1 DEF VenueOrder
  <2>3. Report("REST", worker.sub.id, TRUE, 0, FALSE, FALSE) \in Command
    BY <1>2, ReportTyped
  <2>4. Report("REST", worker.sub.id, TRUE, o.executed, o.status = "filled",
               o.status = "ended") \in Command
    BY <1>2, <2>2, ReportTyped
  <2>5. \E cmd \in Command : ResultPush(cmd)
    BY <1>6, <2>3, <2>4 DEF RestAnswer
  <2>6. result_rings' \in [Nodes -> Seq(Command)]
    BY <2>5, ResultPushTyped
  <2>7. worker' = Idle /\ UNCHANGED <<venue, wire, submission_queue, ws_result_queue>>
    BY <1>6 DEF RestAnswer
  <2> QED BY <1>1, <2>6, <2>7 DEF Idle
<1>7. CASE RestAnswerLost
  <2>1. Failure("REST", worker.sub.id) \in Command
    BY <1>2, FailureTyped
  <2>2. result_rings' \in [Nodes -> Seq(Command)]
    BY <1>7, <2>1, ResultPushTyped DEF RestAnswerLost
  <2>3. worker' = Idle /\ UNCHANGED <<venue, wire, submission_queue, ws_result_queue>>
    BY <1>7 DEF RestAnswerLost
  <2> QED BY <1>1, <2>2, <2>3 DEF Idle
<1> QED BY <1>3, <1>4, <1>5, <1>6, <1>7

LEMMA Traded ==
  ASSUME NEW o \in VenueOrder, NEW e \in Nat, NEW status \in {"open", "filled", "ended"}
  PROVE  [[o EXCEPT !.executed = e] EXCEPT !.status = status] \in VenueOrder
BY DEF VenueOrder

LEMMA VenueStep ==
  ASSUME VenueOK, RoadOK, NEW id, VenueTrades(id) \/ VenueEnds(id)
  PROVE  VenueOK' /\ RoadOK'
<1> USE DEF VenueOK, RoadOK
<1>1. id \in OrderId /\ id \in DOMAIN venue /\ venue[id] \in VenueOrder
  BY DEF VenueTrades, VenueEnds
<1>2. CASE VenueTrades(id)
  <2> DEFINE done(q) == venue[id].executed + q = venue[id].qty
  <2>1. PICK q \in 1 .. venue[id].qty - venue[id].executed :
          /\ venue' = [venue EXCEPT ![id].executed = @ + q,
                                    ![id].status = IF done(q) THEN "filled" ELSE "open"]
          /\ Tells(Report("WS", id, TRUE, q, done(q), FALSE))
    BY <1>2 DEF VenueTrades
  <2>2. venue[id].executed \in Nat /\ venue[id].qty \in Nat /\ q \in Nat
    BY <1>1, <2>1 DEF VenueOrder
  <2>3. Report("WS", id, TRUE, q, done(q), FALSE) \in Command
    BY <1>1, <2>2, ReportTyped
  <2>4. wire' \in Seq(Command)
    BY <2>1, <2>3, TellsTyped
  <2>5. DOMAIN venue' = DOMAIN venue /\ venue'[id] \in VenueOrder
    <3> DEFINE e == venue[id].executed + q
               status == IF done(q) THEN "filled" ELSE "open"
    <3>1. [venue EXCEPT ![id].executed = @ + q][id] = [venue[id] EXCEPT !.executed = e]
      BY <1>1
    <3>2. venue'[id] = [[venue[id] EXCEPT !.executed = e] EXCEPT !.status = status]
      BY <1>1, <2>1, <3>1
    <3>3. e \in Nat /\ status \in {"open", "filled", "ended"}
      BY <2>2
    <3> HIDE DEF e, status
    <3>4. [[venue[id] EXCEPT !.executed = e] EXCEPT !.status = status] \in VenueOrder
      BY <1>1, <3>3, Traded
    <3> QED BY <2>1, <3>2, <3>4
  <2>6. \A i \in DOMAIN venue : i # id => venue'[i] = venue[i]
    BY <2>1
  <2> QED BY <1>2, <2>4, <2>5, <2>6 DEF VenueTrades
<1>3. CASE VenueEnds(id)
  <2>1. Report("WS", id, TRUE, 0, FALSE, TRUE) \in Command
    BY <1>1, ReportTyped
  <2>2. wire' \in Seq(Command)
    BY <1>3, <2>1, TellsTyped DEF VenueEnds
  <2>3. DOMAIN venue' = DOMAIN venue /\ venue'[id] \in VenueOrder
    BY <1>1, <1>3 DEF VenueEnds, VenueOrder
  <2>4. \A i \in DOMAIN venue : i # id => venue'[i] = venue[i]
    BY <1>3 DEF VenueEnds
  <2> QED BY <1>3, <2>2, <2>3, <2>4 DEF VenueEnds
<1> QED BY <1>2, <1>3

LEMMA StreamStep ==
  ASSUME VenueOK, RoadOK, ShutdownState \/ WsReceive \/ StreamBreaks \/ StreamConnects
  PROVE  VenueOK' /\ RoadOK'
<1> USE DEF VenueOK, RoadOK, stream
<1>1. CASE WsReceive
  <2>1. Head(wire) \in Command /\ Tail(wire) \in Seq(Command)
    BY <1>1, HeadTyped DEF WsReceive
  <2>2. ws_result_queue' \in Seq(Command)
    BY <1>1, <2>1, OfferTyped DEF WsReceive
  <2>3. UNCHANGED <<venue, worker, submission_queue, result_rings>> /\ wire' = Tail(wire)
    BY <1>1 DEF WsReceive
  <2> QED BY <2>1, <2>2, <2>3
<1>2. CASE ShutdownState
  BY <1>2 DEF ShutdownState
<1>3. CASE StreamBreaks
  <2>1. wire' \in Seq(Command)
    BY <1>3 DEF StreamBreaks
  <2> QED BY <1>3, <2>1 DEF StreamBreaks
<1>4. CASE StreamConnects
  BY <1>4 DEF StreamConnects
<1> QED BY <1>1, <1>2, <1>3, <1>4

LEMMA AdapterStep ==
  ASSUME VenueOK, RoadOK, AdapterNext
  PROVE  VenueOK' /\ RoadOK'
BY WorkerStep, VenueStep, StreamStep DEF AdapterNext

-----------------------------------------------------------------------------
(* OrderManager_Submit, over any table that is consistent.                  *)
Consistent(bm, ords) ==
  \A k \in bm :
    /\ ords[k].state \notin Terminal
    /\ ords[k].id.slot = k /\ ords[k].id.node = NodeOf(ords[k].pslot)
    /\ ords[k].id.n < next_order_id
    /\ \A j \in bm : j # k => ords[j].id.n # ords[k].id.n

LEMMA ConsistentSame ==
  ASSUME NEW bm, NEW ords, NEW ords2, Consistent(bm, ords),
         \A i \in bm : /\ ords2[i].id = ords[i].id /\ ords2[i].pslot = ords[i].pslot
                       /\ ords2[i].state = ords[i].state
  PROVE  Consistent(bm, ords2)
<1> SUFFICES ASSUME NEW i \in bm
             PROVE  /\ ords2[i].state \notin Terminal
                    /\ ords2[i].id.slot = i /\ ords2[i].id.node = NodeOf(ords2[i].pslot)
                    /\ ords2[i].id.n < next_order_id
                    /\ \A j \in bm : j # i => ords2[j].id.n # ords2[i].id.n
  BY DEF Consistent
<1>1. /\ ords[i].state \notin Terminal
      /\ ords[i].id.slot = i /\ ords[i].id.node = NodeOf(ords[i].pslot)
      /\ ords[i].id.n < next_order_id
      /\ \A j \in bm : j # i => ords[j].id.n # ords[i].id.n
  BY DEF Consistent
<1>2. /\ ords2[i].id = ords[i].id /\ ords2[i].pslot = ords[i].pslot
      /\ ords2[i].state = ords[i].state
  OBVIOUS
<1>3. \A j \in bm : ords2[j].id = ords[j].id
  OBVIOUS
<1> QED BY <1>1, <1>2, <1>3

LEMMA NewOrderTyped ==
  ASSUME next_order_id \in Nat, NEW s \in Slots, NEW cmd \in SubmitCommands,
         NEW k \in OrderSlots
  PROVE  NewOrder(s, cmd, k) \in Order
<1>1. s \in Nat /\ NodeOf(s) \in Nat /\ k \in Nat
  BY OmsAssumption, AdapterAssumption
<1> QED BY <1>1 DEF NewOrder, Order, OrderId, SubmitCommands, Terminal

LEMMA OrdersUpdated ==
  ASSUME NEW ords \in [OrderSlots -> Order], NEW k \in OrderSlots, NEW o \in Order
  PROVE  [ords EXCEPT ![k] = o] \in [OrderSlots -> Order]
OBVIOUS

LEMMA SubmitStep ==
  ASSUME RoadOK, next_order_id \in Nat, NEW s \in Slots, NEW cmd \in SubmitCommands,
         NEW bm \in SUBSET OrderSlots, NEW ords \in [OrderSlots -> Order],
         Consistent(bm, ords), Submit(s, cmd, bm, ords)
  PROVE  /\ TableOK' /\ TableConsistent'
         /\ submission_queue' \in Seq(Submission)
         /\ result_rings' \in [Nodes -> Seq(Command)]
<1> DEFINE free == OrderSlots \ bm
           k    == Min(free)
           o    == NewOrder(s, cmd, k)
<1>1. next_order_id' = next_order_id + 1 /\ next_order_id' \in Nat
  BY DEF Submit
<1>2. Consistent(bm, ords)'
      <=> \A i \in bm :
            /\ ords[i].state \notin Terminal
            /\ ords[i].id.slot = i /\ ords[i].id.node = NodeOf(ords[i].pslot)
            /\ ords[i].id.n < next_order_id'
            /\ \A j \in bm : j # i => ords[j].id.n # ords[i].id.n
  BY DEF Consistent
<1>3. \A i \in bm : ords[i].id.n \in Nat /\ ords[i].id.n < next_order_id
  BY DEF Consistent, Order, OrderId
<1>4. Consistent(bm, ords)'
  BY <1>1, <1>2, <1>3 DEF Consistent
<1>5. CASE free = {}
  <2>1. order_bitmap' = bm /\ orders' = ords /\ UNCHANGED <<submission_queue, result_rings>>
    BY <1>5 DEF Submit
  <2>2. TableConsistent'
    BY <1>4, <2>1 DEF Consistent, TableConsistent
  <2> QED BY <1>1, <2>1, <2>2 DEF TableOK, RoadOK
<1>6. CASE free # {}
  <2>1. k \in free
    BY <1>6, MinIsMember, OmsAssumption
  <2>2. k \in OrderSlots /\ k \notin bm
    BY <2>1
  <2>3. o \in Order
    BY <2>2, NewOrderTyped
  <2>4. /\ o.id = [n |-> next_order_id, node |-> NodeOf(s), slot |-> k]
        /\ o.type = cmd.type /\ o.pslot = s /\ o.requested = cmd.qty
        /\ o.state = "SUBMITTED"
    BY DEF NewOrder
  <2>5. o.id \in OrderId /\ o.type \in Side /\ o.requested \in Nat
    BY <2>3 DEF Order
  <2> HIDE DEF k, o
  <2>6. ASSUME orders' = [ords EXCEPT ![k] = o], order_bitmap' = bm \cup {k}
        PROVE  TableOK' /\ TableConsistent'
    <3>1. orders'[k] = o /\ \A i \in bm : orders'[i] = ords[i]
      BY <2>2, <2>6
    <3>2. /\ o.state \notin Terminal /\ o.id.slot = k
          /\ o.id.node = NodeOf(o.pslot) /\ o.id.n = next_order_id
      BY <2>4 DEF Terminal
    <3>3. \A i \in bm \cup {k} :
            /\ orders'[i].state \notin Terminal
            /\ orders'[i].id.slot = i /\ orders'[i].id.node = NodeOf(orders'[i].pslot)
            /\ orders'[i].id.n < next_order_id'
      <4>1. \A i \in bm :
              /\ orders'[i].state \notin Terminal
              /\ orders'[i].id.slot = i /\ orders'[i].id.node = NodeOf(orders'[i].pslot)
              /\ orders'[i].id.n < next_order_id'
        BY <1>2, <1>4, <3>1
      <4>2. orders'[k].id.n < next_order_id'
        BY <1>1, <3>1, <3>2
      <4> QED BY <3>1, <3>2, <4>1, <4>2
    <3>4. \A i, j \in bm \cup {k} : j # i => orders'[j].id.n # orders'[i].id.n
      <4>1. \A i \in bm : orders'[i].id.n # orders'[k].id.n
        BY <1>3, <3>1, <3>2
      <4>2. \A i, j \in bm : j # i => orders'[j].id.n # orders'[i].id.n
        BY <1>2, <1>4, <3>1
      <4> QED BY <4>1, <4>2
    <3>5. TableConsistent'
      BY <2>6, <3>3, <3>4 DEF TableConsistent
    <3>6. orders' \in [OrderSlots -> Order]
      BY <2>2, <2>3, <2>6, OrdersUpdated
    <3> QED BY <1>1, <2>2, <2>6, <3>5, <3>6 DEF TableOK
  <2>7. CASE ~Live
    <3>1. /\ orders' = [ords EXCEPT ![k] = o] /\ order_bitmap' = bm \cup {k}
          /\ ResultPush(SynthFill(o)) /\ UNCHANGED submission_queue
      BY <1>6, <2>7 DEF Submit, k, o
    <3>2. SynthFill(o) \in Command
      BY <2>5, ReportTyped DEF SynthFill
    <3>3. result_rings' \in [Nodes -> Seq(Command)]
      BY <3>1, <3>2, ResultPushTyped DEF RoadOK
    <3> QED BY <2>6, <3>1, <3>3 DEF RoadOK
  <2>8. CASE Live /\ AdapterAccepts
    <3>1. /\ orders' = [ords EXCEPT ![k] = o] /\ order_bitmap' = bm \cup {k}
          /\ Enqueue(o.id, o.type, o.requested) /\ UNCHANGED result_rings
      BY <1>6, <2>8 DEF Submit, k, o
    <3>2. [id |-> o.id, type |-> o.type, qty |-> o.requested] \in Submission
      BY <2>5 DEF Submission
    <3>3. submission_queue' \in Seq(Submission)
      BY <3>1, <3>2 DEF Enqueue, RoadOK
    <3> QED BY <2>6, <3>1, <3>3 DEF RoadOK
  <2>9. CASE Live /\ ~AdapterAccepts
    <3>1. /\ orders' = [ords EXCEPT ![k] = [o EXCEPT !.state = "REJECTED"]]
          /\ order_bitmap' = bm /\ UNCHANGED <<submission_queue, result_rings>>
      BY <1>6, <2>9 DEF Submit, k, o
    <3>2. [o EXCEPT !.state = "REJECTED"] \in Order
      BY <2>3 DEF Order, Terminal
    <3>3. orders' \in [OrderSlots -> Order]
      BY <2>2, <3>1, <3>2, OrdersUpdated
    <3>4. \A i \in bm : orders'[i] = ords[i]
      BY <2>2, <3>1
    <3>5. \A i \in bm :
            /\ orders'[i].state \notin Terminal
            /\ orders'[i].id.slot = i /\ orders'[i].id.node = NodeOf(orders'[i].pslot)
            /\ orders'[i].id.n < next_order_id'
            /\ \A j \in bm : j # i => orders'[j].id.n # orders'[i].id.n
      BY <1>2, <1>4, <3>4
    <3>6. TableConsistent'
      BY <3>1, <3>5 DEF TableConsistent
    <3> QED BY <1>1, <3>1, <3>3, <3>6 DEF TableOK, RoadOK
  <2> QED BY <2>7, <2>8, <2>9
<1> QED BY <1>5, <1>6

-----------------------------------------------------------------------------
(* OrderManager_ProcessFillCommand.                                         *)
LEMMA TableShrinks ==
  ASSUME TableOK, TableConsistent, UNCHANGED next_order_id,
         order_bitmap' \subseteq order_bitmap, orders' \in [OrderSlots -> Order],
         \A i \in order_bitmap' : /\ orders'[i].state \notin Terminal
                                  /\ orders'[i].id = orders[i].id
                                  /\ orders'[i].pslot = orders[i].pslot
  PROVE  TableOK' /\ TableConsistent'
BY DEF TableOK, TableConsistent

LEMMA AfterFillTyped ==
  ASSUME PositionsOK, NEW o \in Order, NEW q \in Nat
  PROVE  AfterFill(o, q) \in Nat
<1>1. o.pslot \in Slots /\ positions[o.pslot] \in Nat
  BY DEF Order, PositionsOK
<1>2. Min({q, positions[o.pslot]}) \in Nat /\ Min({q, positions[o.pslot]}) <= positions[o.pslot]
  BY <1>1, MinOfTwo
<1> QED BY <1>1, <1>2 DEF AfterFill

LEMMA HandleFillTyped ==
  ASSUME PositionsOK, NEW o \in Order, NEW q \in Nat, HandleFill(o, q)
  PROVE  PositionsOK'
BY AfterFillTyped DEF HandleFill, PositionsOK

(* What the fields of an order become under a report.                       *)
LEMMA OrderMoves ==
  ASSUME NEW o \in Order, NEW q \in Nat,
         NEW state \in {"PENDING", "SUBMITTED", "ACKNOWLEDGED", "PARTIAL"} \cup Terminal
  PROVE  /\ [o EXCEPT !.state = state] \in Order
         /\ [[o EXCEPT !.filled = o.filled + q] EXCEPT !.state = state] \in Order
<1>1. [o EXCEPT !.state = state] \in Order
  BY DEF Order
<1>2. o.filled + q \in Nat
  BY DEF Order
<1>3. [o EXCEPT !.filled = o.filled + q] \in Order
  BY <1>2, Zenon DEF Order
<1>4. [[o EXCEPT !.filled = o.filled + q] EXCEPT !.state = state] \in Order
  BY <1>3 DEF Order
<1> QED BY <1>1, <1>4

(* The binding that is written over that of orders[0] leaves the rest.      *)
LEMMA Rebound ==
  ASSUME NEW ords \in [OrderSlots -> Order], NEW cfg \in Int
  PROVE  /\ [ords EXCEPT ![0].pre_resolved = cfg] \in [OrderSlots -> Order]
         /\ \A i \in OrderSlots :
              LET new == [ords EXCEPT ![0].pre_resolved = cfg][i]
              IN /\ new.id = ords[i].id /\ new.pslot = ords[i].pslot
                 /\ new.state = ords[i].state /\ new.type = ords[i].type
                 /\ new.filled = ords[i].filled
<1> DEFINE over == [ords EXCEPT ![0].pre_resolved = cfg]
           bound == [ords[0] EXCEPT !.pre_resolved = cfg]
<1>1. over = [ords EXCEPT ![0] = bound]
  OBVIOUS
<1>2. CASE 0 \in OrderSlots
  <2>1. ords[0] \in Order
    BY <1>2
  <2>2. /\ bound \in Order /\ bound.id = ords[0].id /\ bound.pslot = ords[0].pslot
        /\ bound.state = ords[0].state /\ bound.type = ords[0].type
        /\ bound.filled = ords[0].filled
    BY <2>1 DEF Order
  <2> HIDE DEF bound
  <2>3. over \in [OrderSlots -> Order] /\ over[0] = bound
        /\ \A i \in OrderSlots \ {0} : over[i] = ords[i]
    BY <1>1, <1>2, <2>2
  <2> HIDE DEF over
  <2>4. \A i \in OrderSlots :
          /\ over[i].id = ords[i].id /\ over[i].pslot = ords[i].pslot
          /\ over[i].state = ords[i].state /\ over[i].type = ords[i].type
          /\ over[i].filled = ords[i].filled
    BY <2>2, <2>3
  <2> QED BY <2>3, <2>4 DEF over
<1>3. CASE 0 \notin OrderSlots
  <2>1. over = ords
    BY <1>1, <1>3
  <2> HIDE DEF over
  <2>2. over \in [OrderSlots -> Order] /\ \A i \in OrderSlots :
          /\ over[i].id = ords[i].id /\ over[i].pslot = ords[i].pslot
          /\ over[i].state = ords[i].state /\ over[i].type = ords[i].type
          /\ over[i].filled = ords[i].filled
    BY <2>1
  <2> QED BY <2>2 DEF over
<1> QED BY <1>2, <1>3

LEMMA ProcessStep ==
  ASSUME RoadOK, TableOK, PositionsOK, TableConsistent, NEW cmd \in Command,
         ProcessFillCommand(cmd)
  PROVE  /\ TableOK' /\ TableConsistent' /\ PositionsOK'
         /\ submission_queue' \in Seq(Submission)
         /\ result_rings' \in [Nodes -> Seq(Command)]
<1> DEFINE k == cmd.id.slot
           o == orders[k]
<1>1. cmd.qty \in Nat
  BY DEF Command
<1>2. Known(cmd) => k \in order_bitmap /\ k \in OrderSlots /\ o \in Order
  BY DEF Known, TableOK
<1>3. \A j \in order_bitmap : orders[j].state \notin Terminal
  BY DEF TableConsistent
<1>4. CASE Ignored(cmd)
  BY <1>4 DEF Ignored, tableVars, TableOK, TableConsistent, PositionsOK, RoadOK
<1>5. CASE Acknowledged(cmd)
  <2> DEFINE state == IF o.state = "PARTIAL" THEN "PARTIAL" ELSE "ACKNOWLEDGED"
  <2>1. orders' = [orders EXCEPT ![k] = [o EXCEPT !.state = state]]
    BY <1>2, <1>5 DEF Acknowledged, TableOK
  <2>2. [o EXCEPT !.state = state] \in Order
    BY <1>2, <1>5, <1>1, OrderMoves DEF Acknowledged
  <2>3. UNCHANGED <<next_order_id, order_bitmap, positions, submission_queue, result_rings>>
    BY <1>5 DEF Acknowledged
  <2>4. orders' \in [OrderSlots -> Order]
    BY <1>2, <1>5, <2>1, <2>2, OrdersUpdated DEF Acknowledged, TableOK
  <2>5. /\ orders'[k].state \notin Terminal
        /\ orders'[k].id = orders[k].id /\ orders'[k].pslot = orders[k].pslot
    BY <1>2, <1>5, <2>1 DEF Acknowledged, TableOK, Order, Terminal
  <2>6. \A i \in order_bitmap : i # k => orders'[i] = orders[i]
    BY <2>1 DEF TableOK
  <2>7. TableOK' /\ TableConsistent'
    BY <1>3, <2>3, <2>4, <2>5, <2>6, TableShrinks
  <2> QED BY <2>3, <2>7 DEF PositionsOK, RoadOK
<1>6. CASE Failed(cmd)
  <2>1. orders' = [orders EXCEPT ![k] = [o EXCEPT !.state = "REJECTED"]]
    BY <1>2, <1>6 DEF Failed, TableOK
  <2>2. [o EXCEPT !.state = "REJECTED"] \in Order
    BY <1>2, <1>6, <1>1, OrderMoves DEF Failed, Terminal
  <2>3. UNCHANGED <<next_order_id, positions, submission_queue, result_rings>>
    BY <1>6 DEF Failed
  <2>4. orders' \in [OrderSlots -> Order]
    BY <1>2, <1>6, <2>1, <2>2, OrdersUpdated DEF Failed, TableOK
  <2>5. order_bitmap' = order_bitmap \ {k}
    BY <1>6 DEF Failed
  <2>6. \A i \in order_bitmap' : orders'[i] = orders[i]
    BY <2>1, <2>5 DEF TableOK
  <2>7. TableOK' /\ TableConsistent'
    BY <1>3, <2>3, <2>4, <2>5, <2>6, TableShrinks
  <2> QED BY <2>3, <2>7 DEF PositionsOK, RoadOK
<1>7. CASE Booked(cmd)
  <2> DEFINE state == IF cmd.complete THEN "FILLED" ELSE "PARTIAL"
             new   == [[o EXCEPT !.filled = o.filled + cmd.qty] EXCEPT !.state = state]
  <2>1. k \in order_bitmap /\ k \in OrderSlots /\ o \in Order
    BY <1>2, <1>7 DEF Booked, Leg
  <2>2. orders' = [orders EXCEPT ![k] = new]
    BY <1>7, <2>1 DEF Booked, TableOK
  <2>3. new \in Order
    BY <1>1, <2>1, OrderMoves DEF Terminal
  <2>4. PositionsOK'
    BY <1>1, <1>7, <2>1, HandleFillTyped DEF Booked
  <2>5. UNCHANGED <<next_order_id, submission_queue, result_rings>>
    BY <1>7 DEF Booked
  <2>6. orders' \in [OrderSlots -> Order]
    BY <2>1, <2>2, <2>3, OrdersUpdated DEF TableOK
  <2>7. order_bitmap' = IF cmd.complete THEN order_bitmap \ {k} ELSE order_bitmap
    BY <1>7 DEF Booked
  <2>8. /\ orders'[k].id = orders[k].id /\ orders'[k].pslot = orders[k].pslot
        /\ orders'[k].state = state
    BY <2>1, <2>2 DEF TableOK, Order
  <2>9. \A i \in order_bitmap : i # k => orders'[i] = orders[i]
    BY <2>2 DEF TableOK
  <2>10. TableOK' /\ TableConsistent'
    <3>1. CASE cmd.complete
      BY <1>3, <2>5, <2>6, <2>7, <2>9, <3>1, TableShrinks
    <3>2. CASE ~cmd.complete
      <4>1. orders'[k].state \notin Terminal
        BY <2>8, <3>2 DEF Terminal
      <4> QED BY <1>3, <2>5, <2>6, <2>7, <2>8, <2>9, <3>2, <4>1, TableShrinks
    <3> QED BY <3>1, <3>2
  <2> QED BY <2>4, <2>5, <2>10 DEF RoadOK
<1>8. CASE EndedShort(cmd)
  <2> DEFINE new  == [[o EXCEPT !.filled = o.filled + cmd.qty] EXCEPT !.state = "CANCELED"]
             bm   == order_bitmap \ {k}
             ords == [orders EXCEPT ![k] = new]
             over == [ords EXCEPT ![0].pre_resolved = o.pre_resolved]
             rest == SubmitCommand("SELL", AfterFill(o, cmd.qty), o.pre_resolved)
  <2>1. k \in order_bitmap /\ k \in OrderSlots /\ o \in Order
    BY <1>2, <1>8 DEF EndedShort, Leg
  <2>2. [orders EXCEPT ![k].filled = @ + cmd.qty, ![k].state = "CANCELED"] = ords
    BY <2>1 DEF TableOK
  <2>3. new \in Order
    BY <1>1, <2>1, OrderMoves DEF Terminal
  <2>4. ords \in [OrderSlots -> Order] /\ \A i \in bm : ords[i] = orders[i]
    BY <2>1, <2>3, OrdersUpdated DEF TableOK
  <2>5. PositionsOK'
    BY <1>1, <1>8, <2>1, HandleFillTyped DEF EndedShort
  <2>6. o.pslot \in Slots /\ o.pre_resolved \in Int
    BY <2>1 DEF Order
  <2>7. over \in [OrderSlots -> Order]
        /\ \A i \in bm : /\ over[i].id = ords[i].id /\ over[i].pslot = ords[i].pslot
                          /\ over[i].state = ords[i].state
    <3>1. bm \subseteq OrderSlots
      BY DEF TableOK
    <3> HIDE DEF ords, bm, o
    <3> QED BY <2>4, <2>6, <3>1, Rebound
  <2>8. Consistent(bm, ords) /\ Consistent(bm, over)
    <3>1. Consistent(bm, orders)
      BY DEF Consistent, TableConsistent
    <3>2. Consistent(bm, ords)
      BY <2>4, <3>1 DEF Consistent
    <3> HIDE DEF bm, ords, over
    <3> QED BY <2>7, <3>2, ConsistentSame
  <2>9. rest \in SubmitCommands
    BY <1>1, <2>1, <2>6, AfterFillTyped DEF SubmitCommand, SubmitCommands, Side
  <2>10. bm \in SUBSET OrderSlots /\ next_order_id \in Nat
    BY DEF TableOK
  <2>11. \/ Submit(o.pslot, rest, bm, ords) \/ Submit(o.pslot, rest, bm, over)
         \/ /\ order_bitmap' = bm /\ orders' = ords
            /\ UNCHANGED <<next_order_id, submission_queue, result_rings>>
    BY <1>8, <2>2 DEF EndedShort, Freed, BoundFrom
  <2>12. CASE Submit(o.pslot, rest, bm, ords) \/ Submit(o.pslot, rest, bm, over)
    <3> HIDE DEF bm, ords, over, rest, o
    <3> QED BY <2>4, <2>5, <2>6, <2>7, <2>8, <2>9, <2>10, <2>12, SubmitStep
  <2>13. CASE /\ order_bitmap' = bm /\ orders' = ords
              /\ UNCHANGED <<next_order_id, submission_queue, result_rings>>
    <3>1. TableOK' /\ TableConsistent'
      BY <1>3, <2>4, <2>13, TableShrinks
    <3> QED BY <2>5, <2>13, <3>1 DEF RoadOK
  <2> QED BY <2>11, <2>12, <2>13
<1> QED BY <1>4, <1>5, <1>6, <1>7, <1>8 DEF ProcessFillCommand

-----------------------------------------------------------------------------
(* The steps of the producers and of the drainer's pass.                    *)
LEMMA InitInv == Init => IInv
<1> SUFFICES ASSUME Init PROVE IInv
  OBVIOUS
<1> USE DEF Init, AdapterInit, OmsInit
<1>1. VenueOK
  <2>1. Idle \in [stage : {"idle", "call", "answer"}, sub : Submission]
    BY DEF Idle, NoSubmission, Submission, OrderId, Side
  <2> QED BY <2>1 DEF VenueOK, Idle
<1>2. RoadOK /\ QueuesOK /\ PositionsOK
  BY DEF RoadOK, QueuesOK, PositionsOK
<1>3. TableOK
  <2>1. NoOrder \in Order
    BY OmsAssumption DEF NoOrder, Order, NoSubmission, OrderId, Side, Terminal, Stub
  <2> QED BY <2>1 DEF TableOK
<1>4. TableConsistent
  BY DEF TableConsistent
<1> QED BY <1>1, <1>2, <1>3, <1>4 DEF IInv, OmsTypeOK

(* A step that leaves the table and the positions alone.                    *)
LEMMA TableKept ==
  ASSUME TableOK, TableConsistent, PositionsOK, UNCHANGED <<tableVars, positions>>
  PROVE  TableOK' /\ TableConsistent' /\ PositionsOK'
BY DEF TableOK, TableConsistent, PositionsOK, tableVars

LEMMA AdapterKept ==
  ASSUME VenueOK, RoadOK, UNCHANGED adapterVars
  PROVE  VenueOK' /\ RoadOK'
BY DEF VenueOK, RoadOK, adapterVars, stream

(* A request of whatever producer, and the steps that only move the pass on.*)
Asks(s) ==
  \E type \in Side, q \in Nat :
    /\ q > 0 /\ PushSubmit(s, type, q)
    /\ UNCHANGED <<adapterVars, tableVars, positions, close_bucket, open_bucket>>
Still == UNCHANGED <<adapterVars, tableVars, positions, submit_queues, close_bucket, open_bucket>>

LEMMA RequestAsks ==
  ASSUME IInv, NEW s \in Slots, EntryRequest(s) \/ ExitRequest(s)
  PROVE  Asks(s)
<1>1. PICK type \in Side, q \in Nat : q > 0 /\ Request(s, type, q)
  <2>1. CASE EntryRequest(s)
    <3>1. PICK q \in 1 .. MaxQty : Request(s, "BUY", q)
      BY <2>1 DEF EntryRequest
    <3>2. q \in Nat /\ q > 0 /\ "BUY" \in Side
      BY OmsAssumption DEF Side
    <3> QED BY <3>1, <3>2
  <2>2. CASE ExitRequest(s)
    <3>1. positions[s] > 0 /\ positions[s] \in Nat /\ Request(s, "SELL", positions[s])
      BY <2>2 DEF ExitRequest, IInv, OmsTypeOK, PositionsOK
    <3> QED BY <3>1 DEF Side
  <2> QED BY <2>1, <2>2
<1> QED BY <1>1 DEF Request, Asks

LEMMA PassStill ==
  ASSUME PumpDone \/ PassDone \/ UNCHANGED vars \/ \E s \in Slots : SubmitNext(s)
  PROVE  Still
BY DEF PumpDone, PassDone, SubmitNext, vars, omsVars, Still

LEMMA RequestStep ==
  ASSUME IInv, NEW s \in Slots, Asks(s)
  PROVE  IInv'
<1> USE DEF IInv, OmsTypeOK
<1>1. PICK type \in Side, q \in Nat :
        /\ PushSubmit(s, type, q)
        /\ UNCHANGED <<adapterVars, tableVars, positions, close_bucket, open_bucket>>
  BY DEF Asks
<1>2. SubmitCommand(type, q, NodeOf(s)) \in SubmitCommands
  <2>1. NodeOf(s) \in Nat
    BY OmsAssumption, AdapterAssumption
  <2>2. NodeOf(s) \in Int
    BY <2>1
  <2> QED BY <1>1, <2>2 DEF SubmitCommand, SubmitCommands
<1>3. Offer(submit_queues[s], SubmitCommand(type, q, NodeOf(s)), SubmitCap)
        \in Seq(SubmitCommands)
  BY <1>2, OfferTyped DEF QueuesOK
<1>4. submit_queues' \in [Slots -> Seq(SubmitCommands)]
  BY <1>1, <1>3 DEF PushSubmit, QueuesOK
<1>5. UNCHANGED <<adapterVars, tableVars, positions, close_bucket, open_bucket>>
  BY <1>1
<1>6. VenueOK' /\ RoadOK'
  BY <1>5, AdapterKept
<1>7. TableOK' /\ TableConsistent' /\ PositionsOK'
  BY <1>5, TableKept
<1> QED BY <1>4, <1>5, <1>6, <1>7 DEF QueuesOK

LEMMA SubmitOneStep ==
  ASSUME IInv, NEW s \in Slots, SubmitOne(s)
  PROVE  IInv'
<1> USE DEF IInv, OmsTypeOK
<1>1. Head(submit_queues[s]) \in SubmitCommands /\ Tail(submit_queues[s]) \in Seq(SubmitCommands)
  BY HeadTyped DEF SubmitOne, QueuesOK
<1>2. Submit(s, Head(submit_queues[s]), order_bitmap, orders)
  BY DEF SubmitOne
<1>3. Consistent(order_bitmap, orders)
  BY DEF TableConsistent, Consistent
<1>4. /\ TableOK' /\ TableConsistent'
      /\ submission_queue' \in Seq(Submission)
      /\ result_rings' \in [Nodes -> Seq(Command)]
  BY <1>1, <1>2, <1>3, SubmitStep DEF TableOK
<1>5. /\ UNCHANGED <<worker, venue, wire, ws_result_queue, positions, close_bucket, open_bucket>>
      /\ submit_queues' = [submit_queues EXCEPT ![s] = Tail(@)]
  BY DEF SubmitOne, stream
<1>6. VenueOK' /\ RoadOK' /\ PositionsOK'
  BY <1>4, <1>5 DEF VenueOK, RoadOK, PositionsOK
<1>7. QueuesOK'
  BY <1>1, <1>5 DEF QueuesOK
<1> QED BY <1>4, <1>6, <1>7

LEMMA BucketTyped ==
  ASSUME QueuesOK, NEW cmd \in Command, Bucket(cmd)
  PROVE  close_bucket' \in Seq(Command) /\ open_bucket' \in Seq(Command)
BY OfferTyped DEF Bucket, QueuesOK

LEMMA DrainStep ==
  ASSUME IInv, DrainResult \/ DrainWs
  PROVE  IInv'
<1> USE DEF IInv, OmsTypeOK
<1>1. UNCHANGED <<tableVars, positions, worker, venue, wire, submission_queue, submit_queues>>
  BY DEF DrainResult, DrainWs, stream
<1>2. /\ close_bucket' \in Seq(Command) /\ open_bucket' \in Seq(Command)
      /\ ws_result_queue' \in Seq(Command)
      /\ result_rings' \in [Nodes -> Seq(Command)]
  <2>1. CASE DrainResult
    <3> DEFINE n == Min(Filled)
    <3>1. Filled \in SUBSET Nat /\ Filled # {}
      BY <2>1, AdapterAssumption DEF Filled, DrainResult
    <3>2. n \in Filled
      BY <3>1, MinIsMember
    <3>3. n \in Nodes /\ result_rings[n] # << >> /\ result_rings[n] \in Seq(Command)
      BY <3>2 DEF Filled, RoadOK
    <3>4. Bucket(Head(result_rings[n])) /\ UNCHANGED ws_result_queue
          /\ result_rings' = [result_rings EXCEPT ![n] = Tail(@)]
      BY <2>1 DEF DrainResult
    <3> HIDE DEF n
    <3>5. Head(result_rings[n]) \in Command /\ Tail(result_rings[n]) \in Seq(Command)
      BY <3>3, HeadTyped
    <3> QED BY <3>3, <3>4, <3>5, BucketTyped DEF RoadOK
  <2>2. CASE DrainWs /\ ws_result_queue # << >>
    <3>1. Head(ws_result_queue) \in Command /\ Tail(ws_result_queue) \in Seq(Command)
      BY <2>2, HeadTyped DEF RoadOK
    <3>2. Bucket(Head(ws_result_queue)) /\ ws_result_queue' = Tail(ws_result_queue)
          /\ UNCHANGED result_rings
      BY <2>2 DEF DrainWs
    <3> QED BY <3>1, <3>2, BucketTyped DEF RoadOK
  <2>3. CASE DrainWs /\ ws_result_queue = << >>
    BY <2>3 DEF DrainWs, QueuesOK, RoadOK
  <2> QED BY <2>1, <2>2, <2>3
<1>3. TableOK' /\ TableConsistent' /\ PositionsOK'
  BY <1>1, TableKept
<1> QED BY <1>1, <1>2, <1>3 DEF VenueOK, RoadOK, QueuesOK

LEMMA BookStep ==
  ASSUME IInv, ProcessClose \/ ProcessOpen
  PROVE  IInv'
<1> USE DEF IInv, OmsTypeOK
<1>1. PICK cmd \in Command : ProcessFillCommand(cmd)
  BY HeadTyped DEF ProcessClose, ProcessOpen, QueuesOK
<1>2. /\ TableOK' /\ TableConsistent' /\ PositionsOK'
      /\ submission_queue' \in Seq(Submission)
      /\ result_rings' \in [Nodes -> Seq(Command)]
  BY <1>1, ProcessStep
<1>3. UNCHANGED <<worker, venue, wire, ws_result_queue, submit_queues>>
  BY DEF ProcessClose, ProcessOpen, stream
<1>4. close_bucket' \in Seq(Command) /\ open_bucket' \in Seq(Command)
  BY HeadTyped DEF ProcessClose, ProcessOpen, QueuesOK
<1> QED BY <1>2, <1>3, <1>4 DEF VenueOK, RoadOK, QueuesOK

LEMMA PassStep ==
  ASSUME IInv, Still
  PROVE  IInv'
<1> USE DEF IInv, OmsTypeOK
<1>1. UNCHANGED <<adapterVars, tableVars, positions, submit_queues, close_bucket, open_bucket>>
  BY DEF Still
<1>2. VenueOK' /\ RoadOK'
  BY <1>1, AdapterKept
<1>3. TableOK' /\ TableConsistent' /\ PositionsOK'
  BY <1>1, TableKept
<1> QED BY <1>1, <1>2, <1>3 DEF QueuesOK

LEMMA AdapterInv ==
  ASSUME IInv, Adapter
  PROVE  IInv'
<1>1. AdapterNext /\ UNCHANGED <<tableVars, positions, submit_queues, close_bucket, open_bucket>>
  BY DEF Adapter, omsVars
<1>2. VenueOK' /\ RoadOK'
  BY <1>1, AdapterStep DEF IInv, OmsTypeOK
<1>3. TableOK' /\ TableConsistent' /\ PositionsOK'
  BY <1>1, TableKept DEF IInv, OmsTypeOK
<1> QED BY <1>1, <1>2, <1>3 DEF IInv, OmsTypeOK, QueuesOK

LEMMA NextInv == IInv /\ [Next]_vars => IInv'
<1> SUFFICES ASSUME IInv, [Next]_vars PROVE IInv'
  OBVIOUS
<1>1. CASE Producers /\ UNCHANGED cursor
  BY <1>1, RequestAsks, RequestStep DEF Producers
<1>2. CASE PumpDone \/ UNCHANGED vars
  BY <1>2, PassStill, PassStep
<1>3. CASE BookPass
  BY <1>3, SubmitOneStep, DrainStep, BookStep, PassStill, PassStep DEF BookPass
<1>4. CASE Adapter
  BY <1>4, AdapterInv
<1> QED BY <1>1, <1>2, <1>3, <1>4 DEF Next

LEMMA OmsInvariant == Spec => []IInv
BY InitInv, NextInv, PTL DEF Spec

-----------------------------------------------------------------------------
(* The types of table, positions, queues and venue: of OrderManager_Submit, *)
(* OrderManager_ProcessFillCommand and the adapter behind them.             *)
THEOREM OmsTypeCorrect == Spec => []OmsTypeOK
BY OmsInvariant, PTL DEF IInv

(* A slot of the order table is in use exactly while its order is alive,    *)
(* and its id names slot and node (OrderManager_ProcessFillCommand), for a  *)
(* table of any size, with answers and reports lost, queues overflowing and *)
(* the adapter shut down as it may.                                         *)
THEOREM TableAlwaysConsistent == Spec => []TableConsistent
BY OmsInvariant, PTL DEF IInv

-----------------------------------------------------------------------------
(* Second part: what is under way between the table, the adapter's queue    *)
(* and the venue, on top of IInv.                                           *)

(* An order that the adapter's queue holds no more: its number is older     *)
(* than every number waiting there.                                         *)
Sent(id, nx, sq) == id.n < nx /\ \A i \in 1 .. Len(sq) : id.n < sq[i].id.n

(* The reports there can be: of orders that left the queue.  An order that  *)
(* ended short was accepted, and REST tells of it only when the websocket   *)
(* is not in use; REST then tells of an order that has left the venue's     *)
(* book.                                                                    *)
Sound(m, nx, sq) ==
  {cmd \in Command :
     /\ Sent(cmd.id, nx, sq)
     /\ cmd.terminal => cmd.success /\ ~cmd.complete
     /\ cmd.terminal /\ cmd.from = "REST" => m = "rest"
     /\ m = "rest" /\ cmd.success => cmd.complete \/ cmd.terminal}
SoundNow == Sound(mode, next_order_id, submission_queue)

RoadSound ==
  /\ wire \in Seq(SoundNow) /\ ws_result_queue \in Seq(SoundNow)
  /\ result_rings \in [Nodes -> Seq(SoundNow)]
BucketsSound == close_bucket \in Seq(SoundNow) /\ open_bucket \in Seq(SoundNow)

WorkSent ==
  /\ worker.stage # "idle" => Live /\ Sent(worker.sub.id, next_order_id, submission_queue)
  /\ \A id \in DOMAIN venue : Sent(id, next_order_id, submission_queue)
  /\ connected => WsActive

Increasing(sq) ==
  \A i, j \in 1 .. Len(sq) : i < j => sq[i].id.n < sq[j].id.n
QueueOrdered == /\ Increasing(submission_queue)
                /\ mode \in {"paper", "rest", "ws"}
                /\ ~Live => submission_queue = << >>

(* BINANCE_ADAPTER_QUEUE_SIZE is 256, MAX_INFLIGHT_ORDERS 16.               *)
QueueHoldsTable == IsFiniteSet(OrderSlots) /\ Cardinality(OrderSlots) <= QueueCap

(* What keeps Submit from returning 0 to the re-submission of a remainder.  *)
Binds == adapter_up /\ QueueHoldsTable

(* What a table (bm, ords) owes to the adapter's queue, to the closes that  *)
(* wait, to the REST answers and to the fee bindings.                       *)
Carries(sq, bm, ords) ==
  \A i \in 1 .. Len(sq) : sq[i].id.slot \in bm /\ ords[sq[i].id.slot].id = sq[i].id
Sells(q, bm, ords) ==
  \A i \in 1 .. Len(q) :
    q[i].id.slot \in bm /\ ords[q[i].id.slot].id = q[i].id => ords[q[i].id.slot].type = "SELL"
Untouched(m, bm, ords) == m = "rest" => \A k \in bm : ords[k].filled = 0
Bound(up, bm, ords) == up => \A k \in bm : ords[k].pre_resolved = NodeOf(ords[k].pslot)
Owes(m, up, sq, q, bm, ords) ==
  /\ Carries(sq, bm, ords) /\ Sells(q, bm, ords)
  /\ Untouched(m, bm, ords) /\ Bound(up, bm, ords)
TableOwes == Owes(mode, Binds, submission_queue, close_bucket, order_bitmap, orders)

OwnCommands(s) == {cmd \in SubmitCommands : cmd.node_cfg = NodeOf(s)}
RequestsBound == \A s \in Slots : submit_queues[s] \in Seq(OwnCommands(s))

RInv == RoadSound /\ BucketsSound /\ WorkSent /\ QueueOrdered /\ RequestsBound /\ TableOwes

-----------------------------------------------------------------------------
(* A queue that gives up its oldest order, or takes one with a fresh        *)
(* number, leaves sound what was sound.                                     *)
LEMMA SoundGrows ==
  ASSUME NEW m, NEW nx \in Nat, NEW nx2 \in Nat, nx <= nx2,
         NEW sq \in Seq(Submission), NEW sq2 \in Seq(Submission),
         \A i \in 1 .. Len(sq2) :
           sq2[i].id.n >= nx \/ \E j \in 1 .. Len(sq) : sq2[i] = sq[j]
  PROVE  /\ \A id \in OrderId : Sent(id, nx, sq) => Sent(id, nx2, sq2)
         /\ Sound(m, nx, sq) \subseteq Sound(m, nx2, sq2)
<1>1. ASSUME NEW id \in OrderId, Sent(id, nx, sq)
      PROVE  Sent(id, nx2, sq2)
  <2>1. id.n \in Nat /\ id.n < nx
    BY <1>1 DEF Sent, OrderId
  <2>2. \A j \in 1 .. Len(sq) : id.n < sq[j].id.n
    BY <1>1 DEF Sent
  <2>3. \A i \in 1 .. Len(sq2) : sq2[i].id.n \in Nat
    <3>1. \A i \in 1 .. Len(sq2) : sq2[i] \in Submission
      OBVIOUS
    <3> QED BY <3>1 DEF Submission, OrderId
  <2>4. ASSUME NEW i \in 1 .. Len(sq2) PROVE id.n < sq2[i].id.n
    <3>1. CASE sq2[i].id.n >= nx
      BY <2>1, <2>3, <3>1
    <3>2. CASE \E j \in 1 .. Len(sq) : sq2[i] = sq[j]
      BY <2>2, <3>2
    <3> QED BY <3>1, <3>2
  <2> QED BY <2>1, <2>4 DEF Sent
<1>2. ASSUME NEW cmd \in Sound(m, nx, sq)
      PROVE  cmd \in Sound(m, nx2, sq2)
  <2>1. cmd \in Command /\ Sent(cmd.id, nx, sq)
    BY <1>2 DEF Sound
  <2>2. cmd.id \in OrderId
    BY <2>1 DEF Command
  <2>3. Sent(cmd.id, nx2, sq2)
    BY <1>1, <2>1, <2>2
  <2> QED BY <1>2, <2>3 DEF Sound
<1> QED BY <1>1, <1>2

LEMMA SeqGrows ==
  ASSUME NEW S, NEW T, S \subseteq T, NEW q \in Seq(S)
  PROVE  q \in Seq(T)
OBVIOUS

LEMMA RingsGrow ==
  ASSUME NEW S, NEW T, S \subseteq T, NEW r \in [Nodes -> Seq(S)]
  PROVE  r \in [Nodes -> Seq(T)]
<1>1. \A n \in Nodes : r[n] \in Seq(T)
  BY SeqGrows
<1> QED BY <1>1

LEMMA RingTakes ==
  ASSUME NEW S, result_rings \in [Nodes -> Seq(S)], NEW cmd \in S, ResultPush(cmd)
  PROVE  result_rings' \in [Nodes -> Seq(S)]
<1>1. \A n \in Nodes : Offer(result_rings[n], cmd, ResultCap) \in Seq(S)
  BY OfferTyped
<1> QED BY <1>1 DEF ResultPush

LEMMA WireTakes ==
  ASSUME NEW S, wire \in Seq(S), NEW cmd, connected => cmd \in S, Tells(cmd)
  PROVE  wire' \in Seq(S)
BY DEF Tells

LEMMA SoundReport ==
  ASSUME NEW m, NEW nx, NEW sq, NEW from \in {"REST", "WS"}, NEW id \in OrderId,
         Sent(id, nx, sq),
         NEW success \in BOOLEAN, NEW qty \in Nat, NEW complete \in BOOLEAN,
         NEW terminal \in BOOLEAN,
         terminal => success /\ ~complete,
         terminal /\ from = "REST" => m = "rest",
         m = "rest" /\ success => complete \/ terminal
  PROVE  Report(from, id, success, qty, complete, terminal) \in Sound(m, nx, sq)
BY ReportTyped DEF Report, Sound

-----------------------------------------------------------------------------
(* The adapter's own steps.                                                 *)
LEMMA PopSends ==
  ASSUME IInv, IInv', RInv, WorkerPop
  PROVE  /\ \A id \in OrderId : Sent(id, next_order_id, submission_queue)
                                  => Sent(id, next_order_id, Tail(submission_queue))
         /\ SoundNow \subseteq Sound(mode, next_order_id, Tail(submission_queue))
         /\ Sent(Head(submission_queue).id, next_order_id, Tail(submission_queue))
         /\ Increasing(Tail(submission_queue))
<1> DEFINE sq == submission_queue
<1>1. sq \in Seq(Submission) /\ sq # << >> /\ Tail(sq) \in Seq(Submission)
      /\ next_order_id \in Nat
  BY DEF IInv, OmsTypeOK, RoadOK, TableOK, WorkerPop
<1>2. /\ Len(Tail(sq)) = Len(sq) - 1
      /\ \A i \in 1 .. Len(Tail(sq)) : Tail(sq)[i] = sq[i + 1] /\ i + 1 \in 1 .. Len(sq)
      /\ Head(sq) = sq[1] /\ 1 \in 1 .. Len(sq)
  BY <1>1
<1>3. Increasing(sq)
  BY DEF RInv, QueueOrdered
<1> HIDE DEF sq
<1>4. Increasing(Tail(sq))
  <2> SUFFICES ASSUME NEW i \in 1 .. Len(Tail(sq)), NEW j \in 1 .. Len(Tail(sq)), i < j
               PROVE  Tail(sq)[i].id.n < Tail(sq)[j].id.n
    BY DEF Increasing
  <2>1. i + 1 \in 1 .. Len(sq) /\ j + 1 \in 1 .. Len(sq) /\ i + 1 < j + 1
    BY <1>2
  <2> QED BY <1>2, <1>3, <2>1 DEF Increasing
<1>5. Sent(Head(sq).id, next_order_id, Tail(sq))
  <2>1. \A i \in 1 .. Len(Tail(sq)) : Head(sq).id.n < Tail(sq)[i].id.n
    <3> SUFFICES ASSUME NEW i \in 1 .. Len(Tail(sq))
                 PROVE  Head(sq).id.n < Tail(sq)[i].id.n
      OBVIOUS
    <3>1. 1 < i + 1 /\ i + 1 \in 1 .. Len(sq)
      BY <1>2
    <3> QED BY <1>2, <1>3, <3>1 DEF Increasing
  <2>2. Head(sq).id.n < next_order_id
    <3>1. Carries(sq, order_bitmap, orders)
      BY DEF RInv, TableOwes, Owes, sq
    <3>2. Head(sq).id.slot \in order_bitmap /\ orders[Head(sq).id.slot].id = Head(sq).id
      BY <1>2, <3>1 DEF Carries
    <3>3. orders[Head(sq).id.slot].id.n < next_order_id
      BY <3>2 DEF IInv, TableConsistent
    <3> QED BY <3>2, <3>3
  <2> QED BY <2>1, <2>2 DEF Sent
<1>6. /\ \A id \in OrderId : Sent(id, next_order_id, sq) => Sent(id, next_order_id, Tail(sq))
      /\ Sound(mode, next_order_id, sq) \subseteq Sound(mode, next_order_id, Tail(sq))
  <2>1. \A i \in 1 .. Len(Tail(sq)) : \E j \in 1 .. Len(sq) : Tail(sq)[i] = sq[j]
    BY <1>2
  <2>2. next_order_id <= next_order_id
    BY <1>1
  <2> QED BY <1>1, <2>1, <2>2, SoundGrows
<1> QED BY <1>4, <1>5, <1>6 DEF SoundNow, sq

(* The steps that leave the queue and the table's numbers alone.            *)
LEMMA AdapterSound ==
  ASSUME IInv, IInv', RInv, AdapterNext,
         UNCHANGED <<next_order_id, close_bucket, open_bucket>>
  PROVE  /\ RoadSound' /\ BucketsSound' /\ WorkSent' /\ QueueOrdered'
         /\ SoundNow \subseteq SoundNow'
<1> DEFINE S == Sound(mode, next_order_id, submission_queue)
           rest == worker.sub.id
<1>1. /\ wire \in Seq(S) /\ ws_result_queue \in Seq(S) /\ result_rings \in [Nodes -> Seq(S)]
      /\ close_bucket \in Seq(S) /\ open_bucket \in Seq(S)
  BY DEF RInv, RoadSound, BucketsSound, SoundNow
<1>2. /\ worker.stage # "idle" => Live /\ Sent(rest, next_order_id, submission_queue)
      /\ \A id \in DOMAIN venue : Sent(id, next_order_id, submission_queue)
      /\ connected => WsActive
  BY DEF RInv, WorkSent
<1>3. worker.sub.id \in OrderId /\ worker.sub \in Submission
      /\ worker.stage \in {"idle", "call", "answer"}
      /\ \A id \in DOMAIN venue : id \in OrderId /\ venue[id] \in VenueOrder
  BY DEF IInv, OmsTypeOK, VenueOK, Submission
<1>4. mode' = mode /\ mode \in {"paper", "rest", "ws"}
  BY DEF AdapterNext, WorkerPop, VenueAccepts, VenueRefuses, RestAnswer, RestAnswerLost,
         ShutdownState, WsReceive, StreamBreaks, StreamConnects, VenueTrades, VenueEnds,
         RInv, QueueOrdered
<1>5. CASE WorkerPop
  <2> DEFINE T == Sound(mode, next_order_id, Tail(submission_queue))
  <2>1. /\ submission_queue' = Tail(submission_queue) /\ submission_queue # << >>
        /\ worker' = [stage |-> "call", sub |-> Head(submission_queue)]
        /\ UNCHANGED <<venue, connected, wire, result_rings, ws_result_queue, mode>>
    BY <1>5 DEF WorkerPop, stream
  <2>2. /\ \A id \in OrderId : Sent(id, next_order_id, submission_queue)
                                 => Sent(id, next_order_id, Tail(submission_queue))
        /\ S \subseteq T
        /\ Sent(Head(submission_queue).id, next_order_id, Tail(submission_queue))
        /\ Increasing(Tail(submission_queue))
    BY <1>5, PopSends DEF SoundNow
  <2>3. SoundNow' = T /\ SoundNow = S
    BY <2>1 DEF SoundNow
  <2> HIDE DEF S, T
  <2>4. /\ wire \in Seq(T) /\ ws_result_queue \in Seq(T) /\ result_rings \in [Nodes -> Seq(T)]
        /\ close_bucket \in Seq(T) /\ open_bucket \in Seq(T)
    BY <1>1, <2>2, SeqGrows, RingsGrow
  <2>5. RoadSound' /\ BucketsSound'
    BY <2>1, <2>3, <2>4 DEF RoadSound, BucketsSound
  <2>6. Live
    BY <2>1 DEF RInv, QueueOrdered
  <2>7. WorkSent'
    BY <1>2, <1>3, <2>1, <2>2, <2>6 DEF WorkSent, Live, WsActive
  <2>8. QueueOrdered'
    BY <1>4, <2>1, <2>2, <2>6 DEF QueueOrdered, Live
  <2> QED BY <2>2, <2>3, <2>5, <2>7, <2>8
<1>6. CASE UNCHANGED submission_queue
  <2>1. SoundNow' = S /\ SoundNow = S
    BY <1>4, <1>6 DEF SoundNow
  <2>2. QueueOrdered'
    BY <1>4, <1>6 DEF RInv, QueueOrdered, Live
  <2>3. BucketsSound'
    BY <1>1, <2>1 DEF BucketsSound
  <2>4. SUFFICES RoadSound' /\ WorkSent'
    BY <2>1, <2>2, <2>3
  <2>5. SUFFICES /\ wire' \in Seq(S) /\ ws_result_queue' \in Seq(S)
                 /\ result_rings' \in [Nodes -> Seq(S)]
                 /\ worker'.stage # "idle" => Live /\ Sent(worker'.sub.id, next_order_id, submission_queue)
                 /\ \A id \in DOMAIN venue' : Sent(id, next_order_id, submission_queue)
                 /\ connected' => WsActive
    BY <1>4, <1>6, <2>1 DEF RoadSound, WorkSent, Live, WsActive
  <2>6. /\ WsActive => Live /\ mode # "rest"
        /\ Live /\ ~WsActive => mode = "rest"
    BY <1>4 DEF Live, WsActive
  <2>7. \A id \in OrderId : Sent(id, next_order_id, submission_queue)
          => /\ Failure("REST", id) \in S /\ Failure("WS", id) \in S
    BY SoundReport DEF Failure
  <2>8. CASE WorkerPop
    BY <1>6, <2>8, <1>5, PopSends DEF IInv, OmsTypeOK, RoadOK, WorkerPop
  <2>9. CASE VenueAccepts
    <3>1. /\ worker.stage = "call" /\ worker' = [worker EXCEPT !.stage = "answer"]
          /\ DOMAIN venue' = DOMAIN venue \cup {worker.sub.id}
          /\ UNCHANGED <<wire, connected, result_rings, ws_result_queue>>
      BY <2>9 DEF VenueAccepts, stream
    <3>2. worker'.sub = worker.sub
      BY <3>1 DEF IInv, OmsTypeOK, VenueOK
    <3> QED BY <1>1, <1>2, <3>1, <3>2
  <2>10. CASE VenueRefuses
    <3>1. /\ worker.stage = "call" /\ worker' = Idle /\ ResultPush(Failure("REST", rest))
          /\ UNCHANGED wire \/ Tells(Failure("WS", rest))
          /\ UNCHANGED <<connected, venue, ws_result_queue>>
      BY <2>10 DEF VenueRefuses
    <3>2. Failure("REST", rest) \in S /\ Failure("WS", rest) \in S
      BY <1>2, <1>3, <2>7, <3>1
    <3> HIDE DEF S, rest
    <3>3. wire' \in Seq(S) /\ result_rings' \in [Nodes -> Seq(S)]
      BY <1>1, <3>1, <3>2, RingTakes, WireTakes
    <3> QED BY <1>1, <1>2, <3>1, <3>3 DEF Idle
  <2>11. CASE RestAnswer
    <3> DEFINE o == venue[rest]
               ack == Report("REST", rest, TRUE, 0, FALSE, FALSE)
               told == Report("REST", rest, TRUE, o.executed, o.status = "filled",
                              o.status = "ended")
    <3>1. /\ worker.stage = "answer" /\ worker' = Idle
          /\ (WsActive /\ ResultPush(ack))
             \/ (~WsActive /\ o.status # "open" /\ ResultPush(told))
          /\ UNCHANGED <<wire, connected, venue, ws_result_queue>>
      BY <2>11 DEF RestAnswer, stream
    <3>2. Sent(rest, next_order_id, submission_queue) /\ Live /\ rest \in DOMAIN venue
      BY <1>2, <3>1 DEF IInv, OmsTypeOK, VenueOK
    <3>3. WsActive => ack \in S
      BY <1>3, <2>6, <3>2, SoundReport
    <3>4. ~WsActive /\ o.status # "open" => told \in S
      <4> SUFFICES ASSUME ~WsActive, o.status # "open" PROVE told \in S
        OBVIOUS
      <4>1. o.executed \in Nat /\ o.status \in {"filled", "ended"}
        BY <1>3, <3>2 DEF VenueOrder
      <4>2. mode = "rest"
        BY <2>6, <3>2
      <4>3. CASE o.status = "filled"
        <5>1. (o.status = "filled") = TRUE /\ (o.status = "ended") = FALSE
          BY <4>3
        <5> QED BY <1>3, <3>2, <4>1, <4>2, <5>1, SoundReport
      <4>4. CASE o.status = "ended"
        <5>1. (o.status = "filled") = FALSE /\ (o.status = "ended") = TRUE
          BY <4>4
        <5> QED BY <1>3, <3>2, <4>1, <4>2, <5>1, SoundReport
      <4> QED BY <4>1, <4>3, <4>4
    <3> HIDE DEF S, rest, ack, told
    <3>5. result_rings' \in [Nodes -> Seq(S)]
      BY <1>1, <3>1, <3>3, <3>4, RingTakes
    <3> QED BY <1>1, <1>2, <3>1, <3>5 DEF Idle
  <2>12. CASE RestAnswerLost
    <3>1. /\ worker.stage = "answer" /\ worker' = Idle /\ ResultPush(Failure("REST", rest))
          /\ UNCHANGED <<wire, connected, venue, ws_result_queue>>
      BY <2>12 DEF RestAnswerLost, stream
    <3>2. Failure("REST", rest) \in S
      BY <1>2, <1>3, <2>7, <3>1
    <3> HIDE DEF S, rest
    <3>3. result_rings' \in [Nodes -> Seq(S)]
      BY <1>1, <3>1, <3>2, RingTakes
    <3> QED BY <1>1, <1>2, <3>1, <3>3 DEF Idle
  <2>13. CASE ShutdownState \/ StreamBreaks \/ StreamConnects
    <3>1. /\ UNCHANGED <<worker, venue, result_rings, ws_result_queue>>
          /\ wire' = wire \/ wire' = << >>
          /\ connected' => connected \/ WsActive
      BY <2>13 DEF ShutdownState, StreamBreaks, StreamConnects, stream
    <3> HIDE DEF S
    <3>2. << >> \in Seq(S)
      OBVIOUS
    <3> QED BY <1>1, <1>2, <3>1, <3>2
  <2>14. CASE WsReceive
    <3>1. /\ wire # << >> /\ ws_result_queue' = Offer(ws_result_queue, Head(wire), WsCap)
          /\ wire' = Tail(wire) /\ UNCHANGED <<worker, venue, result_rings, connected>>
      BY <2>14 DEF WsReceive
    <3> HIDE DEF S
    <3>2. Head(wire) \in S /\ wire' \in Seq(S)
      BY <1>1, <3>1, HeadTyped
    <3>3. ws_result_queue' \in Seq(S)
      BY <1>1, <3>1, <3>2, OfferTyped
    <3> QED BY <1>1, <1>2, <3>1, <3>2, <3>3
  <2>15. ASSUME NEW id \in DOMAIN venue, VenueTrades(id) \/ VenueEnds(id)
         PROVE  /\ wire' \in Seq(S) /\ ws_result_queue' \in Seq(S)
                /\ result_rings' \in [Nodes -> Seq(S)]
                /\ worker'.stage # "idle" => Live /\ Sent(worker'.sub.id, next_order_id, submission_queue)
                /\ \A i \in DOMAIN venue' : Sent(i, next_order_id, submission_queue)
                /\ connected' => WsActive
    <3>1. /\ DOMAIN venue' = DOMAIN venue
          /\ UNCHANGED <<worker, connected, result_rings, ws_result_queue>>
      BY <2>15 DEF VenueTrades, VenueEnds
    <3>2. Sent(id, next_order_id, submission_queue) /\ id \in OrderId
      BY <1>2, <1>3
    <3>3. \E cmd : Tells(cmd) /\ (connected => cmd \in S)
      <4>1. CASE VenueTrades(id)
        <5>1. PICK q \in 1 .. venue[id].qty - venue[id].executed :
                Tells(Report("WS", id, TRUE, q, venue[id].executed + q = venue[id].qty, FALSE))
          BY <4>1 DEF VenueTrades
        <5>2. q \in Nat
          BY <1>3, <5>1 DEF VenueOrder
        <5>3. (venue[id].executed + q = venue[id].qty) \in BOOLEAN
          OBVIOUS
        <5>4. connected => Report("WS", id, TRUE, q, venue[id].executed + q = venue[id].qty, FALSE) \in S
          BY <1>2, <2>6, <3>2, <5>2, <5>3, SoundReport
        <5> QED BY <5>1, <5>4
      <4>2. CASE VenueEnds(id)
        <5>1. Tells(Report("WS", id, TRUE, 0, FALSE, TRUE))
          BY <4>2 DEF VenueEnds
        <5>2. connected => Report("WS", id, TRUE, 0, FALSE, TRUE) \in S
          BY <3>2, SoundReport
        <5> QED BY <5>1, <5>2
      <4> QED BY <2>15, <4>1, <4>2
    <3> HIDE DEF S
    <3>4. wire' \in Seq(S)
      BY <1>1, <3>3, WireTakes
    <3> QED BY <1>1, <1>2, <3>1, <3>4
  <2> QED BY <2>8, <2>9, <2>10, <2>11, <2>12, <2>13, <2>14, <2>15 DEF AdapterNext
<1>7. WorkerPop \/ UNCHANGED submission_queue
  BY DEF AdapterNext, VenueAccepts, VenueRefuses, RestAnswer, RestAnswerLost,
         ShutdownState, WsReceive, StreamBreaks, StreamConnects, VenueTrades, VenueEnds
<1> QED BY <1>5, <1>6, <1>7

-----------------------------------------------------------------------------
(* OrderManager_Submit.  Each submission waiting in the adapter's queue     *)
(* keeps a slot of the table, so the queue is never longer than the table.  *)
LEMMA QueueWithinTable ==
  ASSUME NEW sq \in Seq(Submission), NEW bm \in SUBSET OrderSlots, NEW ords,
         IsFiniteSet(OrderSlots), Carries(sq, bm, ords), Increasing(sq)
  PROVE  Len(sq) <= Cardinality(bm)
<1> DEFINE D == 1 .. Len(sq)
           f == [i \in D |-> sq[i].id.slot]
<1>1. Len(sq) \in Nat
  OBVIOUS
<1>2. IsFiniteSet(bm)
  BY FS_Subset
<1>3. f \in Injection(D, bm)
  <2>1. f \in [D -> bm]
    BY DEF Carries
  <2>2. ASSUME NEW i \in D, NEW j \in D, f[i] = f[j] PROVE i = j
    <3>1. sq[i].id = sq[j].id
      BY <2>2 DEF Carries
    <3>2. sq[i].id.n \in Nat /\ sq[j].id.n \in Nat
      <4>1. sq[i] \in Submission /\ sq[j] \in Submission
        OBVIOUS
      <4> QED BY <4>1 DEF Submission, OrderId
    <3>3. ~(i < j) /\ ~(j < i)
      BY <3>1, <3>2 DEF Increasing
    <3> QED BY <1>1, <3>3
  <2> HIDE DEF f
  <2> QED BY <2>1, <2>2 DEF Injection, IsInjective
<1>4. Cardinality(D) <= Cardinality(bm)
  BY <1>2, <1>3, FS_Injection
<1>5. Cardinality(D) = Len(sq)
  BY SMTT(30), <1>1, FS_Interval
<1> QED BY <1>4, <1>5

(* While it runs, the adapter takes every order there is a slot for.        *)
LEMMA AdapterTakes ==
  ASSUME QueueHoldsTable, RoadOK, Increasing(submission_queue), adapter_up,
         NEW bm \in SUBSET OrderSlots, NEW ords, Carries(submission_queue, bm, ords),
         OrderSlots \ bm # {}
  PROVE  AdapterAccepts
<1>1. Len(submission_queue) <= Cardinality(bm)
  BY QueueWithinTable DEF RoadOK, QueueHoldsTable
<1>2. Cardinality(bm) < Cardinality(OrderSlots)
  <2>1. /\ IsFiniteSet(bm) /\ Cardinality(bm) <= Cardinality(OrderSlots)
        /\ Cardinality(OrderSlots) = Cardinality(bm) => OrderSlots = bm
    BY FS_Subset DEF QueueHoldsTable
  <2>2. OrderSlots # bm
    OBVIOUS
  <2>3. Cardinality(bm) \in Nat /\ Cardinality(OrderSlots) \in Nat
    BY <2>1, FS_CardinalityType DEF QueueHoldsTable
  <2> QED BY <2>1, <2>2, <2>3
<1>3. Cardinality(bm) \in Nat /\ Cardinality(OrderSlots) \in Nat
      /\ Len(submission_queue) \in Nat /\ QueueCap \in Nat
  <2>1. IsFiniteSet(bm)
    BY FS_Subset DEF QueueHoldsTable
  <2> QED BY <2>1, FS_CardinalityType, AdapterAssumption DEF QueueHoldsTable, RoadOK
<1> QED BY <1>1, <1>2, <1>3 DEF QueueHoldsTable, AdapterAccepts

(* It makes the order.                                                      *)
LEMMA SubmitPlaces ==
  ASSUME NEW s, NEW cmd, NEW bm \in SUBSET OrderSlots,
         NEW ords \in [OrderSlots -> Order], OrderSlots \ bm # {}, Live => AdapterAccepts,
         Submit(s, cmd, bm, ords)
  PROVE  \E k \in order_bitmap' :
           /\ orders'[k].pslot = s /\ orders'[k].type = cmd.type
           /\ orders'[k].requested = cmd.qty /\ orders'[k].state = "SUBMITTED"
<1> DEFINE k == Min(OrderSlots \ bm)
           o == NewOrder(s, cmd, k)
<1>1. k \in OrderSlots
  BY MinIsMember, OmsAssumption
<1>2. order_bitmap' = bm \cup {k} /\ orders' = [ords EXCEPT ![k] = o]
  BY DEF Submit
<1>3. o.pslot = s /\ o.type = cmd.type /\ o.requested = cmd.qty /\ o.state = "SUBMITTED"
  BY DEF NewOrder
<1> HIDE DEF k, o
<1>4. orders'[k] = o
  BY <1>1, <1>2
<1> QED BY <1>2, <1>3, <1>4

(* A new order in a free slot, and its number at the end of the queue.      *)
LEMMA OwesNew ==
  ASSUME NEW m, NEW up, NEW sq \in Seq(Submission), NEW q \in Seq(Command),
         NEW bm \in SUBSET OrderSlots, NEW ords \in [OrderSlots -> Order],
         Owes(m, up, sq, q, bm, ords),
         NEW k \in OrderSlots \ bm, NEW o \in Order,
         \A i \in 1 .. Len(q) : q[i].id # o.id,
         o.filled = 0, up => o.pre_resolved = NodeOf(o.pslot)
  PROVE  Owes(m, up, sq, q, bm \cup {k}, [ords EXCEPT ![k] = o])
<1> DEFINE ords2 == [ords EXCEPT ![k] = o]
<1>1. ords2[k] = o /\ \A i \in bm : ords2[i] = ords[i] /\ i # k
  OBVIOUS
<1> HIDE DEF ords2
<1>2. Carries(sq, bm \cup {k}, ords2)
  BY <1>1 DEF Owes, Carries
<1>3. Sells(q, bm \cup {k}, ords2)
  <2> SUFFICES ASSUME NEW i \in 1 .. Len(q), q[i].id.slot \in bm \cup {k},
                      ords2[q[i].id.slot].id = q[i].id
               PROVE  ords2[q[i].id.slot].type = "SELL"
    BY DEF Sells
  <2>1. q[i].id.slot # k
    BY <1>1
  <2> QED BY <1>1, <2>1 DEF Owes, Sells
<1>4. Untouched(m, bm \cup {k}, ords2)
  BY <1>1 DEF Owes, Untouched
<1>5. Bound(up, bm \cup {k}, ords2)
  BY <1>1 DEF Owes, Bound
<1> QED BY <1>2, <1>3, <1>4, <1>5 DEF Owes, ords2

(* A table that loses orders, or keeps them with what the others rely on.   *)
LEMMA OwesLess ==
  ASSUME NEW m, NEW up, NEW sq, NEW q, NEW bm, NEW ords, Owes(m, up, sq, q, bm, ords),
         NEW bm2 \in SUBSET bm, NEW ords2,
         \A i \in 1 .. Len(sq) : sq[i].id.slot \in bm2,
         \A i \in bm2 : /\ ords2[i].id = ords[i].id /\ ords2[i].type = ords[i].type
                        /\ ords2[i].pslot = ords[i].pslot
                        /\ up => ords2[i].pre_resolved = ords[i].pre_resolved
                        /\ m = "rest" => ords2[i].filled = ords[i].filled
  PROVE  Owes(m, up, sq, q, bm2, ords2)
<1>1. Carries(sq, bm2, ords2)
  BY DEF Owes, Carries
<1>2. Sells(q, bm2, ords2)
  BY DEF Owes, Sells
<1>3. Untouched(m, bm2, ords2)
  BY DEF Owes, Untouched
<1>4. Bound(up, bm2, ords2)
  BY DEF Owes, Bound
<1> QED BY <1>1, <1>2, <1>3, <1>4 DEF Owes

LEMMA SubmitKeeps ==
  ASSUME RoadOK, RoadOK', next_order_id \in Nat, mode' = mode, QueueOrdered,
         NEW s \in Slots, NEW cmd \in SubmitCommands, Binds => cmd.node_cfg = NodeOf(s),
         NEW bm \in SUBSET OrderSlots, NEW ords \in [OrderSlots -> Order],
         Consistent(bm, ords), NEW q \in Seq(SoundNow),
         Owes(mode, Binds, submission_queue, q, bm, ords),
         result_rings \in [Nodes -> Seq(SoundNow)],
         Submit(s, cmd, bm, ords)
  PROVE  /\ SoundNow \subseteq Sound(mode, next_order_id', submission_queue')
         /\ \A id \in OrderId : Sent(id, next_order_id, submission_queue)
                                  => Sent(id, next_order_id', submission_queue')
         /\ Increasing(submission_queue') /\ (~Live => submission_queue' = << >>)
         /\ Owes(mode, Binds, submission_queue', q, order_bitmap', orders')
         /\ result_rings' \in [Nodes -> Seq(Sound(mode, next_order_id', submission_queue'))]
<1> DEFINE free == OrderSlots \ bm
           k    == Min(free)
           o    == NewOrder(s, cmd, k)
           T    == Sound(mode, next_order_id', submission_queue')
           sq   == submission_queue
<1>1. next_order_id' = next_order_id + 1
  BY DEF Submit
<1>2. sq \in Seq(Submission) /\ submission_queue' \in Seq(Submission)
      /\ Increasing(sq) /\ (~Live => sq = << >>)
  BY DEF RoadOK, QueueOrdered
<1>3. \A i \in 1 .. Len(sq) : sq[i].id.n \in Nat /\ sq[i].id.n < next_order_id
  <2> SUFFICES ASSUME NEW i \in 1 .. Len(sq)
               PROVE  sq[i].id.n \in Nat /\ sq[i].id.n < next_order_id
    OBVIOUS
  <2>1. sq[i] \in Submission
    BY <1>2
  <2>2. sq[i].id.slot \in bm /\ ords[sq[i].id.slot].id = sq[i].id
    BY DEF Owes, Carries
  <2>3. ords[sq[i].id.slot].id.n < next_order_id
    BY <2>2 DEF Consistent
  <2> QED BY <2>1, <2>2, <2>3 DEF Submission, OrderId
<1>4. q \in Seq(Command) /\ \A i \in 1 .. Len(q) : q[i].id.n \in Nat /\ q[i].id.n < next_order_id
  <2>1. \A c \in SoundNow : c \in Command /\ c.id.n \in Nat /\ c.id.n < next_order_id
    BY DEF SoundNow, Sound, Sent, Command, OrderId
  <2> HIDE DEF T
  <2> QED BY <2>1, SeqGrows
<1>5. ASSUME submission_queue' = sq
      PROVE  /\ SoundNow \subseteq T
             /\ \A id \in OrderId : Sent(id, next_order_id, submission_queue)
                                      => Sent(id, next_order_id', submission_queue')
  <2>1. next_order_id <= next_order_id' /\ next_order_id' \in Nat
    BY <1>1
  <2>2. \A i \in 1 .. Len(submission_queue') : \E j \in 1 .. Len(sq) : submission_queue'[i] = sq[j]
    BY <1>5
  <2> QED BY <1>2, <2>1, <2>2, SoundGrows DEF SoundNow
<1>6. CASE free = {}
  <2>1. order_bitmap' = bm /\ orders' = ords /\ UNCHANGED <<submission_queue, result_rings>>
    BY <1>6 DEF Submit
  <2>2. result_rings' \in [Nodes -> Seq(T)]
    <3> HIDE DEF T
    <3> QED BY <1>5, <2>1, RingsGrow
  <2>3. Owes(mode, Binds, submission_queue', q, order_bitmap', orders')
    BY <2>1
  <2>4. Increasing(submission_queue') /\ (~Live => submission_queue' = << >>)
    BY <1>2, <2>1
  <2> QED BY <1>5, <2>1, <2>2, <2>3, <2>4
<1>7. CASE free # {}
  <2>1. k \in OrderSlots \ bm
    BY <1>7, MinIsMember, OmsAssumption
  <2>2. o \in Order
    BY <2>1, NewOrderTyped
  <2>3. /\ o.id = [n |-> next_order_id, node |-> NodeOf(s), slot |-> k]
        /\ o.type = cmd.type /\ o.pslot = s /\ o.requested = cmd.qty /\ o.filled = 0
        /\ o.pre_resolved = cmd.node_cfg
    BY DEF NewOrder
  <2>4. o.id \in OrderId /\ o.type \in Side /\ o.requested \in Nat /\ o.id.n = next_order_id
        /\ o.id.slot = k
    <3> HIDE DEF k, o
    <3>1. o.id \in OrderId /\ o.type \in Side /\ o.requested \in Nat
      BY <2>2 DEF Order
    <3> QED BY <2>3, <3>1
  <2>5. \A i \in 1 .. Len(q) : q[i].id # o.id
    BY <1>4, <2>4
  <2>6. Owes(mode, Binds, sq, q, bm \cup {k}, [ords EXCEPT ![k] = o])
    <3> HIDE DEF k, o
    <3> QED BY <1>2, <1>4, <2>1, <2>2, <2>3, <2>5, OwesNew
  <2>7. CASE ~Live
    <3>1. /\ orders' = [ords EXCEPT ![k] = o] /\ order_bitmap' = bm \cup {k}
          /\ ResultPush(SynthFill(o)) /\ UNCHANGED submission_queue
      BY <1>7, <2>7 DEF Submit
    <3>2. submission_queue' = << >>
      BY <1>2, <2>7, <3>1
    <3>3. Sent(o.id, next_order_id', submission_queue')
      BY <1>1, <2>4, <3>2 DEF Sent
    <3>4. mode # "rest"
      BY <2>7 DEF QueueOrdered, Live
    <3>5. SynthFill(o) \in T
      BY <2>4, <3>3, <3>4, SoundReport DEF SynthFill
    <3>6. result_rings \in [Nodes -> Seq(T)]
      <4> HIDE DEF T
      <4> QED BY <1>5, <3>1, RingsGrow
    <3>7. result_rings' \in [Nodes -> Seq(T)]
      <4> HIDE DEF T, o
      <4> QED BY <3>1, <3>5, <3>6, RingTakes
    <3> QED BY <1>2, <1>5, <2>6, <3>1, <3>7
  <2>8. CASE Live /\ AdapterAccepts
    <3> DEFINE sub == [id |-> o.id, type |-> o.type, qty |-> o.requested]
    <3>1. /\ orders' = [ords EXCEPT ![k] = o] /\ order_bitmap' = bm \cup {k}
          /\ submission_queue' = Append(sq, sub) /\ UNCHANGED result_rings
      BY <1>7, <2>8 DEF Submit, Enqueue
    <3>2. sub \in Submission /\ sub.id = o.id
      BY <2>4 DEF Submission
    <3> HIDE DEF sub, o, k
    <3>3. /\ Len(Append(sq, sub)) = Len(sq) + 1 /\ Len(sq) \in Nat
          /\ \A i \in 1 .. Len(sq) : Append(sq, sub)[i] = sq[i]
          /\ Append(sq, sub)[Len(sq) + 1] = sub
      BY <1>2, <3>2
    <3>4. Increasing(Append(sq, sub))
      <4> SUFFICES ASSUME NEW i \in 1 .. Len(sq) + 1, NEW j \in 1 .. Len(sq) + 1, i < j
                   PROVE  Append(sq, sub)[i].id.n < Append(sq, sub)[j].id.n
        BY <3>3 DEF Increasing
      <4>1. i \in 1 .. Len(sq)
        BY <3>3
      <4>2. CASE j \in 1 .. Len(sq)
        BY <1>2, <3>3, <4>1, <4>2 DEF Increasing
      <4>3. CASE j = Len(sq) + 1
        BY <1>3, <2>4, <3>2, <3>3, <4>1, <4>3
      <4>4. j \in 1 .. Len(sq) \/ j = Len(sq) + 1
        BY <3>3
      <4> QED BY <4>2, <4>3, <4>4
    <3>5. \A i \in 1 .. Len(Append(sq, sub)) :
            Append(sq, sub)[i].id.n >= next_order_id
              \/ \E j \in 1 .. Len(sq) : Append(sq, sub)[i] = sq[j]
      <4> SUFFICES ASSUME NEW i \in 1 .. Len(sq) + 1
                   PROVE  Append(sq, sub)[i].id.n >= next_order_id
                            \/ \E j \in 1 .. Len(sq) : Append(sq, sub)[i] = sq[j]
        BY <3>3
      <4>1. CASE i \in 1 .. Len(sq)
        BY <3>3, <4>1
      <4>2. CASE i = Len(sq) + 1
        BY <2>4, <3>2, <3>3, <4>2
      <4> QED BY <3>3, <4>1, <4>2
    <3>6. /\ SoundNow \subseteq T
          /\ \A id \in OrderId : Sent(id, next_order_id, sq)
                                   => Sent(id, next_order_id', submission_queue')
      <4>1. next_order_id <= next_order_id' /\ next_order_id' \in Nat
        BY <1>1
      <4> QED BY <1>2, <3>1, <3>5, <4>1, SoundGrows DEF SoundNow
    <3>7. Carries(submission_queue', order_bitmap', orders')
      <4>1. Carries(sq, order_bitmap', orders')
        BY <2>6, <3>1 DEF Owes
      <4>2. orders'[k] = o /\ k \in order_bitmap'
        BY <2>1, <3>1
      <4>3. sub.id.slot = k /\ sub.id = o.id
        BY <2>4, <3>2
      <4> SUFFICES ASSUME NEW i \in 1 .. Len(sq) + 1
                   PROVE  Append(sq, sub)[i].id.slot \in order_bitmap'
                          /\ orders'[Append(sq, sub)[i].id.slot].id = Append(sq, sub)[i].id
        BY <3>1, <3>3 DEF Carries
      <4>4. CASE i \in 1 .. Len(sq)
        BY <3>3, <4>1, <4>4 DEF Carries
      <4>5. CASE i = Len(sq) + 1
        BY <3>3, <4>2, <4>3, <4>5
      <4> QED BY <3>3, <4>4, <4>5
    <3>8. Owes(mode, Binds, submission_queue', q, order_bitmap', orders')
      BY <2>6, <3>1, <3>7 DEF Owes
    <3>9. result_rings' \in [Nodes -> Seq(T)]
      <4> HIDE DEF T
      <4> QED BY <3>1, <3>6, RingsGrow
    <3> QED BY <2>8, <3>1, <3>4, <3>6, <3>8, <3>9
  <2>9. CASE Live /\ ~AdapterAccepts
    <3>1. /\ orders' = [ords EXCEPT ![k] = [o EXCEPT !.state = "REJECTED"]]
          /\ order_bitmap' = bm /\ UNCHANGED <<submission_queue, result_rings>>
      BY <1>7, <2>9 DEF Submit
    <3>2. \A i \in bm : orders'[i] = ords[i]
      BY <2>1, <3>1
    <3>3. \A i \in 1 .. Len(sq) : sq[i].id.slot \in bm
      BY DEF Owes, Carries
    <3> HIDE DEF T, o, k
    <3>4. Owes(mode, Binds, submission_queue', q, order_bitmap', orders')
      BY <3>1, <3>2, <3>3, OwesLess
    <3>5. result_rings' \in [Nodes -> Seq(T)]
      BY <1>5, <3>1, RingsGrow
    <3> USE DEF T
    <3> QED BY <1>2, <1>5, <3>1, <3>4, <3>5
  <2> QED BY <2>7, <2>8, <2>9
<1> QED BY <1>6, <1>7

-----------------------------------------------------------------------------
(* OrderManager_ProcessFillCommand: what a sound report frees is not        *)
(* waiting in the adapter's queue.                                          *)
LEMMA ReportedNotQueued ==
  ASSUME RoadOK, NEW cmd \in SoundNow, NEW bm, NEW ords,
         Carries(submission_queue, bm, ords), ords[cmd.id.slot].id = cmd.id
  PROVE  \A i \in 1 .. Len(submission_queue) :
           submission_queue[i].id.slot \in bm \ {cmd.id.slot}
<1> SUFFICES ASSUME NEW i \in 1 .. Len(submission_queue)
             PROVE  submission_queue[i].id.slot \in bm \ {cmd.id.slot}
  OBVIOUS
<1>1. submission_queue[i] \in Submission
  BY DEF RoadOK
<1>2. cmd.id.n < submission_queue[i].id.n
  BY DEF SoundNow, Sound, Sent
<1>3. cmd.id.n \in Nat /\ submission_queue[i].id.n \in Nat
  BY <1>1 DEF SoundNow, Sound, Command, Submission, OrderId
<1>4. submission_queue[i].id # cmd.id
  BY <1>2, <1>3
<1> QED BY <1>4 DEF Carries

LEMMA ProcessKeeps ==
  ASSUME RoadOK, RoadOK', TableOK, TableConsistent, PositionsOK,
         mode' = mode, QueueOrdered, NEW cmd \in SoundNow, NEW q \in Seq(SoundNow),
         Owes(mode, Binds, submission_queue, q, order_bitmap, orders),
         result_rings \in [Nodes -> Seq(SoundNow)],
         ProcessFillCommand(cmd)
  PROVE  /\ SoundNow \subseteq Sound(mode, next_order_id', submission_queue')
         /\ \A id \in OrderId : Sent(id, next_order_id, submission_queue)
                                  => Sent(id, next_order_id', submission_queue')
         /\ Increasing(submission_queue') /\ (~Live => submission_queue' = << >>)
         /\ Owes(mode, Binds, submission_queue', q, order_bitmap', orders')
         /\ result_rings' \in [Nodes -> Seq(Sound(mode, next_order_id', submission_queue'))]
<1> DEFINE k == cmd.id.slot
           o == orders[k]
           S == SoundNow
           T == Sound(mode, next_order_id', submission_queue')
<1>1. /\ cmd \in Command /\ cmd.qty \in Nat /\ cmd.terminal \in BOOLEAN
      /\ cmd.complete \in BOOLEAN /\ cmd.success \in BOOLEAN
      /\ (cmd.terminal => cmd.success /\ ~cmd.complete)
      /\ (mode = "rest" /\ cmd.success => cmd.complete \/ cmd.terminal)
  BY DEF SoundNow, Sound, Command
<1>2. Known(cmd) => k \in order_bitmap /\ k \in OrderSlots /\ o \in Order /\ o.id = cmd.id
  BY DEF Known, TableOK
<1>3. Known(cmd) => \A i \in 1 .. Len(submission_queue) :
                      submission_queue[i].id.slot \in order_bitmap \ {k}
  BY ReportedNotQueued DEF Known, Owes
<1>4. \A i \in 1 .. Len(submission_queue) : submission_queue[i].id.slot \in order_bitmap
  BY DEF Owes, Carries
<1>5. Increasing(submission_queue) /\ (~Live => submission_queue = << >>)
  BY DEF QueueOrdered
<1>6. ASSUME UNCHANGED <<next_order_id, submission_queue, result_rings>>,
             Owes(mode, Binds, submission_queue, q, order_bitmap', orders')
      PROVE  /\ S \subseteq T
             /\ \A id \in OrderId : Sent(id, next_order_id, submission_queue)
                                      => Sent(id, next_order_id', submission_queue')
             /\ Increasing(submission_queue') /\ (~Live => submission_queue' = << >>)
             /\ Owes(mode, Binds, submission_queue', q, order_bitmap', orders')
             /\ result_rings' \in [Nodes -> Seq(T)]
  <2>1. S = T
    BY <1>6 DEF SoundNow
  <2> HIDE DEF S, T
  <2>2. result_rings \in [Nodes -> Seq(S)]
    BY DEF S
  <2> QED BY <1>5, <1>6, <2>1, <2>2
<1> DEFINE Kept(i) == /\ orders'[i].id = orders[i].id /\ orders'[i].type = orders[i].type
                      /\ orders'[i].pslot = orders[i].pslot
                      /\ Binds => orders'[i].pre_resolved = orders[i].pre_resolved
                      /\ mode = "rest" => orders'[i].filled = orders[i].filled
<1>7. ASSUME order_bitmap' \in SUBSET order_bitmap,
              \A i \in 1 .. Len(submission_queue) : submission_queue[i].id.slot \in order_bitmap',
              \A i \in order_bitmap' : Kept(i)
       PROVE  Owes(mode, Binds, submission_queue, q, order_bitmap', orders')
  BY <1>7, OwesLess
<1>8. CASE Ignored(cmd)
  <2>1. UNCHANGED <<next_order_id, order_bitmap, orders, submission_queue, result_rings>>
    BY <1>8 DEF Ignored, tableVars
  <2>2. Owes(mode, Binds, submission_queue, q, order_bitmap', orders')
    BY <2>1
  <2> QED BY <1>6, <2>1, <2>2
<1>9. CASE Acknowledged(cmd)
  <2>1. /\ Known(cmd) /\ UNCHANGED <<next_order_id, order_bitmap, submission_queue, result_rings>>
        /\ orders' = [orders EXCEPT ![k].state = IF @ = "PARTIAL" THEN @ ELSE "ACKNOWLEDGED"]
    BY <1>9 DEF Acknowledged
  <2>2. \A i \in order_bitmap :
          /\ orders'[i].id = orders[i].id /\ orders'[i].type = orders[i].type
          /\ orders'[i].pslot = orders[i].pslot /\ orders'[i].filled = orders[i].filled
          /\ orders'[i].pre_resolved = orders[i].pre_resolved
    BY <2>1 DEF TableOK, Order
  <2>3. Owes(mode, Binds, submission_queue, q, order_bitmap', orders')
    BY <1>4, <1>7, <2>1, <2>2
  <2> QED BY <1>6, <2>1, <2>3
<1>10. CASE Failed(cmd)
  <2>1. /\ Known(cmd) /\ UNCHANGED <<next_order_id, submission_queue, result_rings>>
        /\ orders' = [orders EXCEPT ![k].state = "REJECTED"]
        /\ order_bitmap' = order_bitmap \ {k}
    BY <1>10 DEF Failed
  <2>2. \A i \in order_bitmap \ {k} : orders'[i] = orders[i]
    BY <2>1 DEF TableOK
  <2>3. Owes(mode, Binds, submission_queue, q, order_bitmap', orders')
    BY <1>3, <1>7, <2>1, <2>2
  <2> QED BY <1>6, <2>1, <2>3
<1>11. CASE Booked(cmd)
  <2>1. /\ Known(cmd) /\ cmd.success /\ ~(cmd.terminal /\ ~cmd.complete)
        /\ UNCHANGED <<next_order_id, submission_queue, result_rings>>
        /\ orders' = [orders EXCEPT ![k].filled = @ + cmd.qty,
                        ![k].state = IF cmd.complete THEN "FILLED" ELSE "PARTIAL"]
        /\ order_bitmap' = IF cmd.complete THEN order_bitmap \ {k} ELSE order_bitmap
    BY <1>11 DEF Booked, Leg
  <2>2. \A i \in order_bitmap \ {k} : orders'[i] = orders[i]
    BY <2>1 DEF TableOK
  <2>3. CASE cmd.complete
    <3>1. order_bitmap' = order_bitmap \ {k}
      BY <2>1, <2>3
    <3>2. Owes(mode, Binds, submission_queue, q, order_bitmap', orders')
      BY <1>3, <1>7, <2>1, <2>2, <3>1
    <3> QED BY <1>6, <2>1, <3>2
  <2>4. CASE ~cmd.complete
    <3>1. order_bitmap' = order_bitmap /\ mode # "rest"
      BY <1>1, <2>1, <2>4
    <3>2. \A i \in order_bitmap :
            /\ orders'[i].id = orders[i].id /\ orders'[i].type = orders[i].type
            /\ orders'[i].pslot = orders[i].pslot
            /\ orders'[i].pre_resolved = orders[i].pre_resolved
      BY <2>1 DEF TableOK, Order
    <3>3. Owes(mode, Binds, submission_queue, q, order_bitmap', orders')
      BY <1>4, <1>7, <2>1, <3>1, <3>2
    <3> QED BY <1>6, <2>1, <3>3
  <2> QED BY <2>3, <2>4
<1>12. CASE EndedShort(cmd)
  <2> DEFINE new  == [[o EXCEPT !.filled = o.filled + cmd.qty] EXCEPT !.state = "CANCELED"]
             bm   == order_bitmap \ {k}
             ords == [orders EXCEPT ![k] = new]
             over == [ords EXCEPT ![0].pre_resolved = o.pre_resolved]
             rest == SubmitCommand("SELL", AfterFill(o, cmd.qty), o.pre_resolved)
  <2>1. Known(cmd) /\ k \in order_bitmap /\ k \in OrderSlots /\ o \in Order
    BY <1>2, <1>12 DEF EndedShort, Leg
  <2>2. [orders EXCEPT ![k].filled = @ + cmd.qty, ![k].state = "CANCELED"] = ords
    BY <2>1 DEF TableOK
  <2>3. new \in Order
    BY <1>1, <2>1, OrderMoves DEF Terminal
  <2>4. ords \in [OrderSlots -> Order] /\ \A i \in bm : ords[i] = orders[i]
    BY <2>1, <2>3, OrdersUpdated DEF TableOK
  <2>5. o.pslot \in Slots /\ o.pre_resolved \in Int
    BY <2>1 DEF Order
  <2>6. over \in [OrderSlots -> Order]
        /\ \A i \in bm : /\ over[i].id = ords[i].id /\ over[i].pslot = ords[i].pslot
                          /\ over[i].state = ords[i].state /\ over[i].type = ords[i].type
                          /\ over[i].filled = ords[i].filled
    <3>1. bm \subseteq OrderSlots
      BY DEF TableOK
    <3> HIDE DEF ords, bm, o
    <3> QED BY <2>4, <2>5, <3>1, Rebound
  <2>7. Consistent(bm, ords) /\ Consistent(bm, over)
    <3>1. Consistent(bm, orders)
      BY DEF Consistent, TableConsistent
    <3>2. Consistent(bm, ords)
      BY <2>4, <3>1 DEF Consistent
    <3> HIDE DEF bm, ords, over
    <3> QED BY <2>6, <3>2, ConsistentSame
  <2>8. rest \in SubmitCommands /\ rest.node_cfg = o.pre_resolved
    BY <1>1, <2>1, <2>5, AfterFillTyped DEF SubmitCommand, SubmitCommands, Side
  <2>9. Binds => rest.node_cfg = NodeOf(o.pslot)
    BY <2>1, <2>8 DEF Owes, Bound
  <2>10. Owes(mode, Binds, submission_queue, q, bm, ords)
    <3> HIDE DEF ords
    <3> QED BY <1>3, <2>1, <2>4, OwesLess
  <2>11. Binds => AdapterAccepts
    <3>1. OrderSlots \ bm # {} /\ bm \in SUBSET OrderSlots
      BY <2>1 DEF TableOK
    <3>2. Carries(submission_queue, bm, ords)
      BY <2>10 DEF Owes
    <3> HIDE DEF bm, ords
    <3> QED BY <1>5, <3>1, <3>2, AdapterTakes DEF Binds
  <2>12. ~Binds => Owes(mode, Binds, submission_queue, q, bm, over)
    <3>1. \A i \in 1 .. Len(submission_queue) : submission_queue[i].id.slot \in bm
      BY <1>3, <2>1
    <3> HIDE DEF over, ords, bm
    <3> QED BY <2>6, <2>10, <3>1, OwesLess
  <2>13. bm \in SUBSET OrderSlots /\ next_order_id \in Nat
    BY DEF TableOK
  <2>14. \/ Submit(o.pslot, rest, bm, ords)
         \/ ~Binds /\ Submit(o.pslot, rest, bm, over)
         \/ /\ order_bitmap' = bm /\ orders' = ords
            /\ UNCHANGED <<next_order_id, submission_queue, result_rings>>
    BY <1>12, <2>2, <2>11 DEF EndedShort, Freed, BoundFrom
  <2>15. CASE Submit(o.pslot, rest, bm, ords)
    <3> HIDE DEF bm, ords, rest, o
    <3> QED BY <2>4, <2>5, <2>7, <2>8, <2>9, <2>10, <2>13, <2>15, SubmitKeeps
  <2>16. CASE ~Binds /\ Submit(o.pslot, rest, bm, over)
    <3> HIDE DEF bm, ords, over, rest, o
    <3> QED BY <2>5, <2>6, <2>7, <2>8, <2>12, <2>13, <2>16, SubmitKeeps
  <2>17. CASE /\ order_bitmap' = bm /\ orders' = ords
              /\ UNCHANGED <<next_order_id, submission_queue, result_rings>>
    <3>1. Owes(mode, Binds, submission_queue, q, order_bitmap', orders')
      <4> HIDE DEF bm, ords
      <4> QED BY <2>10, <2>17
    <3> QED BY <1>6, <2>17, <3>1
  <2> QED BY <2>14, <2>15, <2>16, <2>17
<1> QED BY <1>8, <1>9, <1>10, <1>11, <1>12 DEF ProcessFillCommand

-----------------------------------------------------------------------------
(* What RInv rests on is kept by every step.                                *)
LEMMA SellsTail ==
  ASSUME NEW S, NEW q \in Seq(S), q # << >>, NEW bm, NEW ords, Sells(q, bm, ords)
  PROVE  Sells(Tail(q), bm, ords)
<1>1. /\ Len(Tail(q)) = Len(q) - 1 /\ Len(q) \in Nat
      /\ \A i \in 1 .. Len(Tail(q)) : Tail(q)[i] = q[i + 1] /\ i + 1 \in 1 .. Len(q)
  OBVIOUS
<1> QED BY <1>1 DEF Sells

LEMMA SellsTakes ==
  ASSUME NEW S, NEW q \in Seq(S), NEW cmd \in S, NEW cap, NEW bm, NEW ords, Sells(q, bm, ords),
         ords[cmd.id.slot].type = "SELL"
  PROVE  Sells(Offer(q, cmd, cap), bm, ords)
<1>1. /\ Len(Append(q, cmd)) = Len(q) + 1 /\ Len(q) \in Nat
      /\ \A i \in 1 .. Len(q) : Append(q, cmd)[i] = q[i]
      /\ Append(q, cmd)[Len(q) + 1] = cmd
  OBVIOUS
<1>2. Sells(Append(q, cmd), bm, ords)
  <2> SUFFICES ASSUME NEW i \in 1 .. Len(q) + 1, Append(q, cmd)[i].id.slot \in bm,
                      ords[Append(q, cmd)[i].id.slot].id = Append(q, cmd)[i].id
               PROVE  ords[Append(q, cmd)[i].id.slot].type = "SELL"
    BY <1>1 DEF Sells
  <2>1. i \in 1 .. Len(q) \/ i = Len(q) + 1
    BY <1>1
  <2>2. CASE i \in 1 .. Len(q)
    BY <1>1, <2>2 DEF Sells
  <2>3. CASE i = Len(q) + 1
    BY <1>1, <2>3
  <2> QED BY <2>1, <2>2, <2>3
<1> QED BY <1>2 DEF Offer

LEMMA InitRoad == Init => RInv
<1> SUFFICES ASSUME Init PROVE RInv
  OBVIOUS
<1> USE DEF Init, AdapterInit, OmsInit
<1>1. RoadSound /\ BucketsSound /\ RequestsBound
  BY DEF RoadSound, BucketsSound, RequestsBound
<1>2. WorkSent
  <2>1. worker.stage = "idle" /\ (connected => WsActive)
    BY DEF Idle, WsActive
  <2>2. DOMAIN venue = {}
    OBVIOUS
  <2> QED BY <2>1, <2>2 DEF WorkSent
<1>4. QueueOrdered
  <2>1. mode \in {"paper", "rest", "ws"}
    BY AdapterAssumption
  <2>2. submission_queue = << >> /\ Increasing(<< >>)
    BY DEF Increasing
  <2> QED BY <2>1, <2>2 DEF QueueOrdered
<1>3. TableOwes
  BY DEF TableOwes, Owes, Carries, Sells, Untouched, Bound
<1> QED BY <1>1, <1>2, <1>3, <1>4 DEF RInv

LEMMA AdapterRoad ==
  ASSUME IInv, IInv', RInv, Adapter
  PROVE  RInv'
<1>1. AdapterNext /\ UNCHANGED <<next_order_id, order_bitmap, orders, submit_queues,
                                 close_bucket, open_bucket>>
  BY DEF Adapter, omsVars, tableVars
<1>2. RoadSound' /\ BucketsSound' /\ WorkSent' /\ QueueOrdered'
  BY <1>1, AdapterSound
<1>3. RequestsBound'
  BY <1>1 DEF RInv, RequestsBound
<1>4. TableOwes'
  <2>1. Owes(mode, Binds, submission_queue, close_bucket, order_bitmap, orders)
    BY DEF RInv, TableOwes
  <2>2. mode' = mode /\ (adapter_up' => adapter_up)
        /\ (submission_queue' = submission_queue
              \/ (submission_queue # << >> /\ submission_queue' = Tail(submission_queue)))
    <3>1. mode' = mode
      BY <1>1 DEF AdapterNext, WorkerPop, VenueAccepts, VenueRefuses, RestAnswer,
                  RestAnswerLost, ShutdownState, WsReceive, StreamBreaks, StreamConnects,
                  VenueTrades, VenueEnds
    <3>2. UNCHANGED adapter_up \/ adapter_up' = FALSE
      BY <1>1 DEF AdapterNext, WorkerPop, VenueAccepts, VenueRefuses, RestAnswer,
                  RestAnswerLost, ShutdownState, WsReceive, StreamBreaks, StreamConnects,
                  VenueTrades, VenueEnds
    <3>3. adapter_up' => adapter_up
      BY <3>2, Zenon
    <3>4. \/ submission_queue' = submission_queue
          \/ submission_queue # << >> /\ submission_queue' = Tail(submission_queue)
      BY <1>1 DEF AdapterNext, WorkerPop, VenueAccepts, VenueRefuses, RestAnswer,
                  RestAnswerLost, ShutdownState, WsReceive, StreamBreaks, StreamConnects,
                  VenueTrades, VenueEnds
    <3> QED BY <3>1, <3>3, <3>4
  <2>3. Carries(submission_queue', order_bitmap, orders)
    <3>1. CASE submission_queue' = submission_queue
      BY <2>1, <3>1 DEF Owes
    <3>2. CASE submission_queue # << >> /\ submission_queue' = Tail(submission_queue)
      <4>1. /\ Len(Tail(submission_queue)) = Len(submission_queue) - 1
            /\ Len(submission_queue) \in Nat
            /\ \A i \in 1 .. Len(Tail(submission_queue)) :
                 Tail(submission_queue)[i] = submission_queue[i + 1]
                 /\ i + 1 \in 1 .. Len(submission_queue)
        BY <3>2 DEF IInv, OmsTypeOK, RoadOK
      <4> QED BY <2>1, <3>2, <4>1 DEF Owes, Carries
    <3> QED BY <2>2, <3>1, <3>2
  <2>4. Binds' => Binds
    BY <2>2 DEF Binds
  <2>5. Owes(mode', Binds', submission_queue', close_bucket', order_bitmap', orders')
    BY <1>1, <2>1, <2>2, <2>3, <2>4 DEF Owes, Bound
  <2> QED BY <2>5 DEF TableOwes
<1> QED BY <1>2, <1>3, <1>4 DEF RInv

LEMMA RequestRoad ==
  ASSUME IInv, RInv, NEW s \in Slots, Asks(s)
  PROVE  RInv'
<1>1. PICK type \in Side, q \in Nat :
        /\ PushSubmit(s, type, q)
        /\ UNCHANGED <<adapterVars, tableVars, positions, close_bucket, open_bucket>>
  BY DEF Asks
<1>2. UNCHANGED <<mode, adapter_up, submission_queue, worker, venue, connected, wire,
                  result_rings, ws_result_queue, next_order_id, order_bitmap, orders,
                  close_bucket, open_bucket>>
  BY <1>1 DEF adapterVars, tableVars, stream
<1>3. SubmitCommand(type, q, NodeOf(s)) \in OwnCommands(s)
  <2>1. NodeOf(s) \in Nat
    BY OmsAssumption, AdapterAssumption
  <2>2. NodeOf(s) \in Int
    BY <2>1
  <2> QED BY <1>1, <2>2 DEF SubmitCommand, SubmitCommands, OwnCommands
<1>4. RequestsBound'
  <2>1. submit_queues' = [submit_queues EXCEPT
          ![s] = Offer(@, SubmitCommand(type, q, NodeOf(s)), SubmitCap)]
    BY <1>1 DEF PushSubmit
  <2>2. submit_queues[s] \in Seq(OwnCommands(s))
    BY DEF RInv, RequestsBound
  <2>3. Offer(submit_queues[s], SubmitCommand(type, q, NodeOf(s)), SubmitCap) \in Seq(OwnCommands(s))
    BY <1>3, <2>2, OfferTyped
  <2> QED BY <2>1, <2>3 DEF RInv, RequestsBound, IInv, OmsTypeOK, QueuesOK
<1>5. Binds' = Binds
  BY <1>2, Zenon DEF Binds, QueueHoldsTable
<1> QED BY <1>2, <1>4, <1>5 DEF RInv, RoadSound, BucketsSound, WorkSent, QueueOrdered,
                                TableOwes, SoundNow, Live, WsActive

(* A step that moves neither reports nor orders.                            *)
LEMMA PassRoad ==
  ASSUME RInv, Still
  PROVE  RInv'
<1>1. UNCHANGED <<mode, adapter_up, submission_queue, worker, venue, connected, wire,
                  result_rings, ws_result_queue, next_order_id, order_bitmap, orders,
                  submit_queues, close_bucket, open_bucket>>
  BY DEF Still, adapterVars, tableVars, stream
<1>2. Binds' = Binds
  BY <1>1, Zenon DEF Binds, QueueHoldsTable
<1> QED BY <1>1, <1>2 DEF RInv, RoadSound, BucketsSound, WorkSent, QueueOrdered, TableOwes,
                          RequestsBound, SoundNow, Live, WsActive

LEMMA SubmitOneRoad ==
  ASSUME IInv, IInv', RInv, NEW s \in Slots, SubmitOne(s)
  PROVE  RInv'
<1> DEFINE cmd == Head(submit_queues[s])
           T   == Sound(mode, next_order_id', submission_queue')
<1>1. /\ submit_queues[s] # << >> /\ Submit(s, cmd, order_bitmap, orders)
      /\ submit_queues' = [submit_queues EXCEPT ![s] = Tail(@)]
      /\ UNCHANGED <<mode, adapter_up, worker, venue, connected, wire, ws_result_queue,
                     close_bucket, open_bucket>>
  BY DEF SubmitOne, stream
<1>2. cmd \in OwnCommands(s) /\ Tail(submit_queues[s]) \in Seq(OwnCommands(s))
  BY <1>1, HeadTyped DEF RInv, RequestsBound
<1>3. cmd \in SubmitCommands /\ cmd.node_cfg = NodeOf(s)
  BY <1>2 DEF OwnCommands
<1>4. /\ RoadOK /\ RoadOK' /\ next_order_id \in Nat /\ order_bitmap \in SUBSET OrderSlots
      /\ orders \in [OrderSlots -> Order] /\ Consistent(order_bitmap, orders)
  BY DEF IInv, OmsTypeOK, TableOK, TableConsistent, Consistent
<1>5. /\ QueueOrdered /\ close_bucket \in Seq(SoundNow)
      /\ Owes(mode, Binds, submission_queue, close_bucket, order_bitmap, orders)
      /\ result_rings \in [Nodes -> Seq(SoundNow)]
  BY DEF RInv, BucketsSound, TableOwes, RoadSound
<1> HIDE DEF cmd
<1>6. /\ SoundNow \subseteq T
      /\ \A id \in OrderId : Sent(id, next_order_id, submission_queue)
                               => Sent(id, next_order_id', submission_queue')
      /\ Increasing(submission_queue') /\ (~Live => submission_queue' = << >>)
      /\ Owes(mode, Binds, submission_queue', close_bucket, order_bitmap', orders')
      /\ result_rings' \in [Nodes -> Seq(T)]
  BY <1>1, <1>3, <1>4, <1>5, SubmitKeeps
<1>7. SoundNow' = T
  BY <1>1 DEF SoundNow
<1>8. /\ wire \in Seq(SoundNow) /\ ws_result_queue \in Seq(SoundNow)
      /\ close_bucket \in Seq(SoundNow) /\ open_bucket \in Seq(SoundNow)
  BY DEF RInv, RoadSound, BucketsSound
<1> HIDE DEF T
<1>9. /\ wire \in Seq(T) /\ ws_result_queue \in Seq(T)
      /\ close_bucket \in Seq(T) /\ open_bucket \in Seq(T)
  BY <1>6, <1>8, SeqGrows
<1>10. RoadSound' /\ BucketsSound'
  BY <1>1, <1>6, <1>7, <1>9 DEF RoadSound, BucketsSound
<1>11. WorkSent'
  <2>1. /\ worker.stage # "idle" => Live /\ Sent(worker.sub.id, next_order_id, submission_queue)
        /\ \A id \in DOMAIN venue : Sent(id, next_order_id, submission_queue)
        /\ connected => WsActive
    BY DEF RInv, WorkSent
  <2>2. worker.sub.id \in OrderId /\ \A id \in DOMAIN venue : id \in OrderId
    BY DEF IInv, OmsTypeOK, VenueOK, Submission
  <2> QED BY <1>1, <1>6, <2>1, <2>2 DEF WorkSent, Live, WsActive
<1>12. QueueOrdered'
  BY <1>1, <1>5, <1>6 DEF QueueOrdered, Live
<1>13. RequestsBound'
  BY <1>1, <1>2 DEF RInv, RequestsBound, IInv, OmsTypeOK, QueuesOK
<1>14. TableOwes'
  <2>1. Binds' = Binds
    BY <1>1, Zenon DEF Binds, QueueHoldsTable
  <2> QED BY <1>1, <1>6, <2>1 DEF TableOwes
<1> QED BY <1>10, <1>11, <1>12, <1>13, <1>14 DEF RInv

LEMMA DrainRoad ==
  ASSUME IInv, RInv, DrainResult \/ DrainWs
  PROVE  RInv'
<1> DEFINE S == SoundNow
<1>1. UNCHANGED <<mode, adapter_up, submission_queue, worker, venue, connected, wire,
                  next_order_id, order_bitmap, orders, submit_queues>>
  BY DEF DrainResult, DrainWs, stream, tableVars
<1>2. SoundNow' = S
  BY <1>1 DEF SoundNow
<1>3. /\ wire \in Seq(S) /\ ws_result_queue \in Seq(S) /\ result_rings \in [Nodes -> Seq(S)]
      /\ close_bucket \in Seq(S) /\ open_bucket \in Seq(S)
      /\ Sells(close_bucket, order_bitmap, orders)
  BY DEF RInv, RoadSound, BucketsSound, TableOwes, Owes
<1> HIDE DEF S
<1>4. ASSUME NEW cmd \in S, Bucket(cmd)
      PROVE  /\ close_bucket' \in Seq(S) /\ open_bucket' \in Seq(S)
             /\ Sells(close_bucket', order_bitmap, orders)
  <2>1. CASE orders[cmd.id.slot].type = "SELL"
    <3>1. close_bucket' = Offer(close_bucket, cmd, BucketCap) /\ UNCHANGED open_bucket
      BY <1>4, <2>1 DEF Bucket
    <3> QED BY <1>3, <1>4, <2>1, <3>1, OfferTyped, SellsTakes
  <2>2. CASE orders[cmd.id.slot].type # "SELL"
    <3>1. open_bucket' = Offer(open_bucket, cmd, BucketCap) /\ UNCHANGED close_bucket
      BY <1>4, <2>2 DEF Bucket
    <3> QED BY <1>3, <1>4, <3>1, OfferTyped
  <2> QED BY <2>1, <2>2
<1>5. /\ close_bucket' \in Seq(S) /\ open_bucket' \in Seq(S)
      /\ Sells(close_bucket', order_bitmap, orders)
      /\ ws_result_queue' \in Seq(S) /\ result_rings' \in [Nodes -> Seq(S)]
  <2>1. CASE DrainResult
    <3> DEFINE n == Min(Filled)
    <3>1. Filled \in SUBSET Nat /\ Filled # {}
      BY <2>1, AdapterAssumption DEF Filled, DrainResult
    <3>2. n \in Filled
      BY <3>1, MinIsMember
    <3>3. n \in Nodes /\ result_rings[n] # << >> /\ result_rings[n] \in Seq(S)
      BY <1>3, <3>2 DEF Filled
    <3>4. Bucket(Head(result_rings[n])) /\ UNCHANGED ws_result_queue
          /\ result_rings' = [result_rings EXCEPT ![n] = Tail(@)]
      BY <2>1 DEF DrainResult
    <3> HIDE DEF n
    <3>5. Head(result_rings[n]) \in S /\ Tail(result_rings[n]) \in Seq(S)
      BY <3>3, HeadTyped
    <3> QED BY <1>3, <1>4, <3>3, <3>4, <3>5
  <2>2. CASE DrainWs /\ ws_result_queue # << >>
    <3>1. Head(ws_result_queue) \in S /\ Tail(ws_result_queue) \in Seq(S)
      BY <1>3, <2>2, HeadTyped
    <3>2. Bucket(Head(ws_result_queue)) /\ ws_result_queue' = Tail(ws_result_queue)
          /\ UNCHANGED result_rings
      BY <2>2 DEF DrainWs
    <3> QED BY <1>3, <1>4, <3>1, <3>2
  <2>3. CASE DrainWs /\ ws_result_queue = << >>
    <3>1. UNCHANGED <<close_bucket, open_bucket, ws_result_queue, result_rings>>
      BY <2>3 DEF DrainWs
    <3> QED BY <1>3, <3>1
  <2> QED BY <2>1, <2>2, <2>3
<1>6. RoadSound' /\ BucketsSound'
  BY <1>1, <1>2, <1>3, <1>5 DEF RoadSound, BucketsSound
<1>7. WorkSent' /\ QueueOrdered' /\ RequestsBound'
  BY <1>1 DEF RInv, WorkSent, QueueOrdered, RequestsBound, Live, WsActive
<1>8. TableOwes'
  <2>1. Binds' = Binds
    BY <1>1, Zenon DEF Binds, QueueHoldsTable
  <2> QED BY <1>1, <1>5, <2>1 DEF RInv, TableOwes, Owes
<1> QED BY <1>6, <1>7, <1>8 DEF RInv

LEMMA BookRoad ==
  ASSUME IInv, IInv', RInv, ProcessClose \/ ProcessOpen
  PROVE  RInv'
<1> DEFINE S == SoundNow
           T == Sound(mode, next_order_id', submission_queue')
<1>1. UNCHANGED <<mode, adapter_up, worker, venue, connected, wire, ws_result_queue, submit_queues>>
  BY DEF ProcessClose, ProcessOpen, stream
<1>2. /\ wire \in Seq(S) /\ ws_result_queue \in Seq(S) /\ result_rings \in [Nodes -> Seq(S)]
      /\ close_bucket \in Seq(S) /\ open_bucket \in Seq(S)
      /\ Owes(mode, Binds, submission_queue, close_bucket, order_bitmap, orders)
      /\ QueueOrdered
  BY DEF RInv, RoadSound, BucketsSound, TableOwes
<1> HIDE DEF S
<1>3. PICK cmd \in S : ProcessFillCommand(cmd)
  BY <1>2, HeadTyped DEF ProcessClose, ProcessOpen
<1>4. /\ close_bucket' \in Seq(S) /\ open_bucket' \in Seq(S)
      /\ Owes(mode, Binds, submission_queue, close_bucket', order_bitmap, orders)
  <2>1. CASE ProcessClose
    <3>1. close_bucket # << >> /\ close_bucket' = Tail(close_bucket) /\ UNCHANGED open_bucket
      BY <2>1 DEF ProcessClose
    <3>2. Sells(Tail(close_bucket), order_bitmap, orders)
      BY <1>2, <3>1, SellsTail DEF Owes
    <3> QED BY <1>2, <3>1, <3>2, HeadTyped DEF Owes
  <2>2. CASE ProcessOpen
    <3>1. open_bucket # << >> /\ open_bucket' = Tail(open_bucket) /\ UNCHANGED close_bucket
      BY <2>2 DEF ProcessOpen
    <3> QED BY <1>2, <3>1, HeadTyped
  <2> QED BY <2>1, <2>2
<1>5. RoadOK /\ RoadOK' /\ TableOK /\ TableConsistent /\ PositionsOK
  BY DEF IInv, OmsTypeOK
<1>6. /\ S \subseteq T
      /\ \A id \in OrderId : Sent(id, next_order_id, submission_queue)
                               => Sent(id, next_order_id', submission_queue')
      /\ Increasing(submission_queue') /\ (~Live => submission_queue' = << >>)
      /\ Owes(mode, Binds, submission_queue', close_bucket', order_bitmap', orders')
      /\ result_rings' \in [Nodes -> Seq(T)]
  <2> DEFINE q == close_bucket'
  <2>1. q \in Seq(SoundNow) /\ Owes(mode, Binds, submission_queue, q, order_bitmap, orders)
    BY <1>4 DEF S
  <2> HIDE DEF q
  <2>2. /\ SoundNow \subseteq Sound(mode, next_order_id', submission_queue')
        /\ \A id \in OrderId : Sent(id, next_order_id, submission_queue)
                                 => Sent(id, next_order_id', submission_queue')
        /\ Increasing(submission_queue') /\ (~Live => submission_queue' = << >>)
        /\ Owes(mode, Binds, submission_queue', q, order_bitmap', orders')
        /\ result_rings' \in [Nodes -> Seq(Sound(mode, next_order_id', submission_queue'))]
    BY <1>1, <1>2, <1>3, <1>5, <2>1, ProcessKeeps DEF S
  <2> QED BY <2>2 DEF S, q
<1>7. SoundNow' = T
  BY <1>1 DEF SoundNow
<1> HIDE DEF T
<1>8. /\ wire \in Seq(T) /\ ws_result_queue \in Seq(T)
      /\ close_bucket' \in Seq(T) /\ open_bucket' \in Seq(T)
  BY <1>2, <1>4, <1>6, SeqGrows
<1>9. RoadSound' /\ BucketsSound'
  BY <1>1, <1>6, <1>7, <1>8 DEF RoadSound, BucketsSound
<1>10. WorkSent'
  <2>1. /\ worker.stage # "idle" => Live /\ Sent(worker.sub.id, next_order_id, submission_queue)
        /\ \A id \in DOMAIN venue : Sent(id, next_order_id, submission_queue)
        /\ connected => WsActive
    BY DEF RInv, WorkSent
  <2>2. worker.sub.id \in OrderId /\ \A id \in DOMAIN venue : id \in OrderId
    BY DEF IInv, OmsTypeOK, VenueOK, Submission
  <2> QED BY <1>1, <1>6, <2>1, <2>2 DEF WorkSent, Live, WsActive
<1>11. QueueOrdered'
  BY <1>1, <1>2, <1>6 DEF QueueOrdered, Live
<1>12. RequestsBound'
  BY <1>1 DEF RInv, RequestsBound
<1>13. TableOwes'
  <2>1. Binds' = Binds
    BY <1>1, Zenon DEF Binds, QueueHoldsTable
  <2> QED BY <1>1, <1>6, <2>1 DEF TableOwes
<1> QED BY <1>9, <1>10, <1>11, <1>12, <1>13 DEF RInv

LEMMA NextRoad == IInv /\ RInv /\ [Next]_vars => RInv'
<1> SUFFICES ASSUME IInv, RInv, [Next]_vars PROVE RInv'
  OBVIOUS
<1>0. IInv'
  BY NextInv
<1>1. CASE Producers /\ UNCHANGED cursor
  BY <1>1, RequestAsks, RequestRoad DEF Producers
<1>2. CASE PumpDone \/ UNCHANGED vars
  BY <1>2, PassStill, PassRoad
<1>3. CASE BookPass
  BY <1>0, <1>3, SubmitOneRoad, DrainRoad, BookRoad, PassStill, PassRoad DEF BookPass
<1>4. CASE Adapter
  BY <1>0, <1>4, AdapterRoad
<1> QED BY <1>1, <1>2, <1>3, <1>4 DEF Next

LEMMA RoadInvariant == Spec => [](IInv /\ RInv)
<1>1. Init => IInv /\ RInv
  BY InitInv, InitRoad
<1>2. IInv /\ RInv /\ [Next]_vars => (IInv /\ RInv)'
  BY NextInv, NextRoad
<1> QED BY <1>1, <1>2, PTL DEF Spec

-----------------------------------------------------------------------------
(* While the adapter runs, the remainder of a SELL that ended short is in   *)
(* the table when OrderManager_ProcessFillCommand returns.                  *)
LEMMA RemainderPlaced ==
  ASSUME QueueHoldsTable, IInv, RInv, adapter_up, NEW s \in Slots, [Next]_vars,
         SellEndsShort(s), positions'[s] > 0
  PROVE  SellOf(s, positions[s])'
<1> DEFINE cmd == Head(close_bucket)
           k   == cmd.id.slot
           o   == orders[k]
<1>1. /\ close_bucket # << >> /\ close_bucket' = Tail(close_bucket)
      /\ Known(cmd) /\ cmd.terminal /\ o.pslot = s
  BY DEF SellEndsShort
<1>2. close_bucket \in Seq(Command) /\ close_bucket \in Seq(SoundNow)
  BY DEF IInv, OmsTypeOK, QueuesOK, RInv, BucketsSound
<1>3. ProcessClose
  <2>1. Len(close_bucket') = Len(close_bucket) - 1 /\ Len(close_bucket) \in Nat
        /\ Len(close_bucket) >= 1
    BY <1>1, <1>2
  <2>2. close_bucket' # close_bucket
    BY <2>1
  <2>3. ~(DrainResult \/ DrainWs)
    <3>1. ASSUME NEW c, Bucket(c) PROVE FALSE
      <4>1. close_bucket' = Offer(close_bucket, c, BucketCap) \/ UNCHANGED close_bucket
        BY <3>1 DEF Bucket
      <4>2. close_bucket' = Append(close_bucket, c) \/ UNCHANGED close_bucket
        BY <4>1 DEF Offer
      <4>3. Len(Append(close_bucket, c)) = Len(close_bucket) + 1
        BY <1>2
      <4> QED BY <2>1, <2>2, <4>2, <4>3
    <3>2. DrainResult => \E c : Bucket(c)
      BY DEF DrainResult
    <3>3. DrainWs => UNCHANGED close_bucket \/ \E c : Bucket(c)
      BY DEF DrainWs
    <3> QED BY <2>2, <3>1, <3>2, <3>3
  <2>4. ~(Producers \/ PumpDone \/ ProcessOpen \/ PassDone \/ Adapter \/ UNCHANGED vars)
    BY <2>2 DEF Producers, EntryRequest, ExitRequest, Request, PumpDone, ProcessOpen, PassDone,
                Adapter, vars, omsVars
  <2>5. ~(\E t \in Slots : SubmitOne(t) \/ SubmitNext(t))
    BY <2>2 DEF SubmitOne, SubmitNext
  <2> QED BY <2>3, <2>4, <2>5 DEF Next, BookPass
<1>4. ProcessFillCommand(cmd)
  BY <1>3 DEF ProcessClose
<1>5. cmd \in SoundNow
  BY <1>1, <1>2, HeadTyped
<1>6. /\ cmd \in Command /\ cmd.qty \in Nat /\ cmd.success /\ ~cmd.complete
      /\ (cmd.from = "REST" => mode = "rest")
  BY <1>1, <1>5 DEF SoundNow, Sound, Command
<1>7. /\ k \in order_bitmap /\ k \in OrderSlots /\ o \in Order /\ o.id = cmd.id
      /\ order_bitmap \subseteq OrderSlots /\ orders \in [OrderSlots -> Order]
  BY <1>1 DEF Known, IInv, OmsTypeOK, TableOK
<1>8. o.type = "SELL"
  <2>1. Sells(close_bucket, order_bitmap, orders)
    BY DEF RInv, TableOwes, Owes
  <2>2. 1 \in 1 .. Len(close_bucket) /\ cmd = close_bucket[1]
    BY <1>1, <1>2
  <2> HIDE DEF cmd
  <2> QED BY <1>7, <2>1, <2>2 DEF Sells
<1>9. ~IsAck(cmd) /\ ~Tripwire(cmd)
  <2>1. ~IsAck(cmd)
    BY <1>1 DEF IsAck
  <2>2. cmd.from = "REST" => o.filled = 0
    BY <1>6, <1>7 DEF RInv, TableOwes, Owes, Untouched
  <2> QED BY <2>1, <2>2 DEF Tripwire
<1>10. EndedShort(cmd)
  BY <1>1, <1>4, <1>6, <1>9 DEF ProcessFillCommand, Ignored, Acknowledged, Failed, Booked
<1> DEFINE new  == [[o EXCEPT !.filled = o.filled + cmd.qty] EXCEPT !.state = "CANCELED"]
           bm   == order_bitmap \ {k}
           ords == [orders EXCEPT ![k] = new]
           left == AfterFill(o, cmd.qty)
           rest == SubmitCommand("SELL", left, o.pre_resolved)
<1>11. [orders EXCEPT ![k].filled = @ + cmd.qty, ![k].state = "CANCELED"] = ords
  BY <1>7
<1>12. ords \in [OrderSlots -> Order] /\ \A i \in bm : ords[i] = orders[i]
  <2>1. new \in Order
    BY <1>6, <1>7, OrderMoves DEF Terminal
  <2> QED BY <1>7, <2>1, OrdersUpdated
<1>13. positions'[s] = left /\ positions' \in [Slots -> Nat]
  <2>1. HandleFill(o, cmd.qty)
    BY <1>10 DEF EndedShort
  <2>2. positions \in [Slots -> Nat]
    BY DEF IInv, OmsTypeOK, PositionsOK
  <2>3. left \in Nat
    BY <1>6, <1>7, AfterFillTyped DEF IInv, OmsTypeOK
  <2> QED BY <1>1, <2>1, <2>2, <2>3 DEF HandleFill
<1>14. AdapterAccepts
  <2>1. OrderSlots \ bm # {} /\ bm \in SUBSET OrderSlots
    BY <1>7
  <2>2. Carries(submission_queue, bm, ords)
    <3>1. \A i \in 1 .. Len(submission_queue) : submission_queue[i].id.slot \in bm
      BY <1>5, <1>7, ReportedNotQueued DEF IInv, OmsTypeOK, RInv, TableOwes, Owes
    <3> HIDE DEF ords, bm
    <3> QED BY <1>12, <3>1 DEF RInv, TableOwes, Owes, Carries
  <2> HIDE DEF bm, ords
  <2> QED BY <2>1, <2>2, AdapterTakes DEF IInv, OmsTypeOK, RInv, QueueOrdered
<1>15. Submit(s, rest, bm, ords)
  <2>1. left > 0
    BY <1>13
  <2> HIDE DEF left
  <2> QED BY <1>1, <1>8, <1>10, <1>11, <1>14, <2>1 DEF EndedShort, Freed, BoundFrom, left
<1>16. \E i \in order_bitmap' :
         /\ orders'[i].pslot = s /\ orders'[i].type = rest.type
         /\ orders'[i].requested = rest.qty /\ orders'[i].state = "SUBMITTED"
  <2>1. OrderSlots \ bm # {} /\ bm \in SUBSET OrderSlots
    BY <1>7
  <2> HIDE DEF bm, ords, rest
  <2> QED BY <1>12, <1>14, <1>15, <2>1, SubmitPlaces
<1>17. rest.type = "SELL" /\ rest.qty = positions'[s]
  BY <1>13 DEF SubmitCommand
<1> HIDE DEF rest
<1> QED BY <1>16, <1>17 DEF SellOf

(* The adapter of a program that is not shut down runs.                     *)
LEMMA AdapterRuns == ASSUME ~MayShutDown PROVE Spec => []adapter_up
<1>1. Init => adapter_up
  BY DEF Init, AdapterInit
<1>2. adapter_up /\ [Next]_vars => adapter_up'
  <2> SUFFICES ASSUME adapter_up, [Next]_vars PROVE adapter_up'
    OBVIOUS
  <2>1. UNCHANGED adapter_up
    BY DEF Next, Producers, EntryRequest, ExitRequest, Request, PumpDone, BookPass, SubmitOne,
           SubmitNext, DrainResult, DrainWs, ProcessClose, ProcessOpen, PassDone, Adapter,
           AdapterNext, WorkerPop, VenueAccepts, VenueRefuses, RestAnswer, RestAnswerLost,
           ShutdownState, WsReceive, StreamBreaks, StreamConnects, VenueTrades, VenueEnds,
           vars, adapterVars
  <2> QED BY <2>1
<1> QED BY <1>1, <1>2, PTL DEF Spec

(* Until the adapter is shut down every order in the table carries the fee  *)
(* binding of its own node, also the remainder that inherits it from a dead *)
(* order (OrderManager_ProcessFillCommand, OrderManager_HandleFill).  The   *)
(* hypothesis is what keeps OrderManager_Submit from returning 0 there: the *)
(* adapter's queue is as long as the order table.                           *)
THEOREM BindingsKept ==
  ASSUME QueueHoldsTable
  PROVE  Spec => [](adapter_up => BoundToOwnNode)
<1>1. IInv /\ RInv => (adapter_up => BoundToOwnNode)
  BY DEF RInv, TableOwes, Owes, Bound, Binds, BoundToOwnNode
<1> QED BY <1>1, RoadInvariant, PTL

(* "The remainder exit is guaranteed" (OrderManager.hpp:2436-2438): of any  *)
(* table and any slots, whatever is lost, reordered or cut short, a SELL    *)
(* that ends short is followed in the same step by a SELL of all that is    *)
(* still held, unless the adapter was shut down.                            *)
THEOREM RemainderGuaranteed ==
  ASSUME QueueHoldsTable, ~MayShutDown
  PROVE  Spec => RemainderResubmitted
<1>1. IInv /\ RInv /\ adapter_up /\ [Next]_vars
        => [\A s \in Slots : SellEndsShort(s) /\ positions'[s] > 0
                               => SellOf(s, positions[s])']_vars
  BY RemainderPlaced
<1> QED BY <1>1, RoadInvariant, AdapterRuns, PTL DEF Spec, RemainderResubmitted
=============================================================================
