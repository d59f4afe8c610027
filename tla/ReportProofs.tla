---------------------------- MODULE ReportProofs ----------------------------
(***************************************************************************)
(* What the reports under way say, against what the order table holds.     *)
(*   Live, for any nodes, slots and capacities, and whatever is dropped,    *)
(* lost, cut or shut down: what an order has booked, with what is still to  *)
(* be booked, is no more than the venue executed of it.                     *)
(*   Paper, when a result ring and a bucket are as long as the table: the   *)
(* fill of every order of the table is on its way, once.                    *)
(*   Live, while no queue on the way is full, no REST answer is lost and    *)
(* the user-data stream stays up: nothing that was executed goes missing.   *)
(*   Under the same conditions: what the venue holds for a node is in the   *)
(* positions of its slots.                                                  *)
(***************************************************************************)
EXTENDS OrderManagerProofs, SumsProofs

-----------------------------------------------------------------------------
(* The quantity that a queue tells of one order.                            *)
Own(cmd, id) == IF cmd.id = id THEN cmd.qty ELSE 0

LEMMA AmountsTyped ==
  ASSUME NEW q \in Seq(Command), NEW id
  PROVE  /\ Amounts(q, id) \in Seq(Int) /\ Len(Amounts(q, id)) = Len(q)
         /\ \A i \in 1 .. Len(q) :
              /\ q[i] \in Command /\ q[i].qty \in Nat
              /\ Amounts(q, id)[i] = Own(q[i], id) /\ Amounts(q, id)[i] \in Nat
<1>1. \A i \in 1 .. Len(q) : q[i] \in Command /\ q[i].qty \in Nat
  <2>1. \A i \in 1 .. Len(q) : q[i] \in Command
    OBVIOUS
  <2> QED BY <2>1 DEF Command
<1>2. \A i \in 1 .. Len(q) : Own(q[i], id) \in Nat
  BY <1>1 DEF Own
<1>3. Amounts(q, id) = [i \in 1 .. Len(q) |-> Own(q[i], id)]
  BY DEF Amounts, Own
<1>4. Amounts(q, id) \in [1 .. Len(q) -> Int]
  BY <1>2, <1>3
<1>5. Amounts(q, id) \in Seq(Int) /\ Len(Amounts(q, id)) = Len(q)
  BY <1>4
<1> QED BY <1>1, <1>2, <1>3, <1>5

LEMMA ToldEmpty == ASSUME NEW id PROVE Told(<< >>, id) = 0
<1>1. << >> \in Seq(Command) /\ Len(<< >>) = 0
  OBVIOUS
<1>2. Amounts(<< >>, id) \in Seq(Int) /\ Len(Amounts(<< >>, id)) = 0
  BY <1>1, AmountsTyped
<1>3. Amounts(<< >>, id) = << >>
  BY <1>2
<1> QED BY <1>3, SumEmpty DEF Told

LEMMA ToldNat == ASSUME NEW q \in Seq(Command), NEW id PROVE Told(q, id) \in Nat
<1>1. Amounts(q, id) \in Seq(Nat)
  BY AmountsTyped
<1> HIDE DEF Amounts
<1> QED BY <1>1, SumNat DEF Told

LEMMA ToldNone ==
  ASSUME NEW q \in Seq(Command), NEW id, \A i \in 1 .. Len(q) : q[i].id # id
  PROVE  Told(q, id) = 0
<1>1. \A i \in 1 .. Len(Amounts(q, id)) : Amounts(q, id)[i] = 0
  BY AmountsTyped DEF Own
<1> QED BY <1>1, AmountsTyped, SumZero DEF Told

LEMMA ToldAppend ==
  ASSUME NEW q \in Seq(Command), NEW cmd \in Command, NEW id
  PROVE  Told(Append(q, cmd), id) = Told(q, id) + Own(cmd, id)
<1> DEFINE r == Append(q, cmd)
<1>1. /\ r \in Seq(Command) /\ Len(r) = Len(q) + 1 /\ Len(q) \in Nat
      /\ \A i \in 1 .. Len(q) : r[i] = q[i]
      /\ r[Len(q) + 1] = cmd
  OBVIOUS
<1> HIDE DEF r
<1>2. Own(cmd, id) \in Int
  BY DEF Own, Command
<1>3. /\ Amounts(q, id) \in Seq(Int) /\ Len(Amounts(q, id)) = Len(q)
      /\ \A i \in 1 .. Len(q) : Amounts(q, id)[i] = Own(q[i], id)
  BY AmountsTyped
<1>4. /\ Amounts(r, id) \in Seq(Int) /\ Len(Amounts(r, id)) = Len(q) + 1
      /\ \A i \in 1 .. Len(q) + 1 : Amounts(r, id)[i] = Own(r[i], id)
  BY <1>1, AmountsTyped
<1>5. Amounts(r, id) = Append(Amounts(q, id), Own(cmd, id))
  <2> DEFINE a == Amounts(q, id)
             b == Amounts(r, id)
  <2> HIDE DEF a, b
  <2>1. /\ a \in Seq(Int) /\ Len(a) = Len(q) /\ \A i \in 1 .. Len(q) : a[i] = Own(q[i], id)
        /\ \A i \in 1 .. Len(q) + 1 : b[i] = Own(r[i], id)
    BY <1>3, <1>4 DEF a, b
  <2> DEFINE x == Own(cmd, id)
  <2>2. x \in Int
    BY <1>2
  <2> HIDE DEF x
  <2>3. /\ \A i \in 1 .. Len(q) : Append(a, x)[i] = a[i]
        /\ Append(a, x)[Len(q) + 1] = x
    BY <2>1, <2>2
  <2>4. \A i \in 1 .. Len(q) + 1 : b[i] = Append(a, x)[i]
    <3> SUFFICES ASSUME NEW i \in 1 .. Len(q) + 1 PROVE b[i] = Append(a, x)[i]
      OBVIOUS
    <3>1. CASE i \in 1 .. Len(q)
      BY <1>1, <2>1, <2>3, <3>1
    <3>2. CASE i = Len(q) + 1
      BY <1>1, <2>1, <2>3, <3>2 DEF x
    <3>3. Len(q) \in Nat
      BY <1>1
    <3>4. i \in 1 .. Len(q) \/ i = Len(q) + 1
      BY <3>3
    <3> QED BY <3>1, <3>2, <3>4
  <2>5. Append(a, x) \in Seq(Int) /\ Len(Append(a, x)) = Len(q) + 1
    BY <2>1, <2>2
  <2>6. b \in Seq(Int) /\ Len(b) = Len(q) + 1
    BY <1>4 DEF b
  <2>7. b = Append(a, x)
    <3>1. Len(b) = Len(Append(a, x)) /\ \A i \in 1 .. Len(b) : b[i] = Append(a, x)[i]
      BY <2>4, <2>5, <2>6
    <3> QED BY <2>5, <2>6, <3>1, SameSeq
  <2> QED BY <2>7 DEF a, b, x
<1>6. SumSeq(Append(Amounts(q, id), Own(cmd, id))) = SumSeq(Amounts(q, id)) + Own(cmd, id)
  BY <1>2, <1>3, SumAppend
<1> QED BY <1>5, <1>6 DEF Told, r

LEMMA ToldTail ==
  ASSUME NEW q \in Seq(Command), q # << >>, NEW id
  PROVE  Told(q, id) = Own(Head(q), id) + Told(Tail(q), id)
<1>1. /\ Tail(q) \in Seq(Command) /\ Len(Tail(q)) = Len(q) - 1 /\ Len(q) \in Nat /\ Len(q) >= 1
      /\ \A i \in 1 .. Len(q) - 1 : Tail(q)[i] = q[i + 1]
      /\ Head(q) = q[1]
  OBVIOUS
<1>2. /\ Amounts(q, id) \in Seq(Int) /\ Len(Amounts(q, id)) = Len(q)
      /\ \A i \in 1 .. Len(q) : Amounts(q, id)[i] = Own(q[i], id)
  BY AmountsTyped
<1>3. /\ Amounts(Tail(q), id) \in Seq(Int) /\ Len(Amounts(Tail(q), id)) = Len(q) - 1
      /\ \A i \in 1 .. Len(q) - 1 : Amounts(Tail(q), id)[i] = Own(Tail(q)[i], id)
  BY <1>1, AmountsTyped
<1> DEFINE a == Amounts(q, id)
           b == Amounts(Tail(q), id)
<1> HIDE DEF a, b
<1>4. a \in Seq(Int) /\ a # << >> /\ Head(a) = Own(Head(q), id)
  BY <1>1, <1>2 DEF a
<1>5. Tail(a) \in Seq(Int) /\ Len(Tail(a)) = Len(q) - 1
      /\ \A i \in 1 .. Len(q) - 1 : Tail(a)[i] = a[i + 1]
  BY <1>1, <1>2, <1>4 DEF a
<1>6. \A i \in 1 .. Len(q) - 1 : Tail(a)[i] = b[i]
  BY <1>1, <1>2, <1>3, <1>5 DEF a, b
<1>7. Tail(a) = b
  <2>1. b \in Seq(Int) /\ Len(b) = Len(Tail(a)) /\ \A i \in 1 .. Len(Tail(a)) : Tail(a)[i] = b[i]
    BY <1>3, <1>5, <1>6 DEF b
  <2> QED BY <1>5, <2>1, SameSeq
<1>8. SumSeq(a) = Head(a) + SumSeq(Tail(a))
  BY <1>4, SumTail
<1> QED BY <1>4, <1>7, <1>8 DEF Told, a, b

(* A full queue drops what is offered, and no queue invents anything.       *)
LEMMA ToldOffer ==
  ASSUME NEW q \in Seq(Command), NEW cmd \in Command, NEW cap, NEW id
  PROVE  /\ Told(Offer(q, cmd, cap), id) <= Told(q, id) + Own(cmd, id)
         /\ Len(q) < cap => Told(Offer(q, cmd, cap), id) = Told(q, id) + Own(cmd, id)
         /\ Own(cmd, id) = 0 => Told(Offer(q, cmd, cap), id) = Told(q, id)
<1>1. Own(cmd, id) \in Nat
  BY DEF Own, Command
<1>2. Told(Append(q, cmd), id) = Told(q, id) + Own(cmd, id)
  BY ToldAppend
<1>3. Told(q, id) \in Nat
  BY ToldNat
<1> QED BY <1>1, <1>2, <1>3 DEF Offer

-----------------------------------------------------------------------------
(* The table never books more than the venue executed, on top of IInv and   *)
(* RInv.  A ring holds the reports of its own node; the worker's order is   *)
(* new to the venue until the call, and without the websocket nothing is    *)
(* told of it before the answer; and what an order of the table has booked, *)
(* with what is under way, is no more than was executed.                    *)
Exec(v, id) == IF id \in DOMAIN v THEN v[id].executed ELSE 0

RoutedTo(n) == {cmd \in Command : cmd.id.node = n}
RingsRouted == \A n \in Nodes : result_rings[n] \in Seq(RoutedTo(n))

WorkerFresh ==
  worker.stage # "idle" =>
    /\ worker.sub.id.node \in Nodes
    /\ worker.stage = "call" => worker.sub.id \notin DOMAIN venue
    /\ mode = "rest" => \A id \in OrderId : id = worker.sub.id => Undelivered(id) = 0

Within ==
  Live => \A k \in order_bitmap : \A id \in OrderId :
    orders[k].id = id => orders[k].filled + Undelivered(id) <= Exec(venue, id)

WInv == RingsRouted /\ WorkerFresh /\ Within

LEMMA ToldTyped ==
  ASSUME IInv, NEW id \in OrderId, id.node \in Nodes
  PROVE  /\ Told(close_bucket, id) \in Nat /\ Told(open_bucket, id) \in Nat
         /\ Told(result_rings[id.node], id) \in Nat
         /\ Told(ws_result_queue, id) \in Nat /\ Told(wire, id) \in Nat
         /\ Undelivered(id) \in Nat
<1>1. /\ close_bucket \in Seq(Command) /\ open_bucket \in Seq(Command)
      /\ result_rings[id.node] \in Seq(Command)
      /\ ws_result_queue \in Seq(Command) /\ wire \in Seq(Command)
  BY DEF IInv, OmsTypeOK, QueuesOK, RoadOK
<1>2. /\ Told(close_bucket, id) \in Nat /\ Told(open_bucket, id) \in Nat
      /\ Told(result_rings[id.node], id) \in Nat
      /\ Told(ws_result_queue, id) \in Nat /\ Told(wire, id) \in Nat
  BY <1>1, ToldNat
<1> QED BY <1>2 DEF Undelivered

LEMMA ExecTyped ==
  ASSUME VenueOK, NEW id
  PROVE  Exec(venue, id) \in Nat
BY DEF VenueOK, VenueOrder, Exec

LEMMA TableNodes ==
  ASSUME IInv, NEW k \in order_bitmap
  PROVE  /\ orders[k].id \in OrderId /\ orders[k].id.node \in Nodes
         /\ orders[k].filled \in Nat
<1>1. /\ orders[k] \in Order /\ orders[k].pslot \in Slots
      /\ orders[k].id.node = NodeOf(orders[k].pslot)
  BY DEF IInv, OmsTypeOK, TableConsistent, TableOK, Order
<1>2. NodeOf(orders[k].pslot) \in Nodes
  BY <1>1, OmsAssumption
<1> QED BY <1>1, <1>2 DEF Order

LEMMA NextTyped ==
  ASSUME IInv', NEW id \in OrderId, id.node \in Nodes
  PROVE  Undelivered(id)' \in Nat /\ Exec(venue', id) \in Nat
<1>1. /\ close_bucket' \in Seq(Command) /\ open_bucket' \in Seq(Command)
      /\ result_rings'[id.node] \in Seq(Command)
      /\ ws_result_queue' \in Seq(Command) /\ wire' \in Seq(Command)
  BY DEF IInv, OmsTypeOK, QueuesOK, RoadOK
<1>2. /\ Told(close_bucket', id) \in Nat /\ Told(open_bucket', id) \in Nat
      /\ Told(result_rings'[id.node], id) \in Nat
      /\ Told(ws_result_queue', id) \in Nat /\ Told(wire', id) \in Nat
  BY <1>1, ToldNat
<1>3. Exec(venue', id) \in Nat
  BY DEF IInv, OmsTypeOK, VenueOK, VenueOrder, Exec
<1> QED BY <1>2, <1>3 DEF Undelivered

LEMMA PushTold ==
  ASSUME result_rings \in [Nodes -> Seq(Command)], NEW cmd \in Command,
         NEW id, id.node \in Nodes, ResultPush(cmd)
  PROVE  /\ Told(result_rings'[id.node], id)
              <= Told(result_rings[id.node], id) + Own(cmd, id)
         /\ Len(result_rings[id.node]) < ResultCap
              => Told(result_rings'[id.node], id)
                   = Told(result_rings[id.node], id) + Own(cmd, id)
         /\ Own(cmd, id) = 0
              => Told(result_rings'[id.node], id) = Told(result_rings[id.node], id)
<1> DEFINE r == result_rings[id.node]
<1>1. result_rings'[id.node] = IF cmd.id.node = id.node THEN Offer(r, cmd, ResultCap) ELSE r
  BY DEF ResultPush
<1>2. r \in Seq(Command)
  OBVIOUS
<1> HIDE DEF r
<1>3. Told(r, id) \in Nat /\ Own(cmd, id) \in Nat
  BY <1>2, ToldNat DEF Own, Command
<1>4. /\ Told(Offer(r, cmd, ResultCap), id) <= Told(r, id) + Own(cmd, id)
      /\ Len(r) < ResultCap => Told(Offer(r, cmd, ResultCap), id) = Told(r, id) + Own(cmd, id)
      /\ Own(cmd, id) = 0 => Told(Offer(r, cmd, ResultCap), id) = Told(r, id)
  BY <1>2, ToldOffer
<1>5. cmd.id.node # id.node => Own(cmd, id) = 0
  BY DEF Own
<1> QED BY <1>1, <1>3, <1>4, <1>5 DEF r

LEMMA PushRouted ==
  ASSUME RingsRouted, result_rings \in [Nodes -> Seq(Command)], NEW cmd \in Command,
         ResultPush(cmd)
  PROVE  RingsRouted'
<1> SUFFICES ASSUME NEW n \in Nodes PROVE result_rings'[n] \in Seq(RoutedTo(n))
  BY DEF RingsRouted
<1>1. result_rings[n] \in Seq(RoutedTo(n))
  BY DEF RingsRouted
<1>2. CASE cmd.id.node = n
  <2>1. cmd \in RoutedTo(n)
    BY <1>2 DEF RoutedTo
  <2>2. result_rings'[n] = Offer(result_rings[n], cmd, ResultCap)
    BY <1>2 DEF ResultPush
  <2> QED BY <1>1, <2>1, <2>2, OfferTyped
<1>3. CASE cmd.id.node # n
  BY <1>1, <1>3 DEF ResultPush
<1> QED BY <1>2, <1>3

LEMMA WireTold ==
  ASSUME wire \in Seq(Command), NEW cmd \in Command, NEW id, Tells(cmd)
  PROVE  /\ Told(wire', id) <= Told(wire, id) + Own(cmd, id)
         /\ connected => Told(wire', id) = Told(wire, id) + Own(cmd, id)
         /\ ~connected \/ Own(cmd, id) = 0 => Told(wire', id) = Told(wire, id)
<1>1. Told(Append(wire, cmd), id) = Told(wire, id) + Own(cmd, id)
  BY ToldAppend
<1>2. Told(wire, id) \in Nat /\ Own(cmd, id) \in Nat
  BY ToldNat DEF Own, Command
<1> QED BY <1>1, <1>2 DEF Tells

(* One step of the adapter.  What comes under way was executed in the same  *)
(* step, except for the answer that tells all of it at once.                *)
Unmoved == UNCHANGED <<close_bucket, open_bucket>>

LEMMA SameUndelivered ==
  ASSUME Unmoved, UNCHANGED <<result_rings, ws_result_queue, wire>>, NEW id
  PROVE  Undelivered(id)' = Undelivered(id)
BY DEF Unmoved, Undelivered

LEMMA RingUndelivered ==
  ASSUME IInv, Unmoved, UNCHANGED <<ws_result_queue, wire>>, NEW cmd \in Command,
         ResultPush(cmd), NEW id \in OrderId, id.node \in Nodes
  PROVE  /\ Undelivered(id)' <= Undelivered(id) + Own(cmd, id)
         /\ Len(result_rings[id.node]) < ResultCap
              => Undelivered(id)' = Undelivered(id) + Own(cmd, id)
         /\ Own(cmd, id) = 0 => Undelivered(id)' = Undelivered(id)
<1>1. /\ Told(result_rings'[id.node], id) <= Told(result_rings[id.node], id) + Own(cmd, id)
      /\ Len(result_rings[id.node]) < ResultCap
           => Told(result_rings'[id.node], id) = Told(result_rings[id.node], id) + Own(cmd, id)
      /\ Own(cmd, id) = 0
           => Told(result_rings'[id.node], id) = Told(result_rings[id.node], id)
  BY PushTold DEF IInv, OmsTypeOK, RoadOK
<1>2. /\ Told(close_bucket, id) \in Nat /\ Told(open_bucket, id) \in Nat
      /\ Told(result_rings[id.node], id) \in Nat
      /\ Told(ws_result_queue, id) \in Nat /\ Told(wire, id) \in Nat
  BY ToldTyped
<1>3. Told(result_rings'[id.node], id) \in Nat
  <2>1. result_rings' \in [Nodes -> Seq(Command)]
    BY ResultPushTyped DEF IInv, OmsTypeOK, RoadOK
  <2> QED BY <2>1, ToldNat
<1>4. Own(cmd, id) \in Nat
  BY DEF Own, Command
<1>5. Undelivered(id)' = Told(close_bucket, id) + Told(open_bucket, id)
        + Told(result_rings'[id.node], id) + Told(ws_result_queue, id) + Told(wire, id)
  BY DEF Undelivered, Unmoved
<1>6. Undelivered(id) = Told(close_bucket, id) + Told(open_bucket, id)
        + Told(result_rings[id.node], id) + Told(ws_result_queue, id) + Told(wire, id)
  BY DEF Undelivered
<1> QED BY <1>1, <1>2, <1>3, <1>4, <1>5, <1>6

LEMMA WireUndelivered ==
  ASSUME IInv, Unmoved, UNCHANGED <<ws_result_queue, result_rings>>, NEW cmd \in Command,
         Tells(cmd), NEW id \in OrderId, id.node \in Nodes
  PROVE  /\ Undelivered(id)' <= Undelivered(id) + Own(cmd, id)
         /\ connected => Undelivered(id)' = Undelivered(id) + Own(cmd, id)
         /\ ~connected \/ Own(cmd, id) = 0 => Undelivered(id)' = Undelivered(id)
<1>1. /\ Told(wire', id) <= Told(wire, id) + Own(cmd, id)
      /\ connected => Told(wire', id) = Told(wire, id) + Own(cmd, id)
      /\ ~connected \/ Own(cmd, id) = 0 => Told(wire', id) = Told(wire, id)
  BY WireTold DEF IInv, OmsTypeOK, RoadOK
<1>2. /\ Told(close_bucket, id) \in Nat /\ Told(open_bucket, id) \in Nat
      /\ Told(result_rings[id.node], id) \in Nat
      /\ Told(ws_result_queue, id) \in Nat /\ Told(wire, id) \in Nat
  BY ToldTyped
<1>3. Told(wire', id) \in Nat
  BY TellsTyped, ToldNat DEF IInv, OmsTypeOK, RoadOK
<1>4. Own(cmd, id) \in Nat
  BY DEF Own, Command
<1>5. Undelivered(id)' = Told(close_bucket, id) + Told(open_bucket, id)
        + Told(result_rings[id.node], id) + Told(ws_result_queue, id) + Told(wire', id)
  BY DEF Undelivered, Unmoved
<1>6. Undelivered(id) = Told(close_bucket, id) + Told(open_bucket, id)
        + Told(result_rings[id.node], id) + Told(ws_result_queue, id) + Told(wire, id)
  BY DEF Undelivered
<1> QED BY <1>1, <1>2, <1>3, <1>4, <1>5, <1>6

(* What the websocket thread takes from the wire, or a cut takes away.      *)
LEMMA StreamUndelivered ==
  ASSUME IInv, Unmoved, WsReceive \/ StreamBreaks, NEW id \in OrderId, id.node \in Nodes
  PROVE  /\ Undelivered(id)' <= Undelivered(id)
         /\ WsReceive /\ Len(ws_result_queue) < WsCap => Undelivered(id)' = Undelivered(id)
<1>1. /\ Told(close_bucket, id) \in Nat /\ Told(open_bucket, id) \in Nat
      /\ Told(result_rings[id.node], id) \in Nat
      /\ Told(ws_result_queue, id) \in Nat /\ Told(wire, id) \in Nat
  BY ToldTyped
<1>2. wire \in Seq(Command) /\ ws_result_queue \in Seq(Command)
  BY DEF IInv, OmsTypeOK, RoadOK
<1>3. Undelivered(id)' = Told(close_bucket, id) + Told(open_bucket, id)
        + Told(result_rings[id.node], id) + Told(ws_result_queue', id) + Told(wire', id)
  BY DEF Undelivered, Unmoved, WsReceive, StreamBreaks
<1>4. Undelivered(id) = Told(close_bucket, id) + Told(open_bucket, id)
        + Told(result_rings[id.node], id) + Told(ws_result_queue, id) + Told(wire, id)
  BY DEF Undelivered
<1>5. /\ Told(ws_result_queue', id) + Told(wire', id) <= Told(ws_result_queue, id) + Told(wire, id)
      /\ WsReceive /\ Len(ws_result_queue) < WsCap =>
           Told(ws_result_queue', id) + Told(wire', id) = Told(ws_result_queue, id) + Told(wire, id)
  <2>1. CASE WsReceive
    <3>1. /\ wire # << >> /\ wire' = Tail(wire)
          /\ ws_result_queue' = Offer(ws_result_queue, Head(wire), WsCap)
      BY <2>1 DEF WsReceive
    <3>2. Head(wire) \in Command /\ Tail(wire) \in Seq(Command)
      BY <1>2, <3>1, HeadTyped
    <3>3. Told(wire, id) = Own(Head(wire), id) + Told(Tail(wire), id)
      BY <1>2, <3>1, ToldTail
    <3>4. /\ Told(Offer(ws_result_queue, Head(wire), WsCap), id)
               <= Told(ws_result_queue, id) + Own(Head(wire), id)
          /\ Len(ws_result_queue) < WsCap =>
               Told(Offer(ws_result_queue, Head(wire), WsCap), id)
                 = Told(ws_result_queue, id) + Own(Head(wire), id)
      BY <1>2, <3>2, ToldOffer
    <3>5. Told(Tail(wire), id) \in Nat /\ Own(Head(wire), id) \in Nat
      BY <3>2, ToldNat DEF Own, Command
    <3>6. Told(Offer(ws_result_queue, Head(wire), WsCap), id) \in Nat
      BY <1>2, <3>2, OfferTyped, ToldNat
    <3> QED BY <1>1, <3>1, <3>3, <3>4, <3>5, <3>6
  <2>2. CASE StreamBreaks
    <3>1. wire' = << >> /\ ws_result_queue' = ws_result_queue /\ ~WsReceive
      BY <2>2 DEF StreamBreaks, WsReceive, stream
    <3> QED BY <1>1, <3>1, ToldEmpty
  <2> QED BY <2>1, <2>2
<1>6. Told(ws_result_queue', id) \in Nat /\ Told(wire', id) \in Nat
  <2>1. wire' \in Seq(Command) /\ ws_result_queue' \in Seq(Command)
    <3>1. CASE WsReceive
      BY <1>2, <3>1, HeadTyped, OfferTyped DEF WsReceive
    <3>2. CASE StreamBreaks
      BY <1>2, <3>2 DEF StreamBreaks
    <3> QED BY <3>1, <3>2
  <2> QED BY <2>1, ToldNat
<1>7. CASE WsReceive /\ Len(ws_result_queue) < WsCap
  BY <1>1, <1>3, <1>4, <1>5, <1>6, <1>7
<1>8. CASE ~(WsReceive /\ Len(ws_result_queue) < WsCap)
  BY <1>1, <1>3, <1>4, <1>5, <1>6, <1>8
<1> QED BY <1>7, <1>8

LEMMA AdapterGrows ==
  ASSUME IInv, RInv, WInv, AdapterNext, Unmoved, NEW id \in OrderId, id.node \in Nodes
  PROVE  \/ Undelivered(id)' + Exec(venue, id) <= Undelivered(id) + Exec(venue', id)
         \/ /\ mode = "rest" /\ Undelivered(id) = 0
            /\ Undelivered(id)' <= Exec(venue', id)
<1>1. Undelivered(id) \in Nat /\ Exec(venue, id) \in Nat
  BY ToldTyped, ExecTyped DEF IInv, OmsTypeOK
<1>2. /\ VenueOK /\ worker.sub \in Submission /\ worker.sub.id \in OrderId
  BY DEF IInv, OmsTypeOK, VenueOK, Submission
<1>3. CASE WorkerPop \/ ShutdownState \/ StreamConnects
  <2>1. UNCHANGED <<result_rings, ws_result_queue, wire, venue>>
    BY <1>3 DEF WorkerPop, ShutdownState, StreamConnects, stream
  <2>2. Undelivered(id)' = Undelivered(id)
    BY <2>1, SameUndelivered
  <2> QED BY <1>1, <2>1, <2>2
<1>4. CASE VenueAccepts
  <2>1. /\ UNCHANGED <<result_rings, ws_result_queue, wire>> /\ worker.stage = "call"
        /\ venue' = [i \in DOMAIN venue \cup {worker.sub.id} |->
                       IF i = worker.sub.id
                         THEN [type |-> worker.sub.type, qty |-> worker.sub.qty,
                               executed |-> 0, status |-> "open"]
                         ELSE venue[i]]
    BY <1>4 DEF VenueAccepts, stream
  <2>2. worker.sub.id \notin DOMAIN venue
    BY <2>1 DEF WInv, WorkerFresh
  <2>3. Exec(venue', id) = Exec(venue, id)
    BY <2>1, <2>2 DEF Exec
  <2>4. Undelivered(id)' = Undelivered(id)
    BY <2>1, SameUndelivered
  <2> QED BY <1>1, <2>3, <2>4
<1>5. CASE VenueRefuses
  <2> DEFINE a == Failure("REST", worker.sub.id)
             b == Failure("WS", worker.sub.id)
  <2>1. /\ ResultPush(a) /\ (UNCHANGED wire \/ Tells(b)) /\ UNCHANGED <<venue, ws_result_queue>>
    BY <1>5 DEF VenueRefuses
  <2>2. a \in Command /\ b \in Command /\ Own(a, id) = 0 /\ Own(b, id) = 0
    <3>1. a \in Command /\ b \in Command
      BY <1>2, FailureTyped
    <3> QED BY <3>1 DEF Own, Failure, Report
  <2> HIDE DEF a, b
  <2>3. Told(result_rings'[id.node], id) = Told(result_rings[id.node], id)
    BY <2>1, <2>2, PushTold DEF IInv, OmsTypeOK, RoadOK
  <2>4. Told(wire', id) = Told(wire, id)
    BY <2>1, <2>2, WireTold DEF IInv, OmsTypeOK, RoadOK
  <2>5. Undelivered(id)' = Undelivered(id)
    BY <2>1, <2>3, <2>4 DEF Undelivered, Unmoved
  <2> QED BY <1>1, <2>1, <2>5
<1>6. CASE RestAnswerLost
  <2> DEFINE a == Failure("REST", worker.sub.id)
  <2>1. ResultPush(a) /\ UNCHANGED <<wire, venue, ws_result_queue>>
    BY <1>6 DEF RestAnswerLost, stream
  <2>2. a \in Command /\ Own(a, id) = 0
    <3>1. a \in Command
      BY <1>2, FailureTyped
    <3> QED BY <3>1 DEF Own, Failure, Report
  <2> HIDE DEF a
  <2>3. Undelivered(id)' = Undelivered(id)
    BY <2>1, <2>2, RingUndelivered
  <2> QED BY <1>1, <2>1, <2>3
<1>7. CASE RestAnswer
  <2> DEFINE w == worker.sub.id
             o == venue[w]
  <2>1. worker.stage = "answer" /\ UNCHANGED <<wire, venue, ws_result_queue>>
    BY <1>7 DEF RestAnswer, stream
  <2>2. w \in DOMAIN venue /\ o.executed \in Nat /\ w.node \in Nodes
    BY <1>2, <2>1 DEF VenueOK, VenueOrder, WInv, WorkerFresh
  <2>3. CASE WsActive
    <3> DEFINE a == Report("REST", w, TRUE, 0, FALSE, FALSE)
    <3>1. ResultPush(a)
      BY <1>7, <2>3 DEF RestAnswer
    <3>2. a \in Command /\ Own(a, id) = 0
      <4>1. a \in Command
        BY <1>2, ReportTyped
      <4> QED BY <4>1 DEF Own, Report
    <3> HIDE DEF a
    <3>3. Undelivered(id)' = Undelivered(id)
      BY <2>1, <3>1, <3>2, RingUndelivered
    <3> QED BY <1>1, <2>1, <3>3
  <2>4. CASE ~WsActive
    <3> DEFINE a == Report("REST", w, TRUE, o.executed, o.status = "filled", o.status = "ended")
    <3>1. ResultPush(a)
      BY <1>7, <2>4 DEF RestAnswer
    <3>2. a \in Command /\ Own(a, id) = IF w = id THEN o.executed ELSE 0
      <4>1. a \in Command
        BY <1>2, <2>2, ReportTyped
      <4> QED BY <4>1 DEF Own, Report
    <3> HIDE DEF a
    <3>3. /\ Undelivered(id)' <= Undelivered(id) + Own(a, id)
          /\ Own(a, id) = 0 => Undelivered(id)' = Undelivered(id)
      BY <2>1, <3>1, <3>2, RingUndelivered
    <3>4. mode = "rest"
      BY <2>1, <2>4 DEF RInv, WorkSent, QueueOrdered, Live, WsActive
    <3>5. CASE w = id
      <4>1. Undelivered(id) = 0
        BY <2>1, <3>4, <3>5 DEF WInv, WorkerFresh
      <4>2. Exec(venue', id) = o.executed
        BY <2>1, <2>2, <3>5 DEF Exec
      <4>3. Undelivered(id)' <= Exec(venue', id)
        BY <2>2, <3>2, <3>3, <3>5, <4>1, <4>2
      <4> QED BY <3>4, <4>1, <4>3
    <3>6. CASE w # id
      BY <1>1, <2>1, <3>2, <3>3, <3>6
    <3> QED BY <3>5, <3>6
  <2> QED BY <2>3, <2>4
<1>8. CASE WsReceive \/ StreamBreaks
  <2>1. Undelivered(id)' <= Undelivered(id)
    BY <1>8, StreamUndelivered
  <2>2. venue' = venue
    BY <1>8 DEF WsReceive, StreamBreaks
  <2>3. Undelivered(id)' \in Int
    <3>1. wire' \in Seq(Command) /\ ws_result_queue' \in Seq(Command)
      <4>1. CASE WsReceive
        BY <4>1, HeadTyped, OfferTyped DEF WsReceive, IInv, OmsTypeOK, RoadOK
      <4>2. CASE StreamBreaks
        BY <4>2 DEF StreamBreaks, IInv, OmsTypeOK, RoadOK
      <4> QED BY <1>8, <4>1, <4>2
    <3>2. Told(wire', id) \in Nat /\ Told(ws_result_queue', id) \in Nat
      BY <3>1, ToldNat
    <3>3. UNCHANGED result_rings
      BY <1>8 DEF WsReceive, StreamBreaks
    <3> QED BY <3>2, <3>3, ToldTyped DEF Undelivered, Unmoved
  <2> QED BY <1>1, <2>1, <2>2, <2>3
<1>9. ASSUME NEW v \in DOMAIN venue, VenueTrades(v)
      PROVE  Undelivered(id)' + Exec(venue, id) <= Undelivered(id) + Exec(venue', id)
  <2>1. PICK q \in 1 .. venue[v].qty - venue[v].executed :
          LET done == venue[v].executed + q = venue[v].qty
          IN /\ venue' = [venue EXCEPT ![v].executed = @ + q,
                                       ![v].status = IF done THEN "filled" ELSE "open"]
             /\ Tells(Report("WS", v, TRUE, q, done, FALSE))
    BY <1>9 DEF VenueTrades
  <2>2. v \in OrderId /\ venue[v] \in VenueOrder /\ q \in Nat
    BY <1>2 DEF VenueOK, VenueOrder
  <2> DEFINE a == Report("WS", v, TRUE, q, venue[v].executed + q = venue[v].qty, FALSE)
  <2>3. Tells(a) /\ UNCHANGED <<ws_result_queue, result_rings>>
    BY <1>9, <2>1 DEF VenueTrades
  <2>4. a \in Command /\ Own(a, id) = IF v = id THEN q ELSE 0
    <3>1. a \in Command
      BY <2>2, ReportTyped
    <3> QED BY <3>1 DEF Own, Report
  <2> HIDE DEF a
  <2>5. Undelivered(id)' <= Undelivered(id) + Own(a, id)
    BY <2>3, <2>4, WireUndelivered
  <2>6. Exec(venue', id) = Exec(venue, id) + (IF v = id THEN q ELSE 0)
    <3>1. DOMAIN venue' = DOMAIN venue /\ \A i \in DOMAIN venue \ {v} : venue'[i] = venue[i]
      BY <2>1
    <3>2. venue'[v].executed = venue[v].executed + q
      BY <2>1, <2>2 DEF VenueOrder
    <3>3. CASE v = id
      BY <1>9, <3>1, <3>2, <3>3 DEF Exec
    <3>4. CASE v # id
      <4>1. Exec(venue', id) = Exec(venue, id)
        BY <3>1, <3>4 DEF Exec
      <4> QED BY <1>1, <3>4, <4>1
    <3> QED BY <3>3, <3>4
  <2>7. Undelivered(id)' \in Int
    <3>1. wire' \in Seq(Command)
      BY <2>3, <2>4, TellsTyped DEF IInv, OmsTypeOK, RoadOK
    <3>2. Told(wire', id) \in Nat
      BY <3>1, ToldNat
    <3> QED BY <2>3, <3>2, ToldTyped DEF Undelivered, Unmoved
  <2> QED BY <1>1, <2>2, <2>4, <2>5, <2>6, <2>7
<1>10. ASSUME NEW v \in DOMAIN venue, VenueEnds(v)
       PROVE  Undelivered(id)' + Exec(venue, id) <= Undelivered(id) + Exec(venue', id)
  <2> DEFINE a == Report("WS", v, TRUE, 0, FALSE, TRUE)
  <2>1. /\ venue' = [venue EXCEPT ![v].status = "ended"] /\ Tells(a)
        /\ UNCHANGED <<ws_result_queue, result_rings>>
    BY <1>10 DEF VenueEnds
  <2>2. v \in OrderId /\ venue[v] \in VenueOrder
    BY <1>2 DEF VenueOK
  <2>3. a \in Command /\ Own(a, id) = 0
    <3>1. a \in Command
      BY <2>2, ReportTyped
    <3> QED BY <3>1 DEF Own, Report
  <2> HIDE DEF a
  <2>4. Undelivered(id)' = Undelivered(id)
    BY <2>1, <2>3, WireUndelivered
  <2>5. Exec(venue', id) = Exec(venue, id)
    <3>1. DOMAIN venue' = DOMAIN venue /\ \A i \in DOMAIN venue \ {v} : venue'[i] = venue[i]
      BY <2>1
    <3>2. venue'[v].executed = venue[v].executed
      BY <2>1, <2>2 DEF VenueOrder
    <3> QED BY <3>1, <3>2 DEF Exec
  <2> QED BY <1>1, <2>4, <2>5
<1> QED BY <1>3, <1>4, <1>5, <1>6, <1>7, <1>8, <1>9, <1>10 DEF AdapterNext

(* Nobody has told of an order that has not left the queue.                 *)
LEMMA Untold ==
  ASSUME RInv, NEW id \in OrderId, id.node \in Nodes,
         ~Sent(id, next_order_id, submission_queue)
  PROVE  Undelivered(id) = 0 /\ id \notin DOMAIN venue
<1>1. \A q \in Seq(SoundNow) : Told(q, id) = 0
  <2> SUFFICES ASSUME NEW q \in Seq(SoundNow) PROVE Told(q, id) = 0
    OBVIOUS
  <2>1. \A c \in SoundNow : c \in Command /\ c.id # id
    BY DEF SoundNow, Sound, Command
  <2>2. q \in Seq(Command)
    BY <2>1, SeqGrows
  <2>3. \A i \in 1 .. Len(q) : q[i] \in SoundNow
    OBVIOUS
  <2> QED BY <2>1, <2>2, <2>3, ToldNone
<1>2. /\ close_bucket \in Seq(SoundNow) /\ open_bucket \in Seq(SoundNow)
      /\ result_rings[id.node] \in Seq(SoundNow)
      /\ ws_result_queue \in Seq(SoundNow) /\ wire \in Seq(SoundNow)
  BY DEF RInv, RoadSound, BucketsSound
<1>3. Undelivered(id) = 0
  BY <1>1, <1>2 DEF Undelivered
<1> QED BY <1>3 DEF RInv, WorkSent

LEMMA AdapterFresh ==
  ASSUME IInv, RInv, WInv, AdapterNext, Unmoved
  PROVE  RingsRouted' /\ WorkerFresh'
<1>1. /\ RingsRouted /\ worker.sub \in Submission /\ worker.sub.id \in OrderId
      /\ result_rings \in [Nodes -> Seq(Command)]
  BY DEF WInv, IInv, OmsTypeOK, VenueOK, RoadOK, Submission
<1>2. RingsRouted'
  <2>1. ASSUME NEW cmd \in Command, ResultPush(cmd) PROVE RingsRouted'
    BY <1>1, <2>1, PushRouted
  <2>2. ASSUME UNCHANGED result_rings PROVE RingsRouted'
    BY <1>1, <2>2 DEF RingsRouted
  <2>3. CASE VenueRefuses \/ RestAnswerLost
    <3>1. ResultPush(Failure("REST", worker.sub.id))
      BY <2>3 DEF VenueRefuses, RestAnswerLost
    <3> QED BY <1>1, <2>1, <3>1, FailureTyped
  <2>4. CASE RestAnswer
    <3>1. worker.sub.id \in DOMAIN venue /\ venue[worker.sub.id] \in VenueOrder
      BY <2>4 DEF RestAnswer, IInv, OmsTypeOK, VenueOK
    <3>2. PICK qty \in Nat, complete \in BOOLEAN, terminal \in BOOLEAN :
            ResultPush(Report("REST", worker.sub.id, TRUE, qty, complete, terminal))
      BY <2>4, <3>1 DEF RestAnswer, VenueOrder
    <3>3. Report("REST", worker.sub.id, TRUE, qty, complete, terminal) \in Command
      BY <1>1, ReportTyped
    <3> QED BY <2>1, <3>2, <3>3
  <2>5. ~(VenueRefuses \/ RestAnswerLost \/ RestAnswer) => UNCHANGED result_rings
    BY DEF AdapterNext, WorkerPop, VenueAccepts, ShutdownState, WsReceive, StreamBreaks,
           StreamConnects, VenueTrades, VenueEnds
  <2> QED BY <2>2, <2>3, <2>4, <2>5
<1>3. WorkerFresh'
  <2>1. CASE WorkerPop
    <3>1. /\ submission_queue # << >>
          /\ worker' = [stage |-> "call", sub |-> Head(submission_queue)]
          /\ UNCHANGED <<mode, venue, wire, result_rings, ws_result_queue>>
      BY <2>1 DEF WorkerPop, stream
    <3> DEFINE w == Head(submission_queue).id
    <3>2. worker'.stage = "call" /\ worker'.sub.id = w
      BY <3>1
    <3>3. w \in OrderId /\ w.node \in Nodes
      <4>1. /\ 1 \in 1 .. Len(submission_queue) /\ Head(submission_queue) = submission_queue[1]
            /\ Head(submission_queue) \in Submission
        BY <3>1 DEF IInv, OmsTypeOK, RoadOK
      <4>2. w.slot \in order_bitmap /\ orders[w.slot].id = w
        BY <4>1 DEF RInv, TableOwes, Owes, Carries
      <4>3. orders[w.slot].id.node = NodeOf(orders[w.slot].pslot) /\ orders[w.slot].pslot \in Slots
        BY <4>2 DEF IInv, OmsTypeOK, TableConsistent, TableOK, Order
      <4>4. NodeOf(orders[w.slot].pslot) \in Nodes
        BY <4>3, OmsAssumption
      <4> QED BY <4>1, <4>2, <4>3, <4>4 DEF Submission
    <3>4. \A id \in OrderId : id = w => Undelivered(id) = 0 /\ id \notin DOMAIN venue
      <4>1. /\ 1 \in 1 .. Len(submission_queue) /\ Head(submission_queue) = submission_queue[1]
        BY <3>1 DEF IInv, OmsTypeOK, RoadOK
      <4>2. ~Sent(w, next_order_id, submission_queue)
        BY <3>3, <4>1 DEF Sent, OrderId
      <4> HIDE DEF w
      <4> QED BY <3>3, <4>2, Untold
    <3>5. \A id \in OrderId : Undelivered(id)' = Undelivered(id)
      BY <3>1, SameUndelivered
    <3> HIDE DEF w
    <3> QED BY <3>1, <3>2, <3>3, <3>4, <3>5 DEF WorkerFresh
  <2>2. CASE VenueRefuses \/ RestAnswer \/ RestAnswerLost
    <3>1. worker' = Idle
      BY <2>2 DEF VenueRefuses, RestAnswer, RestAnswerLost
    <3>2. worker'.stage = "idle"
      BY <3>1 DEF Idle
    <3> QED BY <3>2 DEF WorkerFresh
  <2>3. CASE ~(WorkerPop \/ VenueRefuses \/ RestAnswer \/ RestAnswerLost)
    <3>1. mode' = mode
      BY DEF AdapterNext, WorkerPop, VenueAccepts, VenueRefuses, RestAnswer, RestAnswerLost,
             ShutdownState, WsReceive, StreamBreaks, StreamConnects, VenueTrades, VenueEnds
    <3>2. /\ worker'.sub = worker.sub
          /\ worker.stage = "idle" => worker'.stage = "idle"
          /\ worker'.stage = "call"
               => worker.stage = "call" /\ (worker.sub.id \notin DOMAIN venue
                                              => worker.sub.id \notin DOMAIN venue')
      <4>1. CASE VenueAccepts
        <5>1. worker.stage = "call" /\ worker' = [worker EXCEPT !.stage = "answer"]
          BY <4>1 DEF VenueAccepts
        <5>2. worker \in [stage : {"idle", "call", "answer"}, sub : Submission]
          BY DEF IInv, OmsTypeOK, VenueOK
        <5> QED BY <5>1, <5>2
      <4>2. CASE ~VenueAccepts
        <5>1. worker' = worker
          BY <2>3, <4>2 DEF AdapterNext, ShutdownState, WsReceive, StreamBreaks, StreamConnects,
                            VenueTrades, VenueEnds
        <5>2. DOMAIN venue' = DOMAIN venue
          BY <2>3, <4>2 DEF AdapterNext, ShutdownState, WsReceive, StreamBreaks, StreamConnects,
                            VenueTrades, VenueEnds
        <5> QED BY <5>1, <5>2
      <4> QED BY <4>1, <4>2
    <3>3. ASSUME worker'.stage # "idle", mode = "rest", NEW id \in OrderId, id = worker.sub.id
          PROVE  Undelivered(id)' = 0
      <4>1. worker.stage # "idle" /\ Undelivered(id) = 0 /\ id.node \in Nodes
        BY <3>2, <3>3 DEF WInv, WorkerFresh
      <4>2. ~connected
        BY <3>3 DEF RInv, WorkSent, WsActive
      <4>3. CASE VenueAccepts \/ ShutdownState \/ StreamConnects
        <5>1. UNCHANGED <<result_rings, ws_result_queue, wire>>
          BY <4>3 DEF VenueAccepts, ShutdownState, StreamConnects, stream
        <5> QED BY <4>1, <5>1, SameUndelivered
      <4>4. CASE StreamBreaks
        BY <4>2, <4>4 DEF StreamBreaks
      <4>5. CASE \E v \in DOMAIN venue : VenueTrades(v) \/ VenueEnds(v)
        <5>1. UNCHANGED <<result_rings, ws_result_queue, wire>>
          BY <4>2, <4>5 DEF VenueTrades, VenueEnds, Tells
        <5> QED BY <4>1, <5>1, SameUndelivered
      <4>6. CASE WsReceive
        <5>1. Undelivered(id)' <= 0
          BY <4>1, <4>6, StreamUndelivered
        <5>2. Undelivered(id)' \in Nat
          <6>1. /\ close_bucket \in Seq(Command) /\ open_bucket \in Seq(Command)
                /\ result_rings[id.node] \in Seq(Command)
            BY <4>1 DEF IInv, OmsTypeOK, QueuesOK, RoadOK
          <6>2. wire' \in Seq(Command) /\ ws_result_queue' \in Seq(Command)
            BY <4>6, HeadTyped, OfferTyped DEF WsReceive, IInv, OmsTypeOK, RoadOK
          <6>3. UNCHANGED <<result_rings, close_bucket, open_bucket>>
            BY <4>6 DEF WsReceive, Unmoved
          <6>4. /\ Told(close_bucket, id) \in Nat /\ Told(open_bucket, id) \in Nat
                /\ Told(result_rings[id.node], id) \in Nat
                /\ Told(wire', id) \in Nat /\ Told(ws_result_queue', id) \in Nat
            BY <6>1, <6>2, ToldNat
          <6> QED BY <6>3, <6>4 DEF Undelivered
        <5> QED BY <5>1, <5>2
      <4> QED BY <2>3, <4>3, <4>4, <4>5, <4>6 DEF AdapterNext
    <3>4. worker'.stage # "idle" => worker.sub.id.node \in Nodes
      BY <3>2 DEF WInv, WorkerFresh
    <3>5. worker'.stage = "call" => worker.sub.id \notin DOMAIN venue'
      BY <3>2 DEF WInv, WorkerFresh
    <3> QED BY <3>1, <3>2, <3>3, <3>4, <3>5 DEF WorkerFresh
  <2> QED BY <2>1, <2>2, <2>3
<1> QED BY <1>2, <1>3

LEMMA AdapterWithin ==
  ASSUME IInv, RInv, WInv, IInv', Adapter
  PROVE  WInv'
<1>1. AdapterNext /\ Unmoved /\ UNCHANGED <<order_bitmap, orders>>
  BY DEF Adapter, omsVars, tableVars, Unmoved
<1>2. mode' = mode
  BY <1>1 DEF AdapterNext, WorkerPop, VenueAccepts, VenueRefuses, RestAnswer, RestAnswerLost,
         ShutdownState, WsReceive, StreamBreaks, StreamConnects, VenueTrades, VenueEnds
<1>3. ASSUME Live, NEW k \in order_bitmap, NEW id \in OrderId, orders[k].id = id
      PROVE  orders[k].filled + Undelivered(id)' <= Exec(venue', id)
  <2>1. id.node \in Nodes /\ orders[k].filled \in Nat
    BY <1>3, TableNodes
  <2>2. orders[k].filled + Undelivered(id) <= Exec(venue, id)
    BY <1>3 DEF WInv, Within
  <2>3. Undelivered(id) \in Nat /\ Exec(venue, id) \in Nat
    BY <2>1, ToldTyped, ExecTyped DEF IInv, OmsTypeOK
  <2>4. mode = "rest" => orders[k].filled = 0
    BY DEF RInv, TableOwes, Owes, Untouched
  <2>5. \/ Undelivered(id)' + Exec(venue, id) <= Undelivered(id) + Exec(venue', id)
        \/ mode = "rest" /\ Undelivered(id) = 0 /\ Undelivered(id)' <= Exec(venue', id)
    BY <1>1, <2>1, AdapterGrows
  <2>6. Undelivered(id)' \in Nat /\ Exec(venue', id) \in Nat
    BY <2>1, NextTyped
  <2> QED BY <2>1, <2>2, <2>3, <2>4, <2>5, <2>6
<1>4. Within'
  BY <1>1, <1>2, <1>3 DEF Within, Live
<1> QED BY <1>1, <1>4, AdapterFresh DEF WInv

-----------------------------------------------------------------------------
(* The drainer.  What it moves stays under way, and what it books is no     *)
(* longer.                                                                  *)
LEMMA Lessens ==
  ASSUME IInv, IInv', WInv, RingsRouted',
         UNCHANGED <<mode, order_bitmap, orders, venue, worker>>,
         \A id \in OrderId : id.node \in Nodes => Undelivered(id)' <= Undelivered(id)
  PROVE  WInv'
<1>1. WorkerFresh'
  <2>1. ASSUME worker.stage # "idle", mode = "rest", NEW id \in OrderId, id = worker.sub.id
        PROVE  Undelivered(id)' = 0
    <3>1. id.node \in Nodes /\ Undelivered(id) = 0
      BY <2>1 DEF WInv, WorkerFresh
    <3>2. Undelivered(id)' <= 0 /\ Undelivered(id)' \in Nat
      BY <3>1, NextTyped
    <3> QED BY <3>2
  <2>2. worker.stage # "idle" =>
          /\ worker.sub.id.node \in Nodes
          /\ worker.stage = "call" => worker.sub.id \notin DOMAIN venue
    BY DEF WInv, WorkerFresh
  <2> QED BY <2>1, <2>2 DEF WorkerFresh
<1>2. Within'
  <2>1. ASSUME Live, NEW k \in order_bitmap, NEW id \in OrderId, orders[k].id = id
        PROVE  orders[k].filled + Undelivered(id)' <= Exec(venue, id)
    <3>1. id.node \in Nodes /\ orders[k].filled \in Nat
      BY <2>1, TableNodes
    <3>2. orders[k].filled + Undelivered(id) <= Exec(venue, id)
      BY <2>1 DEF WInv, Within
    <3>3. Undelivered(id) \in Nat /\ Exec(venue, id) \in Nat
      BY <3>1, ToldTyped, ExecTyped DEF IInv, OmsTypeOK
    <3>4. Undelivered(id)' <= Undelivered(id) /\ Undelivered(id)' \in Nat
      BY <3>1, NextTyped
    <3> QED BY <3>1, <3>2, <3>3, <3>4
  <2> QED BY <2>1 DEF Within, Live
<1> QED BY <1>1, <1>2 DEF WInv

BucketsHaveRoom == Len(close_bucket) < BucketCap /\ Len(open_bucket) < BucketCap

LEMMA BucketTold ==
  ASSUME QueuesOK, NEW cmd \in Command, Bucket(cmd), NEW id
  PROVE  /\ Told(close_bucket', id) + Told(open_bucket', id)
              <= Told(close_bucket, id) + Told(open_bucket, id) + Own(cmd, id)
         /\ BucketsHaveRoom => Told(close_bucket', id) + Told(open_bucket', id)
                                 = Told(close_bucket, id) + Told(open_bucket, id) + Own(cmd, id)
<1>1. close_bucket \in Seq(Command) /\ open_bucket \in Seq(Command)
  BY DEF QueuesOK
<1>2. Told(close_bucket, id) \in Nat /\ Told(open_bucket, id) \in Nat /\ Own(cmd, id) \in Nat
  BY <1>1, ToldNat DEF Own, Command
<1>3. /\ Told(Offer(close_bucket, cmd, BucketCap), id) <= Told(close_bucket, id) + Own(cmd, id)
      /\ Told(Offer(open_bucket, cmd, BucketCap), id) <= Told(open_bucket, id) + Own(cmd, id)
      /\ BucketsHaveRoom =>
           /\ Told(Offer(close_bucket, cmd, BucketCap), id) = Told(close_bucket, id) + Own(cmd, id)
           /\ Told(Offer(open_bucket, cmd, BucketCap), id) = Told(open_bucket, id) + Own(cmd, id)
  BY <1>1, ToldOffer DEF BucketsHaveRoom
<1>4. /\ Told(Offer(close_bucket, cmd, BucketCap), id) \in Nat
      /\ Told(Offer(open_bucket, cmd, BucketCap), id) \in Nat
  BY <1>1, OfferTyped, ToldNat
<1>5. \/ close_bucket' = Offer(close_bucket, cmd, BucketCap) /\ open_bucket' = open_bucket
      \/ open_bucket' = Offer(open_bucket, cmd, BucketCap) /\ close_bucket' = close_bucket
  BY DEF Bucket
<1>6. CASE close_bucket' = Offer(close_bucket, cmd, BucketCap) /\ open_bucket' = open_bucket
  BY <1>2, <1>3, <1>4, <1>6
<1>7. CASE open_bucket' = Offer(open_bucket, cmd, BucketCap) /\ close_bucket' = close_bucket
  BY <1>2, <1>3, <1>4, <1>7
<1> QED BY <1>5, <1>6, <1>7

LEMMA DrainTold ==
  ASSUME IInv, IInv', WInv, DrainResult \/ DrainWs, NEW id \in OrderId, id.node \in Nodes
  PROVE  /\ Undelivered(id)' <= Undelivered(id)
         /\ BucketsHaveRoom => Undelivered(id)' = Undelivered(id)
<1> DEFINE ring == result_rings[id.node]
           ring2 == result_rings'[id.node]
<1>1. /\ Told(close_bucket, id) \in Nat /\ Told(open_bucket, id) \in Nat
      /\ Told(ring, id) \in Nat
      /\ Told(ws_result_queue, id) \in Nat /\ Told(wire, id) \in Nat
  BY ToldTyped
<1>2. /\ close_bucket' \in Seq(Command) /\ open_bucket' \in Seq(Command)
      /\ ring2 \in Seq(Command) /\ ws_result_queue' \in Seq(Command)
  BY DEF IInv, OmsTypeOK, QueuesOK, RoadOK
<1>3. /\ Told(close_bucket', id) \in Nat /\ Told(open_bucket', id) \in Nat
      /\ Told(ring2, id) \in Nat /\ Told(ws_result_queue', id) \in Nat
  BY <1>2, ToldNat
<1>4. wire' = wire /\ QueuesOK
  BY DEF DrainResult, DrainWs, stream, IInv, OmsTypeOK
<1>5. CASE DrainResult
  <2> DEFINE n == Min(Filled)
             cmd == Head(result_rings[n])
  <2>1. n \in Nodes /\ result_rings[n] # << >>
    <3>1. Filled \in SUBSET Nat /\ Filled # {}
      BY <1>5, AdapterAssumption DEF Filled, DrainResult
    <3> QED BY <3>1, MinIsMember DEF Filled
  <2>2. /\ Bucket(cmd) /\ result_rings' = [result_rings EXCEPT ![n] = Tail(@)]
        /\ ws_result_queue' = ws_result_queue
    BY <1>5 DEF DrainResult
  <2> HIDE DEF n
  <2>3. result_rings[n] \in Seq(RoutedTo(n)) /\ result_rings[n] \in Seq(Command)
        /\ result_rings \in [Nodes -> Seq(Command)]
    BY <2>1 DEF WInv, RingsRouted, IInv, OmsTypeOK, RoadOK
  <2>4. cmd \in Command /\ cmd.id.node = n
    <3>1. cmd \in RoutedTo(n)
      BY <2>1, <2>3, HeadTyped
    <3> QED BY <3>1 DEF RoutedTo
  <2>5. Own(cmd, id) \in Nat
    BY <2>4 DEF Own, Command
  <2>6. Told(ring2, id) + Own(cmd, id) = Told(ring, id)
    <3>1. CASE id.node = n
      <4>1. Told(ring, id) = Own(cmd, id) + Told(Tail(ring), id)
        BY <2>1, <2>3, <3>1, ToldTail
      <4>2. ring2 = Tail(ring)
        BY <2>1, <2>2, <2>3, <3>1
      <4> HIDE DEF cmd, ring, ring2
      <4> QED BY <1>3, <2>5, <4>1, <4>2
    <3>2. CASE id.node # n
      <4>1. ring2 = ring
        BY <2>1, <2>2, <2>3, <3>2
      <4>2. Own(cmd, id) = 0
        BY <2>4, <3>2 DEF Own
      <4> HIDE DEF cmd, ring, ring2
      <4> QED BY <1>1, <4>1, <4>2
    <3> QED BY <3>1, <3>2
  <2> HIDE DEF cmd
  <2>7. /\ Told(close_bucket', id) + Told(open_bucket', id)
             <= Told(close_bucket, id) + Told(open_bucket, id) + Own(cmd, id)
        /\ BucketsHaveRoom => Told(close_bucket', id) + Told(open_bucket', id)
                                = Told(close_bucket, id) + Told(open_bucket, id) + Own(cmd, id)
    BY <1>4, <2>2, <2>4, BucketTold
  <2> HIDE DEF ring, ring2
  <2>8. Undelivered(id)' = Told(close_bucket', id) + Told(open_bucket', id) + Told(ring2, id)
          + Told(ws_result_queue, id) + Told(wire, id)
    BY <1>4, <2>2 DEF Undelivered, ring2
  <2>9. Undelivered(id) = Told(close_bucket, id) + Told(open_bucket, id) + Told(ring, id)
          + Told(ws_result_queue, id) + Told(wire, id)
    BY DEF Undelivered, ring
  <2> QED BY <1>1, <1>3, <2>5, <2>6, <2>7, <2>8, <2>9
<1>6. CASE DrainWs /\ ws_result_queue # << >>
  <2> DEFINE cmd == Head(ws_result_queue)
  <2>1. /\ Bucket(cmd) /\ ws_result_queue' = Tail(ws_result_queue) /\ ring2 = ring
    BY <1>6 DEF DrainWs
  <2>2. cmd \in Command /\ ws_result_queue \in Seq(Command)
    BY <1>6, HeadTyped DEF IInv, OmsTypeOK, RoadOK
  <2>3. Told(ws_result_queue, id) = Own(cmd, id) + Told(ws_result_queue', id)
    BY <1>6, <2>1, <2>2, ToldTail
  <2>4. Own(cmd, id) \in Nat
    BY <2>2 DEF Own, Command
  <2> HIDE DEF cmd
  <2>5. /\ Told(close_bucket', id) + Told(open_bucket', id)
             <= Told(close_bucket, id) + Told(open_bucket, id) + Own(cmd, id)
        /\ BucketsHaveRoom => Told(close_bucket', id) + Told(open_bucket', id)
                                = Told(close_bucket, id) + Told(open_bucket, id) + Own(cmd, id)
    BY <1>4, <2>1, <2>2, BucketTold
  <2>6. Undelivered(id)' = Told(close_bucket', id) + Told(open_bucket', id) + Told(ring, id)
          + Told(ws_result_queue', id) + Told(wire, id)
    BY <1>4, <2>1 DEF Undelivered
  <2>7. Undelivered(id) = Told(close_bucket, id) + Told(open_bucket, id) + Told(ring, id)
          + Told(ws_result_queue, id) + Told(wire, id)
    BY DEF Undelivered
  <2> HIDE DEF ring, ring2
  <2> QED BY <1>1, <1>3, <2>3, <2>4, <2>5, <2>6, <2>7
<1>7. CASE DrainWs /\ ws_result_queue = << >>
  <2>1. UNCHANGED <<close_bucket, open_bucket, result_rings, ws_result_queue, wire>>
    BY <1>4, <1>7 DEF DrainWs
  <2>2. Undelivered(id)' = Undelivered(id)
    BY <2>1 DEF Undelivered
  <2> QED BY <1>1, <2>2, ToldTyped
<1> QED BY <1>5, <1>6, <1>7

LEMMA DrainWithin ==
  ASSUME IInv, IInv', WInv, DrainResult \/ DrainWs
  PROVE  WInv'
<1>1. UNCHANGED <<mode, order_bitmap, orders, venue, worker>>
  BY DEF DrainResult, DrainWs, tableVars
<1>2. \A id \in OrderId : id.node \in Nodes => Undelivered(id)' <= Undelivered(id)
  BY DrainTold
<1>3. RingsRouted'
  <2> SUFFICES ASSUME NEW n \in Nodes PROVE result_rings'[n] \in Seq(RoutedTo(n))
    BY DEF RingsRouted
  <2>1. result_rings[n] \in Seq(RoutedTo(n)) /\ result_rings \in [Nodes -> Seq(Command)]
    BY DEF WInv, RingsRouted, IInv, OmsTypeOK, RoadOK
  <2>2. \/ result_rings'[n] = result_rings[n]
        \/ result_rings[n] # << >> /\ result_rings'[n] = Tail(result_rings[n])
    <3>1. CASE DrainResult
      <4> DEFINE m == Min(Filled)
      <4>1. m \in Filled
        <5>1. Filled \in SUBSET Nat /\ Filled # {}
          BY <3>1, AdapterAssumption DEF Filled, DrainResult
        <5> QED BY <5>1, MinIsMember
      <4>2. result_rings' = [result_rings EXCEPT ![m] = Tail(@)]
        BY <3>1 DEF DrainResult
      <4> HIDE DEF m
      <4> QED BY <2>1, <4>1, <4>2 DEF Filled
    <3>2. CASE DrainWs
      BY <3>2 DEF DrainWs
    <3> QED BY <3>1, <3>2
  <2> QED BY <2>1, <2>2, HeadTyped
<1> QED BY <1>1, <1>2, <1>3, Lessens

(* The steps that leave every order and every report where they are.        *)
LEMMA PassWithin ==
  ASSUME IInv, IInv', WInv, Still \/ \E s \in Slots : Asks(s)
  PROVE  WInv'
<1>1. UNCHANGED <<adapterVars, tableVars, close_bucket, open_bucket>>
  BY DEF Still, Asks
<1>2. UNCHANGED <<mode, order_bitmap, orders, venue, worker, result_rings, ws_result_queue, wire>>
      /\ Unmoved
  BY <1>1 DEF adapterVars, stream, tableVars, Unmoved
<1>3. \A id \in OrderId : id.node \in Nodes => Undelivered(id)' <= Undelivered(id)
  BY <1>2, SameUndelivered, ToldTyped
<1>4. RingsRouted'
  BY <1>2 DEF WInv, RingsRouted
<1> QED BY <1>2, <1>3, <1>4, Lessens

(* What a submission does to the table and to the rings.                    *)
LEMMA SubmitBooks ==
  ASSUME RingsRouted, RoadOK, next_order_id \in Nat, NEW s \in Slots, NEW cmd \in SubmitCommands,
         NEW bm \in SUBSET OrderSlots, NEW ords \in [OrderSlots -> Order],
         Submit(s, cmd, bm, ords)
  PROVE  /\ RingsRouted' /\ (Live => result_rings' = result_rings)
         /\ \A k \in order_bitmap' :
              \/ k \in bm /\ orders'[k] = ords[k]
              \/ orders'[k].id.n = next_order_id /\ orders'[k].filled = 0
<1> DEFINE free == OrderSlots \ bm
           j    == Min(free)
           o    == NewOrder(s, cmd, j)
<1>1. CASE UNCHANGED result_rings /\ order_bitmap' = bm
           /\ \/ orders' = ords
              \/ /\ free # {}
                 /\ orders' = [ords EXCEPT ![j] = [o EXCEPT !.state = "REJECTED"]]
  <2>1. RingsRouted'
    BY <1>1 DEF RingsRouted
  <2>2. free # {} => j \notin bm
    <3>1. free \in SUBSET Nat
      BY OmsAssumption
    <3>2. free # {} => j \in free
      BY <3>1, MinIsMember
    <3> QED BY <3>2
  <2> HIDE DEF j, o, free
  <2>3. \A k \in bm : orders'[k] = ords[k]
    BY <1>1, <2>2
  <2> QED BY <1>1, <2>1, <2>3
<1>2. CASE free # {} /\ order_bitmap' = bm \cup {j} /\ orders' = [ords EXCEPT ![j] = o]
           /\ (UNCHANGED result_rings \/ (~Live /\ ResultPush(SynthFill(o))))
  <2>1. j \in free
    <3>1. free \in SUBSET Nat
      BY OmsAssumption
    <3> QED BY <1>2, <3>1, MinIsMember
  <2>2. o \in Order /\ o.id.node = NodeOf(s) /\ o.id.n = next_order_id /\ o.filled = 0
    <3>1. o \in Order
      BY <2>1, NewOrderTyped
    <3> QED BY <3>1 DEF NewOrder
  <2> HIDE DEF o, j
  <2>3. RingsRouted'
    <3>1. SynthFill(o) \in Command
      BY <2>2, ReportTyped DEF SynthFill, Order
    <3>2. CASE UNCHANGED result_rings
      BY <3>2 DEF RingsRouted
    <3>3. CASE ResultPush(SynthFill(o))
      BY <3>1, <3>3, PushRouted DEF RoadOK
    <3> QED BY <1>2, <3>2, <3>3
  <2>4. \A k \in bm : orders'[k] = ords[k]
    BY <1>2, <2>1
  <2>5. orders'[j] = o
    BY <1>2, <2>1
  <2> QED BY <1>2, <2>2, <2>3, <2>4, <2>5
<1>3. CASE free = {}
  <2>1. UNCHANGED result_rings /\ order_bitmap' = bm /\ orders' = ords
    BY <1>3 DEF Submit
  <2> HIDE DEF free, j, o
  <2> QED BY <1>1, <2>1
<1>4. CASE free # {} /\ ~Live
  <2>1. order_bitmap' = bm \cup {j} /\ orders' = [ords EXCEPT ![j] = o] /\ ResultPush(SynthFill(o))
    BY <1>4 DEF Submit
  <2> HIDE DEF free, j, o
  <2> QED BY <1>2, <1>4, <2>1
<1>5. CASE free # {} /\ Live /\ AdapterAccepts
  <2>1. order_bitmap' = bm \cup {j} /\ orders' = [ords EXCEPT ![j] = o] /\ UNCHANGED result_rings
    BY <1>5 DEF Submit
  <2> HIDE DEF free, j, o
  <2> QED BY <1>2, <1>5, <2>1
<1>6. CASE free # {} /\ Live /\ ~AdapterAccepts
  <2>1. /\ order_bitmap' = bm /\ UNCHANGED result_rings
        /\ orders' = [ords EXCEPT ![j] = [o EXCEPT !.state = "REJECTED"]]
    BY <1>6 DEF Submit
  <2> HIDE DEF free, j, o
  <2> QED BY <1>1, <1>6, <2>1
<1> QED BY <1>3, <1>4, <1>5, <1>6

(* What a report does to the table, and to the rings.                       *)
LEMMA ProcessBooks ==
  ASSUME IInv, RingsRouted, NEW cmd \in Command, ProcessFillCommand(cmd)
  PROVE  /\ RingsRouted' /\ (Live => result_rings' = result_rings)
         /\ \A k \in order_bitmap' :
              \/ /\ k \in order_bitmap /\ orders'[k].id = orders[k].id
                 /\ orders'[k].filled <= orders[k].filled + Own(cmd, orders[k].id)
              \/ orders'[k].id.n = next_order_id /\ orders'[k].filled = 0
<1> DEFINE k == cmd.id.slot
           o == orders[k]
<1>1. /\ cmd.qty \in Nat /\ \A id : Own(cmd, id) \in Nat
  BY DEF Command, Own
<1>2. /\ RoadOK /\ TableOK /\ PositionsOK /\ next_order_id \in Nat
      /\ order_bitmap \in SUBSET OrderSlots /\ orders \in [OrderSlots -> Order]
      /\ \A i \in OrderSlots : orders[i] \in Order /\ orders[i].filled \in Nat
  BY DEF IInv, OmsTypeOK, TableOK, Order
<1>3. Known(cmd) => k \in order_bitmap /\ k \in OrderSlots /\ o \in Order /\ o.id = cmd.id
  BY <1>2 DEF Known
<1>4. ASSUME UNCHANGED result_rings PROVE RingsRouted'
  BY <1>4 DEF RingsRouted
<1>5. CASE Ignored(cmd)
  <2>1. UNCHANGED <<order_bitmap, orders, result_rings>>
    BY <1>5 DEF Ignored, tableVars
  <2> QED BY <1>1, <1>2, <1>4, <2>1
<1>6. CASE Acknowledged(cmd) \/ Failed(cmd)
  <2>1. UNCHANGED result_rings /\ order_bitmap' \subseteq order_bitmap
    BY <1>6 DEF Acknowledged, Failed
  <2>2. PICK state : orders' = [orders EXCEPT ![k].state = state]
    BY <1>6 DEF Acknowledged, Failed
  <2>3. \A i \in order_bitmap : orders'[i].id = orders[i].id /\ orders'[i].filled = orders[i].filled
    BY <1>2, <2>2 DEF Order
  <2> QED BY <1>1, <1>2, <1>4, <2>1, <2>3
<1>7. CASE Booked(cmd)
  <2>1. UNCHANGED result_rings /\ order_bitmap' \subseteq order_bitmap /\ Known(cmd)
    BY <1>7 DEF Booked, Leg
  <2>2. PICK state : orders' = [orders EXCEPT ![k].filled = @ + cmd.qty, ![k].state = state]
    BY <1>7 DEF Booked
  <2>3. \A i \in order_bitmap \ {k} : orders'[i] = orders[i]
    BY <1>2, <2>2
  <2>4. orders'[k].id = orders[k].id /\ orders'[k].filled = orders[k].filled + cmd.qty
    BY <1>2, <1>3, <2>1, <2>2 DEF Order
  <2>5. Own(cmd, orders[k].id) = cmd.qty
    BY <1>3, <2>1 DEF Own
  <2> QED BY <1>1, <1>2, <1>3, <1>4, <2>1, <2>3, <2>4, <2>5
<1>8. CASE EndedShort(cmd)
  <2> DEFINE new  == [[o EXCEPT !.filled = o.filled + cmd.qty] EXCEPT !.state = "CANCELED"]
             bm   == order_bitmap \ {k}
             ords == [orders EXCEPT ![k] = new]
             over == [ords EXCEPT ![0].pre_resolved = o.pre_resolved]
             rest == SubmitCommand("SELL", AfterFill(o, cmd.qty), o.pre_resolved)
  <2>1. Known(cmd) /\ k \in order_bitmap /\ k \in OrderSlots /\ o \in Order
    BY <1>3, <1>8 DEF EndedShort, Leg
  <2>2. [orders EXCEPT ![k].filled = @ + cmd.qty, ![k].state = "CANCELED"] = ords
    BY <1>2, <2>1
  <2>3. new \in Order
    BY <1>1, <2>1, OrderMoves DEF Terminal
  <2>4. ords \in [OrderSlots -> Order] /\ \A i \in bm : ords[i] = orders[i]
    BY <1>2, <2>1, <2>3, OrdersUpdated
  <2>5. o.pslot \in Slots /\ o.pre_resolved \in Int
    BY <2>1 DEF Order
  <2>6. over \in [OrderSlots -> Order]
        /\ \A i \in bm : over[i].id = ords[i].id /\ over[i].filled = ords[i].filled
    <3>1. bm \subseteq OrderSlots
      BY <1>2
    <3> HIDE DEF ords, bm, o
    <3> QED BY <2>4, <2>5, <3>1, Rebound
  <2>7. rest \in SubmitCommands
    BY <1>1, <1>2, <2>1, <2>5, AfterFillTyped DEF SubmitCommand, SubmitCommands, Side
  <2>8. bm \in SUBSET OrderSlots
    BY <1>2
  <2>9. \/ Submit(o.pslot, rest, bm, ords)
        \/ Submit(o.pslot, rest, bm, over)
        \/ /\ order_bitmap' = bm /\ orders' = ords
           /\ UNCHANGED result_rings
    BY <1>8, <2>2 DEF EndedShort, Freed, BoundFrom
  <2> HIDE DEF ords, over, rest, bm
  <2>10. ASSUME NEW t \in [OrderSlots -> Order], Submit(o.pslot, rest, bm, t),
                \A i \in bm : t[i].id = orders[i].id /\ t[i].filled = orders[i].filled
         PROVE  /\ RingsRouted' /\ (Live => result_rings' = result_rings)
                /\ \A i \in order_bitmap' :
                     \/ /\ i \in order_bitmap /\ orders'[i].id = orders[i].id
                        /\ orders'[i].filled <= orders[i].filled + Own(cmd, orders[i].id)
                     \/ orders'[i].id.n = next_order_id /\ orders'[i].filled = 0
    <3> HIDE DEF o
    <3>1. /\ RingsRouted' /\ (Live => result_rings' = result_rings)
          /\ \A i \in order_bitmap' :
               \/ i \in bm /\ orders'[i] = t[i]
               \/ orders'[i].id.n = next_order_id /\ orders'[i].filled = 0
      BY <1>2, <2>5, <2>7, <2>8, <2>10, SubmitBooks
    <3> QED BY <1>1, <1>2, <2>10, <3>1 DEF bm
  <2>11. CASE Submit(o.pslot, rest, bm, ords)
    BY <2>4, <2>10, <2>11
  <2>12. CASE Submit(o.pslot, rest, bm, over)
    <3>1. \A i \in bm : over[i].id = orders[i].id /\ over[i].filled = orders[i].filled
      BY <2>4, <2>6
    <3> QED BY <2>6, <2>10, <2>12, <3>1
  <2>13. CASE order_bitmap' = bm /\ orders' = ords /\ UNCHANGED result_rings
    BY <1>1, <1>2, <1>4, <2>4, <2>13 DEF bm
  <2> QED BY <2>9, <2>11, <2>12, <2>13
<1> QED BY <1>5, <1>6, <1>7, <1>8 DEF ProcessFillCommand

(* What leaves the road is booked at most once, and a new order has nothing *)
(* on the road.                                                             *)
LEMMA BooksWithin ==
  ASSUME IInv, IInv', RInv, WInv, RingsRouted', UNCHANGED <<mode, venue, worker>>,
         NEW taken \in [OrderId -> Nat],
         Live => \A id \in OrderId :
                   id.node \in Nodes => Undelivered(id)' + taken[id] = Undelivered(id),
         Live => \A k \in order_bitmap' :
                   \/ /\ k \in order_bitmap /\ orders'[k].id = orders[k].id
                      /\ orders'[k].filled <= orders[k].filled + taken[orders[k].id]
                   \/ orders'[k].id.n = next_order_id /\ orders'[k].filled = 0
  PROVE  WInv'
<1>1. WorkerFresh'
  <2>1. ASSUME worker.stage # "idle", mode = "rest", NEW id \in OrderId, id = worker.sub.id
        PROVE  Undelivered(id)' = 0
    <3>1. id.node \in Nodes /\ Undelivered(id) = 0
      BY <2>1 DEF WInv, WorkerFresh
    <3>2. Undelivered(id)' \in Nat /\ taken[id] \in Nat
      BY <3>1, NextTyped
    <3>3. Undelivered(id)' + taken[id] = Undelivered(id)
      BY <2>1, <3>1 DEF Live
    <3> QED BY <3>1, <3>2, <3>3
  <2>2. worker.stage # "idle" =>
          /\ worker.sub.id.node \in Nodes
          /\ worker.stage = "call" => worker.sub.id \notin DOMAIN venue
    BY DEF WInv, WorkerFresh
  <2> QED BY <2>1, <2>2 DEF WorkerFresh
<1>2. Within'
  <2>1. ASSUME Live, NEW k \in order_bitmap', NEW id \in OrderId, orders'[k].id = id
        PROVE  orders'[k].filled + Undelivered(id)' <= Exec(venue, id)
    <3>1. id.node \in Nodes /\ orders'[k].filled \in Nat
      <4>1. /\ orders'[k] \in Order /\ orders'[k].pslot \in Slots
            /\ orders'[k].id.node = NodeOf(orders'[k].pslot)
        BY DEF IInv, OmsTypeOK, TableConsistent, TableOK, Order
      <4>2. NodeOf(orders'[k].pslot) \in Nodes
        BY <4>1, OmsAssumption
      <4> QED BY <2>1, <4>1, <4>2 DEF Order
    <3>2. Undelivered(id) \in Nat /\ Exec(venue, id) \in Nat
      BY <3>1, ToldTyped, ExecTyped DEF IInv, OmsTypeOK
    <3>3. Undelivered(id)' \in Nat /\ taken[id] \in Nat
      BY <3>1, NextTyped
    <3>4. Undelivered(id)' + taken[id] = Undelivered(id)
      BY <2>1, <3>1
    <3>5. CASE /\ k \in order_bitmap /\ orders'[k].id = orders[k].id
               /\ orders'[k].filled <= orders[k].filled + taken[orders[k].id]
      <4>1. orders[k].filled + Undelivered(id) <= Exec(venue, id)
        BY <2>1, <3>5 DEF WInv, Within
      <4>2. orders[k].filled \in Nat /\ orders'[k].filled <= orders[k].filled + taken[id]
        BY <2>1, <3>5, TableNodes
      <4> QED BY <3>1, <3>2, <3>3, <3>4, <4>1, <4>2
    <3>6. CASE orders'[k].id.n = next_order_id /\ orders'[k].filled = 0
      <4>1. ~Sent(id, next_order_id, submission_queue)
        BY <2>1, <3>6 DEF Sent, OrderId, IInv, OmsTypeOK, TableOK
      <4>2. Undelivered(id) = 0
        BY <3>1, <4>1, Untold
      <4> QED BY <3>2, <3>3, <3>4, <3>6, <4>2
    <3> QED BY <2>1, <3>5, <3>6
  <2>2. ASSUME Live, NEW k \in order_bitmap'
        PROVE  \A id \in OrderId : orders'[k].id = id
                 => orders'[k].filled + Undelivered(id)' <= Exec(venue, id)
    BY <2>1, <2>2
  <2> QED BY <2>2 DEF Within, Live
<1> QED BY <1>1, <1>2 DEF WInv

LEMMA SubmitOneWithin ==
  ASSUME IInv, IInv', RInv, WInv, NEW s \in Slots, SubmitOne(s)
  PROVE  WInv'
<1> DEFINE cmd   == Head(submit_queues[s])
           taken == [id \in OrderId |-> 0]
<1>1. /\ submit_queues[s] # << >> /\ Submit(s, cmd, order_bitmap, orders)
      /\ UNCHANGED <<mode, venue, worker, wire, ws_result_queue>> /\ Unmoved
  BY DEF SubmitOne, stream, Unmoved
<1>2. cmd \in SubmitCommands
  BY <1>1, HeadTyped DEF IInv, OmsTypeOK, QueuesOK
<1>3. /\ RoadOK /\ next_order_id \in Nat /\ order_bitmap \in SUBSET OrderSlots
      /\ orders \in [OrderSlots -> Order] /\ RingsRouted
  BY DEF IInv, OmsTypeOK, TableOK, WInv
<1> HIDE DEF cmd
<1>4. /\ RingsRouted' /\ (Live => result_rings' = result_rings)
      /\ \A k \in order_bitmap' :
           \/ k \in order_bitmap /\ orders'[k] = orders[k]
           \/ orders'[k].id.n = next_order_id /\ orders'[k].filled = 0
  BY <1>1, <1>2, <1>3, SubmitBooks
<1>5. taken \in [OrderId -> Nat] /\ \A id \in OrderId : taken[id] = 0
  OBVIOUS
<1> HIDE DEF taken
<1>6. ASSUME Live, NEW id \in OrderId, id.node \in Nodes
      PROVE  Undelivered(id)' + taken[id] = Undelivered(id)
  <2>1. Undelivered(id)' = Undelivered(id)
    BY <1>1, <1>4, <1>6, SameUndelivered
  <2>2. Undelivered(id) \in Nat
    BY <1>6, ToldTyped
  <2> QED BY <1>5, <2>1, <2>2
<1>7. ASSUME NEW k \in order_bitmap'
      PROVE  \/ /\ k \in order_bitmap /\ orders'[k].id = orders[k].id
                /\ orders'[k].filled <= orders[k].filled + taken[orders[k].id]
             \/ orders'[k].id.n = next_order_id /\ orders'[k].filled = 0
  <2>1. CASE k \in order_bitmap /\ orders'[k] = orders[k]
    <3>1. orders[k].id \in OrderId /\ orders[k].filled \in Nat
      BY <2>1, TableNodes
    <3> QED BY <1>5, <2>1, <3>1
  <2> QED BY <1>4, <2>1
<1> QED BY <1>1, <1>4, <1>5, <1>6, <1>7, BooksWithin

LEMMA BookTakes ==
  ASSUME IInv, IInv', NEW id \in OrderId, id.node \in Nodes, NEW cmd \in Command,
         UNCHANGED <<wire, ws_result_queue, result_rings>>,
         \/ /\ close_bucket # << >> /\ cmd = Head(close_bucket)
            /\ close_bucket' = Tail(close_bucket) /\ open_bucket' = open_bucket
         \/ /\ open_bucket # << >> /\ cmd = Head(open_bucket)
            /\ open_bucket' = Tail(open_bucket) /\ close_bucket' = close_bucket
  PROVE  Undelivered(id)' + Own(cmd, id) = Undelivered(id)
<1>1. /\ Told(close_bucket, id) \in Nat /\ Told(open_bucket, id) \in Nat
      /\ Told(result_rings[id.node], id) \in Nat
      /\ Told(ws_result_queue, id) \in Nat /\ Told(wire, id) \in Nat
  BY ToldTyped
<1>2. close_bucket \in Seq(Command) /\ open_bucket \in Seq(Command)
      /\ close_bucket' \in Seq(Command) /\ open_bucket' \in Seq(Command)
  BY DEF IInv, OmsTypeOK, QueuesOK
<1>3. Told(close_bucket', id) \in Nat /\ Told(open_bucket', id) \in Nat
  BY <1>2, ToldNat
<1>4. Own(cmd, id) \in Nat
  BY DEF Own, Command
<1>5. Undelivered(id)' = Told(close_bucket', id) + Told(open_bucket', id)
        + Told(result_rings[id.node], id) + Told(ws_result_queue, id) + Told(wire, id)
  BY DEF Undelivered
<1>6. Undelivered(id) = Told(close_bucket, id) + Told(open_bucket, id)
        + Told(result_rings[id.node], id) + Told(ws_result_queue, id) + Told(wire, id)
  BY DEF Undelivered
<1>7. CASE /\ close_bucket # << >> /\ cmd = Head(close_bucket)
           /\ close_bucket' = Tail(close_bucket) /\ open_bucket' = open_bucket
  <2>1. Told(close_bucket, id) = Own(cmd, id) + Told(close_bucket', id)
    BY <1>2, <1>7, ToldTail
  <2>2. Told(open_bucket', id) = Told(open_bucket, id)
    BY <1>7
  <2> QED BY <1>1, <1>3, <1>4, <1>5, <1>6, <2>1, <2>2
<1>8. CASE /\ open_bucket # << >> /\ cmd = Head(open_bucket)
           /\ open_bucket' = Tail(open_bucket) /\ close_bucket' = close_bucket
  <2>1. Told(open_bucket, id) = Own(cmd, id) + Told(open_bucket', id)
    BY <1>2, <1>8, ToldTail
  <2>2. Told(close_bucket', id) = Told(close_bucket, id)
    BY <1>8
  <2> QED BY <1>1, <1>3, <1>4, <1>5, <1>6, <2>1, <2>2
<1> QED BY <1>7, <1>8

LEMMA BookWithin ==
  ASSUME IInv, IInv', RInv, WInv, ProcessClose \/ ProcessOpen
  PROVE  WInv'
<1>1. PICK cmd \in Command :
        /\ ProcessFillCommand(cmd)
        /\ \/ /\ close_bucket # << >> /\ cmd = Head(close_bucket)
              /\ close_bucket' = Tail(close_bucket) /\ open_bucket' = open_bucket
           \/ /\ open_bucket # << >> /\ cmd = Head(open_bucket)
              /\ open_bucket' = Tail(open_bucket) /\ close_bucket' = close_bucket
  <2>1. close_bucket \in Seq(Command) /\ open_bucket \in Seq(Command)
    BY DEF IInv, OmsTypeOK, QueuesOK
  <2>2. CASE ProcessClose
    <3>1. Head(close_bucket) \in Command
      BY <2>1, <2>2, HeadTyped DEF ProcessClose
    <3> QED BY <2>2, <3>1 DEF ProcessClose
  <2>3. CASE ProcessOpen
    <3>1. Head(open_bucket) \in Command
      BY <2>1, <2>3, HeadTyped DEF ProcessOpen
    <3> QED BY <2>3, <3>1 DEF ProcessOpen
  <2> QED BY <2>2, <2>3
<1>2. UNCHANGED <<mode, venue, worker, wire, ws_result_queue>>
  BY DEF ProcessClose, ProcessOpen, stream
<1>3. /\ RingsRouted' /\ (Live => result_rings' = result_rings)
      /\ \A k \in order_bitmap' :
           \/ /\ k \in order_bitmap /\ orders'[k].id = orders[k].id
              /\ orders'[k].filled <= orders[k].filled + Own(cmd, orders[k].id)
           \/ orders'[k].id.n = next_order_id /\ orders'[k].filled = 0
  BY <1>1, ProcessBooks DEF WInv
<1> DEFINE taken == [id \in OrderId |-> Own(cmd, id)]
<1>4. taken \in [OrderId -> Nat] /\ \A id \in OrderId : taken[id] = Own(cmd, id)
  BY DEF Own, Command
<1> HIDE DEF taken
<1>5. ASSUME Live, NEW id \in OrderId, id.node \in Nodes
      PROVE  Undelivered(id)' + taken[id] = Undelivered(id)
  <2>1. UNCHANGED <<wire, ws_result_queue, result_rings>>
    BY <1>2, <1>3, <1>5
  <2>2. Undelivered(id)' + Own(cmd, id) = Undelivered(id)
    BY <1>1, <1>5, <2>1, BookTakes
  <2> QED BY <1>4, <2>2
<1>6. ASSUME NEW k \in order_bitmap'
      PROVE  \/ /\ k \in order_bitmap /\ orders'[k].id = orders[k].id
                /\ orders'[k].filled <= orders[k].filled + taken[orders[k].id]
             \/ orders'[k].id.n = next_order_id /\ orders'[k].filled = 0
  <2>1. CASE /\ k \in order_bitmap /\ orders'[k].id = orders[k].id
             /\ orders'[k].filled <= orders[k].filled + Own(cmd, orders[k].id)
    <3>1. orders[k].id \in OrderId
      BY <2>1, TableNodes
    <3> QED BY <1>4, <2>1, <3>1
  <2> QED BY <1>3, <2>1
<1> QED BY <1>2, <1>3, <1>4, <1>5, <1>6, BooksWithin

-----------------------------------------------------------------------------
LEMMA InitWithin == Init => WInv
<1> SUFFICES ASSUME Init PROVE WInv
  OBVIOUS
<1>1. RingsRouted
  BY DEF Init, AdapterInit, RingsRouted
<1>2. WorkerFresh
  BY DEF Init, AdapterInit, WorkerFresh, Idle
<1>3. Within
  BY DEF Init, OmsInit, Within
<1> QED BY <1>1, <1>2, <1>3 DEF WInv

LEMMA NextWithin == IInv /\ RInv /\ WInv /\ [Next]_vars => WInv'
<1> SUFFICES ASSUME IInv, RInv, WInv, [Next]_vars PROVE WInv'
  OBVIOUS
<1>1. IInv'
  BY NextInv
<1>2. CASE Producers /\ UNCHANGED cursor
  BY <1>1, <1>2, RequestAsks, PassWithin DEF Producers
<1>3. CASE PumpDone \/ UNCHANGED vars
  BY <1>1, <1>3, PassStill, PassWithin
<1>4. CASE BookPass
  BY <1>1, <1>4, SubmitOneWithin, DrainWithin, BookWithin, PassStill, PassWithin DEF BookPass
<1>5. CASE Adapter
  BY <1>1, <1>5, AdapterWithin
<1> QED BY <1>2, <1>3, <1>4, <1>5 DEF Next

(* NothingInvented: with any number of nodes and slots, in either live mode, *)
(* and whatever the queues drop, the REST answers lose, the stream misses   *)
(* and the shutdown leaves behind, the order table never has more booked    *)
(* and on its way than the venue executed (OrderManager_ProcessFillCommand).*)
THEOREM NothingIsInvented == Spec => []NothingInvented
<1>1. Init => IInv /\ RInv /\ WInv
  BY InitInv, InitRoad, InitWithin
<1>2. IInv /\ RInv /\ WInv /\ [Next]_vars => (IInv /\ RInv /\ WInv)'
  BY NextInv, NextRoad, NextWithin
<1>3. IInv /\ RInv /\ WInv => NothingInvented
  <2> SUFFICES ASSUME IInv, WInv, Live, NEW k \in order_bitmap
               PROVE  orders[k].filled + Undelivered(orders[k].id)
                        <= Exec(venue, orders[k].id)
    BY DEF NothingInvented, Exec
  <2>1. orders[k].id \in OrderId
    BY TableNodes
  <2> QED BY <2>1 DEF WInv, Within
<1> QED BY <1>1, <1>2, <1>3, PTL DEF Spec

-----------------------------------------------------------------------------
(* How many reports of one order a queue holds.                             *)
One(cmd, id) == IF cmd.id = id THEN 1 ELSE 0
Places(q, id) == {i \in 1 .. Len(q) : q[i].id = id}

LEMMA PlacesFinite ==
  ASSUME NEW q \in Seq(Command), NEW id
  PROVE  IsFiniteSet(Places(q, id)) /\ Reports(q, id) = Cardinality(Places(q, id))
         /\ Reports(q, id) \in Nat
<1>1. Len(q) \in Nat
  OBVIOUS
<1>2. IsFiniteSet(1 .. Len(q))
  BY <1>1, FS_Interval
<1>3. IsFiniteSet(Places(q, id))
  BY <1>2, FS_Subset DEF Places
<1> QED BY <1>3, FS_CardinalityType DEF Places, Reports

LEMMA ReportsEmpty == ASSUME NEW id PROVE Reports(<< >>, id) = 0
<1>1. << >> \in Seq(Command) /\ Places(<< >>, id) = {}
  BY DEF Places
<1>2. Reports(<< >>, id) = Cardinality({})
  BY <1>1, PlacesFinite
<1> QED BY <1>2, FS_EmptySet

LEMMA ReportsNone ==
  ASSUME NEW q \in Seq(Command), NEW id
  PROVE  Reports(q, id) = 0 <=> \A i \in 1 .. Len(q) : q[i].id # id
<1>1. Reports(q, id) = 0 <=> Places(q, id) = {}
  BY PlacesFinite, FS_EmptySet
<1> QED BY <1>1 DEF Places

LEMMA ReportsAppend ==
  ASSUME NEW q \in Seq(Command), NEW cmd \in Command, NEW id
  PROVE  Reports(Append(q, cmd), id) = Reports(q, id) + One(cmd, id)
<1> DEFINE r == Append(q, cmd)
           n == Len(q) + 1
<1>1. /\ r \in Seq(Command) /\ Len(r) = n /\ Len(q) \in Nat
      /\ \A i \in 1 .. Len(q) : r[i] = q[i]
      /\ r[n] = cmd
  OBVIOUS
<1> HIDE DEF r
<1>2. 1 .. n = (1 .. Len(q)) \cup {n} /\ n \notin 1 .. Len(q)
  BY <1>1
<1>3. Places(r, id) = IF cmd.id = id THEN Places(q, id) \cup {n} ELSE Places(q, id)
  <2> HIDE DEF n
  <2>1. \A i \in 1 .. n : r[i].id = id <=> \/ i \in 1 .. Len(q) /\ q[i].id = id
                                           \/ i = n /\ cmd.id = id
    BY <1>1, <1>2
  <2> QED BY <1>1, <1>2, <2>1 DEF Places
<1>4. n \notin Places(q, id)
  BY <1>2 DEF Places
<1>5. /\ IsFiniteSet(Places(q, id)) /\ Reports(q, id) = Cardinality(Places(q, id))
      /\ Reports(q, id) \in Nat /\ Reports(r, id) = Cardinality(Places(r, id))
  BY <1>1, PlacesFinite
<1> HIDE DEF n
<1>6. Cardinality(Places(q, id) \cup {n}) = Cardinality(Places(q, id)) + 1
  BY <1>4, <1>5, FS_AddElement
<1>7. CASE cmd.id = id
  BY <1>3, <1>5, <1>6, <1>7 DEF One, r
<1>8. CASE cmd.id # id
  BY <1>3, <1>5, <1>8 DEF One, r
<1> QED BY <1>7, <1>8

LEMMA ReportsTail ==
  ASSUME NEW q \in Seq(Command), q # << >>, NEW id
  PROVE  Reports(q, id) = One(Head(q), id) + Reports(Tail(q), id)
<1> DEFINE t == Tail(q)
<1>1. /\ t \in Seq(Command) /\ Len(t) = Len(q) - 1 /\ Len(q) \in Nat /\ Len(q) >= 1
      /\ \A i \in 1 .. Len(q) - 1 : t[i] = q[i + 1]
      /\ Head(q) = q[1]
  OBVIOUS
<1> HIDE DEF t
<1>2. /\ IsFiniteSet(Places(q, id)) /\ Reports(q, id) = Cardinality(Places(q, id))
      /\ IsFiniteSet(Places(t, id)) /\ Reports(t, id) = Cardinality(Places(t, id))
      /\ Reports(t, id) \in Nat /\ Reports(q, id) \in Nat
  BY <1>1, PlacesFinite
<1> DEFINE f == [i \in Places(t, id) |-> i + 1]
<1>3. f \in Bijection(Places(t, id), Places(q, id) \ {1})
  <2>1. \A i \in Places(t, id) : i \in Nat /\ i + 1 \in Places(q, id) \ {1}
    BY <1>1 DEF Places
  <2>2. f \in [Places(t, id) -> Places(q, id) \ {1}]
    BY <2>1
  <2>3. \A i, j \in Places(t, id) : f[i] = f[j] => i = j
    BY <2>1
  <2>4. \A j \in Places(q, id) \ {1} : \E i \in Places(t, id) : f[i] = j
    <3> SUFFICES ASSUME NEW j \in Places(q, id) \ {1} PROVE \E i \in Places(t, id) : f[i] = j
      OBVIOUS
    <3>1. j \in 1 .. Len(q) /\ j # 1 /\ q[j].id = id
      BY DEF Places
    <3>2. j - 1 \in 1 .. Len(q) - 1 /\ (j - 1) + 1 = j
      BY <1>1, <3>1
    <3>3. t[j - 1] = q[j]
      BY <1>1, <3>2
    <3>4. j - 1 \in Places(t, id)
      BY <1>1, <3>1, <3>2, <3>3 DEF Places
    <3> QED BY <3>2, <3>4
  <2> HIDE DEF f
  <2> QED BY <2>2, <2>3, <2>4 DEF Bijection, Injection, IsInjective, Surjection
<1>4. Cardinality(Places(q, id) \ {1}) = Cardinality(Places(t, id))
  <2>1. ExistsBijection(Places(t, id), Places(q, id) \ {1})
    BY <1>3 DEF ExistsBijection
  <2> QED BY <1>2, <2>1, FS_Bijection
<1>5. Cardinality(Places(q, id) \ {1})
        = IF 1 \in Places(q, id) THEN Cardinality(Places(q, id)) - 1 ELSE Cardinality(Places(q, id))
  BY <1>2, FS_RemoveElement
<1>6. 1 \in Places(q, id) <=> Head(q).id = id
  BY <1>1 DEF Places
<1> QED BY <1>2, <1>4, <1>5, <1>6 DEF One, t

(* Of an order with one report at most, no queue holds two.                 *)
LEMMA ReportedOnce ==
  ASSUME NEW q \in Seq(Command), NEW i \in 1 .. Len(q), NEW j \in 1 .. Len(q),
         q[i].id = q[j].id, Reports(q, q[i].id) <= 1
  PROVE  i = j
<1> SUFFICES ASSUME i # j PROVE FALSE
  OBVIOUS
<1> DEFINE P == Places(q, q[i].id)
<1>1. i \in P /\ j \in P
  BY DEF Places
<1>2. IsFiniteSet(P) /\ Cardinality(P) <= 1 /\ Cardinality(P) \in Nat
  BY PlacesFinite
<1> HIDE DEF P
<1>3. IsFiniteSet(P \ {i}) /\ Cardinality(P \ {i}) = Cardinality(P) - 1
  BY <1>1, <1>2, FS_RemoveElement
<1>4. Cardinality(P \ {i}) \in Nat
  BY <1>3, FS_CardinalityType
<1>5. Cardinality(P \ {i}) = 0
  BY <1>2, <1>3, <1>4
<1>6. P \ {i} = {}
  BY <1>3, <1>5, FS_EmptySet
<1> QED BY <1>1, <1>6

(* A queue with room takes what is offered.                                 *)
LEMMA ReportsOffer ==
  ASSUME NEW q \in Seq(Command), NEW cmd \in Command, NEW cap, Len(q) < cap, NEW id
  PROVE  Reports(Offer(q, cmd, cap), id) = Reports(q, id) + One(cmd, id)
BY ReportsAppend DEF Offer

-----------------------------------------------------------------------------
(* Paper trading: every order of the table has its fill on the road, once,  *)
(* and there is room for it, on top of IInv, RInv and WInv.                 *)

(* OMS_RESULT_RING_PER_NODE and OMS_RESULT_QUEUE_SIZE against               *)
(* MAX_INFLIGHT_ORDERS: 16 and 256 against 16.                              *)
FillsFit ==
  /\ IsFiniteSet(OrderSlots)
  /\ Cardinality(OrderSlots) <= ResultCap /\ Cardinality(OrderSlots) <= BucketCap

Waiting(id) == Reports(close_bucket, id) + Reports(open_bucket, id)
                 + Reports(result_rings[id.node], id)

(* The paper fills of the orders of a table: OrderManager_ProcessFillCommand *)
(* neither takes one for an ack nor finds that its order is gone.           *)
Fills(bm, ords) ==
  {cmd \in Command :
     /\ cmd.success /\ cmd.complete /\ ~cmd.terminal /\ cmd.qty > 0
     /\ cmd.id.slot \in bm /\ ords[cmd.id.slot].id = cmd.id}
FillsNow == Fills(order_bitmap, orders)

Wanted == {cmd \in SubmitCommands : cmd.qty > 0}
Asked == \A s \in Slots : submit_queues[s] \in Seq(Wanted)

PaperRoad ==
  /\ wire = << >> /\ ws_result_queue = << >>
  /\ close_bucket \in Seq(FillsNow) /\ open_bucket \in Seq(FillsNow)
  /\ \A n \in Nodes : result_rings[n] \in Seq(FillsNow)
PaperTable ==
  \A k \in order_bitmap :
    /\ orders[k].filled = 0
    /\ \A id \in OrderId : id = orders[k].id => Waiting(id) = 1

PInv == Asked /\ (~Live => PaperRoad /\ PaperTable)

LEMMA SeqOfMembers ==
  ASSUME NEW S, NEW q \in Seq(Command), \A i \in 1 .. Len(q) : q[i] \in S
  PROVE  q \in Seq(S)
<1>1. Len(q) \in Nat /\ q \in [1 .. Len(q) -> S]
  OBVIOUS
<1> QED BY <1>1

LEMMA WaitingTyped ==
  ASSUME IInv, NEW id, id.node \in Nodes
  PROVE  /\ Reports(close_bucket, id) \in Nat /\ Reports(open_bucket, id) \in Nat
         /\ Reports(result_rings[id.node], id) \in Nat
<1>1. /\ close_bucket \in Seq(Command) /\ open_bucket \in Seq(Command)
      /\ result_rings[id.node] \in Seq(Command)
  BY DEF IInv, OmsTypeOK, QueuesOK, RoadOK
<1> QED BY <1>1, PlacesFinite

(* A queue of fills of different orders is no longer than the table.        *)
LEMMA FillsWithinTable ==
  ASSUME TableOK, IsFiniteSet(OrderSlots), NEW q \in Seq(FillsNow),
         \A k \in order_bitmap : Reports(q, orders[k].id) <= 1
  PROVE  /\ Len(q) <= Cardinality(order_bitmap)
         /\ Cardinality(order_bitmap) <= Cardinality(OrderSlots)
         /\ OrderSlots \ order_bitmap # {} => Cardinality(order_bitmap) < Cardinality(OrderSlots)
         /\ Len(q) \in Nat /\ Cardinality(order_bitmap) \in Nat /\ Cardinality(OrderSlots) \in Nat
<1> DEFINE D == 1 .. Len(q)
           f == [i \in D |-> q[i].id.slot]
<1>1. Len(q) \in Nat
  OBVIOUS
<1>2. /\ IsFiniteSet(order_bitmap) /\ Cardinality(order_bitmap) <= Cardinality(OrderSlots)
      /\ Cardinality(OrderSlots) = Cardinality(order_bitmap) => OrderSlots = order_bitmap
  BY FS_Subset DEF TableOK
<1>3. Cardinality(order_bitmap) \in Nat /\ Cardinality(OrderSlots) \in Nat
  BY <1>2, FS_CardinalityType
<1>4. /\ \A i \in D : q[i] \in FillsNow
      /\ q \in Seq(Command)
  <2>1. \A i \in D : q[i] \in FillsNow
    OBVIOUS
  <2>2. FillsNow \subseteq Command
    BY DEF FillsNow, Fills
  <2> QED BY <2>1, <2>2, SeqGrows
<1>5. f \in Injection(D, order_bitmap)
  <2>1. \A i \in D : q[i].id.slot \in order_bitmap /\ orders[q[i].id.slot].id = q[i].id
    BY <1>4 DEF FillsNow, Fills
  <2>2. f \in [D -> order_bitmap]
    BY <2>1
  <2>3. ASSUME NEW i \in D, NEW j \in D, f[i] = f[j] PROVE i = j
    <3>1. q[i].id = q[j].id /\ Reports(q, q[i].id) <= 1
      BY <2>1, <2>3
    <3> QED BY <1>4, <3>1, ReportedOnce
  <2> HIDE DEF f
  <2> QED BY <2>2, <2>3 DEF Injection, IsInjective
<1>6. Cardinality(D) <= Cardinality(order_bitmap)
  BY <1>2, <1>5, FS_Injection
<1>7. Cardinality(D) = Len(q)
  BY SMTT(30), <1>1, FS_Interval
<1>8. OrderSlots \ order_bitmap # {} => Cardinality(order_bitmap) < Cardinality(OrderSlots)
  <2>1. OrderSlots \ order_bitmap # {} => OrderSlots # order_bitmap
    OBVIOUS
  <2> QED BY <1>2, <1>3, <2>1
<1> QED BY <1>1, <1>2, <1>3, <1>6, <1>7, <1>8

LEMMA PushReports ==
  ASSUME result_rings \in [Nodes -> Seq(Command)], NEW cmd \in Command, cmd.id.node \in Nodes,
         ResultPush(cmd), Len(result_rings[cmd.id.node]) < ResultCap, NEW id, id.node \in Nodes
  PROVE  Reports(result_rings'[id.node], id) = Reports(result_rings[id.node], id) + One(cmd, id)
<1> DEFINE r == result_rings[id.node]
<1>1. result_rings'[id.node] = IF cmd.id.node = id.node THEN Offer(r, cmd, ResultCap) ELSE r
  BY DEF ResultPush
<1>2. r \in Seq(Command) /\ (cmd.id.node = id.node => Len(r) < ResultCap)
  OBVIOUS
<1> HIDE DEF r
<1>3. CASE cmd.id.node = id.node
  BY <1>1, <1>2, <1>3, ReportsOffer DEF r
<1>4. CASE cmd.id.node # id.node
  <2>1. One(cmd, id) = 0 /\ Reports(r, id) \in Nat
    BY <1>2, <1>4, PlacesFinite DEF One
  <2> QED BY <1>1, <1>4, <2>1 DEF r
<1> QED BY <1>3, <1>4

(* No ring but its node's tells of an order of the table, and that one once.*)
LEMMA RingOnce ==
  ASSUME IInv, RingsRouted, PaperTable, NEW n \in Nodes, NEW k \in order_bitmap
  PROVE  Reports(result_rings[n], orders[k].id) <= 1
<1> DEFINE id == orders[k].id
<1>1. id \in OrderId /\ id.node \in Nodes
  BY TableNodes
<1>2. result_rings[n] \in Seq(Command) /\ result_rings[n] \in Seq(RoutedTo(n))
  BY DEF IInv, OmsTypeOK, RoadOK, RingsRouted
<1>3. CASE id.node = n
  <2>1. Waiting(id) = 1
    BY <1>1 DEF PaperTable
  <2> HIDE DEF id
  <2>2. /\ Reports(close_bucket, id) \in Nat /\ Reports(open_bucket, id) \in Nat
        /\ Reports(result_rings[id.node], id) \in Nat
    BY <1>1, WaitingTyped
  <2>3. Reports(result_rings[id.node], id) <= 1
    BY <2>1, <2>2 DEF Waiting
  <2> QED BY <1>3, <2>3 DEF id
<1>4. CASE id.node # n
  <2>1. \A i \in 1 .. Len(result_rings[n]) : result_rings[n][i] \in RoutedTo(n)
    BY <1>2
  <2>2. \A i \in 1 .. Len(result_rings[n]) : result_rings[n][i].id # id
    BY <1>4, <2>1 DEF RoutedTo
  <2> HIDE DEF id
  <2>3. Reports(result_rings[n], id) = 0
    BY <1>2, <2>2, ReportsNone
  <2> QED BY <2>3 DEF id
<1> QED BY <1>3, <1>4

(* The steps that leave the table, the buckets and the road alone.          *)
LEMMA PaperSame ==
  ASSUME PInv, Asked', Unmoved, UNCHANGED <<mode, order_bitmap, orders>>,
         ~Live => UNCHANGED <<wire, ws_result_queue, result_rings>>
  PROVE  PInv'
<1> SUFFICES ASSUME ~Live PROVE PaperRoad' /\ PaperTable'
  BY DEF PInv, Live
<1>1. PaperRoad /\ PaperTable /\ UNCHANGED <<wire, ws_result_queue, result_rings>>
  BY DEF PInv
<1>2. FillsNow' = FillsNow /\ \A id : Waiting(id)' = Waiting(id)
  BY <1>1 DEF FillsNow, Waiting, Unmoved
<1>3. PaperRoad'
  BY <1>1, <1>2 DEF PaperRoad, Unmoved
<1>4. PaperTable'
  BY <1>1, <1>2 DEF PaperTable
<1> QED BY <1>3, <1>4

LEMMA AdapterIdle ==
  ASSUME RInv, PInv, Adapter
  PROVE  mode' = mode /\ (~Live => UNCHANGED <<wire, ws_result_queue, result_rings>>)
<1>1. AdapterNext
  BY DEF Adapter
<1>2. mode' = mode
  BY <1>1 DEF AdapterNext, WorkerPop, VenueAccepts, VenueRefuses, RestAnswer, RestAnswerLost,
         ShutdownState, WsReceive, StreamBreaks, StreamConnects, VenueTrades, VenueEnds
<1>3. ASSUME ~Live PROVE UNCHANGED <<wire, ws_result_queue, result_rings>>
  <2>1. worker.stage = "idle" /\ ~connected /\ ~WsActive /\ submission_queue = << >> /\ wire = << >>
    BY <1>3 DEF RInv, WorkSent, QueueOrdered, Live, WsActive, PInv, PaperRoad
  <2> QED BY <1>1, <2>1 DEF AdapterNext, WorkerPop, VenueAccepts, VenueRefuses, RestAnswer,
         RestAnswerLost, ShutdownState, WsReceive, StreamBreaks, StreamConnects, VenueTrades,
         VenueEnds, Tells, stream
<1> QED BY <1>2, <1>3

LEMMA AdapterPaper ==
  ASSUME IInv, RInv, PInv, Adapter
  PROVE  PInv'
<1>1. Unmoved /\ UNCHANGED <<order_bitmap, orders, submit_queues>>
  BY DEF Adapter, omsVars, tableVars, Unmoved
<1>2. Asked'
  BY <1>1 DEF PInv, Asked
<1> QED BY <1>1, <1>2, AdapterIdle, PaperSame

LEMMA RequestPaper ==
  ASSUME IInv, PInv, NEW s \in Slots, Asks(s)
  PROVE  PInv'
<1>1. PICK type \in Side, qty \in Nat :
        /\ qty > 0 /\ PushSubmit(s, type, qty)
        /\ UNCHANGED <<adapterVars, tableVars, positions, close_bucket, open_bucket>>
  BY DEF Asks
<1> DEFINE cmd == SubmitCommand(type, qty, NodeOf(s))
<1>2. /\ submit_queues' = [submit_queues EXCEPT ![s] = Offer(@, cmd, SubmitCap)]
      /\ UNCHANGED <<adapterVars, tableVars>> /\ Unmoved
  BY <1>1 DEF PushSubmit, Unmoved
<1>3. cmd \in Wanted
  <2>1. NodeOf(s) \in Nat
    BY OmsAssumption, AdapterAssumption
  <2>2. cmd \in SubmitCommands
    BY <2>1 DEF SubmitCommand, SubmitCommands
  <2>3. cmd.qty > 0
    BY <1>1 DEF SubmitCommand
  <2> QED BY <2>2, <2>3 DEF Wanted
<1> HIDE DEF cmd
<1>4. Asked'
  <2>1. submit_queues \in [Slots -> Seq(SubmitCommands)] /\ \A p \in Slots : submit_queues[p] \in Seq(Wanted)
    BY DEF PInv, Asked, IInv, OmsTypeOK, QueuesOK
  <2>2. Offer(submit_queues[s], cmd, SubmitCap) \in Seq(Wanted)
    BY <1>3, <2>1, OfferTyped
  <2> QED BY <1>2, <2>1, <2>2 DEF Asked
<1> QED BY <1>2, <1>4, PaperSame DEF adapterVars, stream, tableVars

LEMMA PassPaper ==
  ASSUME PInv, Still
  PROVE  PInv'
<1>1. UNCHANGED <<adapterVars, tableVars, close_bucket, open_bucket, submit_queues>>
  BY DEF Still
<1>2. Asked'
  BY <1>1 DEF PInv, Asked
<1> QED BY <1>1, <1>2, PaperSame DEF adapterVars, stream, tableVars, Unmoved

(* A submission in paper: OrderManager_Submit finds a slot and room for the *)
(* fill, or drops the order.                                                *)
LEMMA SubmitOnePaper ==
  ASSUME FillsFit, IInv, IInv', RInv, WInv, PInv, NEW s \in Slots, SubmitOne(s)
  PROVE  PInv'
<1> DEFINE cmd  == Head(submit_queues[s])
           free == OrderSlots \ order_bitmap
           j    == Min(free)
           o    == NewOrder(s, cmd, j)
           fill == SynthFill(o)
<1>1. /\ submit_queues[s] # << >> /\ Submit(s, cmd, order_bitmap, orders)
      /\ submit_queues' = [submit_queues EXCEPT ![s] = Tail(@)]
      /\ UNCHANGED <<mode, wire, ws_result_queue>> /\ Unmoved
  BY DEF SubmitOne, stream, Unmoved
<1>2. submit_queues \in [Slots -> Seq(SubmitCommands)]
      /\ \A p \in Slots : submit_queues[p] \in Seq(Wanted)
  BY DEF PInv, Asked, IInv, OmsTypeOK, QueuesOK
<1>3. cmd \in Wanted /\ Tail(submit_queues[s]) \in Seq(Wanted)
  BY <1>1, <1>2, HeadTyped
<1>4. Asked'
  BY <1>1, <1>2, <1>3 DEF Asked
<1>5. CASE Live
  BY <1>1, <1>4, <1>5 DEF PInv, Live
<1>6. CASE free = {}
  <2>1. UNCHANGED <<order_bitmap, orders, result_rings>>
    BY <1>1, <1>6 DEF Submit
  <2> QED BY <1>1, <1>4, <2>1, PaperSame
<1>7. CASE ~Live /\ free # {}
  <2>1. order_bitmap' = order_bitmap \cup {j} /\ orders' = [orders EXCEPT ![j] = o]
        /\ ResultPush(fill)
    BY <1>1, <1>7 DEF Submit
  <2>2. j \in OrderSlots /\ j \notin order_bitmap
    <3>1. free \in SUBSET Nat
      BY OmsAssumption
    <3>2. j \in free
      BY <1>7, <3>1, MinIsMember
    <3> QED BY <3>2
  <2>3. /\ TableOK /\ RoadOK /\ next_order_id \in Nat /\ RingsRouted /\ PaperRoad /\ PaperTable
        /\ result_rings \in [Nodes -> Seq(Command)] /\ orders \in [OrderSlots -> Order]
    BY <1>7 DEF IInv, OmsTypeOK, TableOK, RoadOK, WInv, PInv
  <2>4. cmd \in SubmitCommands /\ cmd.qty \in Nat /\ cmd.qty > 0
    BY <1>3 DEF Wanted, SubmitCommands
  <2> HIDE DEF cmd, free, j
  <2>5. /\ o \in Order /\ o.filled = 0 /\ o.requested = cmd.qty
        /\ o.id = [n |-> next_order_id, node |-> NodeOf(s), slot |-> j]
    <3>1. o \in Order
      BY <2>2, <2>3, <2>4, NewOrderTyped
    <3> QED BY <3>1 DEF NewOrder
  <2>6. o.id \in OrderId /\ o.id.node \in Nodes /\ o.id.slot = j /\ o.id.n = next_order_id
    BY <2>5, OmsAssumption DEF Order
  <2> HIDE DEF o
  <2>7. /\ fill \in Command /\ fill.id = o.id /\ fill.success /\ fill.complete
        /\ ~fill.terminal /\ fill.qty > 0
    <3>1. fill \in Command
      BY <2>4, <2>5, <2>6, ReportTyped DEF SynthFill
    <3> QED BY <2>4, <2>5, <3>1 DEF SynthFill, Report
  <2> HIDE DEF fill
  <2>8. orders'[j] = o /\ \A i \in order_bitmap : orders'[i] = orders[i]
    BY <2>1, <2>2, <2>3
  <2>9. FillsNow \subseteq FillsNow' /\ fill \in FillsNow'
    <3>1. FillsNow' = Fills(order_bitmap', orders')
      BY DEF FillsNow
    <3>2. \A c \in FillsNow : c \in Fills(order_bitmap', orders')
      BY <2>1, <2>8 DEF FillsNow, Fills
    <3>3. fill.id.slot \in order_bitmap' /\ orders'[fill.id.slot].id = fill.id
      BY <2>1, <2>6, <2>7, <2>8
    <3> QED BY <2>7, <3>1, <3>2, <3>3 DEF Fills
  <2>10. Len(result_rings[fill.id.node]) < ResultCap
    <3> DEFINE q == result_rings[o.id.node]
    <3>1. q \in Seq(FillsNow)
      BY <2>3, <2>6 DEF PaperRoad
    <3>2. \A k \in order_bitmap : Reports(q, orders[k].id) <= 1
      BY <2>3, <2>6, RingOnce
    <3> HIDE DEF q
    <3>3. /\ Len(q) <= Cardinality(order_bitmap)
          /\ OrderSlots \ order_bitmap # {} => Cardinality(order_bitmap) < Cardinality(OrderSlots)
          /\ Len(q) \in Nat /\ Cardinality(order_bitmap) \in Nat /\ Cardinality(OrderSlots) \in Nat
      BY <2>3, <3>1, <3>2, FillsWithinTable DEF FillsFit
    <3>4. OrderSlots \ order_bitmap # {}
      BY <2>2
    <3>5. Len(q) < ResultCap
      BY <3>3, <3>4, AdapterAssumption DEF FillsFit
    <3> QED BY <2>7, <3>5 DEF q
  <2>11. \A id \in OrderId : id.node \in Nodes => Waiting(id)' = Waiting(id) + One(fill, id)
    <3> SUFFICES ASSUME NEW id \in OrderId, id.node \in Nodes
                 PROVE  Waiting(id)' = Waiting(id) + One(fill, id)
      OBVIOUS
    <3>1. Reports(result_rings'[id.node], id) = Reports(result_rings[id.node], id) + One(fill, id)
      BY <2>1, <2>3, <2>6, <2>7, <2>10, PushReports
    <3>2. /\ Reports(close_bucket, id) \in Nat /\ Reports(open_bucket, id) \in Nat
          /\ Reports(result_rings[id.node], id) \in Nat
      BY WaitingTyped
    <3>3. Waiting(id)' = Reports(close_bucket, id) + Reports(open_bucket, id)
            + Reports(result_rings'[id.node], id)
      BY <1>1 DEF Waiting, Unmoved
    <3>4. One(fill, id) \in Nat
      BY DEF One
    <3> QED BY <3>1, <3>2, <3>3, <3>4 DEF Waiting
  <2>12. Waiting(o.id) = 0
    <3>1. \A c \in FillsNow : c \in Command /\ c.id # o.id
      <4> SUFFICES ASSUME NEW c \in FillsNow PROVE c.id # o.id
        BY DEF FillsNow, Fills
      <4>1. c.id.slot \in order_bitmap /\ orders[c.id.slot].id = c.id
        BY DEF FillsNow, Fills
      <4>2. c.id.n < next_order_id
        BY <4>1 DEF IInv, TableConsistent
      <4> QED BY <2>3, <2>6, <4>2
    <3>2. ASSUME NEW q \in Seq(FillsNow) PROVE Reports(q, o.id) = 0
      <4>1. q \in Seq(Command)
        BY <3>1, SeqGrows
      <4>2. \A i \in 1 .. Len(q) : q[i] \in FillsNow
        OBVIOUS
      <4>3. \A i \in 1 .. Len(q) : q[i].id # o.id
        BY <3>1, <4>2
      <4> QED BY <4>1, <4>3, ReportsNone
    <3>3. /\ close_bucket \in Seq(FillsNow) /\ open_bucket \in Seq(FillsNow)
          /\ result_rings[o.id.node] \in Seq(FillsNow)
      BY <2>3, <2>6 DEF PaperRoad
    <3> QED BY <3>2, <3>3 DEF Waiting
  <2>13. PaperRoad'
    <3>1. /\ wire' = << >> /\ ws_result_queue' = << >>
          /\ close_bucket' \in Seq(FillsNow) /\ open_bucket' \in Seq(FillsNow)
      BY <1>1, <2>3 DEF PaperRoad, Unmoved
    <3>2. ASSUME NEW n \in Nodes PROVE result_rings'[n] \in Seq(FillsNow')
      <4>1. result_rings[n] \in Seq(FillsNow')
        BY <2>3, <2>9, SeqGrows DEF PaperRoad
      <4>2. Offer(result_rings[n], fill, ResultCap) \in Seq(FillsNow')
        BY <2>9, <4>1, OfferTyped
      <4>3. result_rings'[n] = result_rings[n]
            \/ result_rings'[n] = Offer(result_rings[n], fill, ResultCap)
        BY <2>1, <2>3 DEF ResultPush
      <4> QED BY <4>1, <4>2, <4>3
    <3>3. close_bucket' \in Seq(FillsNow') /\ open_bucket' \in Seq(FillsNow')
      BY <2>9, <3>1, SeqGrows
    <3> QED BY <3>1, <3>2, <3>3 DEF PaperRoad
  <2>14. PaperTable'
    <3>1. ASSUME NEW k \in order_bitmap, NEW id \in OrderId, id = orders'[k].id
          PROVE  orders'[k].filled = 0 /\ Waiting(id)' = 1
      <4>1. id = orders[k].id /\ id.node \in Nodes /\ orders'[k].filled = 0
        BY <2>3, <2>8, <3>1, TableNodes DEF PaperTable
      <4>2. Waiting(id) = 1
        BY <2>3, <4>1 DEF PaperTable
      <4>3. id # o.id
        <5>1. id.n < next_order_id
          BY <4>1 DEF IInv, TableConsistent
        <5> QED BY <2>3, <2>6, <5>1
      <4>4. One(fill, id) = 0
        BY <2>7, <4>3 DEF One
      <4> QED BY <2>11, <4>1, <4>2, <4>4
    <3>2. ASSUME NEW id \in OrderId, id = orders'[j].id
          PROVE  orders'[j].filled = 0 /\ Waiting(id)' = 1
      <4>1. id = o.id /\ orders'[j].filled = 0
        BY <2>5, <2>8, <3>2
      <4>2. One(fill, id) = 1
        BY <2>7, <4>1 DEF One
      <4> QED BY <2>6, <2>11, <2>12, <4>1, <4>2
    <3>3. \A k \in order_bitmap : orders'[k].filled = 0
      BY <2>3, <2>8 DEF PaperTable
    <3>4. orders'[j].filled = 0
      BY <2>5, <2>8
    <3> QED BY <2>1, <3>1, <3>2, <3>3, <3>4 DEF PaperTable
  <2> QED BY <1>4, <2>13, <2>14 DEF PInv
<1> QED BY <1>5, <1>6, <1>7

(* A bucket with a fill on its way to it has room for it.                   *)
LEMMA BucketHasRoom ==
  ASSUME FillsFit, IInv, PaperRoad, PaperTable, NEW q \in Seq(FillsNow), NEW cmd \in FillsNow,
         \A id \in OrderId : id.node \in Nodes => Reports(q, id) + One(cmd, id) <= Waiting(id)
  PROVE  Len(q) < BucketCap
<1> DEFINE r == Append(q, cmd)
<1>1. r \in Seq(FillsNow) /\ Len(r) = Len(q) + 1 /\ Len(q) \in Nat
  OBVIOUS
<1>2. q \in Seq(Command) /\ cmd \in Command
  BY SeqGrows DEF FillsNow, Fills
<1>3. ASSUME NEW k \in order_bitmap PROVE Reports(r, orders[k].id) <= 1
  <2> DEFINE id == orders[k].id
  <2>1. id \in OrderId /\ id.node \in Nodes
    BY TableNodes
  <2>2. Waiting(id) = 1
    BY <2>1 DEF PaperTable
  <2> HIDE DEF id
  <2>3. Reports(r, id) = Reports(q, id) + One(cmd, id)
    BY <1>2, ReportsAppend
  <2>4. Reports(r, id) <= 1
    BY <2>1, <2>2, <2>3
  <2> QED BY <2>4 DEF id
<1> HIDE DEF r
<1>4. /\ Len(r) <= Cardinality(order_bitmap)
      /\ Cardinality(order_bitmap) <= Cardinality(OrderSlots)
      /\ Cardinality(order_bitmap) \in Nat /\ Cardinality(OrderSlots) \in Nat
  BY <1>1, <1>3, FillsWithinTable DEF FillsFit, IInv, OmsTypeOK
<1> QED BY <1>1, <1>4, OmsAssumption DEF FillsFit

LEMMA DrainPaper ==
  ASSUME FillsFit, IInv, IInv', WInv, PInv, DrainResult \/ DrainWs
  PROVE  PInv'
<1>1. UNCHANGED <<mode, order_bitmap, orders, wire, submit_queues>>
  BY DEF DrainResult, DrainWs, tableVars, stream
<1>2. Asked'
  BY <1>1 DEF PInv, Asked
<1>3. CASE Live
  BY <1>1, <1>2, <1>3 DEF PInv, Live
<1>4. CASE ~Live /\ DrainWs
  <2>1. UNCHANGED <<close_bucket, open_bucket, result_rings, ws_result_queue>>
    BY <1>4 DEF DrainWs, PInv, PaperRoad
  <2> QED BY <1>1, <1>2, <2>1, PaperSame DEF Unmoved
<1>5. CASE ~Live /\ DrainResult
  <2> DEFINE n == Min(Filled)
             cmd == Head(result_rings[n])
  <2>1. n \in Nodes /\ result_rings[n] # << >>
    <3>1. Filled \in SUBSET Nat /\ Filled # {}
      BY <1>5, AdapterAssumption DEF Filled, DrainResult
    <3> QED BY <3>1, MinIsMember DEF Filled
  <2>2. /\ Bucket(cmd) /\ result_rings' = [result_rings EXCEPT ![n] = Tail(@)]
        /\ ws_result_queue' = ws_result_queue
    BY <1>5 DEF DrainResult
  <2> HIDE DEF n
  <2>3. /\ PaperRoad /\ PaperTable /\ result_rings \in [Nodes -> Seq(Command)]
        /\ result_rings[n] \in Seq(RoutedTo(n)) /\ result_rings[n] \in Seq(FillsNow)
        /\ close_bucket \in Seq(FillsNow) /\ open_bucket \in Seq(FillsNow)
    BY <1>5, <2>1 DEF PInv, PaperRoad, WInv, RingsRouted, IInv, OmsTypeOK, RoadOK
  <2>4. cmd \in FillsNow /\ cmd \in Command /\ cmd.id.node = n /\ Tail(result_rings[n]) \in Seq(FillsNow)
    <3>1. cmd \in RoutedTo(n) /\ cmd \in FillsNow /\ Tail(result_rings[n]) \in Seq(FillsNow)
      BY <2>1, <2>3, HeadTyped
    <3> QED BY <3>1 DEF RoutedTo
  <2>5. ASSUME NEW id \in OrderId, id.node \in Nodes
        PROVE  Reports(result_rings[id.node], id)
                 = One(cmd, id) + Reports(result_rings'[id.node], id)
    <3>1. CASE id.node = n
      <4>1. result_rings'[id.node] = Tail(result_rings[n])
        BY <2>1, <2>2, <2>3, <3>1
      <4> QED BY <2>1, <2>3, <3>1, <4>1, ReportsTail
    <3>2. CASE id.node # n
      <4>1. result_rings'[id.node] = result_rings[id.node]
        BY <2>1, <2>2, <2>3, <2>5, <3>2
      <4>2. One(cmd, id) = 0
        BY <2>4, <3>2 DEF One
      <4>3. Reports(result_rings[id.node], id) \in Nat
        BY <2>5, WaitingTyped
      <4> QED BY <4>1, <4>2, <4>3
    <3> QED BY <3>1, <3>2
  <2> HIDE DEF cmd
  <2>6. ASSUME NEW id \in OrderId, id.node \in Nodes
        PROVE  /\ Reports(close_bucket, id) \in Nat /\ Reports(open_bucket, id) \in Nat
               /\ Reports(result_rings[id.node], id) \in Nat
               /\ Reports(result_rings'[id.node], id) \in Nat /\ One(cmd, id) \in Nat
    <3>1. result_rings'[id.node] \in Seq(Command)
      BY <2>6 DEF IInv, OmsTypeOK, RoadOK
    <3> QED BY <2>6, <3>1, WaitingTyped, PlacesFinite DEF One
  <2>7. Len(close_bucket) < BucketCap /\ Len(open_bucket) < BucketCap
    <3>1. \A id \in OrderId : id.node \in Nodes =>
            /\ Reports(close_bucket, id) + One(cmd, id) <= Waiting(id)
            /\ Reports(open_bucket, id) + One(cmd, id) <= Waiting(id)
      BY <2>5, <2>6 DEF Waiting
    <3>2. Len(close_bucket) < BucketCap
      BY <2>3, <2>4, <3>1, BucketHasRoom
    <3>3. Len(open_bucket) < BucketCap
      BY <2>3, <2>4, <3>1, BucketHasRoom
    <3> QED BY <3>2, <3>3
  <2>8. \/ close_bucket' = Offer(close_bucket, cmd, BucketCap) /\ open_bucket' = open_bucket
        \/ open_bucket' = Offer(open_bucket, cmd, BucketCap) /\ close_bucket' = close_bucket
    BY <2>2 DEF Bucket
  <2>9. ASSUME NEW id \in OrderId, id.node \in Nodes PROVE Waiting(id)' = Waiting(id)
    <3>1. close_bucket \in Seq(Command) /\ open_bucket \in Seq(Command)
      BY DEF IInv, OmsTypeOK, QueuesOK
    <3>2. /\ Reports(Offer(close_bucket, cmd, BucketCap), id) = Reports(close_bucket, id) + One(cmd, id)
          /\ Reports(Offer(open_bucket, cmd, BucketCap), id) = Reports(open_bucket, id) + One(cmd, id)
      BY <2>4, <2>7, <3>1, ReportsOffer
    <3>3. Reports(close_bucket', id) + Reports(open_bucket', id)
            = Reports(close_bucket, id) + Reports(open_bucket, id) + One(cmd, id)
      <4>1. CASE close_bucket' = Offer(close_bucket, cmd, BucketCap) /\ open_bucket' = open_bucket
        BY <2>6, <2>9, <3>2, <4>1
      <4>2. CASE open_bucket' = Offer(open_bucket, cmd, BucketCap) /\ close_bucket' = close_bucket
        BY <2>6, <2>9, <3>2, <4>2
      <4> QED BY <2>8, <4>1, <4>2
    <3>4. Reports(result_rings[id.node], id) = One(cmd, id) + Reports(result_rings'[id.node], id)
      BY <2>5, <2>9
    <3>5. Waiting(id)' = (Reports(close_bucket', id) + Reports(open_bucket', id))
            + Reports(result_rings'[id.node], id)
      BY DEF Waiting
    <3> QED BY <2>6, <2>9, <3>3, <3>4, <3>5 DEF Waiting
  <2>10. FillsNow' = FillsNow
    BY <1>1 DEF FillsNow
  <2>11. PaperRoad'
    <3>1. close_bucket' \in Seq(FillsNow) /\ open_bucket' \in Seq(FillsNow)
      BY <2>3, <2>4, <2>8, OfferTyped
    <3>2. \A m \in Nodes : result_rings'[m] \in Seq(FillsNow)
      BY <2>1, <2>2, <2>3, <2>4 DEF PaperRoad
    <3> QED BY <1>1, <2>2, <2>3, <2>10, <3>1, <3>2 DEF PaperRoad
  <2>12. PaperTable'
    <3>1. ASSUME NEW k \in order_bitmap, NEW id \in OrderId, id = orders[k].id
          PROVE  orders[k].filled = 0 /\ Waiting(id)' = 1
      <4>1. id.node \in Nodes /\ Waiting(id) = 1 /\ orders[k].filled = 0
        BY <2>3, <3>1, TableNodes DEF PaperTable
      <4> QED BY <2>9, <4>1
    <3>2. \A k \in order_bitmap : orders[k].filled = 0
      BY <2>3 DEF PaperTable
    <3> QED BY <1>1, <3>1, <3>2 DEF PaperTable
  <2> QED BY <1>2, <2>11, <2>12 DEF PInv
<1> QED BY <1>3, <1>4, <1>5

(* OrderManager_ProcessFillCommand books a paper fill and frees its slot.   *)
LEMMA FillBooked ==
  ASSUME IInv, PaperTable, NEW cmd \in FillsNow, ProcessFillCommand(cmd)
  PROVE  /\ order_bitmap' = order_bitmap \ {cmd.id.slot} /\ UNCHANGED result_rings
         /\ \A i \in order_bitmap \ {cmd.id.slot} : orders'[i] = orders[i]
         /\ HandleFill(orders[cmd.id.slot], cmd.qty)
<1>1. /\ cmd.success = TRUE /\ cmd.complete = TRUE /\ cmd.terminal = FALSE
      /\ cmd.qty \in Nat /\ cmd.qty > 0 /\ Known(cmd)
  BY DEF FillsNow, Fills, Known, Command
<1>2. ~IsAck(cmd) /\ ~Tripwire(cmd)
  BY <1>1 DEF IsAck, Tripwire, PaperTable, Known
<1>3. Booked(cmd)
  BY <1>1, <1>2 DEF ProcessFillCommand, Ignored, Acknowledged, Failed, EndedShort, Leg
<1>4. orders \in [OrderSlots -> Order] /\ order_bitmap \subseteq OrderSlots
  BY DEF IInv, OmsTypeOK, TableOK
<1>5. order_bitmap' = order_bitmap \ {cmd.id.slot} /\ UNCHANGED result_rings
  BY <1>1, <1>3 DEF Booked
<1>6. \A i \in order_bitmap \ {cmd.id.slot} : orders'[i] = orders[i]
  BY <1>3, <1>4 DEF Booked
<1>7. HandleFill(orders[cmd.id.slot], cmd.qty)
  BY <1>3 DEF Booked
<1> QED BY <1>5, <1>6, <1>7

LEMMA BookPaper ==
  ASSUME IInv, IInv', WInv, PInv, ProcessClose \/ ProcessOpen
  PROVE  PInv'
<1>1. UNCHANGED <<mode, wire, ws_result_queue, submit_queues>>
  BY DEF ProcessClose, ProcessOpen, stream
<1>2. Asked'
  BY <1>1 DEF PInv, Asked
<1>3. CASE Live
  BY <1>1, <1>2, <1>3 DEF PInv, Live
<1>4. CASE ~Live
  <2>1. /\ PaperRoad /\ PaperTable /\ RingsRouted
        /\ close_bucket \in Seq(FillsNow) /\ open_bucket \in Seq(FillsNow)
        /\ close_bucket \in Seq(Command) /\ open_bucket \in Seq(Command)
        /\ result_rings \in [Nodes -> Seq(Command)]
    BY <1>4 DEF PInv, WInv, PaperRoad, IInv, OmsTypeOK, QueuesOK, RoadOK
  <2>2. PICK cmd \in FillsNow :
          /\ ProcessFillCommand(cmd)
          /\ \/ /\ close_bucket # << >> /\ cmd = Head(close_bucket)
                /\ close_bucket' = Tail(close_bucket) /\ open_bucket' = open_bucket
             \/ /\ open_bucket # << >> /\ cmd = Head(open_bucket)
                /\ open_bucket' = Tail(open_bucket) /\ close_bucket' = close_bucket
    <3>1. CASE ProcessClose
      <4>1. Head(close_bucket) \in FillsNow
        BY <2>1, <3>1, HeadTyped DEF ProcessClose
      <4> QED BY <3>1, <4>1 DEF ProcessClose
    <3>2. CASE ProcessOpen
      <4>1. Head(open_bucket) \in FillsNow
        BY <2>1, <3>2, HeadTyped DEF ProcessOpen
      <4> QED BY <3>2, <4>1 DEF ProcessOpen
    <3> QED BY <3>1, <3>2
  <2> DEFINE k == cmd.id.slot
  <2>3. /\ order_bitmap' = order_bitmap \ {k} /\ UNCHANGED result_rings
        /\ \A i \in order_bitmap \ {k} : orders'[i] = orders[i]
    BY <2>1, <2>2, FillBooked
  <2>4. cmd \in Command /\ k \in order_bitmap /\ orders[k].id = cmd.id
    BY DEF FillsNow, Fills
  <2> HIDE DEF k
  <2>5. cmd.id \in OrderId /\ cmd.id.node \in Nodes
    BY <2>4, TableNodes
  <2>6. ASSUME NEW id \in OrderId, id.node \in Nodes
        PROVE  Waiting(id) = One(cmd, id) + Waiting(id)' /\ Waiting(id)' \in Nat
               /\ Reports(close_bucket', id) \in Nat /\ Reports(open_bucket', id) \in Nat
               /\ Reports(result_rings[id.node], id) \in Nat
    <3>1. /\ Reports(close_bucket, id) \in Nat /\ Reports(open_bucket, id) \in Nat
          /\ Reports(result_rings[id.node], id) \in Nat
      BY <2>6, WaitingTyped
    <3>2. Reports(close_bucket', id) \in Nat /\ Reports(open_bucket', id) \in Nat
      <4>1. close_bucket' \in Seq(Command) /\ open_bucket' \in Seq(Command)
        BY DEF IInv, OmsTypeOK, QueuesOK
      <4> QED BY <4>1, PlacesFinite
    <3>3. Reports(close_bucket, id) + Reports(open_bucket, id)
            = One(cmd, id) + Reports(close_bucket', id) + Reports(open_bucket', id)
      <4>1. CASE /\ close_bucket # << >> /\ cmd = Head(close_bucket)
                 /\ close_bucket' = Tail(close_bucket) /\ open_bucket' = open_bucket
        <5>1. Reports(close_bucket, id) = One(cmd, id) + Reports(close_bucket', id)
          BY <2>1, <4>1, ReportsTail
        <5>2. Reports(open_bucket', id) = Reports(open_bucket, id)
          BY <4>1
        <5> QED BY <3>1, <3>2, <5>1, <5>2 DEF One
      <4>2. CASE /\ open_bucket # << >> /\ cmd = Head(open_bucket)
                 /\ open_bucket' = Tail(open_bucket) /\ close_bucket' = close_bucket
        <5>1. Reports(open_bucket, id) = One(cmd, id) + Reports(open_bucket', id)
          BY <2>1, <4>2, ReportsTail
        <5>2. Reports(close_bucket', id) = Reports(close_bucket, id)
          BY <4>2
        <5> QED BY <3>1, <3>2, <5>1, <5>2 DEF One
      <4> QED BY <2>2, <4>1, <4>2
    <3>4. Waiting(id)' = Reports(close_bucket', id) + Reports(open_bucket', id)
            + Reports(result_rings[id.node], id)
      BY <2>3 DEF Waiting
    <3>5. One(cmd, id) \in Nat
      BY DEF One
    <3> QED BY <3>1, <3>2, <3>3, <3>4, <3>5 DEF Waiting
  <2>7. /\ Reports(close_bucket', cmd.id) = 0 /\ Reports(open_bucket', cmd.id) = 0
        /\ Reports(result_rings[cmd.id.node], cmd.id) = 0
    <3>1. Waiting(cmd.id) = 1
      BY <2>1, <2>4, <2>5 DEF PaperTable
    <3>2. One(cmd, cmd.id) = 1
      BY DEF One
    <3>3. Waiting(cmd.id)' = Reports(close_bucket', cmd.id) + Reports(open_bucket', cmd.id)
            + Reports(result_rings[cmd.id.node], cmd.id)
      BY <2>3 DEF Waiting
    <3>4. /\ Waiting(cmd.id) = One(cmd, cmd.id) + Waiting(cmd.id)' /\ Waiting(cmd.id)' \in Nat
          /\ Reports(close_bucket', cmd.id) \in Nat /\ Reports(open_bucket', cmd.id) \in Nat
          /\ Reports(result_rings[cmd.id.node], cmd.id) \in Nat
      BY <2>5, <2>6
    <3> QED BY <3>1, <3>2, <3>3, <3>4
  <2>8. ASSUME NEW c \in FillsNow, c.id # cmd.id PROVE c \in FillsNow'
    <3>1. c.id.slot \in order_bitmap /\ orders[c.id.slot].id = c.id
      BY DEF FillsNow, Fills
    <3>2. c.id.slot # k
      BY <2>4, <2>8, <3>1
    <3>3. c.id.slot \in order_bitmap' /\ orders'[c.id.slot].id = c.id
      BY <2>3, <3>1, <3>2
    <3>4. FillsNow' = Fills(order_bitmap', orders')
      BY DEF FillsNow
    <3> QED BY <3>3, <3>4 DEF FillsNow, Fills
  <2>9. ASSUME NEW q \in Seq(FillsNow), \A i \in 1 .. Len(q) : q[i].id # cmd.id
        PROVE  q \in Seq(FillsNow')
    <3>1. \A i \in 1 .. Len(q) : q[i] \in FillsNow
      OBVIOUS
    <3>2. \A i \in 1 .. Len(q) : q[i] \in FillsNow'
      BY <2>8, <2>9, <3>1
    <3>3. q \in Seq(Command)
      BY SeqGrows DEF FillsNow, Fills
    <3> QED BY <3>2, <3>3, SeqOfMembers
  <2>10. PaperRoad'
    <3>1. ASSUME NEW q \in Seq(FillsNow), Reports(q, cmd.id) = 0 PROVE q \in Seq(FillsNow')
      <4>1. q \in Seq(Command)
        BY SeqGrows DEF FillsNow, Fills
      <4>2. \A i \in 1 .. Len(q) : q[i].id # cmd.id
        BY <3>1, <4>1, ReportsNone
      <4> QED BY <2>9, <4>2
    <3>2. close_bucket' \in Seq(FillsNow) /\ open_bucket' \in Seq(FillsNow)
      BY <2>1, <2>2, HeadTyped
    <3>3. close_bucket' \in Seq(FillsNow') /\ open_bucket' \in Seq(FillsNow')
      BY <2>7, <3>1, <3>2
    <3>4. ASSUME NEW n \in Nodes PROVE result_rings'[n] \in Seq(FillsNow')
      <4>1. result_rings[n] \in Seq(FillsNow) /\ result_rings[n] \in Seq(RoutedTo(n))
        BY <2>1 DEF PaperRoad, RingsRouted
      <4>2. CASE n = cmd.id.node
        BY <2>3, <2>7, <3>1, <4>1, <4>2
      <4>3. CASE n # cmd.id.node
        <5>1. \A i \in 1 .. Len(result_rings[n]) : result_rings[n][i] \in RoutedTo(n)
          BY <4>1
        <5>2. \A i \in 1 .. Len(result_rings[n]) : result_rings[n][i].id # cmd.id
          BY <4>3, <5>1 DEF RoutedTo
        <5> QED BY <2>3, <2>9, <4>1, <5>2
      <4> QED BY <4>2, <4>3
    <3> QED BY <1>1, <2>1, <3>3, <3>4 DEF PaperRoad
  <2>11. PaperTable'
    <3>1. ASSUME NEW i \in order_bitmap \ {k}, NEW id \in OrderId, id = orders[i].id
          PROVE  Waiting(id)' = 1
      <4>1. id.node \in Nodes /\ Waiting(id) = 1 /\ id.slot = i
        BY <2>1, <3>1, TableNodes DEF PaperTable, IInv, TableConsistent
      <4>2. One(cmd, id) = 0
        BY <4>1 DEF One, k
      <4> QED BY <2>6, <4>1, <4>2
    <3>2. \A i \in order_bitmap \ {k} : orders'[i].filled = 0
      BY <2>1, <2>3 DEF PaperTable
    <3> QED BY <2>3, <3>1, <3>2 DEF PaperTable
  <2> QED BY <1>2, <2>10, <2>11 DEF PInv
<1> QED BY <1>3, <1>4

-----------------------------------------------------------------------------
LEMMA InitPaper == Init => PInv
<1> SUFFICES ASSUME Init PROVE PInv
  OBVIOUS
<1>1. Asked
  BY DEF Init, OmsInit, Asked
<1>2. PaperRoad
  BY DEF Init, AdapterInit, OmsInit, PaperRoad
<1>3. PaperTable
  BY DEF Init, OmsInit, PaperTable
<1> QED BY <1>1, <1>2, <1>3 DEF PInv

LEMMA NextPaper == FillsFit /\ IInv /\ RInv /\ WInv /\ PInv /\ [Next]_vars => PInv'
<1> SUFFICES ASSUME FillsFit, IInv, RInv, WInv, PInv, [Next]_vars PROVE PInv'
  OBVIOUS
<1>1. IInv'
  BY NextInv
<1>2. CASE Producers /\ UNCHANGED cursor
  BY <1>2, RequestAsks, RequestPaper DEF Producers
<1>3. CASE PumpDone \/ UNCHANGED vars
  BY <1>3, PassStill, PassPaper
<1>4. CASE BookPass
  BY <1>1, <1>4, SubmitOnePaper, DrainPaper, BookPaper, PassStill, PassPaper DEF BookPass
<1>5. CASE Adapter
  BY <1>5, AdapterPaper
<1> QED BY <1>2, <1>3, <1>4, <1>5 DEF Next

(* PaperFillNeverDropped: when a result ring and a bucket can hold the      *)
(* table, the synthesized fill of every order in the table is in a ring or  *)
(* a bucket, exactly once, until OrderManager_ProcessFillCommand takes it:  *)
(* what KillTripSiteRegistry.hpp:54-55 calls structurally unreachable.      *)
THEOREM PaperFillsArrive == ASSUME FillsFit PROVE Spec => []PaperFillNeverDropped
<1>1. Init => IInv /\ RInv /\ WInv /\ PInv
  BY InitInv, InitRoad, InitWithin, InitPaper
<1>2. IInv /\ RInv /\ WInv /\ PInv /\ [Next]_vars => (IInv /\ RInv /\ WInv /\ PInv)'
  BY NextInv, NextRoad, NextWithin, NextPaper
<1>3. IInv /\ RInv /\ WInv /\ PInv => PaperFillNeverDropped
  <2> SUFFICES ASSUME IInv, PInv, ~Live, NEW k \in order_bitmap
               PROVE  Waiting(orders[k].id) = 1
    BY DEF PaperFillNeverDropped, Waiting
  <2>1. orders[k].id \in OrderId
    BY TableNodes
  <2> QED BY <2>1 DEF PInv, PaperTable
<1> QED BY <1>1, <1>2, <1>3, PTL DEF Spec

-----------------------------------------------------------------------------
(* What a queue says of one order: the report that ends it, and those that  *)
(* neither carry a quantity nor end it.                                     *)
Final(cmd) == cmd.complete \/ cmd.terminal
Mute(cmd) == cmd.qty = 0 /\ ~Final(cmd)
Quiet(q, id) == \A i \in 1 .. Len(q) : q[i].id = id => Mute(q[i])
Concludes(q, id) == \E i \in 1 .. Len(q) : q[i].id = id /\ Final(q[i])
FinalLast(q, id) ==
  \A i, j \in 1 .. Len(q) :
    i < j /\ q[i].id = id /\ q[j].id = id /\ Final(q[i]) => Mute(q[j])

LEMMA QuietEmpty ==
  ASSUME NEW id
  PROVE  Quiet(<< >>, id) /\ FinalLast(<< >>, id) /\ ~Concludes(<< >>, id)
BY DEF Quiet, FinalLast, Concludes

LEMMA QuietTold ==
  ASSUME NEW q \in Seq(Command), NEW id, Quiet(q, id)
  PROVE  Told(q, id) = 0 /\ ~Concludes(q, id)
<1>1. \A i \in 1 .. Len(Amounts(q, id)) : Amounts(q, id)[i] = 0
  BY AmountsTyped DEF Own, Quiet, Mute
<1>2. Told(q, id) = 0
  BY <1>1, AmountsTyped, SumZero DEF Told
<1> QED BY <1>2 DEF Quiet, Concludes, Mute

LEMMA QuietAppend ==
  ASSUME NEW q \in Seq(Command), NEW cmd \in Command, NEW id
  PROVE  LET r == Append(q, cmd)
         IN /\ Quiet(r, id) <=> Quiet(q, id) /\ (cmd.id = id => Mute(cmd))
            /\ Concludes(r, id) <=> Concludes(q, id) \/ (cmd.id = id /\ Final(cmd))
            /\ FinalLast(q, id) /\ (cmd.id = id => ~Concludes(q, id) \/ Mute(cmd))
                 => FinalLast(r, id)
<1> DEFINE r == Append(q, cmd)
<1>1. /\ Len(r) = Len(q) + 1 /\ Len(q) \in Nat
      /\ \A i \in 1 .. Len(q) : r[i] = q[i]
      /\ r[Len(q) + 1] = cmd
      /\ \A i \in 1 .. Len(r) : i \in 1 .. Len(q) \/ i = Len(q) + 1
      /\ \A i \in 1 .. Len(q) : i \in 1 .. Len(r)
      /\ Len(q) + 1 \in 1 .. Len(r)
  OBVIOUS
<1> HIDE DEF r
<1>2. Quiet(r, id) <=> Quiet(q, id) /\ (cmd.id = id => Mute(cmd))
  <2>1. ASSUME Quiet(r, id) PROVE Quiet(q, id) /\ (cmd.id = id => Mute(cmd))
    BY <1>1, <2>1 DEF Quiet
  <2>2. ASSUME Quiet(q, id), cmd.id = id => Mute(cmd) PROVE Quiet(r, id)
    BY <1>1, <2>2 DEF Quiet
  <2> QED BY <2>1, <2>2
<1>3. Concludes(r, id) <=> Concludes(q, id) \/ (cmd.id = id /\ Final(cmd))
  <2>1. ASSUME Concludes(r, id) PROVE Concludes(q, id) \/ (cmd.id = id /\ Final(cmd))
    BY <1>1, <2>1 DEF Concludes
  <2>2. ASSUME Concludes(q, id) \/ (cmd.id = id /\ Final(cmd)) PROVE Concludes(r, id)
    BY <1>1, <2>2 DEF Concludes
  <2> QED BY <2>1, <2>2
<1>4. ASSUME FinalLast(q, id), cmd.id = id => ~Concludes(q, id) \/ Mute(cmd)
      PROVE  FinalLast(r, id)
  <2> SUFFICES ASSUME NEW i \in 1 .. Len(r), NEW j \in 1 .. Len(r), i < j,
                      r[i].id = id, r[j].id = id, Final(r[i])
               PROVE  Mute(r[j])
    BY DEF FinalLast
  <2>1. i \in 1 .. Len(q)
    BY <1>1
  <2>2. CASE j \in 1 .. Len(q)
    BY <1>1, <1>4, <2>1, <2>2 DEF FinalLast
  <2>3. CASE j = Len(q) + 1
    <3>1. Concludes(q, id)
      BY <1>1, <2>1 DEF Concludes
    <3> QED BY <1>1, <1>4, <2>3, <3>1
  <2> QED BY <1>1, <2>2, <2>3
<1> QED BY <1>2, <1>3, <1>4 DEF r

LEMMA QuietTail ==
  ASSUME NEW q \in Seq(Command), q # << >>, NEW id
  PROVE  LET r == Tail(q)
             c == Head(q)
         IN /\ c \in Command /\ r \in Seq(Command)
            /\ Quiet(q, id) <=> Quiet(r, id) /\ (c.id = id => Mute(c))
            /\ Concludes(q, id) <=> Concludes(r, id) \/ (c.id = id /\ Final(c))
            /\ FinalLast(q, id) => FinalLast(r, id)
            /\ FinalLast(q, id) /\ c.id = id /\ Final(c) => Quiet(r, id)
<1> DEFINE r == Tail(q)
           c == Head(q)
<1>1. /\ c = q[1] /\ 1 \in 1 .. Len(q) /\ Len(r) = Len(q) - 1 /\ Len(q) \in Nat /\ Len(q) >= 1
      /\ \A i \in 1 .. Len(r) : r[i] = q[i + 1] /\ i + 1 \in 1 .. Len(q) /\ 1 < i + 1
      /\ \A i \in 1 .. Len(q) : i = 1 \/ i - 1 \in 1 .. Len(r)
      /\ \A i \in 1 .. Len(q) : i # 1 => r[i - 1] = q[i]
      /\ c \in Command /\ r \in Seq(Command)
  OBVIOUS
<1> HIDE DEF r, c
<1>2. Quiet(q, id) <=> Quiet(r, id) /\ (c.id = id => Mute(c))
  <2>1. ASSUME Quiet(q, id) PROVE Quiet(r, id) /\ (c.id = id => Mute(c))
    BY <1>1, <2>1 DEF Quiet
  <2>2. ASSUME Quiet(r, id), c.id = id => Mute(c) PROVE Quiet(q, id)
    <3> SUFFICES ASSUME NEW i \in 1 .. Len(q), q[i].id = id PROVE Mute(q[i])
      BY DEF Quiet
    <3>1. CASE i = 1
      BY <1>1, <2>2, <3>1
    <3>2. CASE i # 1
      BY <1>1, <2>2, <3>2 DEF Quiet
    <3> QED BY <3>1, <3>2
  <2> QED BY <2>1, <2>2
<1>3. Concludes(q, id) <=> Concludes(r, id) \/ (c.id = id /\ Final(c))
  <2>1. ASSUME Concludes(r, id) \/ (c.id = id /\ Final(c)) PROVE Concludes(q, id)
    BY <1>1, <2>1 DEF Concludes
  <2>2. ASSUME Concludes(q, id) PROVE Concludes(r, id) \/ (c.id = id /\ Final(c))
    <3>1. PICK i \in 1 .. Len(q) : q[i].id = id /\ Final(q[i])
      BY <2>2 DEF Concludes
    <3>2. CASE i = 1
      BY <1>1, <3>1, <3>2
    <3>3. CASE i # 1
      BY <1>1, <3>1, <3>3 DEF Concludes
    <3> QED BY <3>2, <3>3
  <2> QED BY <2>1, <2>2
<1>4. ASSUME FinalLast(q, id) PROVE FinalLast(r, id)
  <2> SUFFICES ASSUME NEW i \in 1 .. Len(r), NEW j \in 1 .. Len(r), i < j,
                      r[i].id = id, r[j].id = id, Final(r[i])
               PROVE  Mute(r[j])
    BY DEF FinalLast
  <2>1. i + 1 < j + 1 /\ i + 1 \in 1 .. Len(q) /\ j + 1 \in 1 .. Len(q)
    BY <1>1
  <2> QED BY <1>1, <1>4, <2>1 DEF FinalLast
<1>5. ASSUME FinalLast(q, id), c.id = id, Final(c) PROVE Quiet(r, id)
  <2> SUFFICES ASSUME NEW i \in 1 .. Len(r), r[i].id = id PROVE Mute(r[i])
    BY DEF Quiet
  <2> QED BY <1>1, <1>5 DEF FinalLast
<1> QED BY <1>1, <1>2, <1>3, <1>4, <1>5 DEF r, c

-----------------------------------------------------------------------------
(* The reports of one order in the queues they pass: the report that ends   *)
(* it is the last to carry anything, in its queue and in those behind.      *)
InOrder(cb, ob, ring, ws, wr, id) ==
  /\ FinalLast(cb, id) /\ FinalLast(ob, id) /\ FinalLast(ring, id)
  /\ FinalLast(ws, id) /\ FinalLast(wr, id)
  /\ Concludes(cb, id) => Quiet(ob, id) /\ Quiet(ring, id) /\ Quiet(ws, id) /\ Quiet(wr, id)
  /\ Concludes(ob, id) => Quiet(cb, id) /\ Quiet(ring, id) /\ Quiet(ws, id) /\ Quiet(wr, id)
  /\ Concludes(ring, id) => Quiet(cb, id) /\ Quiet(ob, id) /\ Quiet(ws, id) /\ Quiet(wr, id)
  /\ Concludes(ws, id) => Quiet(ring, id) /\ Quiet(wr, id)
  /\ Concludes(wr, id) => Quiet(ring, id)
Concluded(cb, ob, ring, ws, wr, id) ==
  \/ Concludes(cb, id) \/ Concludes(ob, id) \/ Concludes(ring, id)
  \/ Concludes(ws, id) \/ Concludes(wr, id)

LEMMA BucketsSwap ==
  ASSUME NEW cb, NEW ob, NEW ring, NEW ws, NEW wr, NEW id
  PROVE  /\ InOrder(cb, ob, ring, ws, wr, id) <=> InOrder(ob, cb, ring, ws, wr, id)
         /\ Concluded(cb, ob, ring, ws, wr, id) <=> Concluded(ob, cb, ring, ws, wr, id)
BY DEF InOrder, Concluded

LEMMA OtherTaken ==
  ASSUME NEW b \in Seq(Command), NEW o, NEW ring, NEW ws, NEW wr, NEW id,
         NEW cmd \in Command, cmd.id # id, InOrder(b, o, ring, ws, wr, id)
  PROVE  /\ InOrder(Append(b, cmd), o, ring, ws, wr, id)
         /\ Concluded(Append(b, cmd), o, ring, ws, wr, id) => Concluded(b, o, ring, ws, wr, id)
<1> DEFINE r == Append(b, cmd)
<1>1. /\ Quiet(r, id) <=> Quiet(b, id)
      /\ Concludes(r, id) <=> Concludes(b, id)
      /\ FinalLast(b, id) => FinalLast(r, id)
  BY QuietAppend
<1> HIDE DEF r
<1>2. InOrder(r, o, ring, ws, wr, id)
  BY <1>1 DEF InOrder
<1>3. Concluded(r, o, ring, ws, wr, id) => Concluded(b, o, ring, ws, wr, id)
  BY <1>1 DEF Concluded
<1> QED BY <1>2, <1>3 DEF r

LEMMA RingMoves ==
  ASSUME NEW b \in Seq(Command), NEW o \in Seq(Command), NEW ring \in Seq(Command),
         NEW ws \in Seq(Command), NEW wr \in Seq(Command), NEW id, ring # << >>,
         Head(ring).id = id => Mute(Head(ring)) \/ Final(Head(ring)),
         InOrder(b, o, ring, ws, wr, id)
  PROVE  /\ InOrder(Append(b, Head(ring)), o, Tail(ring), ws, wr, id)
         /\ Concluded(Append(b, Head(ring)), o, Tail(ring), ws, wr, id)
              => Concluded(b, o, ring, ws, wr, id)
<1> DEFINE c == Head(ring)
           b2 == Append(b, c)
           r2 == Tail(ring)
<1>1. /\ c \in Command
      /\ Quiet(ring, id) <=> Quiet(r2, id) /\ (c.id = id => Mute(c))
      /\ Concludes(ring, id) <=> Concludes(r2, id) \/ (c.id = id /\ Final(c))
      /\ FinalLast(ring, id) => FinalLast(r2, id)
      /\ FinalLast(ring, id) /\ c.id = id /\ Final(c) => Quiet(r2, id)
  BY QuietTail
<1>2. /\ Quiet(b2, id) <=> Quiet(b, id) /\ (c.id = id => Mute(c))
      /\ Concludes(b2, id) <=> Concludes(b, id) \/ (c.id = id /\ Final(c))
      /\ FinalLast(b, id) /\ (c.id = id => ~Concludes(b, id) \/ Mute(c)) => FinalLast(b2, id)
  BY <1>1, QuietAppend
<1>3. c.id = id => Mute(c) \/ Final(c)
  OBVIOUS
<1>4. /\ Quiet(b, id) => ~Concludes(b, id)
      /\ Quiet(o, id) => ~Concludes(o, id)
      /\ Quiet(r2, id) => ~Concludes(r2, id)
      /\ Quiet(ws, id) => ~Concludes(ws, id)
      /\ Quiet(wr, id) => ~Concludes(wr, id)
      /\ Mute(c) => ~Final(c)
  BY QuietTold DEF Quiet, Concludes, Mute
<1> HIDE DEF c, b2, r2
<1>5. CASE c.id = id /\ Final(c)
  <2>1. Quiet(b, id) /\ Quiet(o, id) /\ Quiet(ws, id) /\ Quiet(wr, id) /\ Quiet(r2, id)
    BY <1>1, <1>5 DEF InOrder
  <2>2. InOrder(b2, o, r2, ws, wr, id)
    BY <1>1, <1>2, <1>4, <2>1 DEF InOrder
  <2>3. Concluded(b, o, ring, ws, wr, id)
    BY <1>1, <1>5 DEF Concluded
  <2> QED BY <2>2, <2>3 DEF b2, c, r2
<1>6. CASE ~(c.id = id /\ Final(c))
  <2>1. /\ Quiet(ring, id) <=> Quiet(r2, id)
        /\ Concludes(ring, id) <=> Concludes(r2, id)
        /\ Quiet(b2, id) <=> Quiet(b, id)
        /\ Concludes(b2, id) <=> Concludes(b, id)
        /\ FinalLast(b, id) => FinalLast(b2, id)
    BY <1>1, <1>2, <1>3, <1>6
  <2>2. InOrder(b2, o, r2, ws, wr, id)
    BY <1>1, <2>1 DEF InOrder
  <2>3. Concluded(b2, o, r2, ws, wr, id) => Concluded(b, o, ring, ws, wr, id)
    BY <2>1 DEF Concluded
  <2> QED BY <2>2, <2>3 DEF b2, c, r2
<1> QED BY <1>5, <1>6

LEMMA StreamMoves ==
  ASSUME NEW b \in Seq(Command), NEW o \in Seq(Command), NEW ring \in Seq(Command),
         NEW ws \in Seq(Command), NEW wr \in Seq(Command), NEW id, ws # << >>,
         Head(ws).id = id => Quiet(o, id),
         InOrder(b, o, ring, ws, wr, id)
  PROVE  /\ InOrder(Append(b, Head(ws)), o, ring, Tail(ws), wr, id)
         /\ Concluded(Append(b, Head(ws)), o, ring, Tail(ws), wr, id)
              => Concluded(b, o, ring, ws, wr, id)
<1> DEFINE c == Head(ws)
           b2 == Append(b, c)
           w2 == Tail(ws)
<1>1. /\ c \in Command
      /\ Quiet(ws, id) <=> Quiet(w2, id) /\ (c.id = id => Mute(c))
      /\ Concludes(ws, id) <=> Concludes(w2, id) \/ (c.id = id /\ Final(c))
      /\ FinalLast(ws, id) => FinalLast(w2, id)
      /\ FinalLast(ws, id) /\ c.id = id /\ Final(c) => Quiet(w2, id)
  BY QuietTail
<1>2. /\ Quiet(b2, id) <=> Quiet(b, id) /\ (c.id = id => Mute(c))
      /\ Concludes(b2, id) <=> Concludes(b, id) \/ (c.id = id /\ Final(c))
      /\ FinalLast(b, id) /\ (c.id = id => ~Concludes(b, id) \/ Mute(c)) => FinalLast(b2, id)
  BY <1>1, QuietAppend
<1>3. c.id = id => Quiet(o, id)
  OBVIOUS
<1>4. /\ Quiet(o, id) => ~Concludes(o, id)
      /\ Quiet(ring, id) => ~Concludes(ring, id)
      /\ Quiet(w2, id) => ~Concludes(w2, id)
      /\ Quiet(wr, id) => ~Concludes(wr, id)
      /\ Mute(c) => ~Final(c)
  BY QuietTold DEF Quiet, Concludes, Mute
<1> HIDE DEF c, b2, w2
<1>5. CASE c.id = id /\ ~Mute(c)
  <2>1. ~Concludes(b, id) /\ ~Concludes(o, id) /\ ~Concludes(ring, id)
    BY <1>1, <1>5 DEF InOrder
  <2>2. Final(c) => Quiet(ring, id) /\ Quiet(wr, id) /\ Quiet(w2, id)
    BY <1>1, <1>5 DEF InOrder
  <2>3. FinalLast(b2, id) /\ FinalLast(w2, id)
    BY <1>1, <1>2, <2>1 DEF InOrder
  <2>4. Concludes(w2, id) => Quiet(ring, id) /\ Quiet(wr, id)
    BY <1>1 DEF InOrder
  <2>5. InOrder(b2, o, ring, w2, wr, id)
    BY <1>2, <1>3, <1>5, <2>1, <2>2, <2>3, <2>4 DEF InOrder
  <2>6. Concluded(b2, o, ring, w2, wr, id) => Concluded(b, o, ring, ws, wr, id)
    BY <1>1, <1>2 DEF Concluded
  <2> QED BY <2>5, <2>6 DEF b2, c, w2
<1>6. CASE ~(c.id = id /\ ~Mute(c))
  <2>1. /\ Quiet(ws, id) <=> Quiet(w2, id)
        /\ Concludes(ws, id) <=> Concludes(w2, id)
        /\ Quiet(b2, id) <=> Quiet(b, id)
        /\ Concludes(b2, id) <=> Concludes(b, id)
        /\ FinalLast(b, id) => FinalLast(b2, id)
    BY <1>1, <1>2, <1>4, <1>6
  <2>2. InOrder(b2, o, ring, w2, wr, id)
    BY <1>1, <2>1 DEF InOrder
  <2>3. Concluded(b2, o, ring, w2, wr, id) => Concluded(b, o, ring, ws, wr, id)
    BY <2>1 DEF Concluded
  <2> QED BY <2>2, <2>3 DEF b2, c, w2
<1> QED BY <1>5, <1>6

LEMMA WireMoves ==
  ASSUME NEW b, NEW o, NEW ring \in Seq(Command),
         NEW ws \in Seq(Command), NEW wr \in Seq(Command), NEW id, wr # << >>,
         InOrder(b, o, ring, ws, wr, id)
  PROVE  /\ InOrder(b, o, ring, Append(ws, Head(wr)), Tail(wr), id)
         /\ Concluded(b, o, ring, Append(ws, Head(wr)), Tail(wr), id)
              => Concluded(b, o, ring, ws, wr, id)
<1> DEFINE c == Head(wr)
           w2 == Append(ws, c)
           x2 == Tail(wr)
<1>1. /\ c \in Command
      /\ Quiet(wr, id) <=> Quiet(x2, id) /\ (c.id = id => Mute(c))
      /\ Concludes(wr, id) <=> Concludes(x2, id) \/ (c.id = id /\ Final(c))
      /\ FinalLast(wr, id) => FinalLast(x2, id)
      /\ FinalLast(wr, id) /\ c.id = id /\ Final(c) => Quiet(x2, id)
  BY QuietTail
<1>2. /\ Quiet(w2, id) <=> Quiet(ws, id) /\ (c.id = id => Mute(c))
      /\ Concludes(w2, id) <=> Concludes(ws, id) \/ (c.id = id /\ Final(c))
      /\ FinalLast(ws, id) /\ (c.id = id => ~Concludes(ws, id) \/ Mute(c)) => FinalLast(w2, id)
  BY <1>1, QuietAppend
<1>3. Mute(c) => ~Final(c)
  BY DEF Mute
<1> HIDE DEF c, w2, x2
<1>4. CASE c.id = id /\ ~Mute(c)
  <2>1. ~Concludes(b, id) /\ ~Concludes(o, id) /\ ~Concludes(ring, id) /\ ~Concludes(ws, id)
    BY <1>1, <1>4 DEF InOrder
  <2>2. Final(c) => Quiet(ring, id) /\ Quiet(x2, id)
    BY <1>1, <1>4 DEF InOrder
  <2>3. InOrder(b, o, ring, w2, x2, id)
    BY <1>1, <1>2, <1>4, <2>1, <2>2 DEF InOrder
  <2>4. Concluded(b, o, ring, w2, x2, id) => Concluded(b, o, ring, ws, wr, id)
    BY <1>1, <1>2 DEF Concluded
  <2> QED BY <2>3, <2>4 DEF c, w2, x2
<1>5. CASE ~(c.id = id /\ ~Mute(c))
  <2>1. /\ Quiet(wr, id) <=> Quiet(x2, id)
        /\ Concludes(wr, id) <=> Concludes(x2, id)
        /\ Quiet(w2, id) <=> Quiet(ws, id)
        /\ Concludes(w2, id) <=> Concludes(ws, id)
        /\ FinalLast(ws, id) => FinalLast(w2, id)
    BY <1>1, <1>2, <1>3, <1>5
  <2>2. InOrder(b, o, ring, w2, x2, id)
    BY <1>1, <2>1 DEF InOrder
  <2>3. Concluded(b, o, ring, w2, x2, id) => Concluded(b, o, ring, ws, wr, id)
    BY <2>1 DEF Concluded
  <2> QED BY <2>2, <2>3 DEF c, w2, x2
<1> QED BY <1>4, <1>5

(* A report joins a queue when nothing has ended its order yet.             *)
LEMMA WireGains ==
  ASSUME NEW b, NEW o, NEW ring, NEW ws, NEW wr \in Seq(Command), NEW id,
         NEW cmd \in Command, InOrder(b, o, ring, ws, wr, id),
         cmd.id = id => Mute(cmd) \/ (Quiet(ring, id) /\ ~Concluded(b, o, ring, ws, wr, id))
  PROVE  /\ InOrder(b, o, ring, ws, Append(wr, cmd), id)
         /\ Concluded(b, o, ring, ws, Append(wr, cmd), id)
              => Concluded(b, o, ring, ws, wr, id) \/ (cmd.id = id /\ Final(cmd))
<1> DEFINE x2 == Append(wr, cmd)
<1>1. /\ Quiet(x2, id) <=> Quiet(wr, id) /\ (cmd.id = id => Mute(cmd))
      /\ Concludes(x2, id) <=> Concludes(wr, id) \/ (cmd.id = id /\ Final(cmd))
      /\ FinalLast(wr, id) /\ (cmd.id = id => ~Concludes(wr, id) \/ Mute(cmd))
           => FinalLast(x2, id)
  BY QuietAppend
<1>2. Mute(cmd) => ~Final(cmd)
  BY DEF Mute
<1> HIDE DEF x2
<1>3. InOrder(b, o, ring, ws, x2, id)
  BY <1>1, <1>2 DEF InOrder, Concluded
<1>4. Concluded(b, o, ring, ws, x2, id)
        => Concluded(b, o, ring, ws, wr, id) \/ (cmd.id = id /\ Final(cmd))
  BY <1>1 DEF Concluded
<1> QED BY <1>3, <1>4 DEF x2

LEMMA RingGains ==
  ASSUME NEW b, NEW o, NEW ring \in Seq(Command), NEW ws, NEW wr, NEW id,
         NEW cmd \in Command, InOrder(b, o, ring, ws, wr, id),
         cmd.id = id => \/ Mute(cmd)
                        \/ /\ Quiet(b, id) /\ Quiet(o, id) /\ Quiet(ws, id) /\ Quiet(wr, id)
                           /\ ~Concluded(b, o, ring, ws, wr, id)
  PROVE  /\ InOrder(b, o, Append(ring, cmd), ws, wr, id)
         /\ Concluded(b, o, Append(ring, cmd), ws, wr, id)
              => Concluded(b, o, ring, ws, wr, id) \/ (cmd.id = id /\ Final(cmd))
<1> DEFINE r2 == Append(ring, cmd)
<1>1. /\ Quiet(r2, id) <=> Quiet(ring, id) /\ (cmd.id = id => Mute(cmd))
      /\ Concludes(r2, id) <=> Concludes(ring, id) \/ (cmd.id = id /\ Final(cmd))
      /\ FinalLast(ring, id) /\ (cmd.id = id => ~Concludes(ring, id) \/ Mute(cmd))
           => FinalLast(r2, id)
  BY QuietAppend
<1>2. Mute(cmd) => ~Final(cmd)
  BY DEF Mute
<1> HIDE DEF r2
<1>3. InOrder(b, o, r2, ws, wr, id)
  BY <1>1, <1>2 DEF InOrder, Concluded
<1>4. Concluded(b, o, r2, ws, wr, id)
        => Concluded(b, o, ring, ws, wr, id) \/ (cmd.id = id /\ Final(cmd))
  BY <1>1 DEF Concluded
<1> QED BY <1>3, <1>4 DEF r2

(* A bucket gives up its oldest report; if that one ends the order, nothing *)
(* of it is left.                                                           *)
LEMMA BucketGives ==
  ASSUME NEW b \in Seq(Command), NEW o, NEW ring, NEW ws, NEW wr, NEW id, b # << >>,
         InOrder(b, o, ring, ws, wr, id)
  PROVE  /\ InOrder(Tail(b), o, ring, ws, wr, id)
         /\ Concluded(Tail(b), o, ring, ws, wr, id) => Concluded(b, o, ring, ws, wr, id)
         /\ Head(b).id = id /\ Final(Head(b)) =>
              /\ Concluded(b, o, ring, ws, wr, id)
              /\ Quiet(Tail(b), id) /\ Quiet(o, id) /\ Quiet(ring, id)
              /\ Quiet(ws, id) /\ Quiet(wr, id)
<1> DEFINE c == Head(b)
           b2 == Tail(b)
<1>1. /\ Quiet(b, id) <=> Quiet(b2, id) /\ (c.id = id => Mute(c))
      /\ Concludes(b, id) <=> Concludes(b2, id) \/ (c.id = id /\ Final(c))
      /\ FinalLast(b, id) => FinalLast(b2, id)
      /\ FinalLast(b, id) /\ c.id = id /\ Final(c) => Quiet(b2, id)
  BY QuietTail
<1> HIDE DEF c, b2
<1>2. InOrder(b2, o, ring, ws, wr, id)
  BY <1>1 DEF InOrder
<1>3. Concluded(b2, o, ring, ws, wr, id) => Concluded(b, o, ring, ws, wr, id)
  BY <1>1 DEF Concluded
<1>4. ASSUME c.id = id, Final(c)
      PROVE  /\ Concluded(b, o, ring, ws, wr, id)
             /\ Quiet(b2, id) /\ Quiet(o, id) /\ Quiet(ring, id) /\ Quiet(ws, id) /\ Quiet(wr, id)
  BY <1>1, <1>4 DEF InOrder, Concluded
<1> QED BY <1>2, <1>3, <1>4 DEF c, b2

-----------------------------------------------------------------------------
(* Nothing is lost while no queue is full, on top of IInv, RInv and WInv.   *)
QueuesHaveRoom ==
  /\ \A n \in Nodes : Len(result_rings[n]) < ResultCap
  /\ Len(ws_result_queue) < WsCap
  /\ BucketsHaveRoom

(* The reports there can be when no answer is lost: a success is of an      *)
(* order the venue took, a failure of one it never takes; of the order the  *)
(* worker holds only the websocket speaks; and beside the websocket REST    *)
(* acknowledges and tells nothing.                                          *)
Honest(m, w, v) ==
  {cmd \in Command :
     /\ cmd.success => cmd.id \in DOMAIN v
     /\ ~cmd.success => Mute(cmd) /\ cmd.id \notin DOMAIN v
     /\ w.stage # "idle" /\ w.sub.id = cmd.id => cmd.success /\ m = "ws"
     /\ m = "ws" /\ cmd.from = "REST" => Mute(cmd)}
HonestNow == Honest(mode, worker, venue)
FromRest(S) == {cmd \in S : cmd.from = "REST"}

RoadHonest ==
  Live => /\ close_bucket \in Seq(HonestNow) /\ open_bucket \in Seq(HonestNow)
          /\ result_rings \in [Nodes -> Seq(FromRest(HonestNow))]
          /\ ws_result_queue \in Seq(HonestNow) /\ wire \in Seq(HonestNow)

StreamUp == connected = WsActive /\ (~WsActive => wire = << >> /\ ws_result_queue = << >>)

(* An order the worker still has to answer for is in the table, and without *)
(* the websocket the venue's open order is the one the worker waits for.    *)
WorkKnown ==
  worker.stage = "call" \/ (worker.stage = "answer" /\ ~WsActive) => InTable(worker.sub.id)
VenueWaits ==
  \A id \in DOMAIN venue :
    Live /\ id.node \in Nodes /\ (~WsActive /\ venue[id].status = "open" => Answering(id))

(* While the drain sorts, a bucket has reports of slots of its type only.   *)
BucketsSorted ==
  /\ phase \in {"pump", "manual", "submit"} => close_bucket = << >> /\ open_bucket = << >>
  /\ phase \in {"drain", "drainws"} =>
       /\ \A i \in 1 .. Len(close_bucket) : orders[close_bucket[i].id.slot].type = "SELL"
       /\ \A i \in 1 .. Len(open_bucket) : orders[open_bucket[i].id.slot].type # "SELL"

FinalsLast ==
  \A id \in DOMAIN venue :
    /\ InOrder(close_bucket, open_bucket, result_rings[id.node], ws_result_queue, wire, id)
    /\ Concluded(close_bucket, open_bucket, result_rings[id.node], ws_result_queue, wire, id)
         => venue[id].status # "open"

LInv == /\ RoadHonest /\ StreamUp /\ WorkKnown /\ VenueWaits /\ BucketsSorted /\ FinalsLast
        /\ NoLegLost

LEMMA HonestTyped ==
  ASSUME NEW m, NEW w, NEW v
  PROVE  Honest(m, w, v) \subseteq Command /\ FromRest(Honest(m, w, v)) \subseteq Command
BY DEF Honest, FromRest

(* An order of the table sits in the slot its id names.                     *)
LEMMA TableSlot ==
  ASSUME IInv, NEW id
  PROVE  /\ InTable(id) <=> id.slot \in order_bitmap /\ orders[id.slot].id = id
         /\ \A k \in order_bitmap : orders[k].id = id => k = id.slot
BY DEF IInv, TableConsistent, InTable

(* Where a quantity moves from one queue to another, the accounts stand.    *)
LEMMA LegsKept ==
  ASSUME LInv, UNCHANGED <<mode, worker, venue, order_bitmap, orders>>,
         \A id \in DOMAIN venue : Undelivered(id)' = Undelivered(id)
  PROVE  WorkKnown' /\ VenueWaits' /\ NoLegLost'
<1>1. WorkKnown' /\ VenueWaits'
  BY DEF LInv, WorkKnown, VenueWaits, WsActive, Live, Answering, InTable
<1>2. \A id \in DOMAIN venue :
        (InTable(id)' <=> InTable(id)) /\ (Answering(id)' <=> Answering(id))
  BY DEF InTable, Answering, WsActive
<1>3. NoLegLost'
  BY <1>2 DEF LInv, NoLegLost
<1> QED BY <1>1, <1>3

LEMMA PassLegs ==
  ASSUME IInv, LInv,
         \/ PumpDone \/ PassDone \/ UNCHANGED vars \/ \E s \in Slots : SubmitNext(s)
         \/ \E s \in Slots : EntryRequest(s) \/ ExitRequest(s)
  PROVE  LInv'
<1>1. UNCHANGED <<adapterVars, tableVars, close_bucket, open_bucket>>
  BY DEF PumpDone, PassDone, vars, omsVars, SubmitNext, EntryRequest, ExitRequest, Request
<1>2. UNCHANGED <<mode, connected, order_bitmap, orders, venue, worker, result_rings,
                  ws_result_queue, wire, close_bucket, open_bucket>>
      /\ Unmoved
  BY <1>1 DEF adapterVars, stream, tableVars, Unmoved
<1>3. \A id \in DOMAIN venue : Undelivered(id)' = Undelivered(id)
  BY <1>2, SameUndelivered
<1>4. WorkKnown' /\ VenueWaits' /\ NoLegLost'
  BY <1>2, <1>3, LegsKept
<1>5. RoadHonest' /\ StreamUp' /\ FinalsLast'
  BY <1>2 DEF LInv, RoadHonest, HonestNow, StreamUp, FinalsLast, Live, WsActive
<1>6. BucketsSorted'
  <2>1. BucketsSorted
    BY DEF LInv
  <2>2. CASE PumpDone \/ \E s \in Slots : SubmitNext(s)
    <3>1. phase \in {"pump", "manual", "submit"}
      BY <2>2 DEF PumpDone, SubmitNext
    <3>2. close_bucket' = << >> /\ open_bucket' = << >>
      BY <1>2, <2>1, <3>1 DEF BucketsSorted
    <3> QED BY <3>2 DEF BucketsSorted
  <2>3. CASE PassDone
    BY <1>2, <2>3 DEF PassDone, BucketsSorted
  <2>4. CASE phase' = phase
    BY <1>2, <2>1, <2>4 DEF BucketsSorted
  <2> QED BY <2>2, <2>3, <2>4 DEF vars, omsVars, EntryRequest, ExitRequest, Request
<1> QED BY <1>4, <1>5, <1>6 DEF LInv

(* What the drain moves goes into the bucket of the type of its slot.       *)
LEMMA BucketRoom ==
  ASSUME BucketsHaveRoom, NEW cmd, Bucket(cmd)
  PROVE  \/ /\ close_bucket' = Append(close_bucket, cmd) /\ open_bucket' = open_bucket
            /\ orders[cmd.id.slot].type = "SELL"
         \/ /\ open_bucket' = Append(open_bucket, cmd) /\ close_bucket' = close_bucket
            /\ orders[cmd.id.slot].type # "SELL"
BY DEF BucketsHaveRoom, Bucket, Offer

LEMMA BucketSorts ==
  ASSUME QueuesOK, BucketsHaveRoom, NEW cmd \in Command, Bucket(cmd), orders' = orders,
         BucketsSorted, phase \in {"drain", "drainws"}, phase' \in {"drain", "drainws"}
  PROVE  BucketsSorted'
<1>1. /\ \A i \in 1 .. Len(close_bucket) : orders[close_bucket[i].id.slot].type = "SELL"
      /\ \A i \in 1 .. Len(open_bucket) : orders[open_bucket[i].id.slot].type # "SELL"
  BY DEF BucketsSorted
<1>2. close_bucket \in Seq(Command) /\ open_bucket \in Seq(Command)
  BY DEF QueuesOK
<1>3. ASSUME NEW q \in Seq(Command), NEW i \in 1 .. Len(Append(q, cmd))
      PROVE  \/ i \in 1 .. Len(q) /\ Append(q, cmd)[i] = q[i]
             \/ Append(q, cmd)[i] = cmd
  OBVIOUS
<1>4. /\ \A i \in 1 .. Len(close_bucket') : orders[close_bucket'[i].id.slot].type = "SELL"
      /\ \A i \in 1 .. Len(open_bucket') : orders[open_bucket'[i].id.slot].type # "SELL"
  <2>1. CASE /\ close_bucket' = Append(close_bucket, cmd) /\ open_bucket' = open_bucket
             /\ orders[cmd.id.slot].type = "SELL"
    <3>1. ASSUME NEW i \in 1 .. Len(Append(close_bucket, cmd))
          PROVE  orders[Append(close_bucket, cmd)[i].id.slot].type = "SELL"
      BY <1>1, <1>2, <1>3, <2>1
    <3> QED BY <1>1, <2>1, <3>1
  <2>2. CASE /\ open_bucket' = Append(open_bucket, cmd) /\ close_bucket' = close_bucket
             /\ orders[cmd.id.slot].type # "SELL"
    <3>1. ASSUME NEW i \in 1 .. Len(Append(open_bucket, cmd))
          PROVE  orders[Append(open_bucket, cmd)[i].id.slot].type # "SELL"
      BY <1>1, <1>2, <1>3, <2>2
    <3> QED BY <1>1, <2>2, <3>1
  <2> QED BY <2>1, <2>2, BucketRoom
<1> QED BY <1>4 DEF BucketsSorted

LEMMA HonestBuckets ==
  ASSUME NEW S, BucketsHaveRoom, NEW cmd \in S, Bucket(cmd),
         close_bucket \in Seq(S), open_bucket \in Seq(S)
  PROVE  close_bucket' \in Seq(S) /\ open_bucket' \in Seq(S)
<1>1. \A q \in Seq(S) : Append(q, cmd) \in Seq(S)
  OBVIOUS
<1> QED BY <1>1, BucketRoom

(* An order of the venue: its id, its node, and the queues its reports are  *)
(* in.                                                                      *)
LEMMA VenueTyped ==
  ASSUME IInv, LInv, NEW id \in DOMAIN venue
  PROVE  /\ Live /\ id \in OrderId /\ id.node \in Nodes
         /\ venue[id] \in VenueOrder /\ venue[id].executed \in Nat
         /\ close_bucket \in Seq(Command) /\ open_bucket \in Seq(Command)
         /\ result_rings[id.node] \in Seq(Command)
         /\ ws_result_queue \in Seq(Command) /\ wire \in Seq(Command)
         /\ InOrder(close_bucket, open_bucket, result_rings[id.node], ws_result_queue, wire, id)
         /\ Concluded(close_bucket, open_bucket, result_rings[id.node], ws_result_queue, wire, id)
              => venue[id].status # "open"
<1>1. id \in OrderId /\ venue[id] \in VenueOrder
  BY DEF IInv, OmsTypeOK, VenueOK
<1>2. Live /\ id.node \in Nodes
  BY DEF LInv, VenueWaits
<1>3. /\ InOrder(close_bucket, open_bucket, result_rings[id.node], ws_result_queue, wire, id)
      /\ Concluded(close_bucket, open_bucket, result_rings[id.node], ws_result_queue, wire, id)
           => venue[id].status # "open"
  BY DEF LInv, FinalsLast
<1>4. /\ close_bucket \in Seq(Command) /\ open_bucket \in Seq(Command)
      /\ result_rings[id.node] \in Seq(Command)
      /\ ws_result_queue \in Seq(Command) /\ wire \in Seq(Command)
  BY <1>2 DEF IInv, OmsTypeOK, QueuesOK, RoadOK
<1> QED BY <1>1, <1>2, <1>3, <1>4 DEF VenueOrder

LEMMA RingLegs ==
  ASSUME IInv, IInv', RInv, WInv, LInv, QueuesHaveRoom, DrainResult
  PROVE  RoadHonest' /\ FinalsLast' /\ BucketsSorted'
<1> DEFINE n == Min(Filled)
           cmd == Head(result_rings[n])
<1>1. UNCHANGED <<mode, worker, venue, order_bitmap, orders, connected, wire, ws_result_queue, phase>>
      /\ phase = "drain" /\ BucketsHaveRoom
  BY DEF DrainResult, stream, tableVars, QueuesHaveRoom
<1>2. n \in Nodes /\ result_rings[n] # << >>
  <2>1. Filled \in SUBSET Nat /\ Filled # {}
    BY AdapterAssumption DEF Filled, DrainResult
  <2> QED BY <2>1, MinIsMember DEF Filled
<1>3. Bucket(cmd) /\ result_rings' = [result_rings EXCEPT ![n] = Tail(@)]
  BY DEF DrainResult
<1> HIDE DEF n
<1>4. /\ result_rings \in [Nodes -> Seq(Command)] /\ result_rings[n] \in Seq(Command)
      /\ result_rings[n] \in Seq(RoutedTo(n)) /\ result_rings[n] \in Seq(SoundNow)
      /\ close_bucket \in Seq(Command) /\ open_bucket \in Seq(Command) /\ QueuesOK
  BY <1>2 DEF WInv, RingsRouted, RInv, RoadSound, IInv, OmsTypeOK, RoadOK, QueuesOK
<1>5. cmd \in Command /\ cmd.id.node = n
  <2>1. cmd \in RoutedTo(n)
    BY <1>2, <1>4, HeadTyped
  <2> QED BY <2>1 DEF RoutedTo
<1>6. cmd \in SoundNow
  BY <1>2, <1>4, HeadTyped
<1>7. ASSUME Live
      PROVE  /\ cmd \in HonestNow /\ cmd.from = "REST"
             /\ Tail(result_rings[n]) \in Seq(FromRest(HonestNow))
  <2>1. result_rings[n] \in Seq(FromRest(HonestNow))
    BY <1>2, <1>7 DEF LInv, RoadHonest
  <2>2. cmd \in FromRest(HonestNow) /\ Tail(result_rings[n]) \in Seq(FromRest(HonestNow))
    BY <1>2, <2>1, HeadTyped
  <2> QED BY <2>2 DEF FromRest
<1> HIDE DEF cmd
<1>8. BucketsSorted'
  BY <1>1, <1>3, <1>4, <1>5, BucketSorts DEF LInv
<1>9. RoadHonest'
  <2>1. CASE Live
    <3>1. HonestNow' = HonestNow
      BY <1>1 DEF HonestNow
    <3>2. /\ close_bucket \in Seq(HonestNow) /\ open_bucket \in Seq(HonestNow)
          /\ result_rings \in [Nodes -> Seq(FromRest(HonestNow))]
          /\ ws_result_queue \in Seq(HonestNow) /\ wire \in Seq(HonestNow)
      BY <2>1 DEF LInv, RoadHonest
    <3>3. close_bucket' \in Seq(HonestNow) /\ open_bucket' \in Seq(HonestNow)
      BY <1>1, <1>3, <1>7, <2>1, <3>2, HonestBuckets
    <3>4. result_rings' \in [Nodes -> Seq(FromRest(HonestNow))]
      BY <1>2, <1>3, <1>7, <2>1, <3>2
    <3> QED BY <1>1, <3>1, <3>2, <3>3, <3>4 DEF RoadHonest
  <2>2. CASE ~Live
    BY <1>1, <2>2 DEF RoadHonest, Live
  <2> QED BY <2>1, <2>2
<1>10. FinalsLast'
  <2> SUFFICES ASSUME NEW id \in DOMAIN venue
               PROVE  /\ InOrder(close_bucket', open_bucket', result_rings'[id.node],
                                 ws_result_queue, wire, id)
                      /\ Concluded(close_bucket', open_bucket', result_rings'[id.node],
                                   ws_result_queue, wire, id) => venue[id].status # "open"
    BY <1>1 DEF FinalsLast
  <2> DEFINE ring  == result_rings[id.node]
             ring2 == result_rings'[id.node]
             ws    == ws_result_queue
             wr    == wire
  <2>1. /\ Live /\ id \in OrderId /\ id.node \in Nodes
        /\ close_bucket \in Seq(Command) /\ open_bucket \in Seq(Command)
        /\ ring \in Seq(Command) /\ ws \in Seq(Command) /\ wr \in Seq(Command)
        /\ InOrder(close_bucket, open_bucket, ring, ws, wr, id)
        /\ Concluded(close_bucket, open_bucket, ring, ws, wr, id) => venue[id].status # "open"
    BY VenueTyped
  <2>2. cmd.id = id => Mute(cmd) \/ Final(cmd)
    <3>1. ASSUME cmd.id = id PROVE Mute(cmd) \/ Final(cmd)
      <4>1. cmd \in HonestNow /\ cmd.from = "REST"
        BY <1>7, <2>1
      <4>2. cmd.success
        BY <3>1, <4>1 DEF HonestNow, Honest
      <4>3. mode \in {"rest", "ws"}
        BY <2>1 DEF RInv, QueueOrdered, Live
      <4>4. CASE mode = "ws"
        BY <4>1, <4>4 DEF HonestNow, Honest
      <4>5. CASE mode = "rest"
        BY <1>6, <4>2, <4>5 DEF SoundNow, Sound, Final
      <4> QED BY <4>3, <4>4, <4>5
    <3> QED BY <3>1
  <2>3. ASSUME NEW b \in Seq(Command), NEW o \in Seq(Command), InOrder(b, o, ring, ws, wr, id)
        PROVE  /\ InOrder(Append(b, cmd), o, ring2, ws, wr, id)
               /\ Concluded(Append(b, cmd), o, ring2, ws, wr, id) => Concluded(b, o, ring, ws, wr, id)
    <3>1. CASE id.node = n
      <4>1. ring # << >> /\ ring2 = Tail(ring) /\ cmd = Head(ring)
        BY <1>2, <1>3, <1>4, <3>1 DEF cmd
      <4> HIDE DEF ring, ring2, ws, wr
      <4> QED BY <2>1, <2>2, <2>3, <4>1, RingMoves
    <3>2. CASE id.node # n
      <4>1. ring2 = ring /\ cmd.id # id
        BY <1>3, <1>4, <1>5, <2>1, <3>2
      <4> HIDE DEF ring, ring2, ws, wr
      <4> QED BY <1>5, <2>3, <4>1, OtherTaken
    <3> QED BY <3>1, <3>2
  <2> HIDE DEF ring, ring2, ws, wr
  <2>4. /\ InOrder(close_bucket', open_bucket', ring2, ws, wr, id)
        /\ Concluded(close_bucket', open_bucket', ring2, ws, wr, id) => venue[id].status # "open"
    <3>1. CASE close_bucket' = Append(close_bucket, cmd) /\ open_bucket' = open_bucket
      BY <2>1, <2>3, <3>1
    <3>2. CASE open_bucket' = Append(open_bucket, cmd) /\ close_bucket' = close_bucket
      <4>1. /\ InOrder(open_bucket, close_bucket, ring, ws, wr, id)
            /\ Concluded(open_bucket, close_bucket, ring, ws, wr, id)
                 <=> Concluded(close_bucket, open_bucket, ring, ws, wr, id)
        BY <2>1, BucketsSwap
      <4>2. /\ InOrder(open_bucket', close_bucket', ring2, ws, wr, id)
            /\ Concluded(open_bucket', close_bucket', ring2, ws, wr, id)
                 => Concluded(open_bucket, close_bucket, ring, ws, wr, id)
        BY <2>1, <2>3, <3>2, <4>1
      <4>3. /\ InOrder(close_bucket', open_bucket', ring2, ws, wr, id)
            /\ Concluded(open_bucket', close_bucket', ring2, ws, wr, id)
                 <=> Concluded(close_bucket', open_bucket', ring2, ws, wr, id)
        BY <4>2, BucketsSwap
      <4> QED BY <2>1, <4>1, <4>2, <4>3
    <3> QED BY <1>1, <1>3, <3>1, <3>2, BucketRoom
  <2> QED BY <2>4 DEF ring2, ws, wr
<1> QED BY <1>8, <1>9, <1>10

LEMMA WsLegs ==
  ASSUME IInv, IInv', RInv, WInv, LInv, QueuesHaveRoom, DrainWs
  PROVE  RoadHonest' /\ FinalsLast' /\ BucketsSorted'
<1> DEFINE cmd == Head(ws_result_queue)
<1>1. UNCHANGED <<mode, worker, venue, order_bitmap, orders, connected, wire, result_rings>>
      /\ phase \in {"drain", "drainws"} /\ BucketsHaveRoom
  BY DEF DrainWs, stream, tableVars, QueuesHaveRoom
<1>2. HonestNow' = HonestNow
  BY <1>1 DEF HonestNow
<1>3. CASE ws_result_queue = << >>
  <2>1. UNCHANGED <<close_bucket, open_bucket, ws_result_queue>> /\ phase' = "closes"
    BY <1>3 DEF DrainWs
  <2>2. RoadHonest' /\ FinalsLast'
    BY <1>1, <1>2, <2>1 DEF LInv, RoadHonest, FinalsLast, Live
  <2> QED BY <2>1, <2>2 DEF BucketsSorted
<1>4. CASE ws_result_queue # << >>
  <2>1. Bucket(cmd) /\ ws_result_queue' = Tail(ws_result_queue) /\ phase' = "drainws"
    BY <1>4 DEF DrainWs
  <2>2. ws_result_queue \in Seq(Command) /\ QueuesOK
        /\ close_bucket \in Seq(Command) /\ open_bucket \in Seq(Command)
    BY DEF IInv, OmsTypeOK, RoadOK, QueuesOK
  <2>3. cmd \in Command
    BY <1>4, <2>2, HeadTyped
  <2>4. Live => cmd \in HonestNow /\ Tail(ws_result_queue) \in Seq(HonestNow)
    BY <1>4, HeadTyped DEF LInv, RoadHonest
  <2> HIDE DEF cmd
  <2>5. BucketsSorted'
    BY <1>1, <2>1, <2>2, <2>3, BucketSorts DEF LInv
  <2>6. RoadHonest'
    <3>1. CASE Live
      <4>1. /\ close_bucket \in Seq(HonestNow) /\ open_bucket \in Seq(HonestNow)
            /\ result_rings \in [Nodes -> Seq(FromRest(HonestNow))] /\ wire \in Seq(HonestNow)
        BY <3>1 DEF LInv, RoadHonest
      <4>2. close_bucket' \in Seq(HonestNow) /\ open_bucket' \in Seq(HonestNow)
        BY <1>1, <2>1, <2>4, <3>1, <4>1, HonestBuckets
      <4> QED BY <1>1, <1>2, <2>1, <2>4, <3>1, <4>1, <4>2 DEF RoadHonest
    <3>2. CASE ~Live
      BY <1>1, <3>2 DEF RoadHonest, Live
    <3> QED BY <3>1, <3>2
  <2>7. FinalsLast'
    <3> SUFFICES ASSUME NEW id \in DOMAIN venue
                 PROVE  /\ InOrder(close_bucket', open_bucket', result_rings[id.node],
                                   Tail(ws_result_queue), wire, id)
                        /\ Concluded(close_bucket', open_bucket', result_rings[id.node],
                                     Tail(ws_result_queue), wire, id) => venue[id].status # "open"
      BY <1>1, <2>1 DEF FinalsLast
    <3> DEFINE ring == result_rings[id.node]
               ws   == ws_result_queue
               wr   == wire
    <3>1. /\ close_bucket \in Seq(Command) /\ open_bucket \in Seq(Command)
          /\ ring \in Seq(Command) /\ ws \in Seq(Command) /\ wr \in Seq(Command)
          /\ InOrder(close_bucket, open_bucket, ring, ws, wr, id)
          /\ Concluded(close_bucket, open_bucket, ring, ws, wr, id) => venue[id].status # "open"
      BY VenueTyped
    <3>2. /\ \A i \in 1 .. Len(close_bucket) : orders[close_bucket[i].id.slot].type = "SELL"
          /\ \A i \in 1 .. Len(open_bucket) : orders[open_bucket[i].id.slot].type # "SELL"
      BY <1>1 DEF LInv, BucketsSorted
    <3>3. ws # << >> /\ cmd = Head(ws)
      BY <1>4 DEF cmd
    <3> HIDE DEF ring, ws, wr
    <3>4. CASE /\ close_bucket' = Append(close_bucket, cmd) /\ open_bucket' = open_bucket
               /\ orders[cmd.id.slot].type = "SELL"
      <4>1. cmd.id = id => Quiet(open_bucket, id)
        BY <3>2, <3>4 DEF Quiet
      <4>2. /\ InOrder(Append(close_bucket, cmd), open_bucket, ring, Tail(ws), wr, id)
            /\ Concluded(Append(close_bucket, cmd), open_bucket, ring, Tail(ws), wr, id)
                 => Concluded(close_bucket, open_bucket, ring, ws, wr, id)
        BY <3>1, <3>3, <4>1, StreamMoves
      <4> QED BY <3>1, <3>4, <4>2 DEF ring, ws, wr
    <3>5. CASE /\ open_bucket' = Append(open_bucket, cmd) /\ close_bucket' = close_bucket
               /\ orders[cmd.id.slot].type # "SELL"
      <4>1. cmd.id = id => Quiet(close_bucket, id)
        BY <3>2, <3>5 DEF Quiet
      <4>2. /\ InOrder(open_bucket, close_bucket, ring, ws, wr, id)
            /\ Concluded(open_bucket, close_bucket, ring, ws, wr, id)
                 <=> Concluded(close_bucket, open_bucket, ring, ws, wr, id)
        BY <3>1, BucketsSwap
      <4>3. /\ InOrder(Append(open_bucket, cmd), close_bucket, ring, Tail(ws), wr, id)
            /\ Concluded(Append(open_bucket, cmd), close_bucket, ring, Tail(ws), wr, id)
                 => Concluded(open_bucket, close_bucket, ring, ws, wr, id)
        BY <3>1, <3>3, <4>1, <4>2, StreamMoves
      <4>4. /\ InOrder(close_bucket', open_bucket', ring, Tail(ws), wr, id)
            /\ Concluded(open_bucket', close_bucket', ring, Tail(ws), wr, id)
                 <=> Concluded(close_bucket', open_bucket', ring, Tail(ws), wr, id)
        BY <3>5, <4>3, BucketsSwap
      <4> QED BY <3>1, <3>5, <4>2, <4>3, <4>4 DEF ring, ws, wr
    <3> QED BY <1>1, <2>1, <3>4, <3>5, BucketRoom
  <2> QED BY <2>5, <2>6, <2>7
<1> QED BY <1>3, <1>4

LEMMA DrainLegs ==
  ASSUME IInv, IInv', RInv, WInv, LInv, QueuesHaveRoom, DrainResult \/ DrainWs
  PROVE  LInv'
<1>1. UNCHANGED <<mode, worker, venue, order_bitmap, orders, connected, wire>> /\ BucketsHaveRoom
  BY DEF DrainResult, DrainWs, stream, tableVars, QueuesHaveRoom
<1>2. \A id \in DOMAIN venue : Undelivered(id)' = Undelivered(id)
  BY <1>1, VenueTyped, DrainTold
<1>3. WorkKnown' /\ VenueWaits' /\ NoLegLost'
  BY <1>1, <1>2, LegsKept
<1>4. StreamUp'
  BY <1>1 DEF LInv, StreamUp, WsActive, DrainResult, DrainWs
<1> QED BY <1>3, <1>4, RingLegs, WsLegs DEF LInv

-----------------------------------------------------------------------------
(* What a submission and a report leave alone, and which order a report     *)
(* takes out of the table.                                                  *)
LEMMA SubmitSpares ==
  ASSUME NEW s, NEW cmd, NEW bm \in SUBSET OrderSlots, NEW ords \in [OrderSlots -> Order],
         Submit(s, cmd, bm, ords)
  PROVE  \A k \in bm : k \in order_bitmap' /\ orders'[k] = ords[k]
<1> DEFINE free == OrderSlots \ bm
           j    == Min(free)
           o    == NewOrder(s, cmd, j)
<1>1. free # {} => j \in free
  <2>1. free \in SUBSET Nat
    BY OmsAssumption
  <2> QED BY <2>1, MinIsMember
<1>2. \/ order_bitmap' = bm /\ orders' = ords
      \/ /\ free # {} /\ (order_bitmap' = bm \cup {j} \/ order_bitmap' = bm)
         /\ \E x : orders' = [ords EXCEPT ![j] = x]
  BY DEF Submit
<1> HIDE DEF j, o
<1> QED BY <1>1, <1>2

LEMMA SubmitNames ==
  ASSUME NEW s \in Slots, NEW cmd, NEW bm \in SUBSET OrderSlots,
         NEW ords \in [OrderSlots -> Order], Submit(s, cmd, bm, ords)
  PROVE  \A k \in order_bitmap' : k \in bm \/ orders'[k].id.n = next_order_id
<1> DEFINE free == OrderSlots \ bm
           j    == Min(free)
           o    == NewOrder(s, cmd, j)
<1>1. free # {} => j \in free
  <2>1. free \in SUBSET Nat
    BY OmsAssumption
  <2> QED BY <2>1, MinIsMember
<1>2. o.id.n = next_order_id
  BY DEF NewOrder
<1>3. \/ order_bitmap' = bm
      \/ free # {} /\ order_bitmap' = bm \cup {j} /\ orders' = [ords EXCEPT ![j] = o]
  BY DEF Submit
<1> HIDE DEF j, o
<1> QED BY <1>1, <1>2, <1>3

LEMMA ProcessSpares ==
  ASSUME IInv, NEW cmd \in Command, ProcessFillCommand(cmd), NEW i \in order_bitmap
  PROVE  \/ /\ i \in order_bitmap' /\ orders'[i].id = orders[i].id
            /\ \/ orders'[i].filled = orders[i].filled + Own(cmd, orders[i].id)
               \/ Known(cmd) /\ Tripwire(cmd)
         \/ /\ orders[i].id = cmd.id /\ (Final(cmd) \/ ~cmd.success)
            /\ \A j \in order_bitmap' : orders'[j].id # cmd.id
<1> DEFINE k == cmd.id.slot
           o == orders[k]
<1>1. /\ order_bitmap \in SUBSET OrderSlots /\ orders \in [OrderSlots -> Order]
      /\ cmd.qty \in Nat /\ cmd.success \in BOOLEAN /\ TableConsistent
      /\ \A j \in OrderSlots : orders[j] \in Order /\ orders[j].filled \in Nat
      /\ TableOK /\ PositionsOK
  BY DEF IInv, OmsTypeOK, TableOK, Order, Command
<1>2. \A j \in order_bitmap : orders[j].id = cmd.id => j = k /\ Known(cmd)
  BY <1>1 DEF TableConsistent, Known
<1>3. Known(cmd) => k \in order_bitmap /\ o.id = cmd.id /\ Own(cmd, o.id) = cmd.qty
  BY DEF Known, Own
<1>4. i # k => Own(cmd, orders[i].id) = 0
  BY <1>2 DEF Own
<1>5. i \in OrderSlots /\ orders[i].filled + 0 = orders[i].filled
  BY <1>1
<1>6. CASE Ignored(cmd)
  <2>1. order_bitmap' = order_bitmap /\ orders' = orders
    BY <1>6 DEF Ignored, tableVars
  <2>2. CASE Known(cmd)
    BY <1>6, <2>1, <2>2 DEF Ignored
  <2>3. CASE ~Known(cmd)
    <3>1. Own(cmd, orders[i].id) = 0
      BY <1>2, <2>3 DEF Own
    <3> QED BY <1>5, <2>1, <3>1
  <2> QED BY <2>2, <2>3
<1>7. CASE Acknowledged(cmd)
  <2>1. order_bitmap' = order_bitmap /\ cmd.qty = 0
    BY <1>7 DEF Acknowledged, IsAck
  <2>2. PICK state : orders' = [orders EXCEPT ![k].state = state]
    BY <1>7 DEF Acknowledged
  <2>3. orders'[i].id = orders[i].id /\ orders'[i].filled = orders[i].filled
    BY <1>1, <1>5, <2>2 DEF Order
  <2>4. Own(cmd, orders[i].id) = 0
    BY <2>1 DEF Own
  <2> QED BY <1>5, <2>1, <2>3, <2>4
<1>8. CASE Failed(cmd)
  <2>1. order_bitmap' = order_bitmap \ {k} /\ ~cmd.success /\ Known(cmd)
    BY <1>8 DEF Failed
  <2>2. orders' = [orders EXCEPT ![k].state = "REJECTED"]
    BY <1>8 DEF Failed
  <2>3. \A j \in order_bitmap \ {k} : orders'[j] = orders[j]
    BY <1>1, <2>2
  <2>4. CASE i = k
    BY <1>2, <1>3, <2>1, <2>3, <2>4
  <2>5. CASE i # k
    BY <1>4, <1>5, <2>1, <2>3, <2>5
  <2> QED BY <2>4, <2>5
<1>9. CASE Booked(cmd)
  <2>1. /\ Known(cmd)
        /\ order_bitmap' = IF cmd.complete THEN order_bitmap \ {k} ELSE order_bitmap
    BY <1>9 DEF Booked, Leg
  <2>2. PICK state : orders' = [orders EXCEPT ![k].filled = @ + cmd.qty, ![k].state = state]
    BY <1>9 DEF Booked
  <2>3. \A j \in order_bitmap \ {k} : orders'[j] = orders[j]
    BY <1>1, <2>2
  <2>4. orders'[k].id = o.id /\ orders'[k].filled = o.filled + cmd.qty
    BY <1>1, <1>3, <2>1, <2>2 DEF Order
  <2>5. CASE i # k
    BY <1>4, <1>5, <2>1, <2>3, <2>5
  <2>6. CASE i = k /\ ~cmd.complete
    BY <1>3, <2>1, <2>4, <2>6
  <2>7. CASE i = k /\ cmd.complete
    <3>1. \A j \in order_bitmap' : orders'[j].id # cmd.id
      BY <1>2, <2>1, <2>3, <2>7
    <3> QED BY <1>3, <2>1, <2>7, <3>1 DEF Final
  <2> QED BY <2>5, <2>6, <2>7
<1>10. CASE EndedShort(cmd)
  <2> DEFINE new  == [[o EXCEPT !.filled = o.filled + cmd.qty] EXCEPT !.state = "CANCELED"]
             bm   == order_bitmap \ {k}
             ords == [orders EXCEPT ![k] = new]
             over == [ords EXCEPT ![0].pre_resolved = o.pre_resolved]
             rest == SubmitCommand("SELL", AfterFill(o, cmd.qty), o.pre_resolved)
  <2>1. Known(cmd) /\ k \in order_bitmap /\ k \in OrderSlots /\ o \in Order /\ cmd.terminal
    BY <1>1, <1>3, <1>10 DEF EndedShort, Leg
  <2>2. [orders EXCEPT ![k].filled = @ + cmd.qty, ![k].state = "CANCELED"] = ords
    BY <1>1, <2>1
  <2>3. new \in Order
    BY <1>1, <2>1, OrderMoves DEF Terminal
  <2>4. ords \in [OrderSlots -> Order] /\ \A j \in bm : ords[j] = orders[j]
    BY <1>1, <2>1, <2>3, OrdersUpdated
  <2>5. o.pslot \in Slots /\ o.pre_resolved \in Int
    BY <2>1 DEF Order
  <2>6. over \in [OrderSlots -> Order]
        /\ \A j \in bm : over[j].id = ords[j].id /\ over[j].filled = ords[j].filled
    <3>1. bm \subseteq OrderSlots
      BY <1>1
    <3> HIDE DEF ords, bm, o
    <3> QED BY <2>4, <2>5, <3>1, Rebound
  <2>7. rest \in SubmitCommands
    BY <1>1, <2>1, <2>5, AfterFillTyped DEF SubmitCommand, SubmitCommands, Side
  <2>8. bm \in SUBSET OrderSlots
    BY <1>1
  <2>9. \/ Submit(o.pslot, rest, bm, ords)
        \/ Submit(o.pslot, rest, bm, over)
        \/ order_bitmap' = bm /\ orders' = ords
    BY <1>10, <2>2 DEF EndedShort, Freed, BoundFrom
  <2>10. cmd.id.n \in Nat /\ cmd.id.n # next_order_id
    BY <1>1, <1>3, <2>1 DEF TableConsistent, Command, OrderId, TableOK
  <2>11. \A j \in bm : orders[j].id # cmd.id
    BY <1>2 DEF bm
  <2> HIDE DEF ords, over, rest, bm
  <2>12. ASSUME NEW t \in [OrderSlots -> Order],
                \A j \in bm : t[j].id = orders[j].id /\ t[j].filled = orders[j].filled,
                \/ Submit(o.pslot, rest, bm, t)
                \/ order_bitmap' = bm /\ orders' = t
         PROVE  /\ \A j \in bm : j \in order_bitmap' /\ orders'[j].id = orders[j].id
                                 /\ orders'[j].filled = orders[j].filled
                /\ \A j \in order_bitmap' : orders'[j].id # cmd.id
    <3> HIDE DEF o
    <3>1. CASE order_bitmap' = bm /\ orders' = t
      BY <2>11, <2>12, <3>1
    <3>2. CASE Submit(o.pslot, rest, bm, t)
      <4>1. \A j \in bm : j \in order_bitmap' /\ orders'[j] = t[j]
        BY <2>8, <3>2, SubmitSpares
      <4>2. \A j \in order_bitmap' : j \in bm \/ orders'[j].id.n = next_order_id
        BY <2>5, <2>7, <2>8, <3>2, SubmitNames DEF IInv, OmsTypeOK, TableOK
      <4> QED BY <2>10, <2>11, <2>12, <4>1, <4>2
    <3> QED BY <2>12, <3>1, <3>2
  <2>13. /\ \A j \in bm : j \in order_bitmap' /\ orders'[j].id = orders[j].id
                          /\ orders'[j].filled = orders[j].filled
         /\ \A j \in order_bitmap' : orders'[j].id # cmd.id
    <3>1. CASE Submit(o.pslot, rest, bm, ords) \/ (order_bitmap' = bm /\ orders' = ords)
      BY <2>4, <2>12, <3>1
    <3>2. CASE Submit(o.pslot, rest, bm, over)
      <4>1. \A j \in bm : over[j].id = orders[j].id /\ over[j].filled = orders[j].filled
        BY <2>4, <2>6
      <4> QED BY <2>6, <2>12, <3>2, <4>1
    <3> QED BY <2>9, <3>1, <3>2
  <2>14. CASE i = k
    BY <1>3, <2>1, <2>13, <2>14 DEF Final
  <2>15. CASE i # k
    BY <1>4, <1>5, <2>13, <2>15 DEF bm
  <2> QED BY <2>14, <2>15
<1> QED BY <1>6, <1>7, <1>8, <1>9, <1>10 DEF ProcessFillCommand

LEMMA SubmitOneLegs ==
  ASSUME IInv, RInv, WInv, LInv, NEW s \in Slots, SubmitOne(s)
  PROVE  LInv'
<1> DEFINE cmd == Head(submit_queues[s])
<1>1. /\ submit_queues[s] # << >> /\ Submit(s, cmd, order_bitmap, orders)
      /\ UNCHANGED <<mode, connected, venue, worker, wire, ws_result_queue, close_bucket,
                     open_bucket, phase>>
      /\ phase = "submit" /\ Unmoved
  BY DEF SubmitOne, stream, Unmoved
<1>2. cmd \in SubmitCommands
  BY <1>1, HeadTyped DEF IInv, OmsTypeOK, QueuesOK
<1>3. /\ RoadOK /\ next_order_id \in Nat /\ order_bitmap \in SUBSET OrderSlots
      /\ orders \in [OrderSlots -> Order] /\ RingsRouted
  BY DEF IInv, OmsTypeOK, TableOK, WInv
<1> HIDE DEF cmd
<1>4. /\ Live => result_rings' = result_rings
      /\ \A k \in order_bitmap' :
           \/ k \in order_bitmap /\ orders'[k] = orders[k]
           \/ orders'[k].id.n = next_order_id
  BY <1>1, <1>2, <1>3, SubmitBooks
<1>5. \A k \in order_bitmap : k \in order_bitmap' /\ orders'[k] = orders[k]
  BY <1>1, <1>3, SubmitSpares
<1>6. ASSUME NEW id \in DOMAIN venue
      PROVE  /\ Undelivered(id)' = Undelivered(id) /\ result_rings' = result_rings
             /\ InTable(id)' <=> InTable(id)
             /\ InTable(id) => orders'[id.slot].filled = orders[id.slot].filled
             /\ Answering(id)' <=> Answering(id)
  <2>1. Live /\ id \in OrderId
    BY VenueTyped
  <2>2. result_rings' = result_rings
    BY <1>4, <2>1
  <2>3. Undelivered(id)' = Undelivered(id)
    BY <1>1, <2>2, SameUndelivered
  <2>4. id.n # next_order_id
    <3>1. id.n < next_order_id /\ id.n \in Nat
      BY <2>1 DEF RInv, WorkSent, Sent, OrderId
    <3> QED BY <1>3, <3>1
  <2>5. InTable(id)' <=> InTable(id)
    BY <1>4, <1>5, <2>4 DEF InTable
  <2>6. InTable(id) => orders'[id.slot].filled = orders[id.slot].filled
    BY <1>5, TableSlot
  <2>7. Answering(id)' <=> Answering(id)
    BY <1>1 DEF Answering, WsActive
  <2> QED BY <2>2, <2>3, <2>5, <2>6, <2>7
<1>7. NoLegLost'
  BY <1>1, <1>6 DEF LInv, NoLegLost
<1>8. WorkKnown'
  BY <1>1, <1>5 DEF LInv, WorkKnown, InTable, WsActive
<1>9. FinalsLast'
  BY <1>1, <1>6 DEF LInv, FinalsLast
<1>10. RoadHonest'
  BY <1>1, <1>4 DEF LInv, RoadHonest, HonestNow, Live
<1>11. StreamUp' /\ VenueWaits'
  BY <1>1 DEF LInv, StreamUp, VenueWaits, Live, WsActive, Answering
<1>12. BucketsSorted'
  <2>1. close_bucket = << >> /\ open_bucket = << >>
    BY <1>1 DEF LInv, BucketsSorted
  <2> QED BY <1>1, <2>1 DEF BucketsSorted
<1> QED BY <1>7, <1>8, <1>9, <1>10, <1>11, <1>12 DEF LInv

LEMMA BookLegs ==
  ASSUME IInv, IInv', RInv, WInv, LInv, ProcessClose \/ ProcessOpen
  PROVE  LInv'
<1>1. PICK cmd \in Command :
        /\ ProcessFillCommand(cmd) /\ cmd \in SoundNow /\ (Live => cmd \in HonestNow)
        /\ \/ /\ close_bucket # << >> /\ cmd = Head(close_bucket)
              /\ close_bucket' = Tail(close_bucket) /\ open_bucket' = open_bucket
           \/ /\ open_bucket # << >> /\ cmd = Head(open_bucket)
              /\ open_bucket' = Tail(open_bucket) /\ close_bucket' = close_bucket
  <2>1. /\ close_bucket \in Seq(Command) /\ open_bucket \in Seq(Command)
        /\ close_bucket \in Seq(SoundNow) /\ open_bucket \in Seq(SoundNow)
        /\ Live => close_bucket \in Seq(HonestNow) /\ open_bucket \in Seq(HonestNow)
    BY DEF IInv, OmsTypeOK, QueuesOK, RInv, BucketsSound, LInv, RoadHonest
  <2>2. CASE ProcessClose
    <3>1. /\ Head(close_bucket) \in Command /\ Head(close_bucket) \in SoundNow
          /\ Live => Head(close_bucket) \in HonestNow
      BY <2>1, <2>2, HeadTyped DEF ProcessClose
    <3> QED BY <2>2, <3>1 DEF ProcessClose
  <2>3. CASE ProcessOpen
    <3>1. /\ Head(open_bucket) \in Command /\ Head(open_bucket) \in SoundNow
          /\ Live => Head(open_bucket) \in HonestNow
      BY <2>1, <2>3, HeadTyped DEF ProcessOpen
    <3> QED BY <2>3, <3>1 DEF ProcessOpen
  <2> QED BY <2>2, <2>3
<1>2. UNCHANGED <<mode, connected, venue, worker, wire, ws_result_queue, phase>>
      /\ phase = "closes"
  BY DEF ProcessClose, ProcessOpen, stream
<1>3. /\ Live => result_rings' = result_rings
      /\ \A k \in order_bitmap' :
           \/ k \in order_bitmap /\ orders'[k].id = orders[k].id
           \/ orders'[k].id.n = next_order_id
  BY <1>1, ProcessBooks DEF WInv
<1>4. \A i \in order_bitmap :
        \/ /\ i \in order_bitmap' /\ orders'[i].id = orders[i].id
           /\ \/ orders'[i].filled = orders[i].filled + Own(cmd, orders[i].id)
              \/ Known(cmd) /\ Tripwire(cmd)
        \/ /\ orders[i].id = cmd.id /\ (Final(cmd) \/ ~cmd.success)
           /\ \A j \in order_bitmap' : orders'[j].id # cmd.id
  BY <1>1, ProcessSpares
<1>5. Live => ~(Known(cmd) /\ Tripwire(cmd))
  <2> SUFFICES ASSUME Live, Known(cmd), Tripwire(cmd) PROVE FALSE
    OBVIOUS
  <2>1. mode = "rest" \/ mode = "ws"
    BY DEF RInv, QueueOrdered, Live
  <2>2. CASE mode = "rest"
    <3>1. orders[cmd.id.slot].filled = 0
      BY <2>2 DEF RInv, TableOwes, Owes, Untouched, Known
    <3> QED BY <3>1 DEF Tripwire
  <2>3. CASE mode = "ws"
    BY <1>1, <2>3 DEF HonestNow, Honest, Mute, Tripwire
  <2> QED BY <2>1, <2>2, <2>3
<1>6. ASSUME NEW id \in DOMAIN venue
      PROVE  /\ result_rings' = result_rings
             /\ InOrder(close_bucket', open_bucket', result_rings[id.node], ws_result_queue, wire, id)
             /\ Concluded(close_bucket', open_bucket', result_rings[id.node], ws_result_queue,
                          wire, id) => venue[id].status # "open"
             /\ cmd.id = id /\ Final(cmd)
                  => venue[id].status # "open" /\ Undelivered(id)' = 0
  <2> DEFINE ring == result_rings[id.node]
             ws   == ws_result_queue
             wr   == wire
  <2>1. /\ Live /\ id \in OrderId
        /\ close_bucket \in Seq(Command) /\ open_bucket \in Seq(Command)
        /\ ring \in Seq(Command) /\ ws \in Seq(Command) /\ wr \in Seq(Command)
        /\ InOrder(close_bucket, open_bucket, ring, ws, wr, id)
        /\ Concluded(close_bucket, open_bucket, ring, ws, wr, id) => venue[id].status # "open"
    BY VenueTyped
  <2>2. Undelivered(id)' = Told(close_bucket', id) + Told(open_bucket', id) + Told(ring, id)
                             + Told(ws, id) + Told(wr, id)
    BY <1>2, <1>3, <2>1 DEF Undelivered
  <2> HIDE DEF ring, ws, wr
  <2>3. ASSUME NEW b \in Seq(Command), NEW o \in Seq(Command), b # << >>, cmd = Head(b),
               InOrder(b, o, ring, ws, wr, id),
               Concluded(b, o, ring, ws, wr, id) => venue[id].status # "open"
        PROVE  /\ InOrder(Tail(b), o, ring, ws, wr, id)
               /\ Concluded(Tail(b), o, ring, ws, wr, id) => venue[id].status # "open"
               /\ cmd.id = id /\ Final(cmd) =>
                    /\ venue[id].status # "open"
                    /\ Told(Tail(b), id) = 0 /\ Told(o, id) = 0 /\ Told(ring, id) = 0
                    /\ Told(ws, id) = 0 /\ Told(wr, id) = 0
    <3>1. Tail(b) \in Seq(Command)
      BY <2>3
    <3>2. /\ InOrder(Tail(b), o, ring, ws, wr, id)
          /\ Concluded(Tail(b), o, ring, ws, wr, id) => Concluded(b, o, ring, ws, wr, id)
          /\ cmd.id = id /\ Final(cmd) =>
               /\ Concluded(b, o, ring, ws, wr, id)
               /\ Quiet(Tail(b), id) /\ Quiet(o, id) /\ Quiet(ring, id)
               /\ Quiet(ws, id) /\ Quiet(wr, id)
      BY <2>3, BucketGives
    <3>3. ASSUME cmd.id = id, Final(cmd)
          PROVE  /\ Told(Tail(b), id) = 0 /\ Told(o, id) = 0 /\ Told(ring, id) = 0
                 /\ Told(ws, id) = 0 /\ Told(wr, id) = 0
      BY <2>1, <2>3, <3>1, <3>2, <3>3, QuietTold
    <3> QED BY <2>3, <3>2, <3>3
  <2>4. CASE /\ close_bucket # << >> /\ cmd = Head(close_bucket)
             /\ close_bucket' = Tail(close_bucket) /\ open_bucket' = open_bucket
    <3>1. /\ InOrder(close_bucket', open_bucket', ring, ws, wr, id)
          /\ Concluded(close_bucket', open_bucket', ring, ws, wr, id) => venue[id].status # "open"
          /\ cmd.id = id /\ Final(cmd) =>
               /\ venue[id].status # "open"
               /\ Told(close_bucket', id) = 0 /\ Told(open_bucket', id) = 0 /\ Told(ring, id) = 0
               /\ Told(ws, id) = 0 /\ Told(wr, id) = 0
      BY <2>1, <2>3, <2>4
    <3>2. cmd.id = id /\ Final(cmd) => Undelivered(id)' = 0
      BY <2>2, <3>1
    <3> QED BY <1>3, <2>1, <3>1, <3>2 DEF ring, ws, wr
  <2>5. CASE /\ open_bucket # << >> /\ cmd = Head(open_bucket)
             /\ open_bucket' = Tail(open_bucket) /\ close_bucket' = close_bucket
    <3>1. /\ InOrder(open_bucket, close_bucket, ring, ws, wr, id)
          /\ Concluded(open_bucket, close_bucket, ring, ws, wr, id) => venue[id].status # "open"
      BY <2>1, BucketsSwap
    <3>2. /\ InOrder(open_bucket', close_bucket', ring, ws, wr, id)
          /\ Concluded(open_bucket', close_bucket', ring, ws, wr, id) => venue[id].status # "open"
          /\ cmd.id = id /\ Final(cmd) =>
               /\ venue[id].status # "open"
               /\ Told(open_bucket', id) = 0 /\ Told(close_bucket', id) = 0 /\ Told(ring, id) = 0
               /\ Told(ws, id) = 0 /\ Told(wr, id) = 0
      BY <2>1, <2>3, <2>5, <3>1
    <3>3. /\ InOrder(close_bucket', open_bucket', ring, ws, wr, id)
          /\ Concluded(close_bucket', open_bucket', ring, ws, wr, id) => venue[id].status # "open"
      BY <3>2, BucketsSwap
    <3>4. cmd.id = id /\ Final(cmd) => Undelivered(id)' = 0
      BY <2>2, <3>2
    <3> QED BY <1>3, <2>1, <3>2, <3>3, <3>4 DEF ring, ws, wr
  <2> QED BY <1>1, <2>4, <2>5
<1>7. FinalsLast'
  BY <1>2, <1>6 DEF FinalsLast
<1>8. RoadHonest'
  <2>1. CASE Live
    <3>1. /\ close_bucket \in Seq(HonestNow) /\ open_bucket \in Seq(HonestNow)
          /\ result_rings \in [Nodes -> Seq(FromRest(HonestNow))]
          /\ ws_result_queue \in Seq(HonestNow) /\ wire \in Seq(HonestNow)
      BY <2>1 DEF LInv, RoadHonest
    <3>2. close_bucket' \in Seq(HonestNow) /\ open_bucket' \in Seq(HonestNow)
      BY <1>1, <3>1, HeadTyped
    <3>3. HonestNow' = HonestNow
      BY <1>2 DEF HonestNow
    <3> QED BY <1>2, <1>3, <2>1, <3>1, <3>2, <3>3 DEF RoadHonest
  <2>2. CASE ~Live
    BY <1>2, <2>2 DEF RoadHonest, Live
  <2> QED BY <2>1, <2>2
<1>9. StreamUp' /\ VenueWaits' /\ BucketsSorted'
  BY <1>2 DEF LInv, StreamUp, VenueWaits, BucketsSorted, Live, WsActive, Answering
<1>10. WorkKnown'
  <2> SUFFICES ASSUME worker.stage = "call" \/ (worker.stage = "answer" /\ ~WsActive)
               PROVE  \E k \in order_bitmap' : orders'[k].id = worker.sub.id
    BY <1>2 DEF WorkKnown, InTable, WsActive
  <2>1. PICK i \in order_bitmap : orders[i].id = worker.sub.id
    BY DEF LInv, WorkKnown, InTable
  <2>2. Live
    BY DEF RInv, WorkSent
  <2>3. worker.stage = "call" => worker.sub.id \notin DOMAIN venue
    BY DEF WInv, WorkerFresh
  <2>4. ~(cmd.id = worker.sub.id)
    BY <1>1, <2>2, <2>3 DEF HonestNow, Honest, WsActive
  <2> QED BY <1>4, <2>1, <2>4
<1>11. NoLegLost'
  <2> SUFFICES ASSUME NEW id \in DOMAIN venue
               PROVE  IF InTable(id)'
                        THEN Answering(id)
                               \/ orders'[id.slot].filled + Undelivered(id)' = venue[id].executed
                        ELSE venue[id].status # "open" /\ Undelivered(id)' = 0
    BY <1>2 DEF NoLegLost, Answering, WsActive
  <2>1. Live /\ id \in OrderId /\ id.node \in Nodes
    BY VenueTyped
  <2>2. /\ Undelivered(id)' + Own(cmd, id) = Undelivered(id) /\ Own(cmd, id) \in Nat
        /\ Undelivered(id)' \in Nat /\ Undelivered(id) \in Nat
    <3>1. UNCHANGED <<wire, ws_result_queue, result_rings>>
      BY <1>2, <1>3, <2>1
    <3>2. Undelivered(id)' + Own(cmd, id) = Undelivered(id)
      BY <1>1, <2>1, <3>1, BookTakes
    <3> QED BY <2>1, <3>2, NextTyped, ToldTyped DEF Own, Command
  <2>3. id.n # next_order_id
    BY <2>1 DEF RInv, WorkSent, Sent, OrderId, IInv, OmsTypeOK, TableOK
  <2>4. InTable(id)' => InTable(id)
    BY <1>3, <2>3 DEF InTable
  <2>5. CASE InTable(id)
    <3>1. id.slot \in order_bitmap /\ orders[id.slot].id = id /\ orders[id.slot].filled \in Nat
      BY <2>5, TableSlot, TableNodes
    <3>2. Answering(id) \/ orders[id.slot].filled + Undelivered(id) = venue[id].executed
      BY <2>5 DEF LInv, NoLegLost
    <3>3. CASE /\ id.slot \in order_bitmap' /\ orders'[id.slot].id = id
               /\ orders'[id.slot].filled = orders[id.slot].filled + Own(cmd, id)
      <4>1. InTable(id)'
        BY <3>3 DEF InTable
      <4> QED BY <2>2, <3>1, <3>2, <3>3, <4>1
    <3>4. CASE /\ id = cmd.id /\ (Final(cmd) \/ ~cmd.success)
               /\ \A j \in order_bitmap' : orders'[j].id # cmd.id
      <4>1. ~InTable(id)'
        BY <3>4 DEF InTable
      <4>2. cmd.success
        BY <1>1, <2>1, <3>4 DEF HonestNow, Honest
      <4> QED BY <1>6, <3>4, <4>1, <4>2
    <3> QED BY <1>4, <1>5, <2>1, <3>1, <3>3, <3>4
  <2>6. CASE ~InTable(id)
    <3>1. venue[id].status # "open" /\ Undelivered(id) = 0
      BY <2>6 DEF LInv, NoLegLost
    <3> QED BY <2>2, <2>4, <2>6, <3>1
  <2> QED BY <2>5, <2>6
<1> QED BY <1>7, <1>8, <1>9, <1>10, <1>11 DEF LInv

-----------------------------------------------------------------------------
(* One step of the adapter, when no answer is lost and no stream is cut.    *)
LEMMA SeqMeet ==
  ASSUME NEW A, NEW B, NEW T, A \cap B \subseteq T, NEW q \in Seq(A), q \in Seq(B)
  PROVE  q \in Seq(T)
<1>1. \A i \in 1 .. Len(q) : q[i] \in A /\ q[i] \in B
  OBVIOUS
<1>2. \A i \in 1 .. Len(q) : q[i] \in T
  BY <1>1
<1> QED BY <1>2

LEMMA RingsMeet ==
  ASSUME NEW A, NEW B, NEW T, A \cap B \subseteq T,
         NEW r \in [Nodes -> Seq(A)], r \in [Nodes -> Seq(B)]
  PROVE  r \in [Nodes -> Seq(T)]
<1>1. \A n \in Nodes : r[n] \in Seq(T)
  BY SeqMeet
<1> QED BY <1>1

(* The reports under way stay honest when every sound one does.             *)
LEMMA RoadStays ==
  ASSUME RInv, LInv, mode' = mode, Live,
         \A cmd \in HonestNow : cmd \in SoundNow => cmd \in HonestNow'
  PROVE  /\ close_bucket \in Seq(HonestNow') /\ open_bucket \in Seq(HonestNow')
         /\ result_rings \in [Nodes -> Seq(FromRest(HonestNow'))]
         /\ ws_result_queue \in Seq(HonestNow') /\ wire \in Seq(HonestNow')
<1> DEFINE A == HonestNow
           B == SoundNow
           T == HonestNow'
<1>1. /\ close_bucket \in Seq(A) /\ open_bucket \in Seq(A)
      /\ result_rings \in [Nodes -> Seq(FromRest(A))]
      /\ ws_result_queue \in Seq(A) /\ wire \in Seq(A)
  BY DEF LInv, RoadHonest
<1>2. /\ close_bucket \in Seq(B) /\ open_bucket \in Seq(B)
      /\ result_rings \in [Nodes -> Seq(B)]
      /\ ws_result_queue \in Seq(B) /\ wire \in Seq(B)
  BY DEF RInv, RoadSound, BucketsSound
<1>3. A \cap B \subseteq T /\ FromRest(A) \cap B \subseteq FromRest(T)
  BY DEF FromRest
<1> HIDE DEF A, B, T
<1>4. /\ close_bucket \in Seq(T) /\ open_bucket \in Seq(T)
      /\ ws_result_queue \in Seq(T) /\ wire \in Seq(T)
  BY <1>1, <1>2, <1>3, SeqMeet
<1>5. result_rings \in [Nodes -> Seq(FromRest(T))]
  BY <1>1, <1>2, <1>3, RingsMeet
<1> QED BY <1>4, <1>5 DEF T

(* An order that no queue speaks of.                                        *)
Unspoken(q, id) == \A i \in 1 .. Len(q) : q[i].id # id

LEMMA UnspokenQuiet ==
  ASSUME NEW q, NEW id, Unspoken(q, id)
  PROVE  Quiet(q, id) /\ FinalLast(q, id) /\ ~Concludes(q, id)
BY DEF Unspoken, Quiet, FinalLast, Concludes

LEMMA UnspokenOrder ==
  ASSUME NEW cb, NEW ob, NEW ring, NEW ws, NEW wr, NEW id,
         Unspoken(cb, id), Unspoken(ob, id), Unspoken(ring, id), Unspoken(ws, id), Unspoken(wr, id)
  PROVE  /\ InOrder(cb, ob, ring, ws, wr, id) /\ ~Concluded(cb, ob, ring, ws, wr, id)
         /\ Quiet(cb, id) /\ Quiet(ob, id) /\ Quiet(ring, id) /\ Quiet(ws, id) /\ Quiet(wr, id)
BY UnspokenQuiet DEF InOrder, Concluded

(* Without the websocket, or before the venue has it, no report speaks of   *)
(* the order that the worker holds.                                         *)
LEMMA WorkUnspoken ==
  ASSUME IInv, RInv, WInv, LInv, worker.stage = "call" \/ (worker.stage = "answer" /\ ~WsActive),
         NEW id, id = worker.sub.id
  PROVE  /\ Live /\ id \in OrderId /\ id.node \in Nodes
         /\ Unspoken(close_bucket, id) /\ Unspoken(open_bucket, id)
         /\ Unspoken(result_rings[id.node], id)
         /\ Unspoken(ws_result_queue, id) /\ Unspoken(wire, id)
<1>1. Live /\ id.node \in Nodes /\ id \in OrderId
  BY DEF RInv, WorkSent, WInv, WorkerFresh, IInv, OmsTypeOK, VenueOK, Submission
<1>2. \A cmd \in HonestNow : cmd.id # id
  BY DEF HonestNow, Honest, WInv, WorkerFresh, WsActive
<1>3. /\ close_bucket \in Seq(HonestNow) /\ open_bucket \in Seq(HonestNow)
      /\ result_rings[id.node] \in Seq(FromRest(HonestNow))
      /\ ws_result_queue \in Seq(HonestNow) /\ wire \in Seq(HonestNow)
  BY <1>1 DEF LInv, RoadHonest
<1>4. ASSUME NEW q \in Seq(HonestNow) PROVE Unspoken(q, id)
  <2>1. \A i \in 1 .. Len(q) : q[i] \in HonestNow
    OBVIOUS
  <2> QED BY <1>2, <2>1 DEF Unspoken
<1>5. result_rings[id.node] \in Seq(HonestNow)
  BY <1>3, SeqGrows DEF FromRest
<1> QED BY <1>1, <1>3, <1>4, <1>5

LEMMA PopLegs ==
  ASSUME IInv, RInv, WInv, LInv, WorkerPop,
         UNCHANGED <<order_bitmap, orders, phase, close_bucket, open_bucket>>
  PROVE  LInv'
<1> DEFINE h == Head(submission_queue)
<1>1. /\ worker = Idle /\ submission_queue # << >>
      /\ worker' = [stage |-> "call", sub |-> h]
      /\ UNCHANGED <<mode, connected, venue, wire, result_rings, ws_result_queue>>
  BY DEF WorkerPop, stream
<1>2. worker.stage = "idle" /\ worker'.stage = "call" /\ worker'.sub = h
  BY <1>1 DEF Idle
<1>3. submission_queue \in Seq(Submission) /\ 1 \in 1 .. Len(submission_queue)
      /\ h = submission_queue[1] /\ h \in Submission
  BY <1>1 DEF IInv, OmsTypeOK, RoadOK
<1> HIDE DEF h
<1>4. h.id \in OrderId /\ h.id.n \in Nat
  BY <1>3 DEF Submission, OrderId
<1>5. Live
  BY <1>1 DEF RInv, QueueOrdered
<1>6. InTable(h.id)
  BY <1>3 DEF RInv, TableOwes, Owes, Carries, InTable
<1>7. \A cmd \in SoundNow : cmd.id # h.id
  BY <1>3, <1>4 DEF SoundNow, Sound, Sent
<1>8. RoadHonest'
  <2>1. \A cmd \in HonestNow : cmd \in SoundNow => cmd \in HonestNow'
    BY <1>1, <1>2, <1>7 DEF HonestNow, Honest
  <2> QED BY <1>1, <1>5, <2>1, RoadStays DEF RoadHonest
<1>9. ASSUME NEW id
      PROVE  ~Answering(id) /\ ~Answering(id)' /\ (InTable(id)' <=> InTable(id))
             /\ Undelivered(id)' = Undelivered(id)
  <2>1. Undelivered(id)' = Undelivered(id)
    BY <1>1, SameUndelivered DEF Unmoved
  <2> QED BY <1>2, <2>1 DEF Answering, InTable
<1>10. NoLegLost'
  BY <1>1, <1>9 DEF LInv, NoLegLost
<1>11. WorkKnown'
  BY <1>2, <1>6, <1>9 DEF WorkKnown
<1>12. VenueWaits'
  BY <1>1, <1>9 DEF LInv, VenueWaits, Live, WsActive
<1>13. StreamUp' /\ FinalsLast' /\ BucketsSorted'
  BY <1>1 DEF LInv, StreamUp, FinalsLast, BucketsSorted, WsActive
<1> QED BY <1>8, <1>10, <1>11, <1>12, <1>13 DEF LInv

LEMMA AcceptLegs ==
  ASSUME IInv, RInv, WInv, LInv, VenueAccepts,
         UNCHANGED <<order_bitmap, orders, phase, close_bucket, open_bucket>>
  PROVE  LInv'
<1> DEFINE w == worker.sub.id
<1>1. /\ worker.stage = "call" /\ worker' = [worker EXCEPT !.stage = "answer"]
      /\ venue' = [id \in DOMAIN venue \cup {w} |->
                     IF id = w THEN [type |-> worker.sub.type, qty |-> worker.sub.qty,
                                     executed |-> 0, status |-> "open"]
                               ELSE venue[id]]
      /\ UNCHANGED <<mode, connected, wire, result_rings, ws_result_queue>>
  BY DEF VenueAccepts, stream
<1>2. worker'.stage = "answer" /\ worker'.sub = worker.sub
  BY <1>1 DEF IInv, OmsTypeOK, VenueOK
<1>3. /\ Live /\ w \in OrderId /\ w.node \in Nodes
      /\ Unspoken(close_bucket, w) /\ Unspoken(open_bucket, w)
      /\ Unspoken(result_rings[w.node], w)
      /\ Unspoken(ws_result_queue, w) /\ Unspoken(wire, w)
  BY <1>1, WorkUnspoken
<1>4. w \notin DOMAIN venue /\ InTable(w)
  BY <1>1 DEF WInv, WorkerFresh, LInv, WorkKnown
<1> HIDE DEF w
<1>5. /\ DOMAIN venue' = DOMAIN venue \cup {w}
      /\ venue'[w].executed = 0 /\ venue'[w].status = "open"
      /\ \A id \in DOMAIN venue : venue'[id] = venue[id] /\ id # w
  BY <1>1, <1>4
<1>6. RoadHonest'
  <2>1. \A cmd \in HonestNow : cmd.id # w
    BY <1>1, <1>4 DEF HonestNow, Honest, w
  <2>2. \A cmd \in HonestNow : cmd \in HonestNow'
    BY <1>1, <1>2, <1>5, <2>1 DEF HonestNow, Honest, w
  <2> QED BY <1>1, <1>3, <2>2, RoadStays DEF RoadHonest
<1>7. ASSUME NEW id
      PROVE  /\ ~Answering(id) /\ (Answering(id)' <=> ~WsActive /\ id = w)
             /\ (InTable(id)' <=> InTable(id)) /\ Undelivered(id)' = Undelivered(id)
  <2>1. Undelivered(id)' = Undelivered(id)
    BY <1>1, SameUndelivered DEF Unmoved
  <2>2. ~Answering(id) /\ (Answering(id)' <=> ~WsActive /\ id = w)
    BY <1>1, <1>2 DEF Answering, WsActive, w
  <2> QED BY <2>1, <2>2 DEF InTable
<1>8. orders[w.slot].filled + Undelivered(w) = 0
  <2>1. w.slot \in order_bitmap /\ orders[w.slot].id = w
    BY <1>4, TableSlot
  <2>2. orders[w.slot].filled \in Nat /\ Undelivered(w) \in Nat
    BY <1>3, <2>1, TableNodes, ToldTyped
  <2>3. orders[w.slot].filled + Undelivered(w) <= Exec(venue, w)
    BY <1>3, <2>1 DEF WInv, Within
  <2> QED BY <1>4, <2>2, <2>3 DEF Exec
<1>9. NoLegLost'
  <2> SUFFICES ASSUME NEW id \in DOMAIN venue'
               PROVE  IF InTable(id)
                        THEN orders[id.slot].filled + Undelivered(id) = venue'[id].executed
                        ELSE venue'[id].status # "open" /\ Undelivered(id) = 0
    BY <1>7 DEF NoLegLost
  <2>1. CASE id = w
    BY <1>4, <1>5, <1>8, <2>1
  <2>2. CASE id \in DOMAIN venue
    BY <1>5, <1>7, <2>2 DEF LInv, NoLegLost
  <2> QED BY <1>5, <2>1, <2>2
<1>10. WorkKnown'
  BY <1>2, <1>4, <1>7 DEF WorkKnown, w
<1>11. VenueWaits'
  <2> SUFFICES ASSUME NEW id \in DOMAIN venue'
               PROVE  Live /\ id.node \in Nodes
                        /\ (~WsActive /\ venue'[id].status = "open" => id = w)
    BY <1>1, <1>7 DEF VenueWaits, Live, WsActive
  <2>1. CASE id = w
    BY <1>3, <2>1
  <2>2. CASE id \in DOMAIN venue
    BY <1>5, <1>7, <2>2 DEF LInv, VenueWaits
  <2> QED BY <1>5, <2>1, <2>2
<1>12. FinalsLast'
  <2> SUFFICES ASSUME NEW id \in DOMAIN venue'
               PROVE  /\ InOrder(close_bucket, open_bucket, result_rings[id.node],
                                 ws_result_queue, wire, id)
                      /\ Concluded(close_bucket, open_bucket, result_rings[id.node],
                                   ws_result_queue, wire, id) => venue'[id].status # "open"
    BY <1>1 DEF FinalsLast
  <2>1. CASE id = w
    BY <1>3, <2>1, UnspokenOrder
  <2>2. CASE id \in DOMAIN venue
    BY <1>5, <2>2, VenueTyped
  <2> QED BY <1>5, <2>1, <2>2
<1>13. StreamUp' /\ BucketsSorted'
  BY <1>1 DEF LInv, StreamUp, BucketsSorted, WsActive
<1> QED BY <1>6, <1>9, <1>10, <1>11, <1>12, <1>13 DEF LInv

(* A report joins the ring of its node, which has room.                     *)
LEMMA RingPushed ==
  ASSUME IInv, LInv, QueuesHaveRoom, NEW cmd \in Command, ResultPush(cmd), NEW id \in DOMAIN venue,
         cmd.id = id =>
           \/ Mute(cmd)
           \/ /\ Quiet(close_bucket, id) /\ Quiet(open_bucket, id)
              /\ Quiet(ws_result_queue, id) /\ Quiet(wire, id)
              /\ ~Concluded(close_bucket, open_bucket, result_rings[id.node],
                            ws_result_queue, wire, id)
  PROVE  /\ InOrder(close_bucket, open_bucket, result_rings'[id.node], ws_result_queue, wire, id)
         /\ Concluded(close_bucket, open_bucket, result_rings'[id.node], ws_result_queue, wire, id)
              => \/ Concluded(close_bucket, open_bucket, result_rings[id.node],
                              ws_result_queue, wire, id)
                 \/ cmd.id = id /\ Final(cmd)
<1>1. /\ id.node \in Nodes /\ result_rings[id.node] \in Seq(Command)
      /\ InOrder(close_bucket, open_bucket, result_rings[id.node], ws_result_queue, wire, id)
  BY VenueTyped
<1>2. result_rings'[id.node] =
        IF cmd.id.node = id.node THEN Append(result_rings[id.node], cmd) ELSE result_rings[id.node]
  <2>1. result_rings \in [Nodes -> Seq(Command)] /\ Len(result_rings[id.node]) < ResultCap
    BY <1>1 DEF IInv, OmsTypeOK, RoadOK, QueuesHaveRoom
  <2> QED BY <1>1, <2>1 DEF ResultPush, Offer
<1>3. CASE cmd.id.node = id.node
  BY <1>1, <1>2, <1>3, RingGains
<1>4. CASE cmd.id.node # id.node
  BY <1>1, <1>2, <1>4
<1> QED BY <1>3, <1>4

LEMMA HonestRing ==
  ASSUME NEW S, result_rings \in [Nodes -> Seq(FromRest(S))], NEW cmd \in S,
         cmd.from = "REST", ResultPush(cmd)
  PROVE  result_rings' \in [Nodes -> Seq(FromRest(S))]
<1>1. cmd \in FromRest(S)
  BY DEF FromRest
<1> QED BY <1>1, RingTakes

LEMMA SeqTakes ==
  ASSUME NEW S, NEW q \in Seq(S), NEW c \in S
  PROVE  Append(q, c) \in Seq(S)
OBVIOUS

LEMMA RefuseLegs ==
  ASSUME IInv, RInv, WInv, LInv, QueuesHaveRoom, VenueRefuses,
         UNCHANGED <<order_bitmap, orders, phase, close_bucket, open_bucket>>
  PROVE  LInv'
<1> DEFINE w == worker.sub.id
           a == Failure("REST", w)
           b == Failure("WS", w)
<1>1. /\ worker.stage = "call" /\ worker' = Idle /\ ResultPush(a)
      /\ UNCHANGED wire \/ Tells(b)
      /\ UNCHANGED <<mode, connected, venue, ws_result_queue>>
  BY DEF VenueRefuses
<1>2. worker'.stage = "idle"
  BY <1>1 DEF Idle
<1>3. /\ a \in Command /\ a.id = w /\ a.from = "REST" /\ Mute(a) /\ ~a.success /\ a.qty = 0
      /\ b \in Command /\ b.id = w /\ Mute(b) /\ ~b.success /\ b.qty = 0
  <2>1. w \in OrderId
    BY DEF IInv, OmsTypeOK, VenueOK, Submission
  <2>2. a \in Command /\ b \in Command
    BY <2>1, FailureTyped
  <2> QED BY <2>2 DEF Failure, Report, Mute, Final
<1>4. w \notin DOMAIN venue /\ Live
  BY <1>1 DEF WInv, WorkerFresh, RInv, WorkSent
<1> HIDE DEF w, a, b
<1>5. wire' = wire \/ (WsActive /\ wire' = Append(wire, b))
  BY <1>1 DEF Tells, LInv, StreamUp
<1>6. a \in HonestNow' /\ b \in HonestNow'
  BY <1>1, <1>2, <1>3, <1>4 DEF HonestNow, Honest
<1>7. RoadHonest'
  <2>1. \A cmd \in HonestNow : cmd \in HonestNow'
    BY <1>1, <1>2 DEF HonestNow, Honest
  <2>2. /\ close_bucket \in Seq(HonestNow') /\ open_bucket \in Seq(HonestNow')
        /\ result_rings \in [Nodes -> Seq(FromRest(HonestNow'))]
        /\ ws_result_queue \in Seq(HonestNow') /\ wire \in Seq(HonestNow')
    BY <1>1, <1>4, <2>1, RoadStays
  <2>3. result_rings' \in [Nodes -> Seq(FromRest(HonestNow'))]
    BY <1>1, <1>3, <1>6, <2>2, HonestRing
  <2>4. wire' \in Seq(HonestNow')
    BY <1>5, <1>6, <2>2, SeqTakes
  <2> QED BY <1>1, <2>2, <2>3, <2>4 DEF RoadHonest
<1>8. ASSUME NEW id \in DOMAIN venue
      PROVE  /\ ~Answering(id) /\ ~Answering(id)' /\ (InTable(id)' <=> InTable(id))
             /\ Undelivered(id)' = Undelivered(id)
  <2>1. Own(a, id) = 0 /\ Own(b, id) = 0
    BY <1>3 DEF Own
  <2>2. Told(result_rings'[id.node], id) = Told(result_rings[id.node], id)
    BY <1>1, <1>3, <2>1, VenueTyped, PushTold DEF IInv, OmsTypeOK, RoadOK
  <2>3. Told(wire', id) = Told(wire, id)
    BY <1>1, <1>3, <2>1, WireTold DEF IInv, OmsTypeOK, RoadOK
  <2>4. Undelivered(id)' = Undelivered(id)
    BY <1>1, <2>2, <2>3 DEF Undelivered
  <2>5. ~Answering(id) /\ ~Answering(id)'
    BY <1>1, <1>2 DEF Answering
  <2> QED BY <2>4, <2>5 DEF InTable
<1>9. NoLegLost'
  BY <1>1, <1>8 DEF LInv, NoLegLost
<1>10. WorkKnown' /\ VenueWaits'
  BY <1>1, <1>2, <1>8 DEF LInv, WorkKnown, VenueWaits, Live, WsActive
<1>11. FinalsLast'
  <2> SUFFICES ASSUME NEW id \in DOMAIN venue
               PROVE  /\ InOrder(close_bucket, open_bucket, result_rings'[id.node],
                                 ws_result_queue, wire', id)
                      /\ Concluded(close_bucket, open_bucket, result_rings'[id.node],
                                   ws_result_queue, wire', id) => venue[id].status # "open"
    BY <1>1 DEF FinalsLast
  <2>1. /\ InOrder(close_bucket, open_bucket, result_rings'[id.node], ws_result_queue, wire, id)
        /\ Concluded(close_bucket, open_bucket, result_rings'[id.node], ws_result_queue, wire, id)
             => Concluded(close_bucket, open_bucket, result_rings[id.node],
                          ws_result_queue, wire, id)
    BY <1>1, <1>3, <1>4, RingPushed
  <2>2. wire \in Seq(Command)
        /\ (Concluded(close_bucket, open_bucket, result_rings[id.node], ws_result_queue, wire, id)
              => venue[id].status # "open")
    BY VenueTyped
  <2>3. CASE wire' = wire
    BY <2>1, <2>2, <2>3
  <2>4. CASE wire' = Append(wire, b)
    <3>1. b.id # id
      BY <1>3, <1>4
    <3>2. /\ InOrder(close_bucket, open_bucket, result_rings'[id.node], ws_result_queue,
                     Append(wire, b), id)
          /\ Concluded(close_bucket, open_bucket, result_rings'[id.node], ws_result_queue,
                       Append(wire, b), id)
               => Concluded(close_bucket, open_bucket, result_rings'[id.node],
                            ws_result_queue, wire, id)
      BY <1>3, <2>1, <2>2, <3>1, WireGains
    <3> QED BY <2>1, <2>2, <2>4, <3>2
  <2> QED BY <1>5, <2>3, <2>4
<1>12. StreamUp'
  BY <1>1, <1>5 DEF LInv, StreamUp, WsActive
<1>13. BucketsSorted'
  BY DEF LInv, BucketsSorted
<1> QED BY <1>7, <1>9, <1>10, <1>11, <1>12, <1>13 DEF LInv

(* Beside the websocket the answer is an ack.                               *)
LEMMA AckLegs ==
  ASSUME IInv, RInv, WInv, LInv, QueuesHaveRoom, RestAnswer, WsActive,
         UNCHANGED <<order_bitmap, orders, phase, close_bucket, open_bucket>>
  PROVE  LInv'
<1> DEFINE w == worker.sub.id
           a == Report("REST", w, TRUE, 0, FALSE, FALSE)
<1>1. /\ worker.stage = "answer" /\ worker' = Idle /\ ResultPush(a)
      /\ UNCHANGED <<mode, connected, wire, venue, ws_result_queue>>
  BY DEF RestAnswer, stream
<1>2. worker'.stage = "idle" /\ Live /\ w \in DOMAIN venue
  BY <1>1 DEF Idle, RInv, WorkSent, IInv, OmsTypeOK, VenueOK
<1>3. a \in Command /\ a.id = w /\ a.from = "REST" /\ Mute(a) /\ a.success /\ a.qty = 0
  <2>1. a \in Command
    BY <1>2, VenueTyped, ReportTyped
  <2> QED BY <2>1 DEF Report, Mute, Final
<1> HIDE DEF w, a
<1>4. a \in HonestNow'
  BY <1>1, <1>2, <1>3 DEF HonestNow, Honest
<1>5. RoadHonest'
  <2>1. \A cmd \in HonestNow : cmd \in HonestNow'
    BY <1>1, <1>2 DEF HonestNow, Honest
  <2>2. /\ close_bucket \in Seq(HonestNow') /\ open_bucket \in Seq(HonestNow')
        /\ result_rings \in [Nodes -> Seq(FromRest(HonestNow'))]
        /\ ws_result_queue \in Seq(HonestNow') /\ wire \in Seq(HonestNow')
    BY <1>1, <1>2, <2>1, RoadStays
  <2>3. result_rings' \in [Nodes -> Seq(FromRest(HonestNow'))]
    BY <1>1, <1>3, <1>4, <2>2, HonestRing
  <2> QED BY <1>1, <2>2, <2>3 DEF RoadHonest
<1>6. ASSUME NEW id \in DOMAIN venue
      PROVE  /\ ~Answering(id) /\ ~Answering(id)' /\ (InTable(id)' <=> InTable(id))
             /\ Undelivered(id)' = Undelivered(id)
  <2>1. Own(a, id) = 0
    BY <1>3 DEF Own
  <2>2. Undelivered(id)' = Undelivered(id)
    BY <1>1, <1>3, <2>1, VenueTyped, RingUndelivered DEF Unmoved
  <2> QED BY <1>1, <2>2 DEF Answering, WsActive, InTable
<1>7. NoLegLost'
  BY <1>1, <1>6 DEF LInv, NoLegLost
<1>8. WorkKnown' /\ VenueWaits'
  BY <1>1, <1>2 DEF LInv, WorkKnown, VenueWaits, Live, WsActive
<1>9. FinalsLast'
  <2> SUFFICES ASSUME NEW id \in DOMAIN venue
               PROVE  /\ InOrder(close_bucket, open_bucket, result_rings'[id.node],
                                 ws_result_queue, wire, id)
                      /\ Concluded(close_bucket, open_bucket, result_rings'[id.node],
                                   ws_result_queue, wire, id) => venue[id].status # "open"
    BY <1>1 DEF FinalsLast
  <2>1. ~Final(a)
    BY <1>3 DEF Mute
  <2> QED BY <1>1, <1>3, <2>1, RingPushed, VenueTyped
<1>10. StreamUp' /\ BucketsSorted'
  BY <1>1 DEF LInv, StreamUp, BucketsSorted, WsActive
<1> QED BY <1>5, <1>7, <1>8, <1>9, <1>10 DEF LInv

(* Without it the answer tells everything at once.                          *)
LEMMA AnswerLegs ==
  ASSUME IInv, RInv, WInv, LInv, QueuesHaveRoom, RestAnswer, ~WsActive,
         UNCHANGED <<order_bitmap, orders, phase, close_bucket, open_bucket>>
  PROVE  LInv'
<1> DEFINE w == worker.sub.id
           o == venue[w]
           a == Report("REST", w, TRUE, o.executed, o.status = "filled", o.status = "ended")
<1>1. /\ worker.stage = "answer" /\ worker' = Idle /\ o.status # "open" /\ ResultPush(a)
      /\ UNCHANGED <<mode, connected, wire, venue, ws_result_queue>>
  BY DEF RestAnswer, stream
<1>2. /\ worker'.stage = "idle" /\ Live /\ mode = "rest" /\ w \in DOMAIN venue
      /\ InTable(w)
  BY <1>1 DEF Idle, RInv, WorkSent, QueueOrdered, Live, WsActive, IInv, OmsTypeOK, VenueOK,
              LInv, WorkKnown
<1>3. /\ a \in Command /\ a.id = w /\ a.from = "REST" /\ a.success /\ a.qty = o.executed
      /\ o.executed \in Nat /\ w \in OrderId /\ w.node \in Nodes
  <2>1. o.executed \in Nat /\ w \in OrderId /\ w.node \in Nodes
    BY <1>2, VenueTyped
  <2>2. a \in Command
    BY <2>1, ReportTyped
  <2> QED BY <2>1, <2>2 DEF Report
<1>4. /\ Unspoken(close_bucket, w) /\ Unspoken(open_bucket, w)
      /\ Unspoken(result_rings[w.node], w)
      /\ Unspoken(ws_result_queue, w) /\ Unspoken(wire, w)
  BY <1>1, WorkUnspoken
<1> HIDE DEF a
<1>5. a \in HonestNow'
  BY <1>1, <1>2, <1>3 DEF HonestNow, Honest
<1>6. RoadHonest'
  <2>1. \A cmd \in HonestNow : cmd \in HonestNow'
    BY <1>1, <1>2 DEF HonestNow, Honest
  <2>2. /\ close_bucket \in Seq(HonestNow') /\ open_bucket \in Seq(HonestNow')
        /\ result_rings \in [Nodes -> Seq(FromRest(HonestNow'))]
        /\ ws_result_queue \in Seq(HonestNow') /\ wire \in Seq(HonestNow')
    BY <1>1, <1>2, <2>1, RoadStays
  <2>3. result_rings' \in [Nodes -> Seq(FromRest(HonestNow'))]
    BY <1>1, <1>3, <1>5, <2>2, HonestRing
  <2> QED BY <1>1, <2>2, <2>3 DEF RoadHonest
<1>7. ASSUME NEW id \in DOMAIN venue, id # w
      PROVE  /\ ~Answering(id) /\ (InTable(id)' <=> InTable(id))
             /\ Undelivered(id)' = Undelivered(id)
  <2>1. Own(a, id) = 0
    BY <1>3, <1>7 DEF Own
  <2>2. Undelivered(id)' = Undelivered(id)
    BY <1>1, <1>3, <2>1, VenueTyped, RingUndelivered DEF Unmoved
  <2> QED BY <1>7, <2>2 DEF Answering, InTable
<1>8. ASSUME NEW id, id = w
      PROVE  /\ InTable(id)' /\ orders[id.slot].filled + Undelivered(id)' = venue[id].executed
  <2>1. id.slot \in order_bitmap /\ orders[id.slot].id = id
    BY <1>2, <1>8, TableSlot
  <2>2. orders[id.slot].filled = 0
    BY <1>2, <1>8, <2>1 DEF RInv, TableOwes, Owes, Untouched
  <2>3. Undelivered(id) = 0
    BY <1>1, <1>2, <1>3, <1>8 DEF WInv, WorkerFresh
  <2>4. Len(result_rings[id.node]) < ResultCap
    BY <1>3, <1>8 DEF QueuesHaveRoom
  <2>5. Undelivered(id)' = Undelivered(id) + Own(a, id)
    BY <1>1, <1>3, <1>8, <2>4, RingUndelivered DEF Unmoved
  <2>6. Own(a, id) = o.executed /\ o = venue[id] /\ o.executed \in Nat
    BY <1>3, <1>8 DEF Own
  <2>7. InTable(id)'
    BY <2>1 DEF InTable
  <2> HIDE DEF o
  <2> QED BY <2>2, <2>3, <2>5, <2>6, <2>7
<1>9. ASSUME NEW id PROVE ~Answering(id)'
  BY <1>2 DEF Answering
<1>10. NoLegLost'
  <2> SUFFICES ASSUME NEW id \in DOMAIN venue
               PROVE  IF InTable(id)'
                        THEN orders[id.slot].filled + Undelivered(id)' = venue[id].executed
                        ELSE venue[id].status # "open" /\ Undelivered(id)' = 0
    BY <1>1, <1>9 DEF NoLegLost
  <2>1. CASE id = w
    BY <1>8, <2>1
  <2>2. CASE id # w
    BY <1>7, <2>2 DEF LInv, NoLegLost
  <2> QED BY <2>1, <2>2
<1>11. WorkKnown'
  BY <1>2 DEF WorkKnown
<1>12. VenueWaits'
  BY <1>1, <1>7 DEF LInv, VenueWaits, Live, WsActive
<1>13. FinalsLast'
  <2> SUFFICES ASSUME NEW id \in DOMAIN venue
               PROVE  /\ InOrder(close_bucket, open_bucket, result_rings'[id.node],
                                 ws_result_queue, wire, id)
                      /\ Concluded(close_bucket, open_bucket, result_rings'[id.node],
                                   ws_result_queue, wire, id) => venue[id].status # "open"
    BY <1>1 DEF FinalsLast
  <2>1. a.id = id =>
          /\ Quiet(close_bucket, id) /\ Quiet(open_bucket, id)
          /\ Quiet(ws_result_queue, id) /\ Quiet(wire, id)
          /\ ~Concluded(close_bucket, open_bucket, result_rings[id.node],
                        ws_result_queue, wire, id)
          /\ venue[id].status # "open"
    BY <1>1, <1>3, <1>4, UnspokenOrder
  <2> QED BY <1>1, <1>3, <2>1, RingPushed, VenueTyped
<1>14. StreamUp' /\ BucketsSorted'
  BY <1>1 DEF LInv, StreamUp, BucketsSorted, WsActive
<1> QED BY <1>6, <1>10, <1>11, <1>12, <1>13, <1>14 DEF LInv

(* The venue trades an order that is open, or ends it, and tells of it.     *)
LEMMA VenueTells ==
  ASSUME IInv, LInv, NEW v \in DOMAIN venue, venue[v].status = "open",
         NEW a \in Command, a.id = v, a.from = "WS", a.success, Tells(a),
         DOMAIN venue' = DOMAIN venue,
         \A id \in DOMAIN venue : id # v => venue'[id] = venue[id],
         venue'[v].executed = venue[v].executed + a.qty,
         Final(a) => venue'[v].status # "open",
         UNCHANGED <<mode, connected, worker, result_rings, ws_result_queue,
                     order_bitmap, orders, phase, close_bucket, open_bucket>>
  PROVE  LInv'
<1>1. /\ Live /\ InTable(v) /\ v \in OrderId /\ v.node \in Nodes
      /\ ~WsActive => Answering(v)
  BY VenueTyped DEF LInv, NoLegLost, VenueWaits
<1>2. IF WsActive THEN connected = TRUE /\ wire' = Append(wire, a)
                  ELSE connected = FALSE /\ wire' = wire
  BY DEF LInv, StreamUp, Tells
<1>3. HonestNow' = HonestNow
  BY DEF HonestNow, Honest
<1>4. RoadHonest'
  <2>1. /\ close_bucket \in Seq(HonestNow) /\ open_bucket \in Seq(HonestNow)
        /\ result_rings \in [Nodes -> Seq(FromRest(HonestNow))]
        /\ ws_result_queue \in Seq(HonestNow) /\ wire \in Seq(HonestNow)
    BY <1>1 DEF LInv, RoadHonest
  <2>2. WsActive => a \in HonestNow
    BY DEF HonestNow, Honest, WsActive
  <2>3. WsActive => wire' \in Seq(HonestNow)
    BY <1>2, <2>1, <2>2, SeqTakes
  <2>4. wire' \in Seq(HonestNow)
    BY <1>2, <2>1, <2>3
  <2> QED BY <1>3, <2>1, <2>4 DEF RoadHonest
<1>5. ASSUME NEW id \in DOMAIN venue
      PROVE  /\ InTable(id)' <=> InTable(id)
             /\ Answering(id)' <=> Answering(id)
             /\ id # v => Undelivered(id)' = Undelivered(id)
             /\ id = v /\ WsActive => Undelivered(id)' = Undelivered(id) + a.qty
  <2>1. id # v => Own(a, id) = 0
    BY DEF Own
  <2>2. id = v => Own(a, id) = a.qty
    BY DEF Own
  <2>3. /\ connected => Undelivered(id)' = Undelivered(id) + Own(a, id)
        /\ Own(a, id) = 0 => Undelivered(id)' = Undelivered(id)
    BY VenueTyped, WireUndelivered DEF Unmoved
  <2>4. (InTable(id)' <=> InTable(id)) /\ (Answering(id)' <=> Answering(id))
    BY DEF InTable, Answering, WsActive
  <2> QED BY <1>2, <2>1, <2>2, <2>3, <2>4
<1>6. NoLegLost'
  <2> SUFFICES ASSUME NEW id \in DOMAIN venue
               PROVE  IF InTable(id)
                        THEN Answering(id)
                               \/ orders[id.slot].filled + Undelivered(id)' = venue'[id].executed
                        ELSE venue'[id].status # "open" /\ Undelivered(id)' = 0
    BY <1>5 DEF NoLegLost
  <2>1. CASE id # v
    BY <1>5, <2>1 DEF LInv, NoLegLost
  <2>2. CASE id = v /\ ~WsActive
    BY <1>1, <2>2
  <2>3. CASE id = v /\ WsActive
    <3>1. orders[id.slot].filled + Undelivered(id) = venue[id].executed
      BY <1>1, <2>3 DEF LInv, NoLegLost, Answering
    <3>2. orders[id.slot].filled \in Nat /\ Undelivered(id) \in Nat /\ a.qty \in Nat
      <4>1. id.slot \in order_bitmap
        BY <1>1, <2>3, TableSlot
      <4> QED BY <1>1, <2>3, <4>1, TableNodes, ToldTyped DEF Command
    <3>3. Undelivered(id)' = Undelivered(id) + a.qty
      BY <1>5, <2>3
    <3>4. venue'[id].executed = venue[id].executed + a.qty
      BY <2>3
    <3>5. orders[id.slot].filled + Undelivered(id)' = venue'[id].executed
      BY <3>1, <3>2, <3>3, <3>4
    <3> QED BY <1>1, <2>3, <3>5
  <2> QED BY <2>1, <2>2, <2>3
<1>7. WorkKnown'
  BY DEF LInv, WorkKnown, WsActive, InTable
<1>8. VenueWaits'
  <2> SUFFICES ASSUME NEW id \in DOMAIN venue
               PROVE  Live /\ id.node \in Nodes
                        /\ (~WsActive /\ venue'[id].status = "open" => Answering(id))
    BY <1>5 DEF VenueWaits, Live, WsActive
  <2> QED BY <1>1 DEF LInv, VenueWaits
<1>9. FinalsLast'
  <2> SUFFICES ASSUME NEW id \in DOMAIN venue
               PROVE  /\ InOrder(close_bucket, open_bucket, result_rings[id.node],
                                 ws_result_queue, wire', id)
                      /\ Concluded(close_bucket, open_bucket, result_rings[id.node],
                                   ws_result_queue, wire', id) => venue'[id].status # "open"
    BY DEF FinalsLast
  <2>1. /\ wire \in Seq(Command)
        /\ InOrder(close_bucket, open_bucket, result_rings[id.node], ws_result_queue, wire, id)
        /\ Concluded(close_bucket, open_bucket, result_rings[id.node], ws_result_queue, wire, id)
             => venue[id].status # "open"
    BY VenueTyped
  <2>2. id # v => venue'[id] = venue[id]
    OBVIOUS
  <2>3. CASE ~WsActive
    <3>1. id = v => ~Concluded(close_bucket, open_bucket, result_rings[id.node],
                               ws_result_queue, wire, id)
      BY <2>1
    <3> QED BY <1>2, <2>1, <2>2, <2>3, <3>1
  <2>4. CASE WsActive
    <3>1. Quiet(result_rings[id.node], id)
      <4>1. result_rings[id.node] \in Seq(FromRest(HonestNow))
        BY <1>1, VenueTyped DEF LInv, RoadHonest
      <4>2. \A cmd \in FromRest(HonestNow) : Mute(cmd)
        BY <2>4 DEF FromRest, HonestNow, Honest, WsActive
      <4>3. \A i \in 1 .. Len(result_rings[id.node]) :
              result_rings[id.node][i] \in FromRest(HonestNow)
        BY <4>1
      <4> QED BY <4>2, <4>3 DEF Quiet
    <3>2. a.id = id => ~Concluded(close_bucket, open_bucket, result_rings[id.node],
                                  ws_result_queue, wire, id)
      BY <2>1
    <3>3. /\ InOrder(close_bucket, open_bucket, result_rings[id.node], ws_result_queue,
                     Append(wire, a), id)
          /\ Concluded(close_bucket, open_bucket, result_rings[id.node], ws_result_queue,
                       Append(wire, a), id)
               => \/ Concluded(close_bucket, open_bucket, result_rings[id.node],
                               ws_result_queue, wire, id)
                  \/ a.id = id /\ Final(a)
      BY <2>1, <3>1, <3>2, WireGains
    <3> QED BY <1>2, <2>1, <2>2, <2>4, <3>2, <3>3
  <2> QED BY <2>3, <2>4
<1>10. StreamUp'
  BY <1>2 DEF LInv, StreamUp, WsActive
<1>11. BucketsSorted'
  BY DEF LInv, BucketsSorted
<1> QED BY <1>4, <1>6, <1>7, <1>8, <1>9, <1>10, <1>11 DEF LInv

LEMMA TradeLegs ==
  ASSUME IInv, LInv, NEW v \in DOMAIN venue, VenueTrades(v) \/ VenueEnds(v),
         UNCHANGED <<order_bitmap, orders, phase, close_bucket, open_bucket>>
  PROVE  LInv'
<1>1. /\ venue[v].status = "open" /\ v \in OrderId
      /\ venue[v] \in VenueOrder /\ venue[v].executed \in Nat
      /\ UNCHANGED <<mode, connected, worker, result_rings, ws_result_queue>>
  BY VenueTyped DEF VenueTrades, VenueEnds
<1>2. CASE VenueTrades(v)
  <2>1. PICK q \in 1 .. venue[v].qty - venue[v].executed :
          LET done == venue[v].executed + q = venue[v].qty
          IN /\ venue' = [venue EXCEPT ![v].executed = @ + q,
                                       ![v].status = IF done THEN "filled" ELSE "open"]
             /\ Tells(Report("WS", v, TRUE, q, done, FALSE))
    BY <1>2 DEF VenueTrades
  <2> DEFINE done == venue[v].executed + q = venue[v].qty
             a == Report("WS", v, TRUE, q, done, FALSE)
  <2>2. /\ a \in Command /\ a.id = v /\ a.from = "WS" /\ a.success /\ a.qty = q
        /\ a.complete = done /\ a.terminal = FALSE
    <3>1. q \in Nat /\ done \in BOOLEAN
      BY <1>1 DEF VenueOrder
    <3>2. a \in Command
      BY <1>1, <3>1, ReportTyped
    <3> QED BY <3>2 DEF Report
  <2>3. /\ DOMAIN venue' = DOMAIN venue
        /\ \A id \in DOMAIN venue : id # v => venue'[id] = venue[id]
        /\ venue'[v].executed = venue[v].executed + q
        /\ done => venue'[v].status = "filled"
    BY <1>1, <2>1 DEF VenueOrder
  <2>4. Tells(a)
    BY <2>1
  <2>5. Final(a) => venue'[v].status # "open"
    BY <2>2, <2>3 DEF Final
  <2> HIDE DEF a, done
  <2> QED BY <1>1, <2>2, <2>3, <2>4, <2>5, VenueTells
<1>3. CASE VenueEnds(v)
  <2> DEFINE a == Report("WS", v, TRUE, 0, FALSE, TRUE)
  <2>1. /\ a \in Command /\ a.id = v /\ a.from = "WS" /\ a.success /\ a.qty = 0
    <3>1. a \in Command
      BY <1>1, ReportTyped
    <3> QED BY <3>1 DEF Report
  <2>2. /\ DOMAIN venue' = DOMAIN venue
        /\ \A id \in DOMAIN venue : id # v => venue'[id] = venue[id]
        /\ venue'[v].executed = venue[v].executed
        /\ venue'[v].status = "ended"
    BY <1>1, <1>3 DEF VenueEnds, VenueOrder
  <2>3. Tells(a)
    BY <1>3 DEF VenueEnds
  <2> HIDE DEF a
  <2>4. venue'[v].executed = venue[v].executed + a.qty
    BY <1>1, <2>1, <2>2
  <2> QED BY <1>1, <2>1, <2>2, <2>3, <2>4, VenueTells
<1> QED BY <1>2, <1>3

LEMMA ReceiveLegs ==
  ASSUME IInv, LInv, QueuesHaveRoom, WsReceive,
         UNCHANGED <<order_bitmap, orders, phase, close_bucket, open_bucket>>
  PROVE  LInv'
<1>1. /\ wire # << >> /\ wire' = Tail(wire)
      /\ ws_result_queue' = Append(ws_result_queue, Head(wire))
      /\ UNCHANGED <<mode, connected, worker, venue, result_rings>>
  BY DEF WsReceive, Offer, QueuesHaveRoom
<1>2. WsActive /\ connected = TRUE
  BY <1>1 DEF LInv, StreamUp
<1>3. \A id \in DOMAIN venue : Undelivered(id)' = Undelivered(id)
  BY VenueTyped, StreamUndelivered DEF Unmoved, QueuesHaveRoom
<1>4. WorkKnown' /\ VenueWaits' /\ NoLegLost'
  BY <1>1, <1>3, LegsKept
<1>5. RoadHonest'
  <2>1. HonestNow' = HonestNow
    BY <1>1 DEF HonestNow
  <2>2. /\ close_bucket \in Seq(HonestNow) /\ open_bucket \in Seq(HonestNow)
        /\ result_rings \in [Nodes -> Seq(FromRest(HonestNow))]
        /\ ws_result_queue \in Seq(HonestNow) /\ wire \in Seq(HonestNow)
    BY <1>2 DEF LInv, RoadHonest, Live, WsActive
  <2>3. ASSUME NEW S, NEW q \in Seq(S), NEW r \in Seq(S), q # << >>
        PROVE  Tail(q) \in Seq(S) /\ Append(r, Head(q)) \in Seq(S)
    <3>1. Head(q) \in S /\ Tail(q) \in Seq(S)
      BY <2>3
    <3> QED BY <3>1
  <2>4. wire' \in Seq(HonestNow) /\ ws_result_queue' \in Seq(HonestNow)
    BY <1>1, <2>2, <2>3
  <2> QED BY <1>1, <2>1, <2>2, <2>4 DEF RoadHonest
<1>6. FinalsLast'
  <2> SUFFICES ASSUME NEW id \in DOMAIN venue
               PROVE  /\ InOrder(close_bucket, open_bucket, result_rings[id.node],
                                 ws_result_queue', wire', id)
                      /\ Concluded(close_bucket, open_bucket, result_rings[id.node],
                                   ws_result_queue', wire', id) => venue[id].status # "open"
    BY <1>1 DEF FinalsLast
  <2> QED BY <1>1, VenueTyped, WireMoves
<1>7. StreamUp' /\ BucketsSorted'
  BY <1>1, <1>2 DEF LInv, StreamUp, BucketsSorted, WsActive
<1> QED BY <1>4, <1>5, <1>6, <1>7 DEF LInv

LEMMA AdapterLegs ==
  ASSUME ~AnswersLost, ~StreamDrops, IInv, RInv, WInv, LInv, QueuesHaveRoom, Adapter
  PROVE  LInv'
<1>1. AdapterNext /\ UNCHANGED <<order_bitmap, orders, phase, close_bucket, open_bucket>>
  BY DEF Adapter, omsVars, tableVars
<1>2. CASE WorkerPop
  BY <1>1, <1>2, PopLegs
<1>3. CASE VenueAccepts
  BY <1>1, <1>3, AcceptLegs
<1>4. CASE VenueRefuses
  BY <1>1, <1>4, RefuseLegs
<1>5. CASE RestAnswer
  BY <1>1, <1>5, AckLegs, AnswerLegs
<1>6. CASE ShutdownState
  <2>1. /\ UNCHANGED <<mode, connected, worker, venue, result_rings, ws_result_queue, wire>>
        /\ Unmoved
    BY <1>1, <1>6 DEF ShutdownState, stream, Unmoved
  <2>2. \A id \in DOMAIN venue : Undelivered(id)' = Undelivered(id)
    BY <2>1, SameUndelivered
  <2>3. WorkKnown' /\ VenueWaits' /\ NoLegLost'
    BY <1>1, <2>1, <2>2, LegsKept
  <2>4. RoadHonest' /\ StreamUp' /\ FinalsLast' /\ BucketsSorted'
    BY <1>1, <2>1 DEF LInv, RoadHonest, HonestNow, StreamUp, FinalsLast, BucketsSorted,
                      Live, WsActive
  <2> QED BY <2>3, <2>4 DEF LInv
<1>7. CASE WsReceive
  BY <1>1, <1>7, ReceiveLegs
<1>8. CASE \E id \in DOMAIN venue : VenueTrades(id) \/ VenueEnds(id)
  BY <1>1, <1>8, TradeLegs
<1>9. ~RestAnswerLost /\ ~StreamBreaks /\ ~StreamConnects
  BY DEF RestAnswerLost, StreamBreaks, StreamConnects, LInv, StreamUp
<1> QED BY <1>1, <1>2, <1>3, <1>4, <1>5, <1>6, <1>7, <1>8, <1>9 DEF AdapterNext

-----------------------------------------------------------------------------
LEMMA InitLegs ==
  ASSUME ~StreamDrops
  PROVE  Init => LInv
<1> SUFFICES ASSUME Init PROVE LInv
  OBVIOUS
<1>1. /\ worker.stage = "idle" /\ DOMAIN venue = {} /\ phase = "pump"
      /\ wire = << >> /\ ws_result_queue = << >> /\ close_bucket = << >> /\ open_bucket = << >>
      /\ result_rings = [n \in Nodes |-> << >>]
  <2>1. worker.stage = "idle"
    BY DEF Init, AdapterInit, Idle
  <2>2. DOMAIN venue = {}
    BY DEF Init, AdapterInit
  <2> QED BY <2>1, <2>2 DEF Init, AdapterInit, OmsInit
<1>2. RoadHonest
  <2>1. \A S : << >> \in Seq(S)
    OBVIOUS
  <2> QED BY <1>1, <2>1 DEF RoadHonest
<1>3. StreamUp /\ BucketsSorted
  <2>1. connected = (WsActive /\ ~StreamDrops)
    BY DEF Init, AdapterInit
  <2>2. connected = WsActive
    <3>1. (WsActive /\ ~StreamDrops) = WsActive
      BY DEF WsActive
    <3> QED BY <2>1, <3>1
  <2> QED BY <1>1, <2>2 DEF StreamUp, BucketsSorted
<1>4. WorkKnown /\ VenueWaits /\ FinalsLast /\ NoLegLost
  BY <1>1 DEF WorkKnown, VenueWaits, FinalsLast, NoLegLost
<1> QED BY <1>2, <1>3, <1>4 DEF LInv

LEMMA NextLegs ==
  ASSUME ~AnswersLost, ~StreamDrops
  PROVE  IInv /\ RInv /\ WInv /\ LInv /\ QueuesHaveRoom /\ [Next]_vars => LInv'
<1> SUFFICES ASSUME IInv, RInv, WInv, LInv, QueuesHaveRoom, [Next]_vars PROVE LInv'
  OBVIOUS
<1>1. IInv'
  BY NextInv
<1>2. CASE Producers /\ UNCHANGED cursor
  BY <1>2, PassLegs DEF Producers
<1>3. CASE PumpDone \/ UNCHANGED vars
  BY <1>3, PassLegs
<1>4. CASE BookPass
  BY <1>1, <1>4, SubmitOneLegs, DrainLegs, BookLegs, PassLegs DEF BookPass
<1>5. CASE Adapter
  BY <1>5, AdapterLegs
<1> QED BY <1>2, <1>3, <1>4, <1>5 DEF Next

(* NoLegLost: with any number of nodes and slots, in either live mode, and  *)
(* wherever the adapter is shut down, as long as no REST answer is lost,    *)
(* the user-data stream stays up and none of the queues a fill passes is    *)
(* full, the order table has booked what the venue executed but for what is *)
(* on its way, and lets no order go that the venue still has something to   *)
(* tell of (OrderManager_ProcessFillCommand).                               *)
THEOREM NoLegIsLost ==
  ASSUME ~AnswersLost, ~StreamDrops
  PROVE  Spec /\ []QueuesHaveRoom => []NoLegLost
<1>1. Init => IInv /\ RInv /\ WInv /\ LInv
  BY InitInv, InitRoad, InitWithin, InitLegs
<1>2. IInv /\ RInv /\ WInv /\ LInv /\ QueuesHaveRoom /\ [Next]_vars
        => (IInv /\ RInv /\ WInv /\ LInv)'
  BY NextInv, NextRoad, NextWithin, NextLegs
<1>3. LInv => NoLegLost
  BY DEF LInv
<1> QED BY <1>1, <1>2, <1>3, PTL DEF Spec

-----------------------------------------------------------------------------
(* What the venue holds for a node is in the positions of its slots, on top *)
(* of IInv, RInv, WInv and LInv.  What the books got of an order is what    *)
(* the table has booked of it, and all of it once it left the table; the    *)
(* table has an order on the side it is on at the venue.                    *)
Got(id) == IF InTable(id) THEN orders[id.slot].filled ELSE venue[id].executed
Gained(n) == [id \in OrdersOf(n) |-> Signed(id, Got(id))]

SideOf(id, type) == \A k \in order_bitmap : orders[k].id = id => orders[k].type = type
SidesKept ==
  /\ IsFiniteSet(DOMAIN venue)
  /\ \A i \in 1 .. Len(submission_queue) :
       SideOf(submission_queue[i].id, submission_queue[i].type)
  /\ worker.stage = "call" => SideOf(worker.sub.id, worker.sub.type)
  /\ \A id \in DOMAIN venue : SideOf(id, venue[id].type)

GainsHeld == \A n \in Nodes : SumOver(Gained(n)) <= Held(n)

VInv == SidesKept /\ GainsHeld

LEMMA OrdersOfFinite ==
  ASSUME SidesKept, NEW n
  PROVE  IsFiniteSet(OrdersOf(n))
<1>1. OrdersOf(n) \in SUBSET DOMAIN venue
  BY DEF OrdersOf
<1> QED BY <1>1, FS_Subset DEF SidesKept

(* What the venue has executed of an order and will not be told is what the *)
(* books got.                                                               *)
LEMMA GotIs ==
  ASSUME IInv, RInv, LInv, NEW id \in DOMAIN venue
  PROVE  /\ Got(id) \in Nat /\ ToCome(id) \in Nat
         /\ venue[id].executed - ToCome(id) = Got(id)
<1>1. /\ id \in OrderId /\ id.node \in Nodes /\ venue[id].executed \in Nat /\ Live
      /\ Undelivered(id) \in Nat
  BY VenueTyped, ToldTyped
<1>2. CASE InTable(id)
  <2>1. id.slot \in order_bitmap /\ orders[id.slot].id = id /\ orders[id.slot].filled \in Nat
    BY <1>2, TableSlot, TableNodes
  <2>2. Answering(id) \/ orders[id.slot].filled + Undelivered(id) = venue[id].executed
    BY <1>2 DEF LInv, NoLegLost
  <2>3. Answering(id) => orders[id.slot].filled = 0
    <3>1. Answering(id) => mode = "rest"
      BY <1>1 DEF Answering, WsActive, Live, RInv, QueueOrdered
    <3> QED BY <2>1, <3>1 DEF RInv, TableOwes, Owes, Untouched
  <2>4. CASE Answering(id)
    BY <1>1, <1>2, <2>1, <2>3, <2>4 DEF Got, ToCome
  <2>5. CASE ~Answering(id)
    BY <1>1, <1>2, <2>1, <2>2, <2>5 DEF Got, ToCome
  <2> QED BY <2>4, <2>5
<1>3. CASE ~InTable(id)
  <2>1. Undelivered(id) = 0
    BY <1>3 DEF LInv, NoLegLost
  <2>2. ~Answering(id)
    BY <1>3 DEF Answering, LInv, WorkKnown
  <2> QED BY <1>1, <1>3, <2>1, <2>2 DEF Got, ToCome
<1> QED BY <1>2, <1>3

(* The slots of a node are finitely many.                                   *)
LEMMA SlotsOfFinite ==
  ASSUME NEW n \in Nodes
  PROVE  IsFiniteSet({s \in Slots : NodeOf(s) = n})
<1>1. n \in Nat /\ Slots \subseteq Nat /\ PartialOn \in BOOLEAN
  BY OmsAssumption, AdapterAssumption
<1>2. \A s \in Slots : NodeOf(s) = n => s <= 2 * n + 1
  <2> SUFFICES ASSUME NEW s \in Slots, NodeOf(s) = n PROVE s <= 2 * n + 1
    OBVIOUS
  <2>1. s \in Nat
    BY <1>1
  <2>2. CASE PartialOn
    BY <1>1, <2>1, <2>2 DEF NodeOf
  <2>3. CASE ~PartialOn
    BY <1>1, <2>3 DEF NodeOf
  <2> QED BY <2>2, <2>3
<1>3. {s \in Slots : NodeOf(s) = n} \in SUBSET Nat
  BY <1>1
<1>4. 2 * n + 1 \in Nat
  BY <1>1
<1> QED BY <1>2, <1>3, <1>4, FS_BoundedSetOfNaturals

LEMMA HeldTyped ==
  ASSUME PositionsOK, NEW n \in Nodes
  PROVE  Held(n) \in Nat
<1> DEFINE D == {s \in Slots : NodeOf(s) = n}
           h == [s \in D |-> positions[s]]
<1>1. DOMAIN positions = Slots /\ h \in [D -> Nat]
  BY DEF PositionsOK
<1>2. IsFiniteSet(D)
  BY SlotsOfFinite
<1>3. Held(n) = SumOver(h)
  BY <1>1 DEF Held
<1> HIDE DEF D, h
<1> QED BY <1>1, <1>2, <1>3, SumOverNat

LEMMA SignedTyped ==
  ASSUME NEW id, NEW a \in Int
  PROVE  Signed(id, a) \in Int
BY DEF Signed

LEMMA GainedTyped ==
  ASSUME IInv, RInv, LInv, NEW n
  PROVE  Gained(n) \in [OrdersOf(n) -> Int]
<1>1. \A id \in OrdersOf(n) : Signed(id, Got(id)) \in Int
  BY GotIs, SignedTyped DEF OrdersOf
<1> QED BY <1>1 DEF Gained

(* The property, by what the books got.                                     *)
LEMMA GainsTracked ==
  ASSUME IInv, RInv, LInv, SidesKept, GainsHeld
  PROVE  InventoryTracked
<1> SUFFICES ASSUME NEW n \in Nodes
             PROVE  SumOver([id \in OrdersOf(n) |-> Signed(id, venue[id].executed)])
                      <= Held(n) + SumOver([id \in OrdersOf(n) |-> Signed(id, ToCome(id))])
  BY DEF InventoryTracked
<1> DEFINE D == OrdersOf(n)
           f == [id \in OrdersOf(n) |-> Signed(id, venue[id].executed)]
           g == [id \in OrdersOf(n) |-> Signed(id, ToCome(id))]
           h == Gained(n)
<1>1. \A id \in D : /\ venue[id].executed \in Nat /\ ToCome(id) \in Nat /\ Got(id) \in Nat
                    /\ venue[id].executed - ToCome(id) = Got(id)
  BY GotIs, VenueTyped DEF OrdersOf
<1>2. f \in [D -> Int] /\ g \in [D -> Int] /\ h \in [D -> Int] /\ IsFiniteSet(D)
  <2>1. \A id \in D : Signed(id, venue[id].executed) \in Int /\ Signed(id, ToCome(id)) \in Int
    BY <1>1, SignedTyped
  <2> QED BY <2>1, GainedTyped, OrdersOfFinite
<1>3. \A id \in D : h[id] = f[id] - g[id]
  BY <1>1 DEF Gained, Signed
<1>4. SumOver(h) <= Held(n)
  BY DEF GainsHeld
<1> HIDE DEF D, f, g, h
<1>5. SumOver(h) = SumOver(f) - SumOver(g) /\ SumOver(f) \in Int /\ SumOver(g) \in Int
  BY <1>2, <1>3, SumOverDiff, SumOverType
<1>6. Held(n) \in Int
  BY HeldTyped DEF IInv, OmsTypeOK
<1>7. SumOver(f) <= Held(n) + SumOver(g)
  BY <1>4, <1>5, <1>6
<1> QED BY <1>7 DEF f, g

(* The same of the next state.                                              *)
GotFacts ==
  IInv /\ RInv /\ LInv =>
    \A id \in DOMAIN venue : /\ Got(id) \in Nat /\ ToCome(id) \in Nat
                            /\ venue[id].executed - ToCome(id) = Got(id)
                            /\ venue[id].executed \in Nat

LEMMA GotNow == GotFacts
BY GotIs, VenueTyped DEF GotFacts

LEMMA GotNext == GotFacts'
BY GotNow, PTL

(* What a step takes off the road of an order, the books got.               *)
LEMMA GotMoves ==
  ASSUME IInv, IInv', RInv, RInv', LInv, LInv', NEW id \in DOMAIN venue, id \in DOMAIN venue',
         venue'[id].executed = venue[id].executed, Answering(id)' <=> Answering(id),
         NEW q \in Nat, Undelivered(id)' + q = Undelivered(id), Answering(id) => q = 0
  PROVE  Got(id)' = Got(id) + q
<1>1. /\ Got(id) \in Nat /\ ToCome(id) \in Nat /\ venue[id].executed \in Nat
      /\ venue[id].executed - ToCome(id) = Got(id)
  BY GotNow DEF GotFacts
<1>2. /\ Got(id)' \in Nat /\ ToCome(id)' \in Nat
      /\ venue'[id].executed - ToCome(id)' = Got(id)'
  BY GotNext DEF GotFacts
<1>3. Undelivered(id) \in Nat /\ Undelivered(id)' \in Nat
  BY VenueTyped, ToldTyped, NextTyped
<1>4. ToCome(id)' + q = ToCome(id)
  <2>1. CASE Answering(id)
    BY <1>1, <2>1 DEF ToCome
  <2>2. CASE ~Answering(id)
    BY <2>2 DEF ToCome
  <2> QED BY <2>1, <2>2
<1> QED BY <1>1, <1>2, <1>4

(* Where the books got nothing new and the positions stand, the account     *)
(* stands.                                                                  *)
LEMMA GainsStay ==
  ASSUME GainsHeld, positions' = positions, DOMAIN venue' = DOMAIN venue,
         \A id \in DOMAIN venue : venue'[id].type = venue[id].type /\ Got(id)' = Got(id)
  PROVE  GainsHeld'
<1> SUFFICES ASSUME NEW n \in Nodes PROVE SumOver(Gained(n)') <= Held(n)'
  BY DEF GainsHeld
<1>1. Held(n)' = Held(n)
  BY DEF Held
<1>2. OrdersOf(n)' = OrdersOf(n)
  BY DEF OrdersOf
<1>3. Gained(n)' = Gained(n)
  <2>1. \A id \in OrdersOf(n) : Signed(id, Got(id))' = Signed(id, Got(id))
    BY DEF OrdersOf, Signed
  <2> QED BY <1>2, <2>1 DEF Gained
<1> QED BY <1>1, <1>3 DEF GainsHeld
-----------------------------------------------------------------------------
(* The sides.                                                               *)
LEMMA SidesStay ==
  ASSUME SidesKept, UNCHANGED <<submission_queue, worker, venue, order_bitmap, orders>>
  PROVE  SidesKept'
BY DEF SidesKept, SideOf

(* What the venue does to an order that is open.                            *)
LEMMA TradeMoves ==
  ASSUME IInv, NEW v \in DOMAIN venue, VenueTrades(v) \/ VenueEnds(v)
  PROVE  /\ DOMAIN venue' = DOMAIN venue /\ venue'[v].type = venue[v].type
         /\ \A id \in DOMAIN venue : id # v => venue'[id] = venue[id]
         /\ venue[v].status = "open" /\ UNCHANGED <<submission_queue, worker>>
<1>1. venue[v] \in VenueOrder
  BY DEF IInv, OmsTypeOK, VenueOK
<1>2. CASE VenueTrades(v)
  <2>1. PICK q \in 1 .. venue[v].qty - venue[v].executed :
          venue' = [venue EXCEPT ![v].executed = @ + q,
                      ![v].status = IF venue[v].executed + q = venue[v].qty THEN "filled"
                                                                           ELSE "open"]
    BY <1>2 DEF VenueTrades
  <2> QED BY <1>1, <1>2, <2>1 DEF VenueTrades, VenueOrder
<1>3. CASE VenueEnds(v)
  BY <1>1, <1>3 DEF VenueEnds, VenueOrder
<1> QED BY <1>2, <1>3

LEMMA AdapterSides ==
  ASSUME IInv, RInv, SidesKept, Adapter
  PROVE  SidesKept'
<1>1. AdapterNext /\ UNCHANGED <<order_bitmap, orders>>
  BY DEF Adapter, omsVars, tableVars
<1>2. \A id, type : SideOf(id, type)' <=> SideOf(id, type)
  BY <1>1 DEF SideOf
<1>3. CASE WorkerPop
  <2>1. /\ submission_queue \in Seq(Submission) /\ submission_queue # << >>
        /\ submission_queue' = Tail(submission_queue) /\ venue' = venue
        /\ worker'.sub = Head(submission_queue)
    BY <1>3 DEF WorkerPop, IInv, OmsTypeOK, RoadOK
  <2>2. /\ Len(submission_queue) \in Nat \ {0} /\ Head(submission_queue) = submission_queue[1]
        /\ Len(submission_queue') = Len(submission_queue) - 1
        /\ \A i \in 1 .. Len(submission_queue') : submission_queue'[i] = submission_queue[i + 1]
    BY <2>1
  <2>3. SideOf(worker'.sub.id, worker'.sub.type)
    BY <2>1, <2>2 DEF SidesKept
  <2>4. \A i \in 1 .. Len(submission_queue') :
          SideOf(submission_queue'[i].id, submission_queue'[i].type)
    BY <2>2 DEF SidesKept
  <2> QED BY <1>2, <2>1, <2>3, <2>4 DEF SidesKept
<1>4. CASE VenueAccepts
  <2>1. /\ submission_queue' = submission_queue /\ worker.stage = "call"
        /\ worker'.stage = "answer"
        /\ DOMAIN venue' = DOMAIN venue \cup {worker.sub.id}
        /\ \A id \in DOMAIN venue' :
             venue'[id].type = IF id = worker.sub.id THEN worker.sub.type ELSE venue[id].type
    BY <1>4 DEF VenueAccepts, IInv, OmsTypeOK, VenueOK
  <2>2. IsFiniteSet(DOMAIN venue')
    BY <2>1, FS_AddElement DEF SidesKept
  <2>3. \A id \in DOMAIN venue' : SideOf(id, venue'[id].type)
    BY <2>1 DEF SidesKept
  <2> QED BY <1>2, <2>1, <2>2, <2>3 DEF SidesKept
<1>5. CASE ~WorkerPop /\ ~VenueAccepts
  <2>1. /\ submission_queue' = submission_queue /\ DOMAIN venue' = DOMAIN venue
        /\ \A id \in DOMAIN venue : venue'[id].type = venue[id].type
    <3>1. CASE \E v \in DOMAIN venue : VenueTrades(v) \/ VenueEnds(v)
      BY <3>1, TradeMoves
    <3>2. CASE ~\E v \in DOMAIN venue : VenueTrades(v) \/ VenueEnds(v)
      BY <1>1, <1>5, <3>2 DEF AdapterNext, VenueRefuses, RestAnswer, RestAnswerLost, ShutdownState,
                              WsReceive, StreamBreaks, StreamConnects
    <3> QED BY <3>1, <3>2
  <2>2. worker'.stage = "call" => worker' = worker
    <3>1. Idle.stage # "call"
      BY DEF Idle
    <3>2. CASE \E v \in DOMAIN venue : VenueTrades(v) \/ VenueEnds(v)
      BY <3>2, TradeMoves
    <3>3. CASE ~\E v \in DOMAIN venue : VenueTrades(v) \/ VenueEnds(v)
      BY <1>1, <1>5, <3>1, <3>3 DEF AdapterNext, VenueRefuses, RestAnswer, RestAnswerLost,
           ShutdownState, WsReceive, StreamBreaks, StreamConnects
    <3> QED BY <3>2, <3>3
  <2> QED BY <1>2, <2>1, <2>2 DEF SidesKept
<1> QED BY <1>3, <1>4, <1>5

(* The orders on the road and at the venue are older than the next one.     *)
LEMMA RoadOlder ==
  ASSUME IInv, RInv
  PROVE  /\ \A i \in 1 .. Len(submission_queue) : submission_queue[i].id.n # next_order_id
         /\ worker.stage = "call" => worker.sub.id.n # next_order_id
         /\ \A id \in DOMAIN venue : id.n # next_order_id
<1>1. next_order_id \in Nat
  BY DEF IInv, OmsTypeOK, TableOK
<1>2. ASSUME NEW i \in 1 .. Len(submission_queue) PROVE submission_queue[i].id.n # next_order_id
  <2>1. /\ submission_queue[i].id.slot \in order_bitmap
        /\ orders[submission_queue[i].id.slot].id = submission_queue[i].id
    BY DEF RInv, TableOwes, Owes, Carries
  <2>2. submission_queue[i].id.n < next_order_id
    BY <2>1 DEF IInv, TableConsistent
  <2>3. submission_queue[i].id.n \in Nat
    BY <2>1, TableNodes DEF OrderId
  <2> QED BY <1>1, <2>2, <2>3
<1>3. worker.stage = "call" => worker.sub.id.n # next_order_id
  <2>1. worker.stage = "call" => worker.sub.id.n < next_order_id /\ worker.sub.id.n \in Nat
    BY DEF RInv, WorkSent, Sent, IInv, OmsTypeOK, VenueOK, Submission, OrderId
  <2> QED BY <1>1, <2>1
<1>4. \A id \in DOMAIN venue : id.n # next_order_id
  BY <1>1 DEF RInv, WorkSent, Sent, IInv, OmsTypeOK, VenueOK, OrderId
<1> QED BY <1>2, <1>3, <1>4

(* A table whose orders are old ones on their old sides, or the new one.    *)
LEMMA TableSides ==
  ASSUME IInv, RInv, SidesKept, UNCHANGED <<worker, venue>>,
         \A k \in order_bitmap' :
           \/ /\ k \in order_bitmap /\ orders'[k].id = orders[k].id
              /\ orders'[k].type = orders[k].type
           \/ orders'[k].id.n = next_order_id
  PROVE  /\ \A id, type : id.n # next_order_id /\ SideOf(id, type) =>
              \A k \in order_bitmap' : orders'[k].id = id => orders'[k].type = type
         /\ submission_queue' = submission_queue => SidesKept'
<1>1. ASSUME NEW id, NEW type, id.n # next_order_id, SideOf(id, type)
      PROVE  \A k \in order_bitmap' : orders'[k].id = id => orders'[k].type = type
  BY <1>1 DEF SideOf
<1>2. ASSUME submission_queue' = submission_queue PROVE SidesKept'
  <2>1. ASSUME NEW i \in 1 .. Len(submission_queue)
        PROVE  \A k \in order_bitmap' : orders'[k].id = submission_queue[i].id
                                          => orders'[k].type = submission_queue[i].type
    BY <1>1, RoadOlder DEF SidesKept
  <2>2. worker.stage = "call" => \A k \in order_bitmap' : orders'[k].id = worker.sub.id
                                                           => orders'[k].type = worker.sub.type
    BY <1>1, RoadOlder DEF SidesKept
  <2>3. ASSUME NEW id \in DOMAIN venue
        PROVE  \A k \in order_bitmap' : orders'[k].id = id => orders'[k].type = venue[id].type
    BY <1>1, RoadOlder DEF SidesKept
  <2> QED BY <1>2, <2>1, <2>2, <2>3 DEF SidesKept, SideOf
<1> QED BY <1>1, <1>2

LEMMA SubmitSides ==
  ASSUME IInv, RInv, WInv, SidesKept, UNCHANGED <<worker, venue>>,
         NEW s \in Slots, NEW cmd \in SubmitCommands, NEW bm \in SUBSET order_bitmap,
         NEW ords \in [OrderSlots -> Order],
         \A k \in bm : ords[k].id = orders[k].id /\ ords[k].type = orders[k].type,
         Submit(s, cmd, bm, ords)
  PROVE  SidesKept'
<1> DEFINE free == OrderSlots \ bm
           j    == Min(free)
           o    == NewOrder(s, cmd, j)
<1>1. /\ RoadOK /\ next_order_id \in Nat /\ RingsRouted /\ bm \in SUBSET OrderSlots
      /\ submission_queue \in Seq(Submission)
  BY DEF IInv, OmsTypeOK, TableOK, WInv, RoadOK
<1>2. \A k \in order_bitmap' : (k \in bm /\ orders'[k] = ords[k]) \/ orders'[k].id.n = next_order_id
  BY <1>1, SubmitBooks
<1>3. /\ \A id, type : id.n # next_order_id /\ SideOf(id, type) =>
           \A k \in order_bitmap' : orders'[k].id = id => orders'[k].type = type
      /\ submission_queue' = submission_queue => SidesKept'
  <2>1. \A k \in order_bitmap' :
          \/ /\ k \in order_bitmap /\ orders'[k].id = orders[k].id
             /\ orders'[k].type = orders[k].type
          \/ orders'[k].id.n = next_order_id
    BY <1>2
  <2> QED BY <2>1, TableSides
<1>4. CASE submission_queue' # submission_queue
  <2>1. /\ free # {} /\ order_bitmap' = bm \cup {j} /\ orders' = [ords EXCEPT ![j] = o]
        /\ Enqueue(o.id, o.type, o.requested)
    BY <1>4 DEF Submit
  <2>2. j \in OrderSlots /\ j \notin bm
    <3>1. free \in SUBSET Nat
      BY OmsAssumption
    <3> QED BY <2>1, <3>1, MinIsMember
  <2>3. o.id.n = next_order_id
    BY DEF NewOrder
  <2>4. \A k \in order_bitmap' : orders'[k].id = o.id => orders'[k].type = o.type
    <3> SUFFICES ASSUME NEW k \in order_bitmap', orders'[k].id = o.id PROVE orders'[k].type = o.type
      OBVIOUS
    <3>1. CASE k = j
      <4> HIDE DEF o, j
      <4> QED BY <2>1, <2>2, <3>1
    <3>2. CASE k # j
      <4>1. k \in bm /\ orders'[k] = ords[k]
        <5> HIDE DEF o, j
        <5> QED BY <2>1, <3>2
      <4>2. k \in order_bitmap /\ orders[k].id = o.id
        BY <4>1
      <4>3. orders[k].id.n < next_order_id
        BY <4>2 DEF IInv, TableConsistent
      <4> HIDE DEF o
      <4> QED BY <1>1, <2>3, <4>2, <4>3
    <3> QED BY <3>1, <3>2
  <2> DEFINE x == [id |-> o.id, type |-> o.type, qty |-> o.requested]
  <2>5. submission_queue' = Append(submission_queue, x) /\ x.id = o.id /\ x.type = o.type
    BY <2>1 DEF Enqueue
  <2> HIDE DEF o, j, x
  <2>6. ASSUME NEW i \in 1 .. Len(submission_queue')
        PROVE  \A k \in order_bitmap' : orders'[k].id = submission_queue'[i].id
                                          => orders'[k].type = submission_queue'[i].type
    <3>1. CASE i \in 1 .. Len(submission_queue)
      <4>1. submission_queue'[i] = submission_queue[i]
        BY <1>1, <2>5, <3>1
      <4>2. /\ SideOf(submission_queue[i].id, submission_queue[i].type)
            /\ submission_queue[i].id.n # next_order_id
        BY <3>1, RoadOlder DEF SidesKept
      <4> QED BY <1>3, <4>1, <4>2
    <3>2. CASE i \notin 1 .. Len(submission_queue)
      <4>1. submission_queue'[i] = x
        BY <1>1, <2>5, <3>2
      <4> QED BY <2>4, <2>5, <4>1
    <3> QED BY <3>1, <3>2
  <2>7. worker.stage = "call" => \A k \in order_bitmap' : orders'[k].id = worker.sub.id
                                                           => orders'[k].type = worker.sub.type
    BY <1>3, RoadOlder DEF SidesKept
  <2>8. ASSUME NEW id \in DOMAIN venue
        PROVE  \A k \in order_bitmap' : orders'[k].id = id => orders'[k].type = venue[id].type
    BY <1>3, RoadOlder DEF SidesKept
  <2> QED BY <2>6, <2>7, <2>8 DEF SidesKept, SideOf
<1> QED BY <1>3, <1>4

LEMMA ProcessSides ==
  ASSUME IInv, RInv, WInv, SidesKept, UNCHANGED <<worker, venue>>, NEW cmd \in Command,
         ProcessFillCommand(cmd)
  PROVE  SidesKept'
<1> DEFINE k == cmd.id.slot
           o == orders[k]
<1>1. /\ order_bitmap \in SUBSET OrderSlots /\ orders \in [OrderSlots -> Order]
      /\ cmd.qty \in Nat /\ PositionsOK
  BY DEF IInv, OmsTypeOK, TableOK, Command
<1>2. Known(cmd) => k \in order_bitmap /\ k \in OrderSlots /\ o \in Order
  BY <1>1 DEF Known
<1>3. CASE ~EndedShort(cmd)
  <2>1. submission_queue' = submission_queue /\ order_bitmap' \subseteq order_bitmap
    BY <1>3 DEF ProcessFillCommand, Ignored, Acknowledged, Failed, Booked, tableVars
  <2>2. \/ orders' = orders
        \/ Known(cmd) /\ \E state : orders' = [orders EXCEPT ![k].state = state]
        \/ Known(cmd) /\ \E state : orders' = [orders EXCEPT ![k].filled = @ + cmd.qty,
                                                           ![k].state = state]
    <3>1. CASE Ignored(cmd)
      BY <3>1 DEF Ignored, tableVars
    <3>2. CASE Acknowledged(cmd)
      BY <3>2 DEF Acknowledged
    <3>3. CASE Failed(cmd)
      BY <3>3 DEF Failed
    <3>4. CASE Booked(cmd)
      BY <3>4 DEF Booked, Leg
    <3> QED BY <1>3, <3>1, <3>2, <3>3, <3>4 DEF ProcessFillCommand
  <2>3. ASSUME NEW i \in order_bitmap
        PROVE  orders'[i].id = orders[i].id /\ orders'[i].type = orders[i].type
    <3>1. orders[i] \in Order /\ i \in OrderSlots
      BY <1>1
    <3>2. CASE orders' = orders \/ i # k
      BY <1>1, <2>2, <3>1, <3>2
    <3>3. CASE i = k /\ \E state : orders' = [orders EXCEPT ![k].state = state]
      BY <1>1, <3>1, <3>3 DEF Order
    <3>4. CASE i = k /\ \E state : orders' = [orders EXCEPT ![k].filled = @ + cmd.qty,
                                                           ![k].state = state]
      <4>1. PICK state : orders' = [orders EXCEPT ![k].filled = @ + cmd.qty, ![k].state = state]
        BY <3>4
      <4> QED BY <1>1, <3>1, <3>4, <4>1 DEF Order
    <3> QED BY <2>2, <3>2, <3>3, <3>4
  <2> QED BY <2>1, <2>3, TableSides
<1>4. CASE EndedShort(cmd)
  <2> DEFINE new  == [[o EXCEPT !.filled = o.filled + cmd.qty] EXCEPT !.state = "CANCELED"]
             bm   == order_bitmap \ {k}
             ords == [orders EXCEPT ![k] = new]
             over == [ords EXCEPT ![0].pre_resolved = o.pre_resolved]
             rest == SubmitCommand("SELL", AfterFill(o, cmd.qty), o.pre_resolved)
  <2>1. Known(cmd) /\ k \in order_bitmap /\ k \in OrderSlots /\ o \in Order
    BY <1>2, <1>4 DEF EndedShort, Leg
  <2>2. [orders EXCEPT ![k].filled = @ + cmd.qty, ![k].state = "CANCELED"] = ords
    BY <1>1, <2>1
  <2>3. new \in Order
    BY <1>1, <2>1, OrderMoves DEF Terminal
  <2>4. ords \in [OrderSlots -> Order] /\ \A j \in bm : ords[j] = orders[j]
    BY <1>1, <2>1, <2>3, OrdersUpdated
  <2>5. o.pslot \in Slots /\ o.pre_resolved \in Int
    BY <2>1 DEF Order
  <2>6. over \in [OrderSlots -> Order]
        /\ \A j \in bm : over[j].id = ords[j].id /\ over[j].type = ords[j].type
    <3>1. bm \subseteq OrderSlots
      BY <1>1
    <3> HIDE DEF ords, bm, o
    <3> QED BY <2>4, <2>5, <3>1, Rebound
  <2>7. rest \in SubmitCommands
    BY <1>1, <2>1, <2>5, AfterFillTyped DEF SubmitCommand, SubmitCommands, Side
  <2>8. \/ Submit(o.pslot, rest, bm, ords)
        \/ Submit(o.pslot, rest, bm, over)
        \/ order_bitmap' = bm /\ orders' = ords /\ submission_queue' = submission_queue
    BY <1>4, <2>2 DEF EndedShort, Freed, BoundFrom
  <2>9. bm \in SUBSET order_bitmap
    OBVIOUS
  <2> HIDE DEF ords, over, rest, bm, new
  <2>10. ASSUME NEW t \in [OrderSlots -> Order],
                \A j \in bm : t[j].id = orders[j].id /\ t[j].type = orders[j].type,
                Submit(o.pslot, rest, bm, t)
         PROVE  SidesKept'
    <3> HIDE DEF o
    <3> QED BY <2>5, <2>7, <2>9, <2>10, SubmitSides
  <2>11. CASE order_bitmap' = bm /\ orders' = ords /\ submission_queue' = submission_queue
    BY <2>4, <2>9, <2>11, TableSides
  <2> QED BY <2>4, <2>6, <2>8, <2>10, <2>11
<1> QED BY <1>3, <1>4

LEMMA NextSides ==
  ASSUME IInv, RInv, WInv, SidesKept, [Next]_vars
  PROVE  SidesKept'
<1>1. CASE Adapter
  BY <1>1, AdapterSides
<1>2. CASE \E s \in Slots : SubmitOne(s)
  <2>1. PICK s \in Slots : SubmitOne(s)
    BY <1>2
  <2>2. /\ Submit(s, Head(submit_queues[s]), order_bitmap, orders) /\ UNCHANGED <<worker, venue>>
        /\ submit_queues[s] # << >>
    BY <2>1 DEF SubmitOne
  <2>3. Head(submit_queues[s]) \in SubmitCommands /\ orders \in [OrderSlots -> Order]
    BY <2>2, HeadTyped DEF IInv, OmsTypeOK, QueuesOK, TableOK
  <2> QED BY <2>2, <2>3, SubmitSides
<1>3. CASE ProcessClose
  <2>1. Head(close_bucket) \in Command
    BY <1>3, HeadTyped DEF ProcessClose, IInv, OmsTypeOK, QueuesOK
  <2> QED BY <1>3, <2>1, ProcessSides DEF ProcessClose
<1>4. CASE ProcessOpen
  <2>1. Head(open_bucket) \in Command
    BY <1>4, HeadTyped DEF ProcessOpen, IInv, OmsTypeOK, QueuesOK
  <2> QED BY <1>4, <2>1, ProcessSides DEF ProcessOpen
<1>5. CASE UNCHANGED <<submission_queue, worker, venue, order_bitmap, orders>>
  BY <1>5, SidesStay
<1>6. \/ Adapter \/ (\E s \in Slots : SubmitOne(s)) \/ ProcessClose \/ ProcessOpen
      \/ UNCHANGED <<submission_queue, worker, venue, order_bitmap, orders>>
  <2>1. CASE Producers \/ PumpDone \/ PassDone \/ UNCHANGED vars \/ \E s \in Slots : SubmitNext(s)
    BY <2>1 DEF Producers, PumpDone, PassDone, vars, omsVars, SubmitNext, EntryRequest, ExitRequest,
                Request, adapterVars, tableVars
  <2>2. CASE DrainResult \/ DrainWs
    BY <2>2 DEF DrainResult, DrainWs, tableVars
  <2> QED BY <2>1, <2>2 DEF Next, BookPass
<1> QED BY <1>1, <1>2, <1>3, <1>4, <1>5, <1>6

-----------------------------------------------------------------------------
(* The account.                                                             *)
LEMMA GotStays ==
  ASSUME NEW id \in DOMAIN venue, venue'[id].executed = venue[id].executed \/ InTable(id),
         InTable(id)' <=> InTable(id),
         InTable(id) => orders'[id.slot].filled = orders[id.slot].filled
  PROVE  Got(id)' = Got(id)
BY DEF Got

HeldFacts == PositionsOK => \A n \in Nodes : Held(n) \in Nat

LEMMA HeldNow == HeldFacts
BY HeldTyped DEF HeldFacts

LEMMA HeldNext == HeldFacts'
BY HeldNow, PTL

(* An order the venue takes has executed nothing.                           *)
LEMMA AcceptGains ==
  ASSUME IInv, IInv', RInv, RInv', WInv, LInv, LInv', SidesKept, GainsHeld, VenueAccepts,
         UNCHANGED <<order_bitmap, orders, positions>>
  PROVE  GainsHeld'
<1>0. PICK w : w = worker.sub.id
  OBVIOUS
<1>1. /\ worker.stage = "call"
      /\ venue' = [id \in DOMAIN venue \cup {w} |->
                     IF id = w THEN [type |-> worker.sub.type, qty |-> worker.sub.qty,
                                     executed |-> 0, status |-> "open"]
                               ELSE venue[id]]
  BY <1>0 DEF VenueAccepts
<1>2. w \notin DOMAIN venue
  BY <1>0, <1>1 DEF WInv, WorkerFresh
<1>3. /\ DOMAIN venue' = DOMAIN venue \cup {w} /\ venue'[w].executed = 0
      /\ \A id \in DOMAIN venue : venue'[id] = venue[id]
  BY <1>1, <1>2
<1>4. \A id : InTable(id)' <=> InTable(id)
  BY DEF InTable
<1>5. \A id \in DOMAIN venue : Got(id)' = Got(id)
  BY <1>3, <1>4, GotStays
<1>6. \A id \in DOMAIN venue' : Got(id)' \in Nat
  BY GotNext DEF GotFacts
<1>7. Got(w)' = 0
  <2>1. /\ Got(w)' \in Nat /\ ToCome(w)' \in Nat
        /\ venue'[w].executed - ToCome(w)' = Got(w)'
    BY <1>3, GotNext DEF GotFacts
  <2> QED BY <1>3, <2>1
<1> SUFFICES ASSUME NEW n \in Nodes PROVE SumOver(Gained(n)') <= Held(n)'
  BY DEF GainsHeld
<1>8. Held(n)' = Held(n) /\ SumOver(Gained(n)) <= Held(n)
  BY DEF Held, GainsHeld
<1>9. Gained(n)' = [id \in OrdersOf(n)' |-> Signed(id, Got(id))']
  BY DEF Gained
<1>10. \A id \in OrdersOf(n)' : Signed(id, Got(id))' \in Int
  BY <1>6 DEF OrdersOf, Signed
<1>11. \A id \in OrdersOf(n) : Signed(id, Got(id))' = Signed(id, Got(id))
  BY <1>3, <1>5 DEF OrdersOf, Signed
<1>12. CASE w.node = n
  <2>1. OrdersOf(n)' = OrdersOf(n) \cup {w} /\ w \notin OrdersOf(n)
    BY <1>2, <1>3, <1>12 DEF OrdersOf
  <2>2. Gained(n)' \in [OrdersOf(n) \cup {w} -> Int]
    BY <1>9, <1>10, <2>1
  <2>3. \A id \in OrdersOf(n) : Gained(n)'[id] = Gained(n)[id]
    BY <1>9, <1>11, <2>1 DEF Gained
  <2>4. Gained(n)'[w] = 0
    <3>1. Signed(w, Got(w))' = 0
      <4>1. PICK g \in Int : g = Got(w)'
        BY <1>7
      <4>2. Signed(w, Got(w))' = g \/ Signed(w, Got(w))' = -g
        BY <4>1 DEF Signed
      <4> QED BY <1>7, <4>1, <4>2
    <3> QED BY <1>9, <2>1, <3>1
  <2>5. SumOver(Gained(n)') = SumOver(Gained(n)) + Gained(n)'[w]
    BY <2>1, <2>2, <2>3, GainedTyped, OrdersOfFinite, SumOverGrown
  <2>6. SumOver(Gained(n)) \in Int
    BY GainedTyped, OrdersOfFinite, SumOverType
  <2> QED BY <1>8, <2>4, <2>5, <2>6
<1>13. CASE w.node # n
  <2>1. OrdersOf(n)' = OrdersOf(n)
    BY <1>3, <1>13 DEF OrdersOf
  <2>2. Gained(n)' = Gained(n)
    BY <1>9, <1>11, <2>1 DEF Gained
  <2> QED BY <1>8, <2>2
<1> QED BY <1>12, <1>13

LEMMA AdapterGains ==
  ASSUME IInv, IInv', RInv, RInv', WInv, LInv, LInv', SidesKept, GainsHeld, Adapter
  PROVE  GainsHeld'
<1>1. AdapterNext /\ UNCHANGED <<order_bitmap, orders, positions>>
  BY DEF Adapter, omsVars, tableVars
<1>2. \A id : InTable(id)' <=> InTable(id)
  BY <1>1 DEF InTable
<1>3. CASE VenueAccepts
  BY <1>1, <1>3, AcceptGains
<1>4. CASE \E v \in DOMAIN venue : VenueTrades(v) \/ VenueEnds(v)
  <2>1. PICK v \in DOMAIN venue : VenueTrades(v) \/ VenueEnds(v)
    BY <1>4
  <2>2. /\ DOMAIN venue' = DOMAIN venue /\ venue'[v].type = venue[v].type
        /\ \A id \in DOMAIN venue : id # v => venue'[id] = venue[id]
        /\ venue[v].status = "open"
    BY <2>1, TradeMoves
  <2>3. InTable(v)
    BY <2>2 DEF LInv, NoLegLost
  <2>4. \A id \in DOMAIN venue : Got(id)' = Got(id)
    BY <1>1, <1>2, <2>2, <2>3, GotStays
  <2> QED BY <1>1, <2>2, <2>4, GainsStay
<1>5. CASE ~VenueAccepts /\ ~\E v \in DOMAIN venue : VenueTrades(v) \/ VenueEnds(v)
  <2>1. venue' = venue
    BY <1>1, <1>5 DEF AdapterNext, WorkerPop, VenueRefuses, RestAnswer, RestAnswerLost,
                      ShutdownState, WsReceive, StreamBreaks, StreamConnects
  <2>2. \A id \in DOMAIN venue : Got(id)' = Got(id)
    BY <1>1, <1>2, <2>1, GotStays
  <2> QED BY <1>1, <2>1, <2>2, GainsStay
<1> QED BY <1>3, <1>4, <1>5

LEMMA SubmitOneGains ==
  ASSUME IInv, RInv, WInv, LInv, GainsHeld, NEW s \in Slots, SubmitOne(s)
  PROVE  GainsHeld'
<1> DEFINE cmd == Head(submit_queues[s])
<1>1. /\ submit_queues[s] # << >> /\ Submit(s, cmd, order_bitmap, orders)
      /\ UNCHANGED <<venue, positions>>
  BY DEF SubmitOne
<1>2. cmd \in SubmitCommands
  BY <1>1, HeadTyped DEF IInv, OmsTypeOK, QueuesOK
<1>3. /\ order_bitmap \in SUBSET OrderSlots /\ orders \in [OrderSlots -> Order]
      /\ next_order_id \in Nat
  BY DEF IInv, OmsTypeOK, TableOK
<1> HIDE DEF cmd
<1>4. \A k \in order_bitmap' : k \in order_bitmap \/ orders'[k].id.n = next_order_id
  BY <1>1, <1>3, SubmitNames
<1>5. \A k \in order_bitmap : k \in order_bitmap' /\ orders'[k] = orders[k]
  BY <1>1, <1>3, SubmitSpares
<1>6. \A id \in DOMAIN venue : Got(id)' = Got(id)
  <2> SUFFICES ASSUME NEW id \in DOMAIN venue PROVE Got(id)' = Got(id)
    OBVIOUS
  <2>1. id.n # next_order_id
    BY RoadOlder
  <2>2. InTable(id)' <=> InTable(id)
    BY <1>4, <1>5, <2>1 DEF InTable
  <2>3. InTable(id) => orders'[id.slot].filled = orders[id.slot].filled
    BY <1>5, TableSlot
  <2> QED BY <1>1, <2>2, <2>3, GotStays
<1> QED BY <1>1, <1>6, GainsStay

(* What a fill does to the position of its slot.                            *)
LEMMA FillGains ==
  ASSUME PositionsOK, NEW o \in Order, NEW q \in Nat
  PROVE  AfterFill(o, q) - positions[o.pslot] >= (IF o.type = "BUY" THEN q ELSE -q)
<1> DEFINE p == positions[o.pslot]
<1>1. p \in Nat
  BY DEF Order, PositionsOK
<1>2. Min({q, p}) \in Nat /\ Min({q, p}) <= q
  <2>1. Min({p, q}) \in Nat /\ Min({p, q}) <= q
    BY <1>1, MinOfTwo
  <2>2. {p, q} = {q, p}
    OBVIOUS
  <2> QED BY <2>1, <2>2
<1> HIDE DEF p
<1>3. CASE o.type = "BUY"
  BY <1>1, <1>3 DEF AfterFill, p
<1>4. CASE o.type # "BUY"
  <2>1. AfterFill(o, q) = p - Min({q, p})
    BY <1>4 DEF AfterFill, p
  <2>2. AfterFill(o, q) - p >= -q
    BY <1>1, <1>2, <2>1
  <2> QED BY <1>4, <2>2 DEF p
<1> QED BY <1>3, <1>4


(* A leg the books take moves the account of its node and the position of   *)
(* its slot.                                                                *)
LEMMA LegGains ==
  ASSUME IInv, IInv', RInv, RInv', LInv, LInv', SidesKept, GainsHeld, venue' = venue,
         NEW o \in Order, NEW q \in Nat, HandleFill(o, q),
         o.id \in DOMAIN venue, o.type = venue[o.id].type, o.id.node = NodeOf(o.pslot),
         \A id \in DOMAIN venue : Got(id)' = Got(id) + (IF id = o.id THEN q ELSE 0)
  PROVE  GainsHeld'
<1> DEFINE p == o.pslot
           x == o.id
           D(n) == {s \in Slots : NodeOf(s) = n}
<1>1. PositionsOK /\ PositionsOK' /\ p \in Slots
  BY DEF IInv, OmsTypeOK, Order
<1>2. /\ positions \in [Slots -> Nat] /\ positions' \in [Slots -> Nat]
      /\ positions' = [positions EXCEPT ![p] = AfterFill(o, q)]
  BY <1>1 DEF PositionsOK, HandleFill
<1>3. positions'[p] - positions[p] >= Signed(x, q)
  <2>1. AfterFill(o, q) - positions[p] >= (IF o.type = "BUY" THEN q ELSE -q)
    BY <1>1, FillGains
  <2> QED BY <1>2, <1>1, <2>1 DEF Signed
<1>4. \A id \in DOMAIN venue : Got(id) \in Nat
  BY GotNow DEF GotFacts
<1> SUFFICES ASSUME NEW n \in Nodes PROVE SumOver(Gained(n)') <= Held(n)'
  BY DEF GainsHeld
<1>5. SumOver(Gained(n)) <= Held(n)
  BY DEF GainsHeld
<1> DEFINE g == Gained(n)
           h == Gained(n)'
           u == [s \in D(n) |-> positions[s]]
           v == [s \in D(n) |-> positions'[s]]
<1>6. /\ g \in [OrdersOf(n) -> Int] /\ IsFiniteSet(OrdersOf(n))
      /\ SumOver(g) \in Int
  BY GainedTyped, OrdersOfFinite, SumOverType
<1>7. h = [id \in OrdersOf(n) |-> Signed(id, Got(id) + (IF id = x THEN q ELSE 0))]
  <2>1. OrdersOf(n)' = OrdersOf(n)
    BY DEF OrdersOf
  <2>2. \A id \in OrdersOf(n) :
          Signed(id, Got(id))' = Signed(id, Got(id) + (IF id = x THEN q ELSE 0))
    BY DEF OrdersOf, Signed
  <2> QED BY <2>1, <2>2 DEF Gained
<1>8. h \in [OrdersOf(n) -> Int]
  <2>1. \A id \in OrdersOf(n) : Signed(id, Got(id) + (IF id = x THEN q ELSE 0)) \in Int
    BY <1>4, SignedTyped DEF OrdersOf
  <2> QED BY <1>7, <2>1
<1>9. /\ u \in [D(n) -> Int] /\ v \in [D(n) -> Int] /\ IsFiniteSet(D(n))
      /\ Held(n) = SumOver(u) /\ Held(n)' = SumOver(v) /\ SumOver(u) \in Int
  <2>1. u \in [D(n) -> Int] /\ v \in [D(n) -> Int] /\ IsFiniteSet(D(n))
    BY <1>2, SlotsOfFinite
  <2>2. Held(n) = SumOver(u) /\ Held(n)' = SumOver(v)
    BY <1>2 DEF Held
  <2> HIDE DEF u, v, D
  <2> QED BY <2>1, <2>2, SumOverType
<1>10. CASE NodeOf(p) = n
  <2>1. x \in OrdersOf(n) /\ p \in D(n)
    BY <1>1, <1>10 DEF OrdersOf
  <2>2. \A id \in OrdersOf(n) : id # x => h[id] = g[id]
    BY <1>4, <1>7 DEF OrdersOf, Gained
  <2>3. h[x] - g[x] = Signed(x, q)
    <3>1. h[x] = Signed(x, Got(x) + q) /\ g[x] = Signed(x, Got(x)) /\ Got(x) \in Nat
      BY <1>4, <1>7, <2>1 DEF OrdersOf, Gained
    <3> QED BY <3>1 DEF Signed
  <2>4. \A s \in D(n) : s # p => v[s] = u[s]
    BY <1>2
  <2>5. v[p] - u[p] >= Signed(x, q)
    BY <1>3, <2>1
  <2> HIDE DEF g, h, u, v, D, x, p
  <2>6. SumOver(h) = SumOver(g) + (h[x] - g[x])
    BY <1>6, <1>8, <2>1, <2>2, SumOverChanged
  <2>7. SumOver(v) = SumOver(u) + (v[p] - u[p])
    BY <1>9, <2>1, <2>4, SumOverChanged
  <2>8. v[p] \in Int /\ u[p] \in Int /\ h[x] \in Int /\ g[x] \in Int
    BY <1>6, <1>8, <1>9, <2>1
  <2>9. SumOver(g) <= SumOver(u)
    BY <1>5, <1>9 DEF g
  <2>10. SumOver(h) <= SumOver(v)
    BY <1>6, <1>9, <2>3, <2>5, <2>6, <2>7, <2>8, <2>9
  <2> QED BY <1>9, <2>10 DEF h
<1>11. CASE NodeOf(p) # n
  <2>1. h = g
    <3>1. \A id \in OrdersOf(n) : id # x
      BY <1>11 DEF OrdersOf
    <3>2. \A id \in OrdersOf(n) : Got(id) + (IF id = x THEN q ELSE 0) = Got(id)
      BY <1>4, <3>1 DEF OrdersOf
    <3> QED BY <1>7, <3>2 DEF Gained
  <2>2. v = u
    BY <1>2, <1>11
  <2> HIDE DEF u, v, D
  <2> QED BY <1>5, <1>9, <2>1, <2>2
<1> QED BY <1>10, <1>11


LEMMA BookGains ==
  ASSUME IInv, IInv', RInv, RInv', WInv, LInv, LInv', SidesKept, GainsHeld,
         ProcessClose \/ ProcessOpen
  PROVE  GainsHeld'
<1>1. PICK cmd \in Command :
        /\ ProcessFillCommand(cmd) /\ (Live => cmd \in HonestNow)
        /\ \/ /\ close_bucket # << >> /\ cmd = Head(close_bucket)
              /\ close_bucket' = Tail(close_bucket) /\ open_bucket' = open_bucket
           \/ /\ open_bucket # << >> /\ cmd = Head(open_bucket)
              /\ open_bucket' = Tail(open_bucket) /\ close_bucket' = close_bucket
  <2>1. /\ close_bucket \in Seq(Command) /\ open_bucket \in Seq(Command)
        /\ Live => close_bucket \in Seq(HonestNow) /\ open_bucket \in Seq(HonestNow)
    BY DEF IInv, OmsTypeOK, QueuesOK, LInv, RoadHonest
  <2>2. CASE ProcessClose
    <3>1. Head(close_bucket) \in Command /\ (Live => Head(close_bucket) \in HonestNow)
      BY <2>1, <2>2, HeadTyped DEF ProcessClose
    <3> QED BY <2>2, <3>1 DEF ProcessClose
  <2>3. CASE ProcessOpen
    <3>1. Head(open_bucket) \in Command /\ (Live => Head(open_bucket) \in HonestNow)
      BY <2>1, <2>3, HeadTyped DEF ProcessOpen
    <3> QED BY <2>3, <3>1 DEF ProcessOpen
  <2> QED BY <2>2, <2>3
<1>2. UNCHANGED <<mode, venue, worker, wire, ws_result_queue>>
  BY DEF ProcessClose, ProcessOpen, stream
<1>3. Live => result_rings' = result_rings
  BY <1>1, ProcessBooks DEF WInv
<1>4. cmd.qty \in Nat /\ PositionsOK /\ PositionsOK'
  BY DEF Command, IInv, OmsTypeOK
<1>5. CASE DOMAIN venue = {}
  <2> SUFFICES ASSUME NEW n \in Nodes PROVE SumOver(Gained(n)') <= Held(n)'
    BY DEF GainsHeld
  <2>1. Gained(n)' \in [{} -> Int]
    BY <1>2, <1>5 DEF Gained, OrdersOf
  <2>2. SumOver(Gained(n)') = 0
    BY <2>1, SumOverEmpty
  <2>3. Held(n)' \in Nat
    BY <1>4, HeldNext DEF HeldFacts
  <2> QED BY <2>2, <2>3
<1>6. CASE DOMAIN venue # {}
  <2>1. Live
    BY <1>6 DEF LInv, VenueWaits
  <2>2. cmd \in HonestNow /\ result_rings' = result_rings
    BY <1>1, <1>3, <2>1
  <2>3. ASSUME NEW id \in DOMAIN venue
        PROVE  /\ Undelivered(id)' + Own(cmd, id) = Undelivered(id)
               /\ Undelivered(id) \in Nat /\ Undelivered(id)' \in Nat
               /\ Own(cmd, id) \in Nat
               /\ Got(id)' = Got(id) + Own(cmd, id) /\ Got(id) \in Nat
    <3>1. id \in OrderId /\ id.node \in Nodes
      BY VenueTyped
    <3>2. Undelivered(id)' + Own(cmd, id) = Undelivered(id)
      BY <1>1, <1>2, <2>2, <3>1, BookTakes
    <3>3. Undelivered(id) \in Nat /\ Undelivered(id)' \in Nat
      BY <3>1, ToldTyped, NextTyped
    <3>4. Own(cmd, id) \in Nat
      BY <1>4 DEF Own
    <3>5. Answering(id)' <=> Answering(id)
      BY <1>2 DEF Answering, WsActive
    <3>6. Answering(id) => Own(cmd, id) = 0
      BY <2>2 DEF Answering, WsActive, HonestNow, Honest, Own
    <3>7. Got(id)' = Got(id) + Own(cmd, id)
      BY <1>2, <3>2, <3>4, <3>5, <3>6, GotMoves
    <3> QED BY <3>2, <3>3, <3>4, <3>7, GotNow DEF GotFacts
  <2>4. CASE Leg(cmd)
    <3> DEFINE o == orders[cmd.id.slot]
    <3>1. /\ cmd.id.slot \in order_bitmap /\ o.id = cmd.id /\ cmd.success
      BY <2>4 DEF Leg, Known
    <3>2. o \in Order /\ o.id.node = NodeOf(o.pslot)
      BY <3>1 DEF IInv, OmsTypeOK, TableOK, TableConsistent
    <3>3. o.id \in DOMAIN venue
      BY <2>2, <3>1 DEF HonestNow, Honest
    <3>4. o.type = venue[o.id].type
      BY <3>1, <3>3 DEF SidesKept, SideOf
    <3>5. HandleFill(o, cmd.qty)
      BY <1>1, <2>4 DEF ProcessFillCommand, Ignored, Acknowledged, Failed, Booked, EndedShort, Leg
    <3>6. \A id \in DOMAIN venue : Got(id)' = Got(id) + (IF id = o.id THEN cmd.qty ELSE 0)
      BY <2>3, <3>1 DEF Own
    <3> HIDE DEF o
    <3> QED BY <1>2, <1>4, <3>2, <3>3, <3>4, <3>5, <3>6, LegGains
  <2>5. CASE ~Leg(cmd)
    <3>1. positions' = positions
      BY <1>1, <2>5 DEF ProcessFillCommand, Ignored, Acknowledged, Failed, Booked, EndedShort
    <3>2. ASSUME NEW id \in DOMAIN venue PROVE Own(cmd, id) = 0
      <4>1. CASE cmd.id # id
        BY <4>1 DEF Own
      <4>2. CASE cmd.id = id /\ ~Known(cmd)
        <5>1. ~InTable(id)
          BY <4>2, TableSlot DEF Known
        <5>2. Undelivered(id) = 0
          BY <5>1 DEF LInv, NoLegLost
        <5> QED BY <2>3, <5>2
      <4>3. CASE cmd.id = id /\ Known(cmd)
        <5>1. cmd.success
          BY <2>2, <4>3 DEF HonestNow, Honest
        <5>2. ~Tripwire(cmd)
          <6>1. mode = "rest" \/ mode = "ws"
            BY <2>1 DEF RInv, QueueOrdered, Live
          <6>2. mode = "rest" => orders[cmd.id.slot].filled = 0
            BY <4>3 DEF RInv, TableOwes, Owes, Untouched, Known
          <6>3. mode = "rest" => ~Tripwire(cmd)
            BY <6>2 DEF Tripwire
          <6>4. mode = "ws" => ~Tripwire(cmd)
            BY <2>2 DEF HonestNow, Honest, Mute, Tripwire
          <6> QED BY <6>1, <6>3, <6>4
        <5>3. IsAck(cmd)
          BY <2>5, <4>3, <5>1, <5>2 DEF Leg
        <5> QED BY <4>3, <5>3 DEF IsAck, Own
      <4> QED BY <4>1, <4>2, <4>3
    <3>3. \A id \in DOMAIN venue : Got(id)' = Got(id)
      BY <2>3, <3>2
    <3> QED BY <1>2, <3>1, <3>3, GainsStay
  <2> QED BY <2>4, <2>5
<1> QED BY <1>5, <1>6

LEMMA NextGains ==
  ASSUME IInv, IInv', RInv, RInv', WInv, LInv, LInv', VInv, [Next]_vars
  PROVE  VInv'
<1>1. SidesKept'
  BY NextSides DEF VInv
<1>2. SidesKept /\ GainsHeld
  BY DEF VInv
<1> SUFFICES GainsHeld'
  BY <1>1 DEF VInv
<1>3. CASE Adapter
  BY <1>2, <1>3, AdapterGains
<1>4. CASE \E s \in Slots : SubmitOne(s)
  BY <1>2, <1>4, SubmitOneGains
<1>5. CASE ProcessClose \/ ProcessOpen
  BY <1>2, <1>5, BookGains
<1>6. CASE UNCHANGED <<venue, order_bitmap, orders, positions>>
  <2>1. \A id : InTable(id)' <=> InTable(id)
    BY <1>6 DEF InTable
  <2>2. \A id \in DOMAIN venue : Got(id)' = Got(id)
    BY <1>6, <2>1, GotStays
  <2> QED BY <1>2, <1>6, <2>2, GainsStay
<1>7. \/ Adapter \/ (\E s \in Slots : SubmitOne(s)) \/ ProcessClose \/ ProcessOpen
      \/ UNCHANGED <<venue, order_bitmap, orders, positions>>
  <2>1. CASE Producers \/ PumpDone \/ PassDone \/ UNCHANGED vars \/ \E s \in Slots : SubmitNext(s)
    BY <2>1 DEF Producers, PumpDone, PassDone, vars, omsVars, SubmitNext, EntryRequest, ExitRequest,
                Request, adapterVars, tableVars
  <2>2. CASE DrainResult \/ DrainWs
    BY <2>2 DEF DrainResult, DrainWs, tableVars
  <2> QED BY <2>1, <2>2 DEF Next, BookPass
<1> QED BY <1>3, <1>4, <1>5, <1>6, <1>7

LEMMA InitGains == Init => VInv
<1> SUFFICES ASSUME Init PROVE VInv
  OBVIOUS
<1>1. /\ DOMAIN venue = {} /\ worker.stage = "idle" /\ submission_queue = << >>
      /\ PositionsOK
  <2>1. DOMAIN venue = {}
    BY DEF Init, AdapterInit
  <2>2. worker.stage = "idle"
    BY DEF Init, AdapterInit, Idle
  <2> QED BY <2>1, <2>2, InitInv DEF Init, AdapterInit, IInv, OmsTypeOK
<1>2. SidesKept
  BY <1>1, FS_EmptySet DEF SidesKept
<1>3. GainsHeld
  <2> SUFFICES ASSUME NEW n \in Nodes PROVE SumOver(Gained(n)) <= Held(n)
    BY DEF GainsHeld
  <2>1. Gained(n) \in [{} -> Int]
    BY <1>1 DEF Gained, OrdersOf
  <2>2. SumOver(Gained(n)) = 0
    BY <2>1, SumOverEmpty
  <2>3. Held(n) \in Nat
    BY <1>1, HeldTyped
  <2> QED BY <2>2, <2>3
<1> QED BY <1>2, <1>3 DEF VInv

(* InventoryTracked: with any number of nodes and slots, in either live     *)
(* mode, and however many requests of however many closers overlap, what    *)
(* the venue executed for a node is in the positions of its slots but for   *)
(* what is on its way (OrderManager_HandleFill), as long as no REST answer  *)
(* is lost, the user-data stream stays up and none of the queues a fill     *)
(* passes is full.  A SELL may take more from the venue than its slot       *)
(* holds, never less.                                                       *)
THEOREM InventoryIsTracked ==
  ASSUME ~AnswersLost, ~StreamDrops
  PROVE  Spec /\ []QueuesHaveRoom => []InventoryTracked
<1> DEFINE Inv == IInv /\ RInv /\ WInv /\ LInv /\ VInv
<1>1. Init => Inv
  BY InitInv, InitRoad, InitWithin, InitLegs, InitGains
<1>2. Inv /\ QueuesHaveRoom /\ [Next]_vars => Inv'
  <2> SUFFICES ASSUME IInv, RInv, WInv, LInv, VInv, QueuesHaveRoom, [Next]_vars PROVE Inv'
    OBVIOUS
  <2>1. IInv' /\ RInv' /\ WInv' /\ LInv'
    BY NextInv, NextRoad, NextWithin, NextLegs
  <2>2. VInv'
    BY <2>1, NextGains
  <2> QED BY <2>1, <2>2
<1>3. Inv => InventoryTracked
  BY GainsTracked DEF VInv
<1> QED BY <1>1, <1>2, <1>3, PTL DEF Spec
=============================================================================
