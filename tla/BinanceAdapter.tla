--------------------------- MODULE BinanceAdapter ---------------------------
(***************************************************************************)
(* The road of an order to the venue and of its fills back:                *)
(*   CoreFrameworks/BinanceAdapter.hpp  the submission queue and the worker *)
(*                                      thread that makes the REST call     *)
(*   DataStream/BinanceOrderAPI.hpp     the REST call, with its retries     *)
(*   DataStream/BinanceUserData.hpp     the user-data websocket thread      *)
(*   OrderManager_FillResultCallback    the answer's way into a result ring *)
(* The venue itself is external: it may execute an order in several legs   *)
(* and may end it short.  A queue is a sequence (module SPSCRing shows     *)
(* that one producer and one consumer may treat it so).                    *)
(***************************************************************************)
EXTENDS Integers, Sequences, FiniteSets

CONSTANTS
  Nodes,       \* execution nodes, one result ring each
  Modes,       \* the ways to start the program: "paper", "rest", "ws"
  QueueCap,    \* capacity of submission_queue
  ResultCap,   \* OMS_RESULT_RING_PER_NODE
  WsCap,       \* capacity of ws_result_queue
  AnswersLost, \* a REST answer may be lost after the venue took the order
  StreamDrops, \* the user-data stream may be cut and reconnected
  MayShutDown, \* the shutdown sequence may stop the adapter
  MaxShort     \* bound on the orders the venue ends short

ASSUME AdapterAssumption ==
  /\ Nodes \subseteq Nat
  /\ Modes \subseteq {"paper", "rest", "ws"}
  /\ {AnswersLost, StreamDrops, MayShutDown} \subseteq BOOLEAN
  /\ {QueueCap, ResultCap, WsCap} \subseteq Nat \ {0} /\ MaxShort \in Nat

VARIABLES
  mode,              \* how the program was started
  adapter_up,        \* ~shutdown_requested
  submission_queue,  \* PendingSubmission: [id, type, qty]
  worker,            \* the worker: its step and the submission it holds
  venue,             \* external: the orders the venue accepted, by id
  connected,         \* connected of the user-data stream
  wire,              \* external: user-data events on their way to the client
  result_rings,      \* result_rings[node]
  ws_result_queue

stream == <<connected, wire>>
adapterVars == <<mode, adapter_up, submission_queue, worker, venue, stream,
                 result_rings, ws_result_queue>>

NoSubmission == [id |-> [n |-> 0, node |-> 0, slot |-> 0], type |-> "BUY", qty |-> 0]
Idle == [stage |-> "idle", sub |-> NoSubmission]

(* LIVE_TRADING (without it fills are synthesized) and ws_active (with it   *)
(* they come over the websocket): both set at boot and left alone.          *)
Live == mode # "paper"
WsActive == mode = "ws"

AdapterInit ==
  /\ mode \in Modes
  /\ adapter_up = TRUE
  /\ submission_queue = << >>
  /\ worker = Idle
  /\ venue = << >>
  /\ connected = (WsActive /\ ~StreamDrops)   \* if it may drop, it is not up yet
  /\ wire = << >>
  /\ result_rings = [n \in Nodes |-> << >>]
  /\ ws_result_queue = << >>

(* struct Command of a fill: where it came from, whose it is, what it says. *)
Report(from, id, success, qty, complete, terminal) ==
  [from |-> from, id |-> id, success |-> success, qty |-> qty,
   complete |-> complete, terminal |-> terminal]
Failure(from, id) == Report(from, id, FALSE, 0, FALSE, FALSE)

(* SPSCRing_TryPush as its callers use it: a full ring drops the command.   *)
Offer(q, cmd, cap) == IF Len(q) < cap THEN Append(q, cmd) ELSE q

(* OMS_ResultPush: the ring of the node the id names.                       *)
ResultPush(cmd) ==
  result_rings' = [result_rings EXCEPT ![cmd.id.node] = Offer(@, cmd, ResultCap)]

(* The venue speaks to whoever listens: an executionReport event.           *)
Tells(cmd) == wire' = IF connected THEN Append(wire, cmd) ELSE wire

(* BinanceAdapter_SubmitMarketBuy and _SubmitMarketSell, on the drainer.    *)
AdapterAccepts == adapter_up /\ Len(submission_queue) < QueueCap
Enqueue(id, type, qty) ==
  submission_queue' = Append(submission_queue, [id |-> id, type |-> type, qty |-> qty])

-----------------------------------------------------------------------------
(* BinanceAdapter_WorkerLoop.  A shutdown is seen between two submissions;  *)
(* the ones still queued are left there.                                    *)

WorkerPop ==
  /\ worker = Idle /\ adapter_up /\ submission_queue # << >>
  /\ worker' = [stage |-> "call", sub |-> Head(submission_queue)]
  /\ submission_queue' = Tail(submission_queue)
  /\ UNCHANGED <<mode, adapter_up, venue, stream, result_rings, ws_result_queue>>

(* The request reaches the venue and is accepted.  A retry of the request   *)
(* carries the same newClientOrderId and is the same order.                 *)
VenueAccepts ==
  /\ worker.stage = "call"
  /\ worker' = [worker EXCEPT !.stage = "answer"]
  /\ venue' = [id \in DOMAIN venue \cup {worker.sub.id} |->
                 IF id = worker.sub.id
                   THEN [type |-> worker.sub.type, qty |-> worker.sub.qty,
                         executed |-> 0, status |-> "open"]
                   ELSE venue[id]]
  /\ UNCHANGED <<mode, adapter_up, submission_queue, stream, result_rings, ws_result_queue>>

(* A client error, or all retries failed before the venue saw the order; a *)
(* refusal may also be told over the websocket (x=REJECTED).                *)
VenueRefuses ==
  /\ worker.stage = "call"
  /\ worker' = Idle
  /\ ResultPush(Failure("REST", worker.sub.id))
  /\ UNCHANGED wire \/ Tells(Failure("WS", worker.sub.id))
  /\ UNCHANGED <<mode, connected, adapter_up, submission_queue, venue, ws_result_queue>>

(* Status 200.  With the websocket active the answer is an ack without      *)
(* quantity; otherwise it carries what the order, which by then has left    *)
(* the venue's book, executed.                                              *)
RestAnswer ==
  /\ worker.stage = "answer"
  /\ LET id == worker.sub.id
         o  == venue[id]
     IN IF WsActive
          THEN ResultPush(Report("REST", id, TRUE, 0, FALSE, FALSE))
          ELSE /\ o.status # "open"
               /\ ResultPush(Report("REST", id, TRUE, o.executed,
                                    o.status = "filled", o.status = "ended"))
  /\ worker' = Idle
  /\ UNCHANGED <<mode, adapter_up, submission_queue, venue, stream, ws_result_queue>>

(* The answer to an accepted order is lost and every retry fails.           *)
RestAnswerLost ==
  /\ AnswersLost /\ worker.stage = "answer"
  /\ ResultPush(Failure("REST", worker.sub.id))
  /\ worker' = Idle
  /\ UNCHANGED <<mode, adapter_up, submission_queue, venue, stream, ws_result_queue>>

(* BinanceAdapter_ShutdownState raises the flag; the join of the worker is  *)
(* its leaving the loop.                                                    *)
ShutdownState ==
  /\ MayShutDown /\ adapter_up
  /\ adapter_up' = FALSE
  /\ UNCHANGED <<mode, submission_queue, worker, venue, stream, result_rings,
                 ws_result_queue>>

-----------------------------------------------------------------------------
(* The venue, and the user-data stream it writes (executionReport events).  *)

VenueTrades(id) ==
  /\ id \in DOMAIN venue /\ venue[id].status = "open"
  /\ \E q \in 1 .. venue[id].qty - venue[id].executed :
       LET done == venue[id].executed + q = venue[id].qty
       IN /\ venue' = [venue EXCEPT ![id].executed = @ + q,
                                    ![id].status = IF done THEN "filled" ELSE "open"]
          /\ Tells(Report("WS", id, TRUE, q, done, FALSE))
  /\ UNCHANGED <<mode, connected, adapter_up, submission_queue, worker, result_rings,
                 ws_result_queue>>

VenueEnds(id) ==                     \* x=EXPIRED or x=CANCELED, short of FILLED
  /\ id \in DOMAIN venue /\ venue[id].status = "open"
  /\ Cardinality({i \in DOMAIN venue : venue[i].status = "ended"}) < MaxShort
  /\ venue' = [venue EXCEPT ![id].status = "ended"]
  /\ Tells(Report("WS", id, TRUE, 0, FALSE, TRUE))
  /\ UNCHANGED <<mode, connected, adapter_up, submission_queue, worker, result_rings,
                 ws_result_queue>>

(* ud_ws_thread: one frame read, parsed and pushed; dropped when the queue  *)
(* is full.                                                                 *)
WsReceive ==
  /\ wire # << >>
  /\ ws_result_queue' = Offer(ws_result_queue, Head(wire), WsCap)
  /\ wire' = Tail(wire)
  /\ UNCHANGED <<mode, connected, adapter_up, submission_queue, worker, venue, result_rings>>

(* The connection breaks, with what was on it; ud_ws_thread makes a new one *)
(* until the keepalive's circuit breaker ends it.  What the venue had to    *)
(* tell meanwhile is not replayed, and ws_active is not touched.            *)
StreamBreaks ==
  /\ StreamDrops /\ connected
  /\ connected' = FALSE /\ wire' = << >>
  /\ UNCHANGED <<mode, adapter_up, submission_queue, worker, venue, result_rings,
                 ws_result_queue>>

StreamConnects ==
  /\ WsActive /\ ~connected
  /\ connected' = TRUE
  /\ UNCHANGED <<mode, adapter_up, submission_queue, worker, venue, wire, result_rings,
                 ws_result_queue>>

AdapterNext ==
  \/ WorkerPop \/ VenueAccepts \/ VenueRefuses \/ RestAnswer \/ RestAnswerLost
  \/ ShutdownState \/ WsReceive \/ StreamBreaks \/ StreamConnects
  \/ \E id \in DOMAIN venue : VenueTrades(id) \/ VenueEnds(id)
=============================================================================
