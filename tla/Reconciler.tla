----------------------------- MODULE Reconciler -----------------------------
(***************************************************************************)
(* The audit of live trading: the reconciler thread compares the free cash  *)
(* of the venue with what the books expect it to be, and reports the        *)
(* difference (CoreFrameworks/ReconciliationLoop.hpp).  It reads two things *)
(* written by others at other moments: the venue's balance, which changes   *)
(* with every execution, and the pack the drainer composed last.            *)
(* Kept: one node and slot with its money in decimal units: prices, fees,   *)
(* the averaged entry, which is rounded, and its share of a leg.  Left      *)
(* out: the caps of the order table and of the rings before the books       *)
(* (OrderManager) and the second ring behind them (Ledger).                 *)
(***************************************************************************)
EXTENDS Integers, Sequences, FiniteSetsExt, Sums

CONSTANTS
  Opening,     \* quote asset at the venue before the first start
  GatePrice,   \* the price a gate fires at
  Prices,      \* prices of an execution
  FeeShare,    \* fee_rate: a fee is one FeeShare-th of a notional
  Discount,    \* what the venue takes off that fee
  Tolerance,   \* balance_tolerance
  AlertCap,    \* capacity of reconcile_queue
  MaxUnits,    \* bound: units of an order
  MaxUnderWay, \* bound: reports of executions on their way
  MaxPlaced,   \* bound: orders placed
  MaxCuts      \* bound: orders ended short, and crashes

VARIABLES
  exchange,        \* external: free cash and coins, the orders that are open
  awaiting,        \* orders whose REST answer is outstanding
  rest_ring, ws_queue, reconcile_queue,
  table,           \* the order table, by id
  stage, taken,    \* the drainer's pass, and the commands it took
  holding,         \* the position of the slot
  cash, emitted,   \* oms.balance, and the nets in the fill ring
  pack,            \* MoneySnapshot: generation and expected_free
  poll,            \* ReconciliationLoopState, and where its pass is
  placed, cuts,    \* bounds
  astray,          \* history: money that moved beside the books
  moved            \* history: which half of an audit is older than a move

auditVars == <<exchange, awaiting, rest_ring, ws_queue, reconcile_queue, table, stage,
               taken, holding, cash, emitted, pack, poll, placed, cuts, astray, moved>>
bookVars == <<table, holding, emitted>>
processVars == <<awaiting, rest_ring, reconcile_queue, table, stage, taken, holding,
                 cash, emitted, pack, poll>>

FeeOf(notional) == notional \div FeeShare

ASSUME AuditAssumption ==
  /\ {Opening, GatePrice, FeeShare, AlertCap, MaxUnits} \subseteq Nat \ {0}
  /\ Prices \subseteq Nat \ {0}
  /\ {Tolerance, MaxUnderWay, MaxPlaced, MaxCuts} \subseteq Nat
  /\ \A p \in Prices : p % FeeShare = 0 /\ Discount \in 0 .. FeeOf(p)

NoHolding == [quantity |-> 0, entry_price |-> 0, entry_fee |-> 0]
NoPack == [generation |-> 0, expected_free |-> 0]
Waiting == [at |-> "sleep", exchange_usdt |-> 0]
Both == {"sample", "pack"}

AuditInit ==
  /\ exchange \in [usdt : {Opening}, coins : {0}, open : {<< >>}, in_quote : BOOLEAN]
  /\ awaiting = {} /\ rest_ring = << >> /\ ws_queue = << >> /\ reconcile_queue = << >>
  /\ table = << >> /\ stage = "book" /\ taken = << >>
  /\ holding = NoHolding /\ cash = Opening /\ emitted = 0
  /\ pack = NoPack /\ poll = Waiting
  /\ placed = 0 /\ cuts = 0 /\ astray = 0 /\ moved = Both

Without(f, id) == [i \in DOMAIN f \ {id} |-> f[i]]
With(f, id, v) == [i \in DOMAIN f \cup {id} |-> IF i = id THEN v ELSE f[i]]

-----------------------------------------------------------------------------
(* OrderManager_Submit, through the adapter to the venue.                   *)

Place(rest, side, qty, price) ==
  LET id == placed + 1
  IN /\ placed' = id
     /\ table' = With(rest, id, [side |-> side, requested |-> qty, filled |-> 0,
                                 event_price |-> price])
     /\ exchange' = [exchange EXCEPT !.open = With(@, id,
                       [side |-> side, left |-> qty, untouched |-> TRUE])]
     /\ awaiting' = awaiting \cup {id}

(* A gate opens only over an empty slot; whoever closes one asks for all of *)
(* it.  Either may come while an order for the slot is under way: the flag  *)
(* of the hot core is cleared by an exit that was skipped (NodeTrading).    *)
Places ==
  /\ stage = "submit" /\ placed < MaxPlaced
  /\ \/ /\ holding.quantity = 0
        /\ \E q \in 1 .. MaxUnits : Place(table, "BUY", q, GatePrice)
     \/ /\ holding.quantity > 0
        /\ Place(table, "SELL", holding.quantity, holding.entry_price)
  /\ moved' = Both
  /\ UNCHANGED <<rest_ring, ws_queue, reconcile_queue, stage, taken, holding, cash,
                 emitted, pack, poll, cuts, astray>>

-----------------------------------------------------------------------------
(* The venue.  An execution settles at once; its report may not be heard:   *)
(* the user-data stream is down, or the process is.  A commission paid in   *)
(* another asset is told as such, and is nothing of the quote asset.        *)

(* What an execution does to the free cash.                                 *)
Effect(cmd) ==
  LET notional == cmd.price * cmd.qty
  IN (IF cmd.side = "BUY" THEN -notional ELSE notional) - cmd.commission
Effects(q) == [i \in 1 .. Len(q) |-> Effect(q[i])]
SumEffect(q) == SumSeq(Effects(q))

Notice(kind, id, side) ==
  [kind |-> kind, id |-> id, side |-> side, qty |-> 0, price |-> 0, commission |-> 0,
   complete |-> FALSE]

Hears(cmd) ==
  /\ stage # "down" /\ Len(ws_queue) < MaxUnderWay
  /\ ws_queue' = Append(ws_queue, cmd)
  /\ UNCHANGED <<astray, cuts>>
Misses(cmd) ==
  /\ cuts < MaxCuts /\ cuts' = cuts + 1
  /\ astray' = astray + Effect(cmd)
  /\ UNCHANGED ws_queue
Relays(cmd) ==
  IF stage = "down" THEN UNCHANGED <<ws_queue, astray, cuts>> ELSE Hears(cmd) \/ Misses(cmd)

Executes(id) ==
  LET o == exchange.open[id]
  IN \E q \in 1 .. o.left, p \in Prices :
       LET cmd == [Notice("LEG", id, o.side) EXCEPT
                     !.qty = q, !.price = p, !.complete = (q = o.left),
                     !.commission = IF exchange.in_quote THEN FeeOf(p * q) - Discount ELSE 0]
       IN /\ o.side = "SELL" => exchange.coins >= q
          /\ exchange' =
               [exchange EXCEPT
                  !.usdt  = @ + Effect(cmd),
                  !.coins = @ + (IF o.side = "BUY" THEN q ELSE -q),
                  !.open  = IF q = o.left THEN Without(@, id)
                            ELSE With(@, id, [o EXCEPT !.left = @ - q, !.untouched = FALSE])]
          /\ Relays(cmd)
          /\ UNCHANGED <<processVars, placed>>

EndsShort(id) ==                  \* EXPIRED or CANCELED short of FILLED
  LET cmd == Notice("END", id, exchange.open[id].side)
  IN /\ cuts < MaxCuts /\ cuts' = cuts + 1
     /\ exchange' = [exchange EXCEPT !.open = Without(@, id)]
     /\ \/ stage # "down" /\ ws_queue' = Append(ws_queue, cmd)
        \/ UNCHANGED ws_queue
     /\ UNCHANGED astray
     /\ UNCHANGED <<processVars, placed>>

(* The REST call fails: the venue refused the order, or has it and the      *)
(* answer was lost in every retry.                                          *)
Fails(id) ==
  /\ stage # "down" /\ cuts < MaxCuts /\ cuts' = cuts + 1
  /\ awaiting' = awaiting \ {id}
  /\ rest_ring' = Append(rest_ring, Notice("FAIL", id, "BUY"))
  /\ \/ UNCHANGED exchange
     \/ /\ id \in DOMAIN exchange.open /\ exchange.open[id].untouched
        /\ exchange' = [exchange EXCEPT !.open = Without(@, id)]
  /\ UNCHANGED <<ws_queue, reconcile_queue, table, stage, taken, holding, cash,
                 emitted, pack, poll, placed, astray>>

Venue ==
  /\ \/ \E id \in DOMAIN exchange.open : Executes(id) \/ EndsShort(id)
     \/ \E id \in awaiting : Fails(id)
  /\ moved' = Both

-----------------------------------------------------------------------------
(* EngineSharded_Drainer_BookPass: the queues into the buckets, closes      *)
(* before opens before alerts, then the commands one by one.                *)

(* The commands of q that are of these orders, in their order.              *)
PickedUpTo(q, ids) ==
  LET picked[i \in 0 .. Len(q)] ==
        IF i = 0 THEN << >>
        ELSE IF q[i].id \in ids THEN Append(picked[i - 1], q[i]) ELSE picked[i - 1]
  IN picked
Picked(q, ids) == PickedUpTo(q, ids)[Len(q)]

SellIds == {id \in DOMAIN table : table[id].side = "SELL"}
Closes(q) == Picked(q, SellIds)
Opens(q) == Picked(q, 1 .. placed \ SellIds)

DrainsAll ==
  LET q == rest_ring \o ws_queue
  IN /\ stage = "submit" /\ stage' = "book"
     /\ taken' = Closes(q) \o Opens(q) \o reconcile_queue
     /\ rest_ring' = << >> /\ ws_queue' = << >> /\ reconcile_queue' = << >>
     /\ UNCHANGED <<exchange, awaiting, bookVars, cash, pack, poll, placed, cuts,
                    astray, moved>>

(* A command of an order the table does not know changes nothing.           *)
Ignores(cmd) ==
  /\ cmd.id \notin DOMAIN table
  /\ astray' = astray + Effect(cmd)
  /\ UNCHANGED <<exchange, awaiting, bookVars, placed>>

Rejects(cmd) ==
  /\ cmd.kind = "FAIL"
  /\ table' = Without(table, cmd.id)
  /\ UNCHANGED <<exchange, awaiting, holding, emitted, placed, astray>>

(* OrderManager_HandleFill: the commission the venue reports is booked when *)
(* it is in the quote asset, and the configured fee otherwise.              *)
BookedFee(cmd) == IF cmd.commission > 0 THEN cmd.commission ELSE FeeOf(cmd.price * cmd.qty)
AfterLeg(cmd) ==
  IF cmd.complete THEN Without(table, cmd.id)
                  ELSE [table EXCEPT ![cmd.id].filled = @ + cmd.qty]

(* Portfolio_OpenSlot, Portfolio_AccumulateSlotLeg.  Mutation: every leg    *)
(* opens the slot anew (the defect OrderManager.hpp:1919-1922 tells of).    *)
Opened(cmd) ==
  [quantity |-> cmd.qty, entry_price |-> cmd.price, entry_fee |-> BookedFee(cmd)]
NotionalWith(cmd) == holding.entry_price * holding.quantity + cmd.price * cmd.qty
AccumulatedFresh(cmd) == Opened(cmd)
Accumulated(cmd) ==
  LET qty == holding.quantity + cmd.qty
  IN [quantity    |-> qty,
      entry_price |-> NotionalWith(cmd) \div qty,
      entry_fee   |-> holding.entry_fee + BookedFee(cmd)]
(* What the rounded average leaves out of the position's worth.             *)
RoundedAway(cmd) ==
  IF holding.quantity = 0 THEN 0 ELSE NotionalWith(cmd) % (holding.quantity + cmd.qty)

(* handle_buy_fill: the slot is opened or added to; the balance is not      *)
(* debited.                                                                 *)
BuyLeg(cmd) ==
  /\ cmd.kind = "LEG" /\ table[cmd.id].side = "BUY"
  /\ table' = AfterLeg(cmd)
  /\ holding' = IF holding.quantity = 0 THEN Opened(cmd) ELSE Accumulated(cmd)
  /\ astray' = astray + BookedFee(cmd) - cmd.commission - RoundedAway(cmd)
  /\ UNCHANGED <<exchange, awaiting, emitted, placed>>

(* Portfolio_ConsumeEntryFeeLeg: a share of the entry fee, and with the     *)
(* last unit whatever is left of it.                                        *)
EntryFeeLeg(q) ==
  IF q = holding.quantity THEN holding.entry_fee
                          ELSE (holding.entry_fee * q) \div holding.quantity

(* handle_sell_fill: a slot that is empty is left alone, and no leg closes  *)
(* more than the slot holds.                                                *)
SellLeg(cmd) ==
  LET q == Min({cmd.qty, holding.quantity})
  IN /\ cmd.kind = "LEG" /\ table[cmd.id].side = "SELL"
     /\ table' = AfterLeg(cmd)
     /\ holding' = [holding EXCEPT !.quantity = @ - q, !.entry_fee = @ - EntryFeeLeg(q)]
     /\ \/ /\ q = 0
           /\ astray' = astray + Effect(cmd)
           /\ UNCHANGED emitted
        \/ /\ q > 0
           /\ emitted' = emitted + (cmd.price - holding.entry_price) * q
                                 - (EntryFeeLeg(q) + BookedFee(cmd))
           /\ astray' = astray + cmd.price * (cmd.qty - q) + BookedFee(cmd) - cmd.commission
     /\ UNCHANGED <<exchange, awaiting, placed>>

(* The order ended short of what it was to execute: if it was to sell, what *)
(* the slot still holds is sold at once.                                    *)
EndedEarly(cmd) ==
  LET rest == Without(table, cmd.id)
  IN /\ cmd.kind = "END"
     /\ IF table[cmd.id].side = "SELL" /\ holding.quantity > 0
          THEN Place(rest, "SELL", holding.quantity, holding.entry_price)
          ELSE table' = rest /\ UNCHANGED <<exchange, awaiting, placed>>
     /\ UNCHANGED <<holding, emitted, astray>>

(* OrderManager_ProcessReconcile: an alert is a line in a log, and writes   *)
(* no balance.                                                              *)
Alerts(cmd) ==
  /\ cmd.kind = "ALERT"
  /\ UNCHANGED <<exchange, awaiting, bookVars, placed, astray, moved>>

Books(cmd) ==
  /\ cmd.kind # "ALERT"
  /\ \/ Ignores(cmd)
     \/ /\ cmd.id \in DOMAIN table
        /\ Rejects(cmd) \/ BuyLeg(cmd) \/ SellLeg(cmd) \/ EndedEarly(cmd)
  /\ moved' = Both

Processes ==
  /\ stage = "book" /\ taken # << >> /\ taken' = Tail(taken)
  /\ Alerts(Head(taken)) \/ Books(Head(taken))
  /\ UNCHANGED <<rest_ring, ws_queue, reconcile_queue, stage, cash, pack, poll, cuts>>

-----------------------------------------------------------------------------
(* OMS_OpenPositionCost and OMS_ExpectedFreeCash.  Mutation: the flat      *)
(* balance of before D-216, which no BUY debits (ReconciliationLoop.hpp:152). *)
OpenPositionCost == holding.entry_price * holding.quantity + holding.entry_fee

ReserveOf(units, price) == units * price + FeeOf(units * price)
Unfilled(o) == o.requested - o.filled
ReservedFor(id) ==
  IF id \in DOMAIN table /\ table[id].side = "BUY"
    THEN ReserveOf(Unfilled(table[id]), table[id].event_price) ELSE 0
Reserved == SumSeq([id \in 1 .. placed |-> ReservedFor(id)])

FlatAccount(balance) == balance - Reserved
ExpectedFreeCash(balance) == balance - OpenPositionCost - Reserved

(* EngineCommon_ComposeAndKillEval, as far as the account goes: what the    *)
(* fills left in the ring is booked, then the pack is published.            *)
Composes ==
  /\ stage = "book" /\ taken = << >> /\ stage' = "submit"
  /\ cash' = cash + emitted /\ emitted' = 0
  /\ pack' = [generation |-> 1, expected_free |-> ExpectedFreeCash(cash + emitted)]
  /\ moved' = moved \ {"pack"}
  /\ UNCHANGED <<exchange, awaiting, rest_ring, ws_queue, reconcile_queue, table, taken,
                 holding, poll, placed, cuts, astray>>

-----------------------------------------------------------------------------
(* ReconciliationLoop_Pass: first the venue, then the pack.  A query that   *)
(* fails ends the pass.                                                     *)

Samples ==
  /\ stage # "down" /\ poll.at = "sleep"
  /\ poll' = [poll EXCEPT !.at = "sampled", !.exchange_usdt = exchange.usdt]
  /\ moved' = moved \ {"sample"}
  /\ UNCHANGED <<exchange, awaiting, rest_ring, ws_queue, reconcile_queue, bookVars,
                 stage, taken, cash, pack, placed, cuts, astray>>

Drift == poll.exchange_usdt - pack.expected_free
Judges ==
  LET alert == pack.generation # 0 /\ ~(Drift \in -Tolerance .. Tolerance)
  IN /\ poll.at = "sampled"
     /\ poll' = Waiting
     /\ reconcile_queue' =
          IF alert /\ Len(reconcile_queue) < AlertCap
            THEN Append(reconcile_queue, Notice("ALERT", 0, "BUY"))
            ELSE reconcile_queue
     /\ UNCHANGED <<exchange, awaiting, rest_ring, ws_queue, bookVars, stage, taken, cash,
                    pack, placed, cuts, astray, moved>>

-----------------------------------------------------------------------------
(* The process dies; what it knew dies with it.                             *)
Dies ==
  /\ stage # "down" /\ cuts < MaxCuts /\ cuts' = cuts + 1
  /\ stage' = "down"
  /\ awaiting' = {} /\ rest_ring' = << >> /\ ws_queue' = << >> /\ reconcile_queue' = << >>
  /\ table' = << >> /\ taken' = << >> /\ holding' = NoHolding /\ cash' = 0 /\ emitted' = 0
  /\ pack' = NoPack /\ poll' = Waiting /\ astray' = 0 /\ moved' = Both
  /\ UNCHANGED <<exchange, placed>>

(* The boot, before any other thread exists; market orders of the process   *)
(* that died have come to their end.  EngineSharded_OrphanRecovery sells    *)
(* the coins at the venue, or some, and asks what that left; if the answer  *)
(* to the sale was lost it keeps the balance it had asked for before.  With *)
(* coins left Reconcile_Decide refuses, unless its own query failed, which  *)
(* nobody looks at (Run.hpp:1104).                                          *)
Boots ==
  /\ stage = "down" /\ exchange.open = << >>
  /\ \E q \in 0 .. exchange.coins, p \in Prices :
       LET proceeds == q * p - FeeOf(q * p)
       IN /\ exchange' = [exchange EXCEPT !.usdt = @ + proceeds, !.coins = @ - q]
          /\ \/ /\ stage' = "book"
                /\ astray' \in {0, proceeds}
                /\ cash' = exchange'.usdt - astray'
             \/ /\ stage' = "down" /\ exchange.coins > q
                /\ UNCHANGED <<cash, astray>>
  /\ UNCHANGED <<awaiting, rest_ring, ws_queue, reconcile_queue, bookVars, taken,
                 pack, poll, placed, cuts, moved>>

AuditNext ==
  \/ Places \/ Venue \/ DrainsAll \/ Processes \/ Composes
  \/ Samples \/ Judges \/ Dies \/ Boots
AuditSpec == AuditInit /\ [][AuditNext]_auditVars

-----------------------------------------------------------------------------
UnderWay == SumEffect(ws_queue) + SumEffect(taken)

(* The identity the audit rests on (OMS_ExpectedFreeCash, "ledger minus     *)
(* committed cost"): the venue's free cash is the balance, with the nets    *)
(* still in the ring, less what the open position cost, but for the reports *)
(* under way and the money that moved beside the books: executions nobody   *)
(* heard of, fees that differ, and what averages round away.                *)
CashAccounted ==
  stage # "down" =>
    exchange.usdt = cash + emitted - OpenPositionCost + UnderWay + astray

(* An audit of an account at rest is exact: nothing is open at the venue,   *)
(* no report is under way, and nothing has moved since both halves of it    *)
(* were read.  It then shows the money that moved beside the books          *)
(* (ReconciliationLoop_Pass), plus what is reserved for orders of the table *)
(* that nobody will answer any more: the reserve may hide the loss.         *)
AtRest == /\ stage # "down" /\ exchange.open = << >>
          /\ rest_ring = << >> /\ ws_queue = << >>
          /\ \A i \in 1 .. Len(taken) : taken[i].kind = "ALERT"
AuditExact ==
  poll.at = "sampled" /\ pack.generation # 0 /\ AtRest /\ moved = {}
    => Drift = astray + Reserved
=============================================================================
