# A specification of the FoxML trading engine

TLA+ modules, TLC models and machine-checked proofs for the trading engine in
`src/`: a C++ program that watches a market stream, decides on pinned "hot"
threads, and sends market orders to Binance (or synthesizes their fills in
paper trading).  Every definition is a translation of code, not of a document;
`PROJECT.json` maps each one to the lines it stands for.

## 1. The system

### Components, their state and their operations

| component | code | state | operations | modelled in |
|---|---|---|---|---|
| parameter slot | `ParameterSlot.hpp` | `seq`, two buffers with publish ticks | `Write`, `Read` | `ParameterSlot` |
| hot-side cache of it | `ExecutionCore.hpp:436-456` | `cached_seq`, `cached_params` | head of `Tick`, `SetParameters` | `HotParams` |
| SPSC ring | `SPSCRing.hpp` | `head`, `tail`, a copy of each on the other side, slots | `TryPush`, `TryPop` | `SPSCRing` |
| execution core | `ExecutionCore.hpp` | `active`, `active_b`, `permission`, event ring | `Tick`, `SetPermission` | `ExecutionCore` |
| order manager | `OrderManager.hpp`, `OmsPhasedDrain.hpp`, `Order.hpp`, `Portfolio.hpp` | order table and bitmap, positions, submit queues, result rings, buckets | `PushSubmit`, `Submit`, `DrainSubmit`, `DrainIntoBuckets`, `ProcessFillCommand`, `HandleFill` | `OrderManager` |
| adapter, REST client, user-data stream | `BinanceAdapter.hpp`, `BinanceOrderAPI.hpp`, `BinanceUserData.hpp` | submission queue, worker, shutdown flag, websocket queue | submit, worker loop, retry, stream thread | `BinanceAdapter` |
| node pipeline | `EngineCommon.hpp`, `SlowPath.hpp`, `Run.hpp`, `ControllerEventLoop.hpp` | the above, per node | event drain, manual closes, time and model exits, flatten | `NodeTrading` |
| ledger and snapshots | `NodeState.hpp`, `EngineCommon.hpp:406-741`, `:1076-1156`, `ShardedSnapshotPersist.hpp` | fill and emit rings, balance, node rows, slot trackers, file | emit, apply, compose, save, load, paper reset | `Ledger`, abstractly `Account` |
| kill switches | `EngineCommon.hpp:406-741`, `:1740-1760`, `ControllerEventLoop.hpp` | node, account and drift flags, kill word, staged and published gates | judge, publish, obey, grant, reset | `KillSwitch` |
| silent-stream flatten | `ControllerEventLoop.hpp:3860-4060`, `FanOut.hpp`, `Run.hpp:1793` | latch, deadline, tick counter and date | check, win, open, flatten, clear | `WsFlatten` |
| boot, paper reset, shutdown | `EngineSharded/*.hpp` | stop flags, park flags, cycle generation | stages 1 to 5; park and wipe | `Shutdown`, and `Ledger` and `KillSwitch` for the reset |
| model hot swap | `HotSwap.hpp`, `NodeModelZoo.hpp`, `ControllerEventLoop.hpp:2049-2135` | model pointers, directory locks, state files | shadow load, exchange, free, learn, save, restart | `HotSwap` |
| arithmetic | `FixedPointN.hpp:1440-1623`, `:1786-1963`, `:2165-2270` | the sticky flags `money_op_flags` | limb product, rounding, long division; money and binary operations, the seam | `Money` |
| order event log | `OrderEventLog.hpp` | log, async ring | append, flush, fold | not modelled (section 7) |
| reconciliation | `Reconcile.hpp`, `ReconciliationLoop.hpp`, `ShardedLiveSafety.hpp` | the venue's balance as last asked for, the published expectation | audit, alert, orphan sale, verdict at boot | `Reconciler` |
| everything else | configuration, registries, allocators, logs, market data, strategies, learning, backtest, GUI, legacy controller, live-readiness gate | | | not modelled (section 7) |

### Threads and how they interact

* **Executor threads** (`Run.hpp:1499-1518`), one per core: run
  `ExecutionCore_Tick` for each tick; the only pusher of the node's event ring,
  the only reader of its parameter slot, and the usual writer of its flags.
* **The drainer** (`Run.hpp:1564-1665`): the only popper of the event rings,
  then manual closes, then `OMS_DrainSubmit`, then the result rings and the
  websocket queue into two buckets, then closes before opens
  (`SlowPath.hpp:217-242`).  Owner of the order table and of the positions.
  At the head of each cycle it composes: books the fill rings, judges the kill
  thresholds, publishes the kill word; at its tail it saves or runs a paper reset.
* **Slow-path threads** (`Run.hpp:1685-2119`), one per node: write parameters and
  permission, check for a silent stream, exchange and train the node's models, and
  push exits into the node's submit queues.
* **The fan-out** of the market stream counts and dates the ticks that pace the
  slow paths.
* **The adapter's worker**: one REST call at a time; answers go to the result
  ring of the node whose lane is in the order id.
* **The user-data websocket thread**: fills go to `ws_result_queue`.
* **The reconciler** (`ReconciliationLoop.hpp`): asks the venue for its free cash every
  30 seconds, compares it with the expectation the drainer published, and queues an
  alert.
* **GUI/TUI**: raises manual-close, reset and model-swap requests.
* **Main**: stops and joins all of these in five stages, then saves
  (`Run.hpp:2330-2520`).

All threads talk through SPSC rings, the seqlocked slot, or single-word flags.

### What is hard, and what makes each part correct

| part | hazard | property |
|---|---|---|
| slot | the writer laps a reader mid-copy | `ReadReturns`, `ImplementsCell` (and `NoTornRead`, proved) |
| cache | a second load of `seq` names a later write than the cached pack | `CacheNotAhead` (and `HitIsCurrent`, which fails) |
| ring | decisions on stale counters, wrap-around, slot reuse | `NoSlotRace`, `EverythingPopped`, `ImplementsFifo` (and `CountersBounded`, proved) |
| core | a full event ring takes one event of two | `FlagFollowsEvents`, `EventsAlternate`, `ExitRetried` |
| orders | ack, legs and end of an order over two roads in any order, slots reused meanwhile | `TableConsistent`, `NoLegLost`, `OrdersSettle` |
| orders | answers and reports lost, queues full, the user-data stream cut, the adapter shut down | `NothingInvented` (and `ToldWithoutStream`, which fails) |
| orders | a sell that ends short, with a full table | `RemainderResubmitted`, `BoundToOwnNode` |
| paper | the drainer pushes into the ring it drains | `PaperFillNeverDropped` |
| orders | requests of several closers overlap while reports are late | `InventoryTracked` |
| node | four ways to close one position at the same time | `HeldStaysWatched` |
| kill | a permission granted over a trip that came in between; a lazy slow path; a latch that outlives its kill | `KillHolds`, `KillArrives`, `LatchOverKill` |
| flatten | latch and deadline are two words with several writers; recovery on a cycle that may return early; a stream too silent to be checked | `LatchOwned`, `WindowEnds`, `FlattenReaches` (and `DeadStreamFlattens`, which fails) |
| shutdown | who must be joined before whom, and what is still in a queue then | `SourcesFlushed`, `NothingStranded`, `ShutdownEnds` |
| ledger | a full ring is applied out of its turn; two rings popped in lockstep; legs of a pair | `ImplementsAccount`, `NotionalTelescopes`, `BooksBalance`, `EmitLockstep`, `PaperPairsAgree` |
| snapshot | a crash between any two steps; trackers and partner bits that are not in the file | the same, over `Restart` |
| audit | two halves read at different moments; legs, fees and reserves that must add up to the venue's cash; money that moves beside the books | `CashAccounted`, `AuditExact` |
| hot swap | two zoos, one directory lock, learning that goes on meanwhile | `OneWriterPerDir`, `CarriesOver`, `NothingForgotten` (and `SoleReader`, which fails) |
| arithmetic | a carry between limbs, a rounded tie, a saturation without its flag, a price that changes as it crosses the seam | `MoneyExact`, `BinaryExact`, `SeamRoundTrips` |

`PROJECT.json` lists the hazards one by one, with their lines.

## 2. Modules

| module | what it is |
|---|---|
| `ParameterCell` | abstract: an atomic cell |
| `ParameterSlot` | the seqlock, one store or load per step; implements `ParameterCell` |
| `HotParams` | extends `ParameterSlot`: the hot thread's cache over it |
| `BoundedFifo` | abstract: a bounded queue with the answers of push and pop |
| `SPSCRing` | the ring, one access of shared memory per step; implements `BoundedFifo` |
| `ExecutionCore` | a hot core: load flags, decide, push, store flags |
| `BinanceAdapter` | submission queue, worker, external venue, websocket thread |
| `OrderManager` | extends `BinanceAdapter`: order table, positions, the drainer's pass |
| `NodeTrading` | `ExecutionCore` and `OrderManager` composed into one node |
| `Engine` | the constants the next modules share: nodes, capital, lazy rebuilds |
| `Sums` | the sum of a sequence, and over the domain of a function, as recursive functions |
| `KillSwitch` | composer, slow paths and operator around the kill flags |
| `WsFlatten` | the stream's clock and the slow paths that race for the flatten's latch |
| `Shutdown` | main, sources, composer, worker and stream through the five stages |
| `Account` | abstract: sales change the account once; a checkpoint keeps all of it |
| `Ledger` | fills, rings, booking, snapshot, reset and crash; implements `Account` |
| `Reconciler` | the money of a slot, the venue's cash, and the thread that compares them, through a crash and the boot after it |
| `HotSwap` | zoos, locks and state files under slow paths, drainer and other processes |
| `Money` | limbs, rounding, long division and the operations on amounts built from them |
| `MC*` | the TLC instances |
| `*Proofs` | theorems of `ParameterSlot`, `HotParams`, `SPSCRing`, `ExecutionCore` and `Money` (`HotPathProofs`), `OrderManager` (`OrderManagerProofs`, and `ReportProofs` of the reports under way), `NodeTrading` (`NodeProofs`), `KillSwitch`, `WsFlatten` and `Shutdown` (`GuardsProofs`), `Ledger` and `HotSwap` (`FaultsProofs`), `Reconciler`; `SumsProofs` has the induction on numbers and the lemmas about sums |

Four runs check several modules, or several instances of one: their MC module
(`MCHotPath`, `MCGuards`, `MCFaults`, `MCNode`) has a variable `part`, drawn once, and
lets that part run while the others rest in one initial state.  The states add up and
do not multiply, and each property sees the part it is about.  A property of `MCNode`
is one of `NodeTrading` or `OrderManager`, said of the parts it is meant for, or one of
`Reconciler`.  The fairness conditions of
the parts share formulas there, which changes none of them as only one part is ever
enabled.

Modules also hold small operators whose comment begins with "Mutation": a
plausible bug in the definition that follows them.  They are not part of any
specification; they are what shows that each property can fail.

### How state and actions correspond to the code

**`ParameterSlot`.**  `seq`, `buffers`, `publish_ticks` are the fields.
`WriteBegin` is the odd store, `WriteWord` one word of the pack's copy (in any
order: the copy is a plain struct assignment), `WriteTick` the publish tick,
`WriteCommit` the even store.  `ReadLoad` spins while `seq` is odd, `ReadWord`
copies a word, `ReadReturn` and `ReadRetry` are the outcomes of the second load.
The n-th write stores n everywhere, so a torn pack shows as two numbers.  Loads
and stores take effect in program order: this is x86-TSO with the acquire and
release orders of the code.  The copies of the pack are plain, formally a data
race; the model lets it return any mixture of words, which is what the build
can produce.

**`HotParams`.**  `TickMiss`, `TickRead` and `TickReload` are lines 436-456;
the write may run anywhere between the read's last load and the second load.

**`SPSCRing`.**  `PushCall` decides on `cached_tail`; `PushRefresh` loads the real
`tail` and decides again; `PushWrite` writes the slot; `PushPublish` releases
`head`.  Pops likewise.  `Producers` is a set because nothing in the class
enforces its contract.  Counters are 64 bits wide and do not wrap in practice;
`MaxPushes` bounds them.

**`ExecutionCore`.**  A tick is four kinds of steps because other threads see and
touch what it reads and stores: `TickLoad` (458-468), `TickDecide`, one `TickPush`
per event, `TickStore`.  Which gates fire is drawn from `EntryFires` and
`ExitFires`.  Permission is read at the decision.  The two flags are stored in
one step, although the code has two stores; what reads them between the two is
only the drainer's manual close, which writes one of them blindly.

**`BinanceAdapter`.**  `mode` is how the program was started: `"paper"`, `"rest"`
(live, answers carry the fills) or `"ws"` (live, fills come over the websocket).
It is chosen at boot and never changes (`Run.hpp:854` sets `ws_active` once).  The
worker pops a submission, calls, and answers: `VenueAccepts`, `VenueRefuses`,
`RestAnswer` (with the ack arm of 280-297), `RestAnswerLost` (all retries failed
after the venue took the order).  `VenueTrades` and `VenueEnds` are the venue,
external.  The socket between the venue and `ud_ws_thread` is the sequence
`wire`: reliable and ordered as long as the connection stands.  `StreamBreaks` loses
what is on it; until `StreamConnects` the venue speaks to nobody (`Tells`), nothing is
replayed, and `ws_active` stays as it was.  That the keepalive's circuit breaker may
end the stream for good is a run in which `StreamConnects` never happens again.

**`OrderManager`.**  An id is a record of a number, a node lane and a slot lane, as
in the packed id.  `orders[k]` keeps its last order when its slot is freed,
which is what late reports meet.  `Submit` is an operator over the table so
that it can stand both for the drainer's submissions and for the re-submission
inside `ProcessFillCommand`.  `ProcessFillCommand` is the disjunction of its
outcomes: `Ignored`, `Acknowledged`, `Failed`, `Booked`, `EndedShort`.  A pass of
the drainer goes through `phase`: pump, manual, submit, drain, drainws, closes.
Queues are sequences with a capacity; `ImplementsFifo` is what justifies this
for one producer and one consumer.  The submit queues have two producers in the
code; their loss under that is shown by `ring_shared` and is not repeated here.

**`NodeTrading`.**  `HotTick` is the executor, `Permit` the slow path's permission
store, `PumpEvent` an iteration of `EngineCommon_DrainEventsAndSubmit`, which reads
the quantity of an exit from the position at that moment and skips it when
zero.  `ManualClose` and `SlowExit` read the quantity and push in one step,
which the drainer cannot tell from two when it is the reader itself, and which
for `SlowExit` leaves out only a still older quantity.  `DrainEvents` has a bound
per pass that the small event rings never reach.  `blind`, `overlaid` and `aside` are
history: an exit skipped because its position was empty, a sell asked for
while one for the slot was queued or in the table, and any close that the hot core did
not decide.

**`KillSwitch`.**  `composer` is the drainer's place in a cycle: `BookExit` and
`Drift` while it books, `ComposeEval` (steps 0 to 2 of
`EngineCommon_ComposeAndKillEval`: resets, judgement of nodes and account),
`ComposeWord` (step 3, the published word), `CycleTail` (the paper reset).  A slow
path is four steps: a rebuild, full or lazy, stages a gate; `PushParameters` puts it
in the slot; `GrantRead` and `GrantStore` are the two halves of the permission
grant, between which the composer may trip.  A full rebuild reads its node's flag
and the word in one step.  `begun` and `settled` are history: what kind of cycle
ran entirely under a kill.  The trip lanes of `KillTripSiteRegistry.hpp` have no
producer in this tree.

**`WsFlatten`.**  Every load, store and compare-and-swap of `flatten_pending` and
`recovery_until` is a step.  The clock of a cycle is sampled as it begins
(`cycle_now`) and used throughout, as in the code; the fan-out counts a tick before it
dates it.  `CloseSlot` gives up a slot whose queue is full.

**`Shutdown`.**  `main` is the stage: join the sources, wait for two generations of
the composer's cycle or give up, stop and join the workers, the grace of the stream,
stop and join the composer, save.  The worker looks at its flag only at the head
of its loop; the composer's tail makes up to `TailPasses` more passes.  Events and
reports are counted, not told apart.

**`Ledger`.**  `BuyFill` and `SellFill` are the two halves of
`OrderManager_HandleFill` as far as money is concerned, and end in `Emit`, which
applies all rings in line when its own is full.  `Compose` books what is there;
`SaveWrites` and `SaveRenames` are the save beside and the rename; `PaperReset` and
`Restart` the wipe and the load.  What a fill earns and costs is chosen.  `NewTrade`
and `ExitLeg` stand for the hot core, whose own protocol `ExecutionCore` has; which
fills may come in which order is that of `OrderManager`.  `round`, `trade` and
`orphaned` are history, by which two legs can be told to belong to one trade.  To
`Account` an event in a ring counts as booked: when it is, is the ledger's affair,
that it is, once, the promise.  The reset runs
after a compose and so over empty fill rings.  An event a hot core had queued just
before it was parked, and the archive the reset writes, are left out.

**`Reconciler`.**  `exchange` is the venue's cash and coins; `Executes` settles a leg
at once and is heard or not.  `DrainsAll` takes the queues, `Processes` books one command
(closes before opens before alerts), `Composes` adds the nets in the ring to the balance
and publishes what is to be expected.  `Samples` and `Judges` are the two halves of
`ReconciliationLoop_Pass`, with anything in between.  `Dies` and `Boots` are a crash
and the orphan sale of the next start, whose answer may be lost.  Two variables are
history: `astray` counts the money that moved at the venue beside the books (an
execution nobody heard or whose order had left the table, a commission that is not the
fee booked, more sold than the slot held); `moved` says which half of an audit is older
than the last move.  Whether commissions are taken in the quote asset is a setting of
the account (`in_quote`).  The averaged entry is rounded, as in the code; what a rounded
average leaves out of the position's worth (`RoundedAway`) is counted in `astray` too: in the
code units of the eighth decimal, which the tolerance of a cent covers.
The ring of nets never fills here; that it may is `Ledger`'s.

**`HotSwap`.**  A zoo is the set of rewards it has learned from, the lock and the
directory it has.  A swap is `PickUp`, `FlushOutgoing`, `LoadFails` or `Bind`,
`Refuses` or `Exchange`, `Frees`; between swaps the slow path `LooksBack` and saves
what the drainer left pending.  The drainer `Sells`, `Calibrates` from the boot's
pointer, `LoadsHandle` and then `Rewards`.  `Restarts` and `Crashes` boot again;
other processes take and leave locks.  `kept` is history: the rewards whose loss
would be a fault.  A reward credited between the pre-swap flush and the exchange
is lost in the code (`HotSwap.hpp:125`), which says nothing of it; it is not in
`kept`.

**`Money`.**  A word is a number below `Word`, a limb below `Limb`; both are constants,
so that TLC can run through every pair of amounts of a small word and the proofs
speak of the real one.  `Umul` is the four limb products and their carries,
`DivPow10` the product with the magic constant and the shift, `Trip` one turn of the
loop in `udiv256_qr`.  What needs no loop returns in one step (`CallDirect`).  Masks
that select between two values are conditions; wrapping is `% Word` where the C type
wraps.  `MoneyNext` draws amounts from the closure +-(2^63-1) and binaries from all
words but the least, which the code calls unreachable (`FixedPointN.hpp:1507-1510`).
`Drain` ends a call: it reports and clears the flags as the threads do at the end of
a cycle.

## 3. What is checked

| run | module | what it shows |
|---|---|---|
| `hot_path` | `MCHotPath` | the slot is an atomic cell for a reader that races four writes, and the cache over it errs on one side only; the ring is a lossless bounded queue without a race on a slot; flags follow the events the ring took, and a refused exit is retried until it gets in; sums, products, quotients and conversions of amounts are exact or flagged |
| `guards` | `MCGuards` | a trip reaches every entry gate and holds whatever the permission race leaves; the flatten's latch and deadline never come apart, its exits are taken and its window ends; the shutdown ends with nothing left in a queue beyond what its caps admit |
| `faults` | `MCFaults` | the money from fill to snapshot, paper and live, under full rings, paper resets and a crash between any two steps; models exchanged while the drainer books sales, under crashes and other processes: one writer per directory, nothing learned is lost |
| `oms` | `MCOrderManager` | paper, REST and websocket, entries and exits that overlap: nothing the venue executed is lost or doubled, nothing it holds goes untracked, remainders are sold, orders settle |
| `node` | `MCNode` | a paper node with legs A and B: flags and positions agree at rest, no paper fill is refused; a single leg beside drainer, manual closes and slow exits, paper and live: what is held on paper stays watched; no more booked than executed under lost answers, a cut stream, overflowing queues and an adapter shut down at any time; the venue's cash accounted for leg by leg, and an audit at rest that shows the difference |

and, where the code disagrees with what it says of itself:

| run | property | what happens |
|---|---|---|
| `hot_params_hit` | `HitIsCurrent` | a write between the end of the read and the second load of `seq` leaves the cache one pack behind until the next write (`ExecutionCore.hpp:455`) |
| `ring_shared` | `ImplementsFifo` | two producers overwrite each other's command (`OrderManager.hpp:1682-1685` says there is one; `EngineCommon.hpp:983` and `:1687` are two) |
| `stream_cut` | `ToldWithoutStream` | with the user-data stream down an answer is still a bare ack, and the execution is told to nobody (`Run.hpp:854` sets `ws_active` once; `BinanceAdapter.hpp:175-177`) |
| `ws_dead` | `DeadStreamFlattens` | the check for a silent stream is paced by the ticks of that stream, and never runs when they stop (`Run.hpp:1793`) |
| `zoo_freed` | `SoleReader` | the drainer credits a sale to a zoo the slow path has freed (`HotSwap.hpp:279`; 311-314 calls the slow path the sole reader) |
| `node_zombie` | `FlagsMatchBooks` | an exit that overtakes its entry's fill is skipped, and the position opens unwatched (`EngineCommon.hpp:909`) |
| `node_oversold` | `NeverOversold` | a manual close and the core's own exit both sell at the venue (`SlowPath.hpp:145-151`) |

Violations and passing runs go together.  The cache can be one pack late
(`HitIsCurrent` fails), never a pack early (`CacheNotAhead` holds), so the next write
heals it.  `HeldStaysWatched` says that the two ways shown
by `node_zombie` and by doubled sells are the *only* ways to lose a position from
sight in paper trading, and that without a close beside the hot core no flag is left set
over an empty slot either.  After such a close a flag may stay set: the core then exits
what is gone, its EXIT is skipped, and the flag is clear.  `FlattenReaches` says that the flatten works once it is
begun; `ws_dead`, that it need not begin.  `NothingInvented` says that a lost report
makes the table too low and never too high; `stream_cut` shows one way it gets too low,
and `AuditExact` what the reconciler then reports.

### Also met while modelling

No run shows these; they follow from a few lines each.

* A kill reset sets the node's peak to zero, and the next compose seeds it with the
  allocated balance again (`EngineCommon.hpp:432-434`, `:563-567`), where
  `ControllerEventLoop.hpp:593-594` and `DashboardPanels.hpp:2264-2265` say it goes to
  the current value: a node that lost more than the threshold trips again in the
  compose that reset it.
* Under a kill a lazy slow path republishes the parameters it had
  (`ControllerEventLoop.hpp:2621-2628`), so the kill reaches the gate with the next
  forced rebuild only; `KillHolds` is stated from there on.  Lazy rebuilds are off
  by default.
* When the event ring refuses leg B of an entry, the pair's books join the lone
  leg with the next trade's (`EngineCommon.hpp:712` calls A and B one logical trade).
  `BooksBalance` and `PaperPairsAgree` leave such runs out (`orphaned`).
* A full `ws_result_queue` drops a fill (`BinanceUserData.hpp:631`), where
  `SPSCRing.hpp:138-140` says such rings never drop: with queues of one, as in
  the `lossy` part of `node`, `NoLegLost` fails.
* A sell that ends short after the adapter was shut down: "Submit cannot return 0 here",
  says `OrderManager.hpp:2478-2482`, but it does, and the fee binding of the dead order
  is written over that of `orders[0]`, whose node may be another.  With two nodes and
  `MayShutDown` TLC finds `BoundToOwnNode` violated.  In `oms` it holds because nothing
  is refused: the adapter's queue takes 256 submissions and the table 16 orders.
* When the workers join, submissions can still be in the adapter's queue and are
  never sent: the worker looks at its flag at the head of its loop.
  `Run.hpp:2375-2376` says nothing is then headed for the venue.  And a pass takes
  16 events of a node and the tail has 16 passes, for rings of 1024.
* A paper reset clears `active` and not `active_b` (`Async.hpp:244`): leg B stays flagged
  over a wiped portfolio until its exit fires and is skipped.
* `oms.ezoo_refs` (`Run.hpp:1048`) names the zoo of the boot after every swap.
* `Money_Div` is called "defensively total to <= 2^154" (`FixedPointN.hpp:1910`).  Outside
  the closure it is not: a quotient of 2^128 - 1 with a large remainder rounds up to
  zero, which is returned without a flag.  No caller gets there.
* `fp2_addsat` and `fp2_sub` can return -2^127, the word whose magnitude
  `i128_abs` cannot represent (`:1449`); `BinaryExact` names it.
* `Run.hpp:2466` speaks of a keepalive that writes `ws_active`; nothing clears it.
* `OrderManager_Tick` (with its detector of stale orders, on which `BinanceAdapter.hpp:290-291`
  relies for acks without a fill) is called by the backtest driver only; the sharded
  engine runs the drainer's pass, which has none.
* The reserve for a buy whose report was lost stays in the expectation as long as its
  order stays in the table, which is for ever: `AuditExact` has it as a term, and it can
  cancel the loss that `ReconciliationLoop_Pass` is to show ("reconciliation will catch
  it", `OrderManager.hpp:2328`, of surprise fills).
* `Reconcile.hpp` knows the engine's own open orders by the prefix `tt-`; they are sent
  as `oms_<id>` (`BinanceOrderAPI.hpp:621`, `:689`), so none is ever counted or cancelled.
* The boot's second balance query is not checked (`Run.hpp:1104`): if it fails the venue
  seems to hold no coins, and the boot that should be refused goes on.
* The orphan sale has no client order id (`ShardedLiveSafety.hpp`, `BinanceOrderAPI.hpp:691`):
  if its answer is lost, the retry finds nothing to sell, and the engine starts with the
  balance from before the sale.

### Bounds, and why they are enough

* `hot_path`: a pack of two words (the least that can be torn), four writes: the
  writer can lap a read twice and return to the same buffer, and can complete a
  write in each gap of the hot thread's refresh.  A ring of two, the least the
  `static_assert` admits; five pushes wrap the slots twice while each side's copy of
  the counter is stale; two items, so that an exchange is seen.  Two legs and an
  event ring of three, so that with two events queued the first push of a tick
  succeeds and the second fails.  Words of ten bits and a scale of 6, whose magic
  constant leaves the same slack as the real one: every pair of amounts, among them
  all ties and overflows, and binaries at both ends of the word, at the limb's
  boundary and between.
* `guards`: one node whose single losing trade trips it and the account
  (`Start` 8, a loss of 2 over a drawdown of 20%); one node only, as nodes share
  nothing but the account's word, which a trip of this node's money reaches.  Two
  slow paths race for the flatten; with threshold and delay of one, three instants
  let a window open and end, and the next one fall due.  A source of three
  events, more than the one a pass takes and the one a single tail pass adds, so
  that both caps bite.
* `faults`: for the money, rings of one apply every second fill in line;
  a lot of two is bought and sold in parts or whole; two trades, so that a pair left
  half open meets the next.  Paper or live, one leg or two, are initial states.  For
  the models: two nodes and two directories, so that they can share one or trade
  places; three zoos, the two of a boot and a successor, in every life of the
  process, whose number is not bounded; one reward, as rewards do not meet.
* `oms`: a table of two orders (16 in the code) for one portfolio slot: a slot is
  reused while reports of its former order are under way; a table can be full when
  an order ends short.  Three requests, plus the re-submissions they cause; one order
  ended short by the venue.  Three is the least number that has two sells over one buy, and
  two buys of a unit and a sell of both, which executes in one or two legs or ends
  short.  `ResultCap` 4 and `WsCap` 6 exceed what three requests and a re-submission
  leave in the queues.  Entries of two units were checked as well, with the safety
  properties only (2.8 million states).
* `node`, `pair`: two legs, four order slots with a result ring of four (the ratio
  the code relies on: `OMS_RESULT_RING_PER_NODE >= MAX_INFLIGHT_ORDERS`), three
  decisions of the core: an entry, an exit and a re-entry of the pair.  `single`: one
  leg, two decisions shared by entries, manual closes and slow exits; the core's own
  exits are not bounded; paper and websocket mode.  `lossy`: two order slots for one
  portfolio slot, two requests of up to two units, queues of one: a report not yet
  drained makes the next one overflow; the stream may break and come back without
  bound.
* `node`, `audit`: two orders of one or two units, and the rest of one that ends short;
  two prices, one of them the gate's, so that entries are averaged, some with a remainder, and
  executions slip; a
  commission one unit off the fee that is booked, or none; one report on its way at a
  time; one fault: a report not heard, an order ended short, a REST call that fails, or a
  crash.  Two faults at once were checked as well, apart from the other parts.
* violation runs: the least instance in which the trace exists.

`CHECK_DEADLOCK FALSE` stands where the system may stop: the shutdown's end, a market
that falls silent, and trades, rewards or clock used up.  Elsewhere the bounded runs
end in states from which the drainer still passes or the reader still polls.

### Fairness, and why the code justifies it

* `ParameterSlot`, `HotParams`: a write that began is completed and a tick that
  began is finished; neither thread blocks inside.  No write or tick need begin.
* `SPSCRing`: the consumer polls in a loop; a push that began returns.
* `ExecutionCore`: ticks keep coming and the drainer keeps popping (weak
  fairness).  `ExitRetried` also assumes that the price of an active leg comes
  back beyond its exit again and again, a strong fairness on the market and not on
  the code; without it a price that recovers rightly cancels the exit.
* `OrderManager`: the drainer's loop, the worker and the websocket thread go on;
  the venue ends each market order it accepted.  Producers need not ask for
  anything, and in particular nobody is obliged to shut down, to lose answers or to
  cut the stream.
* `KillSwitch`: the composer's cycle and the slow paths loop for ever.  Full rebuilds
  recur (strong fairness): a lazy path is forced through one every
  `lazy_rebuild_force_period_us`.
* `WsFlatten`: the same of slow paths and drainer, and time passes.  The stream owes
  no tick; `WindowEnds` says what it says of a stream that does tick.
* `Shutdown`: every thread runs and a source that is told to stop gets to look.  No
  source is obliged to push.
* `Ledger`, `HotSwap`, `NodeTrading`, `Reconciler`: none; their properties are safety.

## 4. What is proved

The proofs hold for every value of the constants, under the assumptions named in
the modules (`SlotAssumption`, `RingAssumption`, `CoreAssumption`, `AdapterAssumption`,
`OmsAssumption`, `TradingAssumption`, `KillAssumption`, `FlattenAssumption`, `ShutdownAssumption`, `EngineAssumption`, `LedgerAssumption`, `SwapAssumption`,
`AuditAssumption`, `MoneyAssumption`).  Each follows
one scheme: an inductive invariant, kept by every action (one lemma per
action or thread), from which the property is read off.

**`HotPathProofs`, the slot.**  `NoTornRead` alone is not inductive: it says nothing of a
read in progress.  `SlotInv` adds that the active buffer is whole and carries its own
publish tick; that a writer past `WriteBegin` works only on the other buffer; and
that a reader whose `s1` still equals `seq` has copied a prefix of the active
buffer.  A read returns only when `s1 = seq`, so what it returns is whole.
`SlotImplementsCell` follows: the active buffer changes only at `WriteCommit`.

**`HotPathProofs`, the cache.**  `HotInv` is the slot's `SlotInv`, kept because a tick's read is one
of its reads, and that the pack just got, and the cached one, were published by a
write no later than the sequence number beside them.  `CacheBehind` is the second.

**`HotPathProofs`, the ring.**  Under `OneProducer`.  `RingInv` adds to `CountersBounded` that a
producer past its check holds `my_head = head` and room for one more by its own
stale copy, and that a consumer past its check has an entry before it.
`NoSlotRace` then is arithmetic: two counters less than `N` apart name different
slots (`SlotsDiffer`).  `RingImplementsFifo` maps each step: `PushCall` asks, `PushPublish`
appends what was asked for, a failed `PushRefresh` is a refusal by a full queue,
`PopPublish` takes the head, a failed `PopRefresh` is a refusal by an empty queue, and
the others change nothing of it.

**`HotPathProofs`, the tick.**  `FlagFollowsEvents` says nothing during a tick.  `TickInv`
adds that nobody else stores the flags meanwhile and that each leg's last event is
what `TickStore` will make its flag; `PlanInv` lists what may be left to push.
The other writer of the flags, the manual close, is outside this module: with it
the property is a different one, `HeldStaysWatched` of `NodeTrading` (`NodeProofs`).

**`OrderManagerProofs`.**  `TableConsistent` is inductive only together with the types
of everything under way: that a report names a node there is, that a command holds a
quantity, that a submission's answer finds its order at the venue.  `Submit` is an
operator over the table, so its lemma speaks of any consistent table, also the one
`EndedShort` has just taken the dead order out of; that a table with room has a least
free slot is the well-foundedness of the numbers (`MinIsMember`).  The table may have
any size, and answers, reports and the adapter may be lost: the invariant asks nothing
of the queues but their types.

A second invariant, `RInv`, is about the road an order takes.  `RoadSound` and
`BucketsSound`: every report under way names an order that was numbered before and has left
the submission queue.  `QueueOrdered`, `WorkSent`: what waits in that queue is in the order of
its numbers, and what the worker or the venue has is older.  `TableOwes`: each submission
that waits is of an order alive in the table (`Carries`), a command in the closing bucket
belongs to a SELL, a REST order in the table has nothing filled, and while the adapter runs the
order's fee binding is its node's.  The point is `QueueWithinTable`: by `Carries` and the order of the
numbers the waiting submissions are of different slots, so there are never more of them
than orders, which is the pigeonhole over a finite table.  `BindingsKept` and
`RemainderGuaranteed` need it: when a SELL ends short, its slot is freed first, so the table and the
queue both have room and `Submit` does not return 0.  Their hypothesis
`QueueHoldsTable` says the queue is as long as the table; in the code it is 256 to 16
(`BinanceAdapter.hpp:139`, `Limits.hpp:47`).  `RInv` itself has no hypothesis: what it says
of a queue longer than the table it says only if there is one (`Binds`).  Shutdown is excluded, and must be: after it
`Submit` does return 0 and the binding of `orders[0]` is overwritten (end of section 3).

**`ReportProofs`, live.**  `NothingInvented` bounds what an order has booked plus five sums, one for
each queue its reports travel through, by what the venue executed of it.  `WInv` needs two
more facts: a result ring holds reports of its own node's orders only (`RingsRouted`, or the sum over
one ring would miss some), and an order the worker is about to send has no execution
and no report yet (`WorkerFresh`, or `NewOrder` could find the id in use).  `Within` is the bound itself;
a new order enters with all five sums zero, because by `RInv` no report names its
number yet.  Each step then moves a quantity from one sum to the next, or drops it; a
report taken by the drainer leaves its bucket and is booked on the order of its id, or
on none.  The table can only be too low, so nothing is assumed of queues, stream or adapter.

**`ReportProofs`, nothing lost.**  `NoLegLost` turns the bound into an equation, and an equation
needs what the bound did not: every report arrives, and none arrives too late.  The
theorem `NoLegIsLost` assumes exactly the losses away that section 3 shows at work: `~AnswersLost`,
`~StreamDrops`, and `QueuesHaveRoom` in every state, so that no ring, queue or bucket refuses a
report.  In the code a ring takes 16, `ws_result_queue` and a bucket 256 each, to 16 orders in
flight.  That a queue always has room says a little more than that it refuses nothing: the last
place stays free.  Shutdown is not excluded.  `LInv` has seven parts.

* `FinalsLast`: the report that ends an order is the last to carry anything.  In one queue that is
  its order; across queues it is where the two roads meet.  The websocket's legs travel wire,
  `ws_result_queue`, bucket; the answer of the REST call its ring, then a bucket.  Were a leg behind
  the final one, `Failed`, `Booked` or `EndedShort` would free the slot before it, and the leg would
  find no order.
* `RoadHonest`: why the roads do not contradict each other.  A success names an order the venue
  took, a failure one it never will; of the order the worker still holds only the websocket
  speaks; and beside the websocket REST acknowledges without a quantity, so an ack that
  overtakes or trails the legs is harmless and the tripwire never meets a leg.
* `BucketsSorted`: the two buckets split by the type of the order a slot holds.  That type does not
  change while the drainer sorts, so all reports of an order land in one bucket, in their order.
* `VenueWaits` and `WorkKnown`: without the websocket an order the venue has open is the one the worker
  waits for, so one answer tells everything; and that order is still in the table.
* `StreamUp`: the stream is up exactly when `ws_active` says so.
* `NoLegLost` itself.

The lemmas are about one order and two queues (`RingMoves`, `StreamMoves`, `WireMoves`, `BucketGives`,
`RingGains`, `WireGains`): a report that changes queue keeps `InOrder`.  `BookLegs` is the end of the
road: what a report takes from its bucket it adds to `filled`, and a final one leaves
nothing of its order behind.  TLC agrees with every part of `LInv` on `oms` with longer queues.

**`ReportProofs`, inventory.**  `NoLegLost` speaks of one order, `InventoryTracked` of all
orders of a node and the positions of all its slots.  Between the two stands what the
books *got* of an order (`Got`): what the table has booked of it while it is there, and
all it executed afterwards.  By `NoLegLost` that is what the venue executed less what is
still on its way (`GotIs`), so the property follows from `GainsHeld`: the sum of the
gains, buys less sells, is no more than the positions.  `GainsHeld` is inductive with `SidesKept`
beside it, that an order is on the same side in the submission queue, with the worker,
at the venue and in the table: `OrderManager_HandleFill` goes by the table's side, the venue by its
own.  Most steps change neither sum.  `LegGains` is the one that does: a leg moves one term
of each, and a sell takes from the position what it sold at most, less where
another sell was before it.  That is why the property is an inequality; `node_oversold`
shows that the other direction fails.  A node's orders and slots are finite sets whose sums
`SumOver` takes; `SlotsOfFinite` needs that a slot number has one node.  The theorem
`InventoryIsTracked` has the hypotheses of `NoLegIsLost` and no other: nothing is assumed of who requests,
how often, or what a slot holds then.

**`ReportProofs`, paper.**  `PaperFillNeverDropped` counts: each order of the table has one report in ring
and buckets.  `FillsFit` says that a ring and a bucket are no shorter than the table; in the code
they are 16 and 256 to 16 (`OrderManager.hpp:169-173`, `Limits.hpp:47`).  `PaperRoad` says of
each report that it is a complete fill of an order in the table; `PaperTable`, that each
order has nothing filled and one report.  A ring or bucket then holds no more reports
than the table holds orders (`FillsWithinTable`, a pigeonhole), so as long as the table has a
free slot for a new order, its ring has room for the fill.
`FillBooked` is the other end: such a report is not taken for an ack, passes the
tripwire of `OrderManager_ProcessFillCommand` and frees its order, whose slot is then
without a report, as it must be.  `Asked` is what that needs of the requests: none is for
a quantity of zero.

**`NodeProofs`.**  `HeldStaysWatched` speaks of a node at rest; nearly everything that
matters happens when it is not.  The hot core and the drainer share only the event ring
and the flags, so each is told of the other by one fact for each slot.  `After(s)`: whether the slot
holds anything once the requests and orders under way are booked.  `Flag(s)`: the flag
once the tick under way is over.  `Agrees` says that the events in the ring lead from the first to the
second: there is a course `h`, the state of the leg before and after each event, that
begins with `After`, ends with the flag, and lets an ENTRY follow an EXIT only.  A push
extends the course, a pop takes its first step, and when ring, queues and table are empty it is one value:
flag and position agree.

* The core's side: `Plan` says that a tick pushes, of each leg, the one event that the flag it loaded calls
  for, once.  So the flag of the tick under way moves with each push (`FlagPushed`) and with
  nothing else (`FlagStays`), whatever a full ring refuses.
* The drainer's side: `Lined` says what can be under way for a slot, namely a SELL of *all* it
  holds and behind it at most one BUY, in the queue or in the table, the BUY in the table
  only when the queue is empty.  A BUY is asked for when the slot is about to be empty (`BuyAsked`), a
  SELL when it holds something and none is under way (`SellAsked`, which is what `~overlaid` gives);
  `OrderManager_Submit` and the bookings then leave `After` as it was (`SubmitKept`,
  `BookKept`).
* That a BUY is never booked over a SELL of its slot is the order of the drainer's phases:
  `Calm` says that the result rings are empty when bookings begin (`RingsDrained`) and that the
  reports in the bucket of the opens are of BUYs, of the whole order each; with the paper theorem's one report for each
  order, an order in the table that is not in the opens' bucket is in the closes',
  which goes first (`ClosesFirst`).
* A close beside the core sells what the core's flag, and perhaps its next event, still
  speak of.  If the ring holds an event of the leg, the first is an EXIT (`AgreeClosed`, by the least
  place where the course leaves ENTRY): that EXIT is `Doomed` to find nothing, and `blind` is
  recorded when it does.  If it holds none, the course is EXIT throughout, and the property
  asks nothing of a flag that is still set (`aside`).

The order manager's four invariants carry over: each step of the node is for it a pass, a
request, a booking or a step of the adapter (`StepKinds`).  `HeldIsWatched` has the paper theorem's
`FillsFit` and one hypothesis more, `RoomForBoth`: a BUY is of more than nothing, a
submit queue takes two requests and the table has two places for each slot, so that no
request is dropped (`RoomLeft`, a pigeonhole).  For the one node that `NodeTrading` models these are 32 and
four of 16 (`OrderManager.hpp:285`, `Limits.hpp:47`); the table is shared by all nodes, so with
more than eight slots in use it can be full, and a request that it refuses is lost.  Nothing is
assumed of the event ring's size, of prices, or of how often anyone closes.  TLC agrees with each part of `NodeInv`, with
two legs, and with one leg beside manual closes and slow exits.

**`GuardsProofs`, the kill switches.**  `KillHolds` speaks of gates in the slot; `Blocked` adds the gate
that is staged between rebuild and push: a full cycle begun under a kill that still
stands has staged a refusal, and one settled under it has published it.  `LatchOverKill` is inductive beside it: the
only step that clears a kill without its latch would be a reset, and it clears both.

**`GuardsProofs`, the flatten.**  `LatchOwned` needs `SeenSet`: the deadline a slow path has
loaded for its compare-and-swap is not zero, so that it wins against a deadline
only and never against none.

**`GuardsProofs`, the shutdown.**  `ShutdownInv` says, stage by stage, who is gone (`Joins`), what a
composer cycle that began after the joins has already taken (`Cycled`), what each
pass of the tail leaves (`Tailed`), and that nobody adds to it meanwhile (`Quiet`).
`NothingStranded` needs all four: it bounds the events by the backlog at the joins
less what the passes took.

**`SumsProofs`.**  What a recursive function computes for inputs of any size needs an
induction.  The library's induction theorems take an operator, which none of the provers
instantiates; its theorem that a well-founded relation gives every non-empty set a
minimal element (`WFMin`) takes a set.  `LeastNumber` is that theorem for `<` on the
numbers, and `BoundedInduction` its contraposition: a set of numbers that holds 0, and
with each number below `m` the next one, holds all up to `m`.  A property is proved by
induction as such a set.  That a recursive function exists at all is proved the same way
(`TotalsExist`, `RingBooksAre`, `NodeBooksAre`, `SavesAre`); then `SumAppend`,
`SumConcat`, `SumTail` and `SumChanged` say how a sum moves with its sequence.
A sum over a finite set takes the elements in the order `CHOOSE` picks them.  That the
order does not matter (`SumsOverSplit`: any element may come first) is an induction over
subsets (`SubsetInduction`, on their cardinality), and `SumOverGrown`, `SumOverChanged` and
`SumOverDiff` rest on it.

**`FaultsProofs`, the ledger.**  The invariant is `LedgerInv`, in six parts.  `IInv`: rows and fills
are paired (`EmitLockstep`), sequence numbers and rings keep to their ranges, so that a
full event ring is a full row ring and both are emptied or neither.  `BooksOK`: the
notional and the results of a node's books balance after every event.  `OrdersOK`: which slots are hot, ordered, selling, and
what a node with a trade under way can hold.  `TrackersOK`: the books *as they will be
when the rings are applied* agree with the positions: a tracker is empty where its slot
is, and in paper trading it is the position's worth.  `PairsOK`: the legs that a paper trade has still to
conclude are of one trade, in the books as they will be and in the file.  `FileOK`: the
snapshot satisfies the same, for the process that will load it.  `BooksOK` and
`TrackersOK` are the strengthening the properties need: an event changes the books only
when its ring is applied, in the composer's turn or inline when the ring is full, so what
an event means is said of the fold over the rings (`Applied`), and the lemmas are
inductions along a ring (`AppliedKeeps`) and over the nodes; booking one event touches
the columns of its own node only, so the order of the nodes does not matter.  `Emit`
then has two cases, push and drain-and-push, and the fold is the same in both.
`LedgerKeepsItsPromise` maps each step to the account: a fill moves cash and result of
one owner by its net, at the moment it is emitted, `Compose` and the inline drain move
nothing of it (what leaves the ring reaches the books), `SaveRenames` checkpoints, and
`Restart` is the account's return to the checkpoint.

**`ReconcilerProofs`.**  `AuditInv` adds to `CashAccounted` what the handlers rely on and do not
check.  A report is of an order that was placed, and a leg of an order the table knows is of that order's
side (`Tells`): `handle_buy_fill` is chosen by the table's side and the venue settled by its
own.  An order that is open has something left, so no leg is empty; an empty slot owes no
entry fee; and a process that is down knows nothing.  `Booked` is the heart: whichever arm
of `OrderManager_ProcessFillCommand` takes a command, the books change by what the execution
changed at the venue, and the rest is noted in `astray`.  For a leg that adds to a
position this is the identity of quotient and remainder, for one that sells, the distributive law; the share of
the entry fee cancels.  The drain sorts what is under way into buckets and loses nothing
(`PickedSums`, by induction along the queue).  `AuditIsExact` needs that pack and sample
are current until something moves (`PackCurrent`, `SampleCurrent`).

**`FaultsProofs`, the hot swap.**  `HotSwapInv` has three parts.  `ZoosInv`: a zoo is bound exactly as
long as it has the lock, no other process has a lock that a zoo has, two zoos bound to
one directory are of one node, and a swap's `old` and `new` are the serving zoo and
another of the same node.  `OneWriterPerDir` follows from it.  `NothingForgotten` is not
inductive: it does not say what happens to a reward that is only in the zoo about to be
replaced.  `MemoryOK` says for each reward that may not be lost (`Safe`): a zoo that
serves its directory knows it; a successor that is bound to it knows it; from the end of
the flush to the end of the swap it is on disk as well; and if no zoo serves the
directory it is on disk.  The bind is the step that needs all four: the successor reads
the files, which are complete either because it inherits the lock (then the flush was
of this directory) or because nobody serves it.  The final save is a recursive function
over the nodes (`SavesAre`); `AllSavedKeeps` is an induction over them.  `CarriesOK` says
where what a swap has found is at each of its steps; `OnlyExchange` that no other step
leads from the validation to the release.

**`HotPathProofs`, money.**  Nothing is assumed of the widths but that a word is two limbs and
a power of two, and of the magic constant but the bound its record states, which
2^64, 10^8 and the code's constant meet (`M * 10^8 - 2^153` is 38,027,008, below
2^26).  `UmulExact`: below half a word no carry is lost.  `DivPow10Exact`: the product
with the magic constant has the true quotient.  `RoundNearest`, `ResultExact`: half to
even is the nearest amount, and what saturates was beyond the limit by half a unit
at least.  The loop has an invariant (`DivisionInv`): after t trips the dividend times
2^t is the quotient so far times the divisor and what remains, unless the high word
is no less than the divisor; then the top bit of the quotient ends up set, which is
where `fp2_div` looks for an overflow or a zero divisor.  `SeamReturns`: half a unit of
the binary is far less than half a unit of money, so the way back rounds to where it
came from.

Only model-checked: all liveness (`ReadReturns`, `EverythingPopped`, `ExitRetried`,
`OrdersSettle`, `KillArrives`, `WindowEnds`, `FlattenReaches`,
`ShutdownEnds`; the prover does not do fairness or ENABLED).

## 5. Running

    tlc -config MCOms.cfg MCOrderManager      # one run
    tlapm HotPathProofs.tla                   # one proof module

The longest runs are `faults`, `guards` and `node` (two to three minutes each); the others
take less than a minute.

## 6. Plan

Done, in the order of what would hurt most: slot, cache, ring, core, order manager
with adapter, one node; ledger with snapshots, kill switches, flatten, shutdown;
model hot swap; arithmetic; the audit.  What is left:

1. **The boot's cancelling of open orders** and its trade watermark.
2. **The single-model sister** of the ensemble swap (`HotSwap_ShadowLoad`).
3. **Proofs:** the liveness properties, should a prover of fairness be at hand.

## 7. Not modelled, and why

Prices, fees and balances, but for `Reconciler`: no control flow of the modelled handlers
depends on them, except through the gates, which are free choices; in `Ledger`,
`KillSwitch` and `Reconciler` amounts are small integers, which `Money` justifies: within the closure sums are
exact.  Of the arithmetic, parsing and printing, square root, the transcendental
functions and the generic widths are left out.  Statistics,
regimes, strategies and learning: floating point; what they decide enters as
parameters, permission and exits.  Configuration and registries: text to values,
and compile-time tables.  Logs, alerts, GUI, recorders: output, with the one
exception of the requests.  Market-data sockets: public data, lossy
by design.  The backtest driver runs the same handlers in a fixed order.  The
legacy single-core controller shares none of the concurrent code.

The order event log: the sharded engine opens it without a path
(`Run.hpp:758-761`), so nothing is written or replayed.  Of the reconciliation at boot, the
cancelling of open orders and the trade watermark (one thread, before any other).  The live-readiness gate: a conjunction of independent
checks at boot.  The allocators: a boot-time arena with one writer, and two that
the sharded engine does not use.

Assumed of the venue: a POST repeated with the same client order id is one order
(`BinanceOrderAPI.hpp:495-555`), reports of an earlier life of the process do not reach
a later one, and market orders have come to their end when it is back.

Of `BinanceAdapter`, rate limits, the order-status poll and the reasons for which a
connection breaks are left out.
