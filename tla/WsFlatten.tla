----------------------------- MODULE WsFlatten -----------------------------
(***************************************************************************)
(* The emergency flatten for a silent stream: every slow-path cycle lets    *)
(* an elapsed recovery window go (EventLoop_TryClearRecovery, called by     *)
(* RebuildOneCore) and then looks at the age of the last tick               *)
(* (EventLoop_CheckWsStaleness); the thread that wins the latch opens a new *)
(* window and closes what is held (EventLoop_FlattenAll).  The cycles are   *)
(* paced by the producer's tick counter.                                    *)
(* Kept: every load, store and compare-and-swap of the latch and of the     *)
(* deadline.  Left out: prices, and what an exit command becomes            *)
(* (OrderManager).  MASK_RISK_CFG_WS_DEAD_TIME_FLATTEN_ENABLED is set.      *)
(***************************************************************************)
EXTENDS Engine

CONSTANTS
  SlowPath,   \* the slow-path threads, one per node
  Threshold,  \* ws_dead_time_flatten_threshold_secs
  Delay,      \* recovery_delay_secs
  QueueSize,  \* SUBMIT_QUEUE_SIZE of a slot
  MaxTime     \* bound: the clock

ASSUME FlattenAssumption == {Threshold, Delay, QueueSize, MaxTime} \subseteq Nat \ {0}

VARIABLES
  now,                   \* the clock
  producing,             \* the producer is between its two stores of a tick
  due,                   \* nodes with slow_path_interval new ticks
  last_tick_us,          \* 0: no tick yet
  flatten_pending, recovery_until,
  cycle,                 \* where the slow-path cycle of a node is
  cycle_now,             \* rebuild_ts_us, taken as the cycle begins
  until, todo,           \* its loaded deadline; the slots it has yet to close
  held, submit_queue,    \* active_bitmap; commands queued for a slot
  owed                   \* history: slots a flatten has asked to close

clockVars == <<now, producing, due, last_tick_us>>
latchVars == <<flatten_pending, recovery_until>>
bookVars == <<held, submit_queue, owed>>
flattenVars == <<clockVars, latchVars, cycle, cycle_now, until, todo, bookVars>>

FlattenInit ==
  /\ now = 1 /\ producing = FALSE /\ due = {} /\ last_tick_us = 0
  /\ flatten_pending = FALSE /\ recovery_until = 0
  /\ cycle = [n \in SlowPath |-> "wait"] /\ cycle_now = [n \in SlowPath |-> 0]
  /\ until = [n \in SlowPath |-> 0] /\ todo = [n \in SlowPath |-> {}]
  /\ held = {} /\ submit_queue = [n \in Node |-> 0] /\ owed = {}

-----------------------------------------------------------------------------
(* Time passes.  A tick of the stream is counted, then dated (fan_out).     *)
Clock ==
  /\ now < MaxTime /\ now' = now + 1
  /\ UNCHANGED <<producing, due, last_tick_us, latchVars, cycle, cycle_now, until,
                 todo, bookVars>>
TickCounted ==
  /\ ~producing /\ producing' = TRUE /\ due' = SlowPath
  /\ UNCHANGED <<now, last_tick_us, latchVars, cycle, cycle_now, until, todo, bookVars>>
TickDated ==
  /\ producing /\ producing' = FALSE /\ last_tick_us' = now
  /\ UNCHANGED <<now, due, latchVars, cycle, cycle_now, until, todo, bookVars>>

-----------------------------------------------------------------------------
Goes(n, place) == cycle' = [cycle EXCEPT ![n] = place]

(* The cadence gate, and the sample of the clock the whole cycle uses.      *)
Wakes(n) == n \in due
CycleStarts(n) ==
  /\ cycle[n] = "wait" /\ Wakes(n)
  /\ due' = due \ {n} /\ Goes(n, "rebuild")
  /\ cycle_now' = [cycle_now EXCEPT ![n] = now]
  /\ UNCHANGED <<now, producing, last_tick_us, latchVars, until, todo, bookVars>>

(* The recovery block of a full rebuild: inside the window entries are      *)
(* refused; past it the deadline is kept for the compare-and-swap.          *)
Elapsed(n) == recovery_until # 0 /\ cycle_now[n] >= recovery_until
LoadDeadline(n) ==
  /\ cycle[n] = "rebuild"
  /\ until' = [until EXCEPT ![n] = IF Elapsed(n) THEN recovery_until ELSE 0]
  /\ Goes(n, IF Elapsed(n) THEN "clear" ELSE "check")
  /\ UNCHANGED <<clockVars, latchVars, cycle_now, todo, bookVars>>
(* A lazy rebuild returns before it.                                        *)
LazyRebuild(n) ==
  /\ Lazy /\ cycle[n] = "rebuild" /\ Goes(n, "check")
  /\ UNCHANGED <<clockVars, latchVars, cycle_now, until, todo, bookVars>>

(* EventLoop_TryClearRecovery: the winner takes the deadline away, then the *)
(* latch.                                                                   *)
ClearUnchecked(n) ==                 \* mutation: a store for the compare-and-swap
  /\ cycle[n] = "clear" /\ until' = [until EXCEPT ![n] = 0]
  /\ recovery_until' = 0 /\ Goes(n, "release")
  /\ UNCHANGED <<clockVars, flatten_pending, cycle_now, todo, bookVars>>
ClearDeadline(n) ==
  /\ cycle[n] = "clear" /\ until' = [until EXCEPT ![n] = 0]
  /\ IF recovery_until = until[n]
       THEN recovery_until' = 0 /\ Goes(n, "release")
       ELSE UNCHANGED recovery_until /\ Goes(n, "check")
  /\ UNCHANGED <<clockVars, flatten_pending, cycle_now, todo, bookVars>>
KeepLatch(n) ==                      \* mutation: only the deadline is cleared
  /\ cycle[n] = "release" /\ Goes(n, "check")
  /\ UNCHANGED <<clockVars, latchVars, cycle_now, until, todo, bookVars>>
ReleaseLatch(n) ==
  /\ cycle[n] = "release" /\ Goes(n, "check") /\ flatten_pending' = FALSE
  /\ UNCHANGED <<clockVars, recovery_until, cycle_now, until, todo, bookVars>>

(* EventLoop_CheckWsStaleness: the age of the last tick, as of the cycle's  *)
(* clock; a tick dated after it has no age.                                 *)
Stale(n) == last_tick_us # 0 /\ cycle_now[n] - last_tick_us >= Threshold
Ends(n) == Goes(n, "wait") /\ cycle_now' = [cycle_now EXCEPT ![n] = 0]
CheckStaleness(n) ==
  /\ cycle[n] = "check"
  /\ IF Stale(n) THEN Goes(n, "fire") /\ UNCHANGED cycle_now ELSE Ends(n)
  /\ UNCHANGED <<clockVars, latchVars, until, todo, bookVars>>
WinLatch(n) ==
  /\ cycle[n] = "fire"
  /\ IF ~flatten_pending
       THEN flatten_pending' = TRUE /\ Goes(n, "window") /\ UNCHANGED cycle_now
       ELSE UNCHANGED flatten_pending /\ Ends(n)
  /\ UNCHANGED <<clockVars, recovery_until, until, todo, bookVars>>
OpenWindow(n) ==
  /\ cycle[n] = "window" /\ Goes(n, "flatten")
  /\ recovery_until' = cycle_now[n] + Delay
  /\ todo' = [todo EXCEPT ![n] = held] /\ owed' = held
  /\ UNCHANGED <<clockVars, flatten_pending, cycle_now, until, held, submit_queue>>

(* EventLoop_FlattenAll: one exit for each slot that was active; one that   *)
(* the slot's queue refuses is counted and given up.                        *)
CloseAllButLast(n) ==                \* mutation: the bit is cleared too early
  /\ cycle[n] = "flatten"
  /\ \E s \in todo[n] :
       /\ todo' = [todo EXCEPT ![n] = @ \ {s}]
       /\ IF todo[n] # {s} /\ submit_queue[s] < QueueSize
            THEN submit_queue' = [submit_queue EXCEPT ![s] = @ + 1]
            ELSE UNCHANGED submit_queue
  /\ UNCHANGED <<clockVars, latchVars, cycle, cycle_now, until, held, owed>>
CloseSlot(n) ==
  /\ cycle[n] = "flatten"
  /\ \E s \in todo[n] :
       /\ todo' = [todo EXCEPT ![n] = @ \ {s}]
       /\ IF submit_queue[s] < QueueSize
            THEN submit_queue' = [submit_queue EXCEPT ![s] = @ + 1] /\ UNCHANGED owed
            ELSE UNCHANGED submit_queue /\ owed' = owed \ {s}
  /\ UNCHANGED <<clockVars, latchVars, cycle, cycle_now, until, held>>
FlattenEnds(n) ==
  /\ cycle[n] = "flatten" /\ todo[n] = {} /\ Ends(n)
  /\ UNCHANGED <<clockVars, latchVars, until, todo, bookVars>>

(* The rest of a cycle, which nothing holds up.                             *)
CycleStep(n) ==
  \/ CycleStarts(n) \/ LazyRebuild(n) \/ ClearDeadline(n) \/ ReleaseLatch(n)
  \/ CheckStaleness(n) \/ WinLatch(n) \/ OpenWindow(n) \/ CloseSlot(n) \/ FlattenEnds(n)

-----------------------------------------------------------------------------
(* An entry fills; something else queues a command for the slot.            *)
Opens(s) ==
  /\ s \notin held /\ held' = held \cup {s}
  /\ UNCHANGED <<clockVars, latchVars, cycle, cycle_now, until, todo, submit_queue, owed>>
OtherCommand(s) ==
  /\ submit_queue[s] < QueueSize
  /\ submit_queue' = [submit_queue EXCEPT ![s] = @ + 1]
  /\ UNCHANGED <<clockVars, latchVars, cycle, cycle_now, until, todo, held, owed>>
(* The drainer takes a command; an exit closes the slot.                    *)
Drains(s) ==
  /\ submit_queue[s] > 0
  /\ submit_queue' = [submit_queue EXCEPT ![s] = @ - 1]
  /\ held' = held \ {s} /\ owed' = owed \ {s}
  /\ UNCHANGED <<clockVars, latchVars, cycle, cycle_now, until, todo>>

FlattenNext ==
  \/ Clock \/ TickCounted \/ TickDated
  \/ \E n \in SlowPath : CycleStep(n) \/ LoadDeadline(n)
  \/ \E s \in Node : Opens(s) \/ OtherCommand(s) \/ Drains(s)

(* Threads run; a full rebuild comes at the latest with                     *)
(* lazy_rebuild_force_period_us.  No fairness of the stream.                *)
FlattenFairness ==
  /\ WF_flattenVars(Clock) /\ WF_flattenVars(TickDated)
  /\ \A n \in SlowPath : WF_flattenVars(CycleStep(n)) /\ SF_flattenVars(LoadDeadline(n))
  /\ \A s \in Node : WF_flattenVars(Drains(s))
FlattenSpec == FlattenInit /\ [][FlattenNext]_flattenVars /\ FlattenFairness

-----------------------------------------------------------------------------
(* The threads, the clock and the queues keep to their ranges.              *)
FlattenTypeOK ==
  /\ now \in Nat /\ last_tick_us \in Nat /\ recovery_until \in Nat
  /\ producing \in BOOLEAN /\ flatten_pending \in BOOLEAN
  /\ due \subseteq SlowPath /\ held \subseteq Node /\ owed \subseteq Node
  /\ cycle \in [SlowPath -> {"wait", "rebuild", "clear", "release", "check", "fire",
                         "window", "flatten"}]
  /\ cycle_now \in [SlowPath -> Nat] /\ until \in [SlowPath -> Nat]
  /\ todo \in [SlowPath -> SUBSET Node] /\ submit_queue \in [Node -> 0 .. QueueSize]

(* The thread that is between the two stores of the latch and its deadline. *)
Between(n) == cycle[n] \in {"window", "release"}

(* At most one thread is between them, and a latch without a deadline is    *)
(* that thread's: set and owned by none it could never be cleared, and no   *)
(* flatten would ever fire again; a deadline without its latch would let a  *)
(* second flatten into the window.                                          *)
LatchOwned ==
  /\ \A m, n \in SlowPath : Between(m) /\ Between(n) => m = n
  /\ flatten_pending <=> (recovery_until # 0 \/ \E n \in SlowPath : Between(n))
  /\ (\E n \in SlowPath : Between(n)) => recovery_until = 0

(* While the stream ticks, a window whose deadline has passed ends and the  *)
(* flatten can fire again (ControllerEventLoop.hpp:3992).                   *)
WindowEnds ==
  []<><<TickDated>>_flattenVars =>
    ((recovery_until # 0 /\ now >= recovery_until) ~> ~flatten_pending)

(* Every slot a flatten found active gets an exit the drainer takes, unless *)
(* its queue was full, whatever happens to the stream meanwhile.            *)
FlattenReaches == \A s \in Node : (s \in owed) ~> (s \notin owed)

(* "when the gap to local_now_us exceeds [the threshold] CAS-wins one       *)
(* slow-path thread invokes EventLoop_FlattenAll to push market-exit        *)
(* commands for every active position" (ControllerEventLoop.hpp:4032).      *)
DeadStreamFlattens ==
  (last_tick_us # 0 /\ now - last_tick_us >= Threshold /\ held # {})
    ~> (flatten_pending \/ held = {} \/ now - last_tick_us < Threshold)
=============================================================================
