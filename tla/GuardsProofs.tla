---------------------------- MODULE GuardsProofs ----------------------------
(***************************************************************************)
(* Of KillSwitch, for any nodes, capital and thresholds: a kill that a full *)
(* rebuild has seen holds, and a drift latch never outlives its kill.       *)
(* Of WsFlatten, for any nodes, threshold, delay and queue: the latch of    *)
(* the emergency flatten and its deadline agree, but for the one thread     *)
(* that is between its two stores.                                          *)
(* Of Shutdown, for any threads that push events, any cap on a pass and any *)
(* number of tail passes: what the joined threads left is submitted before  *)
(* the workers are told to stop, as far as one pass goes, and nothing is in *)
(* a queue when the books are saved that the tail's passes could reach.     *)
(***************************************************************************)
EXTENDS KillSwitch, WsFlatten, Shutdown, TLAPS

(* What a rebuild that saw the kill staged is blocked, and stays so until   *)
(* the next rebuild; what it pushed is blocked in the slot.                 *)
Blocked ==
  \A n \in Node : /\ begun[n] = "full" => pending_blocked[n]
                  /\ settled[n] = "full" => gate_blocked[n]

KillInv == KillTypeOK /\ Blocked /\ LatchOverKill

-----------------------------------------------------------------------------
LEMMA KillInitInv == KillInit => KillInv
<1> SUFFICES ASSUME KillInit PROVE KillInv
  OBVIOUS
<1> USE DEF KillInit, All
<1>1. Start \in Int /\ kill_word \in [global : BOOLEAN, nodes : SUBSET Node]
  BY EngineAssumption
<1>2. /\ node_killed \in [Node -> BOOLEAN] /\ drift_breached \in [Node -> BOOLEAN]
      /\ drift_latch \in [Node -> BOOLEAN] /\ permission \in [Node -> BOOLEAN]
      /\ granting \in [Node -> BOOLEAN] /\ pending_blocked \in [Node -> BOOLEAN]
      /\ gate_blocked \in [Node -> BOOLEAN]
      /\ oms_killed \in BOOLEAN /\ reset_request \in BOOLEAN /\ parked \in BOOLEAN
  BY ZenonT(30)
<1>3. KillTypeOK
  BY <1>1, <1>2 DEF KillTypeOK
<1>4. Blocked /\ LatchOverKill
  BY DEF Blocked, LatchOverKill
<1> QED BY <1>3, <1>4 DEF KillInv

(* Forgetting keeps the histories typed and adds nothing to them.           *)
LEMMA Forgotten ==
  ASSUME KillTypeOK, Forget
  PROVE  /\ begun' \in [Node -> {"none", "full", "lazy"}]
         /\ settled' \in [Node -> {"none", "full", "lazy"}]
         /\ \A n \in Node : /\ begun'[n] = "full" => begun[n] = "full"
                            /\ settled'[n] = "full" => settled[n] = "full"
BY DEF KillTypeOK, Forget

LEMMA BookStep ==
  ASSUME KillInv, NEW n \in Node, BookExit(n) \/ Drift(n)
  PROVE  KillInv'
<1> USE DEF KillInv, KillTypeOK, Blocked, LatchOverKill, flagVars, moneyVars, requestVars,
        slowVars, seenVars
<1>1. CASE BookExit(n)
  BY <1>1, KillAssumption DEF BookExit, Larger
<1>2. CASE Drift(n)
  BY <1>2 DEF Drift
<1> QED BY <1>1, <1>2

(* Steps 0 to 2 of the compose.                                             *)
LEMMA EvalStep == KillInv /\ ComposeEval => KillInv'
<1> SUFFICES ASSUME KillInv, ComposeEval PROVE KillInv'
  OBVIOUS
<1> USE DEF KillInv, KillTypeOK
<1>1. PICK unrealized \in [Node -> Marks] :
        /\ node_peak' = [n \in Node |-> NodeTrips(n, unrealized[n]).peak]
        /\ node_killed' = [n \in Node |-> \/ node_killed[n] /\ ~Reset(n)
                                          \/ NodeTrips(n, unrealized[n]).trip]
  BY DEF ComposeEval
<1>2. \A n \in Node : NodeTrips(n, unrealized[n]).peak \in Int
  <2> SUFFICES ASSUME NEW n \in Node PROVE NodeTrips(n, unrealized[n]).peak \in Int
    OBVIOUS
  <2>1. unrealized[n] \in Int
    BY KillAssumption
  <2>2. node_realized[n] \in Int /\ node_peak[n] \in Int
    OBVIOUS
  <2>3. Alloc \in Int
    BY KillAssumption
  <2> QED BY <2>1, <2>2, <2>3 DEF NodeTrips, Larger
<1>3. node_peak' \in [Node -> Int] /\ node_killed' \in [Node -> BOOLEAN]
  BY <1>1, <1>2
<1>4. /\ permission' \in [Node -> BOOLEAN] /\ oms_killed' \in BOOLEAN
      /\ drift_latch' \in [Node -> BOOLEAN]
  BY DEF ComposeEval, All, Latched
<1>5. Forget
  BY DEF ComposeEval
<1>6. KillTypeOK'
  BY <1>3, <1>4, <1>5, Forgotten DEF ComposeEval, moneyVars, slowVars
<1>7. Blocked'
  BY <1>5, Forgotten DEF ComposeEval, slowVars, Blocked
<1>8. LatchOverKill'
  BY <1>1 DEF ComposeEval, Latched, LatchOverKill
<1> QED BY <1>6, <1>7, <1>8

LEMMA WordStep == KillInv /\ ComposeWord => KillInv'
<1> SUFFICES ASSUME KillInv, ComposeWord PROVE KillInv'
  OBVIOUS
<1> USE DEF KillInv, KillTypeOK, ComposeWord
<1>1. kill_word' \in [global : BOOLEAN, nodes : SUBSET Node]
  BY DEF Word
<1>2. KillTypeOK'
  BY <1>1, Forgotten DEF moneyVars, flagVars, requestVars, slowVars
<1>3. Blocked' /\ LatchOverKill'
  BY Forgotten DEF Blocked, LatchOverKill, flagVars, slowVars
<1> QED BY <1>2, <1>3

LEMMA TailStep == KillInv /\ CycleTail => KillInv'
<1> SUFFICES ASSUME KillInv, CycleTail PROVE KillInv'
  OBVIOUS
<1> USE DEF KillInv, KillTypeOK, CycleTail
<1>1. KillTypeOK'
  <2>1. CASE reset_request
    <3>1. /\ node_killed' \in [Node -> BOOLEAN] /\ drift_breached' \in [Node -> BOOLEAN]
          /\ drift_latch' \in [Node -> BOOLEAN] /\ oms_killed' \in BOOLEAN
          /\ reset_request' \in BOOLEAN /\ parked' \in BOOLEAN
      BY <2>1, ZenonT(30) DEF All
    <3>2. /\ node_realized' \in [Node -> Int] /\ node_peak' \in [Node -> Int]
          /\ balance' \in Int /\ ks_peak' \in Int
      BY <2>1, EngineAssumption DEF All
    <3> QED BY <2>1, <3>1, <3>2, Forgotten DEF slowVars
  <2>2. CASE ~reset_request
    BY <2>2, Forgotten DEF moneyVars, flagVars, slowVars
  <2> QED BY <2>1, <2>2
<1>2. Blocked' /\ LatchOverKill'
  BY Forgotten DEF All, Blocked, LatchOverKill, flagVars, slowVars
<1> QED BY <1>1, <1>2

(* The slow path: a rebuild ties the block it stages to the kill it saw.    *)
LEMMA SlowPathStep ==
  ASSUME KillInv, NEW n \in Node, FullRebuild(n) \/ SlowStep(n)
  PROVE  KillInv'
<1> USE DEF KillInv, KillTypeOK, Blocked, LatchOverKill, moneyVars, flagVars, requestVars,
        seenVars
<1>1. CASE FullRebuild(n)
  BY <1>1 DEF FullRebuild, CycleBegins, ObeysKill
<1>2. CASE LazySkip(n)
  BY <1>2 DEF LazySkip, CycleBegins
<1>3. CASE PushParameters(n)
  BY <1>3 DEF PushParameters
<1>4. CASE GrantRead(n)
  BY <1>4 DEF GrantRead
<1>5. CASE GrantStore(n)
  BY <1>5 DEF GrantStore
<1> QED BY <1>1, <1>2, <1>3, <1>4, <1>5 DEF SlowStep

LEMMA AskStep ==
  ASSUME KillInv, AskPaperReset \/ \E n \in Node : AskNodeReset(n)
  PROVE  KillInv'
BY ZenonT(30) DEF AskPaperReset, AskNodeReset, KillInv, KillTypeOK, Blocked, LatchOverKill, moneyVars,
   flagVars, slowVars, seenVars

LEMMA KillNextInv == KillInv /\ [KillNext]_killVars => KillInv'
<1> SUFFICES ASSUME KillInv, [KillNext]_killVars PROVE KillInv'
  OBVIOUS
<1>1. CASE ComposerNext
  BY <1>1, BookStep, EvalStep, WordStep, TailStep DEF ComposerNext
<1>2. CASE AskPaperReset \/ \E n \in Node : AskNodeReset(n)
  BY <1>2, AskStep
<1>3. CASE \E n \in Node : FullRebuild(n) \/ SlowStep(n)
  BY <1>3, SlowPathStep
<1>4. CASE UNCHANGED killVars
  BY <1>4 DEF killVars, KillInv, KillTypeOK, Blocked, LatchOverKill, moneyVars, flagVars,
     requestVars, slowVars, seenVars
<1> QED BY <1>1, <1>2, <1>3, <1>4 DEF KillNext

LEMMA KillInvariant == KillSpec => []KillInv
BY KillInitInv, KillNextInv, PTL DEF KillSpec

-----------------------------------------------------------------------------
(* Flags, peaks, requests and positions of the threads stay in their types  *)
(* (EngineCommon.hpp 406-656).                                              *)
THEOREM KillTypeCorrect == KillSpec => []KillTypeOK
BY KillInvariant, PTL DEF KillInv

(* EventLoop_RebuildOneCore's kill mirrors and the grant race: once one     *)
(* full rebuild has seen the kill and pushed, the core cannot enter.        *)
THEOREM KillAlwaysHolds == KillSpec => []KillHolds
<1>1. Blocked => KillHolds
  BY DEF Blocked, KillHolds, MayEnter
<1> QED BY <1>1, KillInvariant, PTL DEF KillInv

(* Every path that clears KILL_TRIPPED clears the drift latch with it.      *)
THEOREM LatchNeverOutlives == KillSpec => []LatchOverKill
BY KillInvariant, PTL DEF KillInv

-----------------------------------------------------------------------------
(* A thread tries to take away only a deadline it has seen set: the compare *)
(* and swap that wins is on a set deadline, when nobody is between.         *)
SeenSet == \A n \in SlowPath : cycle[n] = "clear" => until[n] # 0

FlattenInv == FlattenTypeOK /\ LatchOwned /\ SeenSet

-----------------------------------------------------------------------------
LEMMA FlattenInitInv == FlattenInit => FlattenInv
<1> SUFFICES ASSUME FlattenInit PROVE FlattenInv
  OBVIOUS
<1>1. QueueSize \in Nat
  BY FlattenAssumption
<1>2. FlattenTypeOK
  <2>1. producing \in BOOLEAN /\ flatten_pending \in BOOLEAN
    BY Zenon DEF FlattenInit
  <2>2. now \in Nat /\ last_tick_us \in Nat /\ recovery_until \in Nat
    BY DEF FlattenInit
  <2>3. submit_queue \in [Node -> 0 .. QueueSize]
    BY <1>1 DEF FlattenInit
  <2>4. cycle_now \in [SlowPath -> Nat] /\ until \in [SlowPath -> Nat]
    BY DEF FlattenInit
  <2> QED BY <2>1, <2>2, <2>3, <2>4 DEF FlattenInit, FlattenTypeOK
<1>3. LatchOwned /\ SeenSet
  BY DEF FlattenInit, LatchOwned, SeenSet, Between
<1> QED BY <1>2, <1>3 DEF FlattenInv

(* The steps that touch neither latch, deadline nor cycle.                  *)
LEMMA OutsideStep ==
  ASSUME FlattenInv,
         \/ Clock \/ TickCounted \/ TickDated
         \/ \E s \in Node : Opens(s) \/ OtherCommand(s) \/ Drains(s)
  PROVE  FlattenInv'
<1>1. FlattenTypeOK'
  <2> USE DEF FlattenInv, FlattenTypeOK, clockVars, latchVars, bookVars
  <2>1. CASE Clock \/ TickCounted \/ TickDated
    <3>1. producing' \in BOOLEAN /\ flatten_pending' \in BOOLEAN
      BY <2>1, Zenon DEF Clock, TickCounted, TickDated
    <3> QED BY <2>1, <3>1 DEF Clock, TickCounted, TickDated
  <2>2. ASSUME NEW s \in Node, Opens(s) \/ OtherCommand(s) \/ Drains(s)
        PROVE  FlattenTypeOK'
    BY <2>2, FlattenAssumption DEF Opens, OtherCommand, Drains
  <2> QED BY <2>1, <2>2
<1>2. UNCHANGED <<latchVars, cycle, until>>
  BY DEF Clock, TickCounted, TickDated, Opens, OtherCommand, Drains
<1>3. LatchOwned' /\ SeenSet'
  BY <1>2 DEF FlattenInv, LatchOwned, SeenSet, Between, latchVars
<1> QED BY <1>1, <1>3 DEF FlattenInv

(* Each step of a cycle keeps the types.                                    *)
LEMMA CycleTypes ==
  ASSUME FlattenInv, NEW n \in SlowPath, CycleStep(n) \/ LoadDeadline(n)
  PROVE  FlattenTypeOK'
<1> USE FlattenAssumption DEF FlattenInv, FlattenTypeOK, Goes, Ends, clockVars, latchVars, bookVars
<1>1. CASE CycleStarts(n)
  BY <1>1 DEF CycleStarts
<1>2. CASE LoadDeadline(n)
  BY <1>2 DEF LoadDeadline
<1>3. CASE LazyRebuild(n)
  BY <1>3 DEF LazyRebuild
<1>4. CASE ClearDeadline(n)
  BY <1>4 DEF ClearDeadline
<1>5. CASE ReleaseLatch(n)
  BY <1>5 DEF ReleaseLatch
<1>6. CASE CheckStaleness(n)
  BY <1>6 DEF CheckStaleness
<1>7. CASE WinLatch(n)
  <2>1. CASE ~flatten_pending
    BY <1>7, <2>1 DEF WinLatch
  <2>2. CASE flatten_pending
    BY <1>7, <2>2 DEF WinLatch
  <2> QED BY <2>1, <2>2
<1>8. CASE OpenWindow(n)
  BY <1>8 DEF OpenWindow
<1>9. CASE CloseSlot(n)
  BY <1>9 DEF CloseSlot
<1>10. CASE FlattenEnds(n)
  BY <1>10 DEF FlattenEnds
<1> QED BY <1>1, <1>2, <1>3, <1>4, <1>5, <1>6, <1>7, <1>8, <1>9, <1>10 DEF CycleStep

(* The steps of a cycle that store latch or deadline are those of a thread  *)
(* that comes to be between the stores, or stops to be.                     *)
LEMMA CycleStepInv ==
  ASSUME FlattenInv, NEW n \in SlowPath, CycleStep(n) \/ LoadDeadline(n)
  PROVE  FlattenInv'
<1>0. FlattenTypeOK'
  BY CycleTypes
<1> USE DEF FlattenInv, FlattenTypeOK, LatchOwned, SeenSet, Between, Goes, Ends, clockVars,
        latchVars, bookVars
<1>1. CASE CycleStarts(n)
  BY <1>0, <1>1 DEF CycleStarts
<1>2. CASE LoadDeadline(n)
  BY <1>0, <1>2 DEF LoadDeadline, Elapsed
<1>3. CASE LazyRebuild(n)
  BY <1>0, <1>3 DEF LazyRebuild
<1>4. CASE ClearDeadline(n)
  <2>1. CASE recovery_until = until[n]
    <3>1. \A m \in SlowPath : ~Between(m)
      BY <1>4, <2>1 DEF ClearDeadline
    <3> QED BY <1>0, <1>4, <2>1, <3>1 DEF ClearDeadline
  <2>2. CASE recovery_until # until[n]
    BY <1>0, <1>4, <2>2 DEF ClearDeadline
  <2> QED BY <2>1, <2>2
<1>5. CASE ReleaseLatch(n)
  <2>1. recovery_until = 0 /\ \A m \in SlowPath \ {n} : ~Between(m)
    BY <1>5 DEF ReleaseLatch
  <2> QED BY <1>0, <1>5, <2>1 DEF ReleaseLatch
<1>6. CASE CheckStaleness(n)
  BY <1>0, <1>6 DEF CheckStaleness
<1>7. CASE WinLatch(n)
  <2>1. CASE ~flatten_pending
    BY <1>0, <1>7, <2>1 DEF WinLatch
  <2>2. CASE flatten_pending
    BY <1>0, <1>7, <2>2 DEF WinLatch
  <2> QED BY <2>1, <2>2
<1>8. CASE OpenWindow(n)
  <2>1. recovery_until' # 0
    BY <1>8, FlattenAssumption DEF OpenWindow
  <2>2. \A m \in SlowPath \ {n} : ~Between(m)
    BY <1>8 DEF OpenWindow
  <2> QED BY <1>0, <1>8, <2>1, <2>2 DEF OpenWindow
<1>9. CASE CloseSlot(n)
  BY <1>0, <1>9 DEF CloseSlot
<1>10. CASE FlattenEnds(n)
  BY <1>0, <1>10 DEF FlattenEnds
<1> QED BY <1>1, <1>2, <1>3, <1>4, <1>5, <1>6, <1>7, <1>8, <1>9, <1>10 DEF CycleStep

LEMMA FlattenNextInv == FlattenInv /\ [FlattenNext]_flattenVars => FlattenInv'
<1> SUFFICES ASSUME FlattenInv, [FlattenNext]_flattenVars PROVE FlattenInv'
  OBVIOUS
<1>1. CASE \E n \in SlowPath : CycleStep(n) \/ LoadDeadline(n)
  BY <1>1, CycleStepInv
<1>2. CASE \/ Clock \/ TickCounted \/ TickDated
           \/ \E s \in Node : Opens(s) \/ OtherCommand(s) \/ Drains(s)
  BY <1>2, OutsideStep
<1>3. CASE UNCHANGED flattenVars
  BY <1>3 DEF flattenVars, clockVars, latchVars, bookVars, FlattenInv, FlattenTypeOK, LatchOwned,
     SeenSet, Between
<1> QED BY <1>1, <1>2, <1>3 DEF FlattenNext

LEMMA FlattenInvariant == FlattenSpec => []FlattenInv
BY FlattenInitInv, FlattenNextInv, PTL DEF FlattenSpec

-----------------------------------------------------------------------------
(* Clock, threads and queues keep to their ranges (ControllerEventLoop.hpp  *)
(* 3845-4027).                                                              *)
THEOREM FlattenTypeCorrect == FlattenSpec => []FlattenTypeOK
BY FlattenInvariant, PTL DEF FlattenInv

(* EventLoop_CheckWsStaleness and EventLoop_TryClearRecovery keep latch and *)
(* deadline in step: a latch nobody can clear, and a second flatten inside  *)
(* the window of the first, are impossible.                                 *)
THEOREM LatchAlwaysOwned == FlattenSpec => []LatchOwned
BY FlattenInvariant, PTL DEF FlattenInv

-----------------------------------------------------------------------------
(* The shutdown.                                                            *)

Counts ==
  /\ events \in [Source -> Nat] /\ backlog \in [Source -> Nat]
  /\ generation \in Nat /\ tail \in Int
  /\ queued \in Nat /\ adapter \in Nat /\ wire \in Nat /\ reports \in Nat
Places ==
  /\ main \in {"run", "join", "wait", "workers", "grace", "stop", "drainer", "saved"}
  /\ pass \in {"head", "pump", "book", "compose", "gone"}
  /\ live_trading \in BOOLEAN

(* Nothing is pushed after the joins, and the tail begins after the request *)
(* that comes after everything else has been stopped.                       *)
Joins ==
  /\ main \notin {"run", "join"} => sources = {} /\ \A s \in Source : events[s] <= backlog[s]
  /\ composer_stop_request => main \in {"drainer", "saved"}
  /\ tail # NoTail => composer_stop_request /\ tail \in 0 .. TailPasses
  /\ pass = "head" => tail = NoTail
  /\ pass = "gone" => tail = 0
  /\ pass = "compose" => tail \in {NoTail, 0}
  /\ pass \in {"pump", "book"} => tail # 0
  /\ main = "saved" => pass = "gone"

Within(s, passes) == events[s] <= LeftOf(s, passes)

(* A cycle that is complete when main has seen one compose since its joins  *)
(* has begun after them, and takes one pass off every backlog.              *)
Cycled ==
  /\ main = "wait" /\ generation >= 1 /\ pass = "pump" =>
       \A s \in Source \ to_pump : Within(s, 1)
  /\ main = "wait" /\ generation >= 1 /\ pass \in {"book", "compose"} =>
       \A s \in Source : Within(s, 1)
  /\ main = "wait" /\ generation >= 2 => \A s \in Source : Within(s, 1)
  /\ main \in {"workers", "grace", "stop"} /\ ~timed_out => \A s \in Source : Within(s, 1)

(* The tail's passes, counted down.                                         *)
Tailed ==
  /\ pass = "pump" /\ tail > 0 =>
       /\ \A s \in Source : Within(s, TailPasses - tail)
       /\ \A s \in Source \ to_pump : Within(s, TailPasses - tail + 1)
  /\ pass = "book" /\ tail > 0 => \A s \in Source : Within(s, TailPasses - tail + 1)
  /\ tail = 0 => reports = 0 /\ \A s \in Source : Within(s, TailPasses)

(* Who may still make a report.                                             *)
Quiet ==
  /\ ~live_trading => adapter = 0 /\ wire = 0 /\ reports = 0 /\ worker # "call"
  /\ live_trading /\ main \in {"grace", "stop", "drainer", "saved"} => worker = "gone"
  /\ live_trading /\ main \in {"stop", "drainer", "saved"} => ~ws_up
  /\ pass # "pump" => queued = 0

Types == Counts /\ Places
ShutdownInv == Types /\ Joins /\ Cycled /\ Tailed /\ Quiet

-----------------------------------------------------------------------------
LEMMA Caps == EventsPerDrain \in Nat /\ TailPasses \in Nat /\ TailPasses > 0
BY ShutdownAssumption

LEMMA LeastOfTwo ==
  ASSUME NEW a \in Nat, NEW b \in Nat
  PROVE  Min({a, b}) = IF a <= b THEN a ELSE b
<1>1. CASE a <= b
  <2>1. \A x \in {a, b} : (\A y \in {a, b} : x <= y) <=> x = a
    BY <1>1
  <2>2. Min({a, b}) = a
    BY <2>1, Zenon DEF Min
  <2> QED BY <1>1, <2>2
<1>2. CASE ~(a <= b)
  <2>1. \A x \in {a, b} : (\A y \in {a, b} : x <= y) <=> x = b
    BY <1>2
  <2>2. Min({a, b}) = b
    BY <2>1, Zenon DEF Min
  <2> QED BY <1>2, <2>2
<1> QED BY <1>1, <1>2

(* No pass leaves what the joins left, one more takes EventsPerDrain.       *)
LEMMA LeftNone ==
  ASSUME backlog \in [Source -> Nat], NEW s \in Source PROVE LeftOf(s, 0) = backlog[s]
BY Caps DEF LeftOf

LEMMA LeftOneMore ==
  ASSUME backlog \in [Source -> Nat], NEW s \in Source, NEW k \in Nat, NEW n \in Nat,
         n <= LeftOf(s, k)
  PROVE  n - Min({n, EventsPerDrain}) <= LeftOf(s, k + 1)
<1> DEFINE taken == k * EventsPerDrain
<1>1. taken \in Nat /\ (k + 1) * EventsPerDrain = taken + EventsPerDrain
  BY Caps
<1>2. LeftOf(s, k) = IF backlog[s] > taken THEN backlog[s] - taken ELSE 0
  BY DEF LeftOf
<1>3. LeftOf(s, k + 1) = IF backlog[s] > taken + EventsPerDrain
                           THEN backlog[s] - (taken + EventsPerDrain) ELSE 0
  BY <1>1 DEF LeftOf
<1>4. Min({n, EventsPerDrain}) = IF n <= EventsPerDrain THEN n ELSE EventsPerDrain
  BY Caps, LeastOfTwo
<1>5. backlog[s] \in Nat
  OBVIOUS
<1> HIDE DEF taken
<1> QED BY <1>1, <1>2, <1>3, <1>4, <1>5, Caps

(* What is within a bound stays within it when nobody pushes.               *)
LEMMA StaysWithin ==
  ASSUME backlog' = backlog, events' = events
  PROVE  \A s, k : Within(s, k) => Within(s, k)'
BY DEF Within, LeftOf

-----------------------------------------------------------------------------
LEMMA InitShutdown == ShutdownInit => ShutdownInv
<1> SUFFICES ASSUME ShutdownInit PROVE ShutdownInv
  OBVIOUS
<1> USE DEF ShutdownInit
<1>1. Counts
  BY DEF Counts, None, NoTail
<1>2. Places
  BY DEF Places
<1>3. Joins
  BY DEF Joins, NoTail
<1>4. Cycled
  BY DEF Cycled
<1>5. Tailed
  BY DEF Tailed, NoTail
<1>6. Quiet
  BY DEF Quiet
<1> QED BY <1>1, <1>2, <1>3, <1>4, <1>5, <1>6 DEF ShutdownInv, Types

(* The sources.                                                             *)
LEMMA SourceSteps ==
  ASSUME ShutdownInv, NEW s \in Source, Push(s) \/ SourceStops(s)
  PROVE  ShutdownInv'
<1> USE DEF ShutdownInv
<1>1. CASE Push(s)
  <2>1. events' \in [Source -> Nat]
    BY <1>1 DEF Push, Types, Counts
  <2>2. main \in {"run", "join"} /\ main' = main
    BY <1>1 DEF Push, mainVars, Joins, Types, Places
  <2>3. tail = NoTail /\ tail' = NoTail /\ pass' = pass /\ composer_stop_request' = FALSE
    BY <1>1, <2>2 DEF Push, composerVars, Joins
  <2>4. Types'
    BY <1>1, <2>1 DEF Push, Types, Counts, Places, mainVars, composerVars, venueVars
  <2>5. Joins'
    BY <1>1, <2>2, <2>3 DEF Push, Joins, composerVars, mainVars
  <2>6. Cycled'
    BY <2>2 DEF Cycled
  <2>7. Tailed'
    BY <2>3 DEF Tailed, NoTail
  <2>8. Quiet'
    BY <1>1 DEF Push, Quiet, mainVars, composerVars, venueVars
  <2> QED BY <2>4, <2>5, <2>6, <2>7, <2>8
<1>2. CASE SourceStops(s)
  <2>1. Types'
    BY <1>2 DEF SourceStops, Types, Counts, Places, mainVars, composerVars, venueVars
  <2>2. Joins'
    BY <1>2 DEF SourceStops, Joins, mainVars, composerVars
  <2>3. Cycled'
    BY <1>2, StaysWithin DEF SourceStops, Cycled, mainVars, composerVars
  <2>4. Tailed'
    BY <1>2, StaysWithin DEF SourceStops, Tailed, mainVars, composerVars, venueVars
  <2>5. Quiet'
    BY <1>2 DEF SourceStops, Quiet, mainVars, composerVars, venueVars
  <2> QED BY <2>1, <2>2, <2>3, <2>4, <2>5
<1> QED BY <1>1, <1>2

-----------------------------------------------------------------------------
(* The composer.                                                            *)
LEMMA LoopHeadStep == ASSUME ShutdownInv, LoopHead PROVE ShutdownInv'
<1> USE DEF ShutdownInv
<1>1. tail = NoTail /\ tail' = IF composer_stop_request THEN TailPasses ELSE NoTail
  BY DEF LoopHead, Joins
<1>2. Types'
  BY <1>1, Caps DEF LoopHead, Types, Counts, Places, mainVars, sourceVars, venueVars, NoTail
<1>3. Joins'
  BY <1>1, Caps DEF LoopHead, Joins, Types, Places, mainVars, sourceVars, NoTail
<1>4. Cycled'
  BY StaysWithin DEF LoopHead, Cycled, mainVars, sourceVars
<1>5. Tailed'
  <2>1. CASE tail' = NoTail
    BY <2>1 DEF LoopHead, Tailed, NoTail
  <2>2. CASE tail' # NoTail
    <3>1. tail' = TailPasses /\ main \in {"drainer", "saved"}
      BY <1>1, <2>2 DEF Joins
    <3>2. TailPasses - TailPasses = 0
      BY Caps
    <3>3. \A s \in Source : Within(s, 0)
      BY <3>1, LeftNone DEF Joins, Within, Types, Counts
    <3>4. \A s \in Source : Within(s, 0)'
      BY <3>3, StaysWithin DEF LoopHead, mainVars, sourceVars
    <3>5. pass' = "pump" /\ to_pump' = Source
      BY DEF LoopHead
    <3> QED BY <3>1, <3>2, <3>4, <3>5, Caps DEF Tailed
  <2> QED BY <2>1, <2>2
<1>6. Quiet'
  BY DEF LoopHead, Quiet, mainVars, venueVars
<1> QED BY <1>2, <1>3, <1>4, <1>5, <1>6

LEMMA PumpStep ==
  ASSUME ShutdownInv, NEW s \in Source, PumpEvents(s) PROVE ShutdownInv'
<1> USE DEF ShutdownInv
<1> DEFINE n == Min({events[s], EventsPerDrain})
<1>1. events[s] \in Nat /\ n \in Nat /\ events[s] - n \in Nat
  BY LeastOfTwo, Caps DEF Types, Counts
<1>2. events' = [events EXCEPT ![s] = @ - n] /\ queued' = queued + n
      /\ backlog' = backlog /\ tail' = tail /\ pass = "pump" /\ pass' = "pump"
      /\ to_pump' = to_pump \ {s}
  BY DEF PumpEvents, mainVars
<1>3. events' \in [Source -> Nat] /\ events'[s] = events[s] - n
      /\ \A r \in Source \ {s} : events'[r] = events[r]
  BY <1>1, <1>2 DEF Types, Counts
<1>4. \A r \in Source : events'[r] <= events[r]
  BY <1>1, <1>3 DEF Types, Counts
<1>5. \A r \in Source : \A k : LeftOf(r, k)' = LeftOf(r, k)
  BY <1>2 DEF LeftOf
<1>6. ASSUME NEW k \in Nat, Within(s, k) PROVE Within(s, k + 1)'
  BY <1>1, <1>2, <1>3, <1>5, <1>6, LeftOneMore DEF Within, Types, Counts
<1>7. ASSUME NEW k \in Nat, NEW r \in Source, Within(r, k) PROVE Within(r, k)'
  <2>1. LeftOf(r, k) \in Int
    BY Caps DEF LeftOf, Types, Counts
  <2> QED BY <1>3, <1>4, <1>5, <1>7, <2>1 DEF Within, Types, Counts
<1>8. Types'
  BY <1>1, <1>2, <1>3 DEF PumpEvents, Types, Counts, Places, mainVars, venueVars
<1>9. Joins'
  BY <1>1, <1>2, <1>3, <1>4 DEF PumpEvents, Joins, Types, Counts, mainVars
<1>10. Cycled'
  <2>1. main' = main /\ generation' = generation /\ timed_out' = timed_out
    BY DEF PumpEvents, mainVars
  <2>2. main = "wait" => Within(s, 0)
    BY LeftNone DEF Within, Joins, Types, Counts
  <2>3. main = "wait" => Within(s, 1)'
    BY <1>6, <2>2
  <2> QED BY <1>2, <1>7, <2>1, <2>3 DEF Cycled
<1>11. Tailed'
  <2>1. CASE tail > 0
    <3>1. PICK k \in Nat : k = TailPasses - tail
      BY <2>1, Caps DEF Joins, NoTail
    <3>2. k + 1 \in Nat /\ k + 1 = TailPasses - tail + 1
      BY <3>1
    <3>3. \A r \in Source : Within(r, k)
      BY <1>2, <2>1, <3>1 DEF Tailed
    <3>4. \A r \in Source : Within(r, k)'
      BY <1>7, <3>3
    <3>5. Within(s, k + 1)'
      BY <1>6, <3>3
    <3>6. \A r \in Source \ to_pump : Within(r, k + 1)
      BY <1>2, <2>1, <3>2 DEF Tailed
    <3>7. \A r \in Source \ to_pump : Within(r, k + 1)'
      BY <1>7, <3>2, <3>6
    <3>8. \A r \in Source \ to_pump' : Within(r, k + 1)'
      BY <1>2, <3>5, <3>7
    <3>9. k = TailPasses - tail' /\ k + 1 = TailPasses - tail' + 1
      BY <1>2, <3>1, <3>2
    <3>10. (\A r \in Source : Within(r, TailPasses - tail))'
      BY <3>4, <3>9 DEF Within, LeftOf
    <3>11. (\A r \in Source \ to_pump : Within(r, TailPasses - tail + 1))'
      BY <3>8, <3>9 DEF Within, LeftOf
    <3> QED BY <1>2, <2>1, <3>10, <3>11 DEF Tailed
  <2>2. CASE ~(tail > 0)
    BY <1>2, <2>2 DEF Tailed, Joins
  <2> QED BY <2>1, <2>2
<1>12. Quiet'
  BY DEF PumpEvents, Quiet, mainVars, venueVars
<1> QED BY <1>8, <1>9, <1>10, <1>11, <1>12

LEMMA SubmitStep == ASSUME ShutdownInv, DrainSubmit PROVE ShutdownInv'
<1> USE DEF ShutdownInv
<1>1. Types'
  BY DEF DrainSubmit, Types, Counts, Places, mainVars, sourceVars
<1>2. Joins'
  BY DEF DrainSubmit, Joins, mainVars, sourceVars
<1>3. Cycled'
  BY StaysWithin DEF DrainSubmit, Cycled, mainVars, sourceVars
<1>4. Tailed'
  BY StaysWithin DEF DrainSubmit, Tailed, mainVars, sourceVars
<1>5. Quiet'
  BY DEF DrainSubmit, Quiet, Accepts, mainVars
<1> QED BY <1>1, <1>2, <1>3, <1>4, <1>5

LEMMA BookReportsStep == ASSUME ShutdownInv, BookReports PROVE ShutdownInv'
<1> USE DEF ShutdownInv
<1>1. Types'
  BY DEF BookReports, Types, Counts, Places, mainVars, sourceVars, NoTail
<1>2. CASE tail = NoTail
  <2>1. tail' = NoTail /\ pass' = "compose"
    BY <1>2 DEF BookReports, NoTail
  <2>2. Joins'
    BY <1>2, <2>1 DEF BookReports, Joins, mainVars, sourceVars
  <2>3. Cycled'
    BY <2>1, StaysWithin DEF BookReports, Cycled, mainVars, sourceVars
  <2>4. Tailed'
    BY <2>1 DEF Tailed, NoTail
  <2>5. Quiet'
    BY DEF BookReports, Quiet, mainVars
  <2> QED BY <1>1, <2>2, <2>3, <2>4, <2>5
<1>3. CASE tail # NoTail
  <2>1. tail \in 1 .. TailPasses /\ main \in {"drainer", "saved"}
    BY <1>3, Caps DEF BookReports, Joins, NoTail
  <2>2. tail' = tail - 1 /\ pass' = IF tail' > 0 THEN "pump" ELSE "compose"
    BY <1>3 DEF BookReports
  <2>3. Joins'
    BY <1>3, <2>1, <2>2, Caps DEF BookReports, Joins, mainVars, sourceVars, NoTail
  <2>4. Cycled'
    BY <2>1 DEF BookReports, Cycled, mainVars
  <2>5. PICK k \in Nat : k = TailPasses - tail + 1
    BY <2>1, Caps
  <2>6. k = TailPasses - tail' /\ to_pump' = Source /\ tail' \in 0 .. TailPasses
    BY <2>1, <2>2, <2>5, Caps DEF BookReports
  <2>7. Tailed'
    <3>1. \A s \in Source : Within(s, k)
      BY <2>1, <2>5 DEF BookReports, Tailed
    <3>2. \A s \in Source : Within(s, k)'
      BY <3>1, StaysWithin DEF BookReports, mainVars, sourceVars
    <3>3. (\A s \in Source : Within(s, TailPasses - tail))'
      BY <2>6, <3>2 DEF Within, LeftOf
    <3>4. tail' = 0 => \A s \in Source : Within(s, TailPasses)'
      BY <2>6, <3>2, Caps
    <3>5. tail' = 0 => pass' = "compose" /\ reports' = 0
      BY <2>2 DEF BookReports
    <3>6. tail' > 0 => pass' = "pump"
      BY <2>2
    <3> QED BY <2>6, <3>3, <3>4, <3>5, <3>6 DEF Tailed
  <2>8. Quiet'
    BY DEF BookReports, Quiet, mainVars
  <2> QED BY <1>1, <2>3, <2>4, <2>7, <2>8
<1> QED BY <1>2, <1>3

LEMMA ComposeStep == ASSUME ShutdownInv, Compose PROVE ShutdownInv'
<1> USE DEF ShutdownInv
<1>1. Min({generation + 1, 2}) \in Nat
  BY LeastOfTwo DEF Types, Counts
<1>2. generation' \in Nat
  BY <1>1 DEF Compose, Types, Counts
<1>3. Types'
  BY <1>2 DEF Compose, Types, Counts, Places, mainVars, sourceVars, venueVars
<1>4. Joins'
  BY DEF Compose, Joins, mainVars, sourceVars, NoTail
<1>5. main = "wait" => generation' <= 1 \/ \A s \in Source : Within(s, 1)
  BY LeastOfTwo DEF Compose, Cycled, Types, Counts
<1>6. Cycled'
  BY <1>2, <1>5, StaysWithin DEF Compose, Cycled, mainVars, sourceVars
<1>7. Tailed'
  BY StaysWithin DEF Compose, Tailed, mainVars, sourceVars, venueVars
<1>8. Quiet'
  BY DEF Compose, Quiet, mainVars, venueVars
<1> QED BY <1>3, <1>4, <1>6, <1>7, <1>8

-----------------------------------------------------------------------------
(* The worker and the user-data stream.                                     *)
LEMMA VenueSteps ==
  ASSUME ShutdownInv, WorkerStep \/ StreamReports
  PROVE  ShutdownInv'
<1> USE DEF ShutdownInv
<1>1. UNCHANGED <<mainVars, sourceVars, composerVars, queued, live_trading>>
  BY DEF WorkerStep, WorkerLooks, WorkerTakes, WorkerAnswers, StreamReports
<1>2. adapter' \in Nat /\ wire' \in Nat /\ reports' \in Nat
  BY DEF WorkerStep, WorkerLooks, WorkerTakes, WorkerAnswers, StreamReports, Types, Counts
<1>3. Types'
  BY <1>1, <1>2 DEF Types, Counts, Places, mainVars, sourceVars, composerVars
<1>4. Joins'
  BY <1>1 DEF Joins, mainVars, sourceVars, composerVars
<1>5. Cycled'
  BY <1>1, StaysWithin DEF Cycled, mainVars, sourceVars, composerVars
<1>6. Quiet'
  BY <1>1 DEF WorkerStep, WorkerLooks, WorkerTakes, WorkerAnswers, StreamReports, Quiet,
     Types, Counts, mainVars, composerVars
<1>7. tail = 0 => reports' = reports
  <2>1. tail = 0 => main \in {"drainer", "saved"}
    BY DEF Joins, NoTail
  <2>2. tail = 0 /\ live_trading => worker = "gone" /\ ~ws_up
    BY <2>1 DEF Quiet
  <2>3. tail = 0 /\ ~live_trading => worker # "call" /\ wire = 0
    BY DEF Quiet
  <2> QED
    BY <2>2, <2>3 DEF WorkerStep, WorkerLooks, WorkerTakes, WorkerAnswers, StreamReports,
       Types, Places
<1>8. Tailed'
  BY <1>1, <1>7, StaysWithin DEF Tailed, mainVars, sourceVars, composerVars
<1> QED BY <1>3, <1>4, <1>5, <1>6, <1>8

-----------------------------------------------------------------------------
(* The main thread.                                                         *)
LEMMA JoinSourcesStep == ASSUME ShutdownInv, JoinSources PROVE ShutdownInv'
<1> USE DEF ShutdownInv
<1>1. main = "join" /\ main' = "wait" /\ sources' = {} /\ events' = events
      /\ backlog' = events /\ generation' = 0 /\ tail = NoTail /\ tail' = tail
      /\ pass' = pass /\ composer_stop_request' = composer_stop_request
  BY DEF JoinSources, MainGoes, Joined, sourceVars, Joins
<1>2. Types'
  BY <1>1 DEF JoinSources, Types, Counts, Places, venueVars
<1>3. Joins'
  BY <1>1 DEF Joins, Types, Counts
<1>4. Cycled'
  BY <1>1 DEF Cycled
<1>5. Tailed'
  BY <1>1 DEF Tailed, NoTail
<1>6. Quiet'
  BY <1>1 DEF JoinSources, Quiet, venueVars
<1> QED BY <1>2, <1>3, <1>4, <1>5, <1>6

LEMMA MainSteps ==
  ASSUME ShutdownInv,
         Signal \/ WaitForCycle \/ JoinWorkers \/ JoinStream \/ StopComposer \/ JoinComposer
  PROVE  ShutdownInv'
<1> USE DEF ShutdownInv
<1> USE DEF Signal, WaitForCycle, JoinWorkers, JoinStream, StopComposer, JoinComposer,
            MainGoes
<1>1. UNCHANGED <<sourceVars, pass, to_pump, tail, generation, queued, live_trading,
                  backlog, adapter, worker, wire, reports>>
  BY DEF composerVars, venueVars
<1>2. Types'
  BY <1>1 DEF Types, Counts, Places, sourceVars
<1>3. Joins'
  BY <1>1 DEF Joins, sourceVars, composerVars
<1>4. Cycled'
  <2>1. CASE WaitForCycle
    <3>1. ~timed_out' => generation >= 2
      BY <2>1 DEF CycleDone
    <3>2. ~timed_out' => \A s \in Source : Within(s, 1)
      BY <2>1, <3>1 DEF Cycled
    <3> QED BY <1>1, <2>1, <3>2, StaysWithin DEF Cycled, sourceVars
  <2>2. CASE Signal \/ JoinWorkers \/ JoinStream \/ StopComposer \/ JoinComposer
    BY <1>1, <2>2, StaysWithin DEF Cycled, sourceVars
  <2> QED BY <2>1, <2>2
<1>5. Tailed'
  BY <1>1, StaysWithin DEF Tailed, sourceVars
<1>6. Quiet'
  BY <1>1 DEF Quiet, venueVars
<1> QED BY <1>2, <1>3, <1>4, <1>5, <1>6

LEMMA ShutdownStep == ShutdownInv /\ [ShutdownNext]_shutdownVars => ShutdownInv'
<1> SUFFICES ASSUME ShutdownInv, [ShutdownNext]_shutdownVars PROVE ShutdownInv'
  OBVIOUS
<1>1. CASE \E s \in Source : Push(s) \/ SourceStops(s)
  BY <1>1, SourceSteps
<1>2. CASE ComposerStep
  BY <1>2, LoopHeadStep, PumpStep, SubmitStep, BookReportsStep, ComposeStep DEF ComposerStep
<1>3. CASE WorkerStep \/ StreamReports
  BY <1>3, VenueSteps
<1>4. CASE Signal \/ MainStep
  BY <1>4, JoinSourcesStep, MainSteps DEF MainStep
<1>5. CASE UNCHANGED shutdownVars
  <2> USE <1>5 DEF ShutdownInv, shutdownVars, mainVars, sourceVars, composerVars, venueVars
  <2>1. Types'
    BY DEF Types, Counts, Places
  <2>2. Joins'
    BY DEF Joins
  <2>3. Cycled'
    BY StaysWithin DEF Cycled
  <2>4. Tailed'
    BY StaysWithin DEF Tailed
  <2>5. Quiet'
    BY DEF Quiet
  <2> QED BY <2>1, <2>2, <2>3, <2>4, <2>5
<1> QED BY <1>1, <1>2, <1>3, <1>4, <1>5 DEF ShutdownNext

(* A cycle that started after the joins has pumped what they left, up to    *)
(* the cap of a pass, before the workers are told to stop (Run.hpp:2425).   *)
THEOREM BacklogSubmitted == ShutdownSpec => []SourcesFlushed
<1>1. ShutdownInv => SourcesFlushed
  BY DEF ShutdownInv, Cycled, SourcesFlushed, Within
<1> QED BY InitShutdown, ShutdownStep, <1>1, PTL DEF ShutdownSpec

(* When the books are saved no report is in a queue, and of a backlog only  *)
(* what the tail's passes could not take (Run.hpp:2367).                    *)
THEOREM TailTakesAll == ShutdownSpec => []NothingStranded
<1>1. ShutdownInv => NothingStranded
  <2> SUFFICES ASSUME ShutdownInv, main = "saved" PROVE NothingStranded
    BY DEF NothingStranded
  <2>1. pass = "gone" /\ tail = 0
    BY DEF ShutdownInv, Joins
  <2> QED BY <2>1 DEF ShutdownInv, Tailed, Quiet, NothingStranded, Within
<1> QED BY InitShutdown, ShutdownStep, <1>1, PTL DEF ShutdownSpec
=============================================================================
