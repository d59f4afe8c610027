------------------------------ MODULE Shutdown ------------------------------
(***************************************************************************)
(* The shutdown of the sharded engine (EngineSharded_Run, stages 1 to 5):   *)
(* main stops and joins the threads in an order that is to leave no event   *)
(* unsubmitted and no report unbooked.  An order source is a thread that    *)
(* pushes events for the composer: the hot cores, the slow paths, the GUI.  *)
(* Kept: who may still run when, what each thread leaves in its queue, and  *)
(* the caps.  Left out: what an order is; events and reports are counted.   *)
(***************************************************************************)
EXTENDS Integers, FiniteSetsExt

CONSTANTS
  Source,          \* the threads that push events for the composer
  EventsPerDrain,  \* MAX_EVENTS_PER_DRAIN_PER_NODE
  TailPasses,      \* ENGINE_SHUTDOWN_TAIL_PASSES
  MaxEvents        \* bound: events of a source

ASSUME ShutdownAssumption == {EventsPerDrain, TailPasses, MaxEvents} \subseteq Nat \ {0}

VARIABLES
  live_trading,
  main,                  \* where the main thread is
  sources,               \* order sources still running
  pushes,                \* events a source may still push: the bound
  events,                \* event_ring of a source: events in it
  composer_stop_request, pass, to_pump, \* the composer: where its pass is
  tail,                  \* passes of its tail still to run
  generation,            \* composes since main began to wait
  queued, adapter,       \* submit queues, adapter's submission_queue
  worker,                \* the REST worker
  wire, ws_up, reports,  \* at the venue; user-data stream; result queues
  timed_out, backlog     \* history: the wait was given up; events at the joins

composerVars == <<composer_stop_request, pass, to_pump, tail, generation>>
venueVars == <<adapter, worker, wire, ws_up, reports>>
mainVars == <<main, timed_out, backlog>>
sourceVars == <<sources, pushes, events>>
shutdownVars == <<live_trading, mainVars, sourceVars, composerVars, queued, venueVars>>

NoTail == -1
None == [s \in Source |-> 0]

ShutdownInit ==
  /\ live_trading \in BOOLEAN
  /\ main = "run" /\ timed_out = FALSE /\ backlog = None
  /\ sources = Source /\ pushes = [s \in Source |-> MaxEvents] /\ events = None
  /\ composer_stop_request = FALSE /\ pass = "pump" /\ to_pump = Source
  /\ tail = NoTail /\ generation = 0
  /\ queued = 0 /\ adapter = 0 /\ worker = "look"
  /\ wire = 0 /\ ws_up = TRUE /\ reports = 0

-----------------------------------------------------------------------------
(* A source pushes until it sees the flag; what it was about to push when   *)
(* the flag was set still comes.                                            *)
Push(s) ==
  /\ s \in sources /\ pushes[s] > 0
  /\ pushes' = [pushes EXCEPT ![s] = @ - 1]
  /\ events' = [events EXCEPT ![s] = @ + 1]
  /\ UNCHANGED <<live_trading, mainVars, sources, composerVars, queued, venueVars>>
SourceStops(s) ==
  /\ s \in sources /\ main # "run" /\ sources' = sources \ {s}
  /\ UNCHANGED <<live_trading, mainVars, pushes, events, composerVars, queued, venueVars>>

-----------------------------------------------------------------------------
(* The composer: EngineSharded_Drainer_BookPass, then the compose; on the   *)
(* stop request its tail, with one compose after the passes.                *)
LoopHead ==
  /\ pass = "head" /\ pass' = "pump" /\ to_pump' = Source
  /\ tail' = IF composer_stop_request THEN TailPasses ELSE tail
  /\ UNCHANGED <<live_trading, mainVars, sourceVars, composer_stop_request, generation,
                 queued, venueVars>>
PumpEvents(s) ==
  /\ pass = "pump" /\ s \in to_pump /\ to_pump' = to_pump \ {s}
  /\ LET n == Min({events[s], EventsPerDrain})
     IN events' = [events EXCEPT ![s] = @ - n] /\ queued' = queued + n
  /\ UNCHANGED <<live_trading, mainVars, sources, pushes, composer_stop_request, pass,
                 tail, generation, venueVars>>

(* OMS_DrainSubmit.  A paper order is filled, and booked, within the pass;  *)
(* an adapter that is shut down refuses.                                    *)
Accepts == live_trading /\ main \in {"run", "join", "wait"}
DrainSubmit ==
  /\ pass = "pump" /\ to_pump = {} /\ pass' = "book"
  /\ queued' = 0 /\ adapter' = IF Accepts THEN adapter + queued ELSE adapter
  /\ UNCHANGED <<live_trading, mainVars, sourceVars, composer_stop_request, to_pump,
                 tail, generation, worker, wire, ws_up, reports>>

(* The phased drain books every report that is there.                       *)
BookReports ==
  /\ pass = "book" /\ reports' = 0
  /\ tail' = IF tail = NoTail THEN NoTail ELSE tail - 1
  /\ pass' = IF tail' > 0 THEN "pump" ELSE "compose"
  /\ to_pump' = Source
  /\ UNCHANGED <<live_trading, mainVars, sourceVars, composer_stop_request, generation,
                 queued, adapter, worker, wire, ws_up>>
Compose ==
  /\ pass = "compose" /\ pass' = IF tail = NoTail THEN "head" ELSE "gone"
  /\ generation' = IF main = "wait" THEN Min({generation + 1, 2}) ELSE generation
  /\ UNCHANGED <<live_trading, mainVars, sourceVars, composer_stop_request, to_pump,
                 tail, queued, venueVars>>
ComposerStep ==
  LoopHead \/ (\E s \in Source : PumpEvents(s)) \/ DrainSubmit \/ BookReports \/ Compose

-----------------------------------------------------------------------------
(* The worker looks at the shutdown flag before it takes an order, and only *)
(* then; the answer of the call carries the fill, or leaves it to the       *)
(* user-data stream.                                                        *)
WorkerFlagged == main \in {"workers", "grace", "stop", "drainer", "saved"}
WorkerLooks ==
  /\ worker = "look" /\ worker' = IF WorkerFlagged THEN "gone" ELSE "take"
  /\ UNCHANGED <<live_trading, mainVars, sourceVars, composerVars, queued, adapter, wire,
                 ws_up, reports>>
WorkerTakes ==
  /\ worker = "take"
  /\ IF adapter > 0 THEN adapter' = adapter - 1 /\ worker' = "call"
                    ELSE UNCHANGED adapter /\ worker' = "look"
  /\ UNCHANGED <<live_trading, mainVars, sourceVars, composerVars, queued, wire, ws_up,
                 reports>>
WorkerAnswers ==
  /\ worker = "call" /\ worker' = "look"
  /\ \/ reports' = reports + 1 /\ UNCHANGED wire
     \/ wire' = wire + 1 /\ UNCHANGED reports
  /\ UNCHANGED <<live_trading, mainVars, sourceVars, composerVars, queued, adapter, ws_up>>
WorkerStep == WorkerLooks \/ WorkerTakes \/ WorkerAnswers

StreamReports ==
  /\ ws_up /\ wire > 0
  /\ wire' = wire - 1 /\ reports' = reports + 1
  /\ UNCHANGED <<live_trading, mainVars, sourceVars, composerVars, queued, adapter,
                 worker, ws_up>>

-----------------------------------------------------------------------------
(* The main thread.                                                         *)
MainGoes(from, to) == main = from /\ main' = to
Signal ==
  /\ MainGoes("run", "join")
  /\ UNCHANGED <<live_trading, timed_out, backlog, sourceVars, composerVars, queued,
                 venueVars>>
(* Stage 1, and the generation main reads before it waits.                  *)
NotJoined == TRUE                            \* mutation: a thread is not joined
Joined == sources = {}
JoinSources ==
  /\ MainGoes("join", "wait") /\ Joined
  /\ generation' = 0 /\ backlog' = events
  /\ UNCHANGED <<live_trading, timed_out, sourceVars, composer_stop_request, pass, to_pump,
                 tail, queued, venueVars>>
(* Stage 2: ENGINE_SHUTDOWN_COMPOSER_CYCLE_WAIT_MS caps the wait.           *)
OneCycle == generation >= 1                  \* mutation: one generation is enough
CycleDone == generation >= 2
WaitForCycle ==
  /\ MainGoes("wait", IF live_trading THEN "workers" ELSE "stop")
  /\ \E gives_up \in BOOLEAN : (gives_up \/ CycleDone) /\ timed_out' = gives_up
  /\ UNCHANGED <<live_trading, backlog, sourceVars, composerVars, queued, venueVars>>
(* Stage 3: the workers' flag is set as main comes to "workers"; the stream *)
(* goes when it was quiet, or after ENGINE_SHUTDOWN_WS_GRACE_MAX_MS.        *)
JoinWorkers ==
  /\ MainGoes("workers", "grace") /\ worker = "gone"
  /\ UNCHANGED <<live_trading, timed_out, backlog, sourceVars, composerVars, queued,
                 venueVars>>
JoinStream ==
  /\ MainGoes("grace", "stop") /\ ws_up' = FALSE
  /\ UNCHANGED <<live_trading, timed_out, backlog, sourceVars, composerVars, queued,
                 adapter, worker, wire, reports>>
(* Stages 4 and 5.                                                          *)
StopForgotten ==                             \* mutation: the request is not stored
  /\ MainGoes("stop", "drainer")
  /\ UNCHANGED <<live_trading, timed_out, backlog, sourceVars, composerVars, queued,
                 venueVars>>
StopComposer ==
  /\ MainGoes("stop", "drainer") /\ composer_stop_request' = TRUE
  /\ UNCHANGED <<live_trading, timed_out, backlog, sourceVars, pass, to_pump, tail,
                 generation, queued, venueVars>>
JoinComposer ==
  /\ MainGoes("drainer", "saved") /\ pass = "gone"
  /\ UNCHANGED <<live_trading, timed_out, backlog, sourceVars, composerVars, queued,
                 venueVars>>
MainStep ==
  JoinSources \/ WaitForCycle \/ JoinWorkers \/ JoinStream \/ StopComposer \/ JoinComposer

ShutdownNext ==
  \/ \E s \in Source : Push(s) \/ SourceStops(s)
  \/ ComposerStep \/ WorkerStep \/ StreamReports \/ Signal \/ MainStep

(* Every thread runs; a source that was told to stop gets to look.          *)
ShutdownFairness ==
  /\ WF_shutdownVars(ComposerStep) /\ WF_shutdownVars(WorkerStep)
  /\ WF_shutdownVars(MainStep) /\ \A s \in Source : WF_shutdownVars(SourceStops(s))
ShutdownSpec == ShutdownInit /\ [][ShutdownNext]_shutdownVars /\ ShutdownFairness

-----------------------------------------------------------------------------
(* What remains of a backlog after a number of passes: each takes up to     *)
(* EventsPerDrain events of a source.                                       *)
LeftOf(s, passes) ==
  IF backlog[s] > passes * EventsPerDrain THEN backlog[s] - passes * EventsPerDrain ELSE 0

(* "a cycle that STARTED after the joins has certainly pumped + submitted   *)
(* everything they left behind" (Run.hpp:2425), as far as one pass goes:    *)
(* before the workers are told to stop, unless the wait was given up.       *)
SourcesFlushed ==
  main \in {"workers", "stop"} /\ ~timed_out =>
    \A s \in Source : events[s] <= LeftOf(s, 1)

(* Whatever the threads left when they were joined is taken by the tail     *)
(* before the books are saved: no report, and no event that TailPasses      *)
(* passes can reach, is stranded in a queue nobody drains (Run.hpp:2367).   *)
NothingStranded ==
  main = "saved" =>
    /\ reports = 0 /\ queued = 0
    /\ \A s \in Source : events[s] <= LeftOf(s, TailPasses)

(* Main joins threads that wait for each other's queues and flags; it gets  *)
(* to the save.                                                             *)
ShutdownEnds == (main = "join") ~> (main = "saved")
=============================================================================
