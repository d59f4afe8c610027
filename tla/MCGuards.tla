------------------------------ MODULE MCGuards ------------------------------
(* Three of the engine's safeguards, one at a time: the kill switches, the  *)
(* flatten for a silent stream, and the shutdown.                           *)
(*   kill:     one node; one losing trade trips it;                         *)
(*   flatten:  two slow paths that race, and time for a window to open, to  *)
(*             end and to open again;                                       *)
(*   shutdown: a source with more events than a pass, and than the tail,    *)
(*             can take.                                                    *)
EXTENDS KillSwitch, WsFlatten, Shutdown

MCResults == {-2, 1}
MCMarks == {-1, 0}
MCPnl == {-2, 0, 1}

VARIABLE part
allVars == <<part, killVars, flattenVars, shutdownVars>>

InKill(Step) == part = "kill" /\ Step /\ UNCHANGED <<part, flattenVars, shutdownVars>>
InFlatten(Step) == part = "flatten" /\ Step /\ UNCHANGED <<part, killVars, shutdownVars>>
InShutdown(Step) == part = "shutdown" /\ Step /\ UNCHANGED <<part, killVars, flattenVars>>

GuardsInit ==
  /\ part \in {"kill", "flatten", "shutdown"} /\ KillInit /\ FlattenInit /\ ShutdownInit
  /\ part # "shutdown" => ~live_trading
GuardsNext ==
  InKill(KillNext) \/ InFlatten(FlattenNext) \/ InShutdown(ShutdownNext)

(* The fairness of KillFairness, FlattenFairness and ShutdownFairness.  As  *)
(* only one part ever runs, one condition can carry one of each.            *)
GuardsFairness ==
  /\ WF_allVars(\/ InKill(ComposeEval \/ ComposeWord \/ CycleTail)
                \/ InFlatten(Clock)
                \/ InShutdown(ComposerStep))
  /\ WF_allVars(InFlatten(TickDated) \/ InShutdown(WorkerStep))
  /\ \A n \in Node : /\ WF_allVars(\/ InKill(SlowStep(n))
                                   \/ InFlatten(Drains(n))
                                   \/ InShutdown(MainStep))
                     /\ SF_allVars(InKill(FullRebuild(n)))
  /\ \A p \in SlowPath : /\ WF_allVars(InFlatten(CycleStep(p)))
                         /\ SF_allVars(InFlatten(LoadDeadline(p)))
  /\ \A s \in Source : WF_allVars(InShutdown(SourceStops(s)))
GuardsSpec == GuardsInit /\ [][GuardsNext]_allVars /\ GuardsFairness
=============================================================================
