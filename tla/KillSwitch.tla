----------------------------- MODULE KillSwitch -----------------------------
(***************************************************************************)
(* The kill switches, from the money to the entry gate of a hot core:      *)
(*   the composer  EngineCommon_ComposeAndKillEval trips and resets them    *)
(*                 and publishes the kill word (drainer thread);            *)
(*   the slow path EventLoop_RebuildOneCore and the permission grant of     *)
(*                 EngineCommon_SlowPathCycleOneCore obey them;             *)
(*   the operator  asks for a node's reset or for a paper reset.            *)
(* Kept: every flag, who stores it and in which order.  Left out: how a     *)
(* strategy builds its gate (a choice) and fees.  The trip request lanes    *)
(* (KillTripSiteRegistry.hpp) have no producer in this tree.                *)
(***************************************************************************)
EXTENDS Engine

CONSTANTS
  Live,         \* live capital: no paper reset
  Alloc,        \* allocated_balance of each node
  MaxDrawdown,  \* in percent of the peak, node and account alike
  MinKillLoss,  \* min_kill_loss
  MinBalance,   \* ks_min_balance
  Results,      \* net results of a closing fill
  Marks,        \* mark-to-market results of what is open
  PnlRange      \* bound: realized results considered

ASSUME KillAssumption ==
  /\ Live \in BOOLEAN
  /\ Alloc \in Nat \ {0}
  /\ {MaxDrawdown, MinKillLoss, MinBalance} \subseteq Nat
  /\ Results \subseteq Int /\ Marks \subseteq Int /\ PnlRange \subseteq Int
  /\ 0 \in PnlRange

VARIABLES
  node_realized, balance, ks_peak,           \* the ledger, the composer's
  node_peak, node_killed,                    \* node_peak_balance, KILL_TRIPPED
  oms_killed,                                \* MASK_OMS_STATE_KILL_SWITCH_TRIPPED
  drift_breached, drift_latch,               \* drift_state_flags
  kill_word,                                 \* [global, nodes], published
  kill_reset_mask, reset_request, parked,    \* requests; paper_reset_in_progress
  composer,                                  \* where its cycle is
  slow,                                      \* where each slow-path cycle is
  pending_blocked, gate_blocked,             \* BUY_BLOCKED, staged and in the slot
  permission, granting,                      \* the core's flag; the cycle's sample
  begun, settled  \* history: the kind of cycle begun, and finished, under a kill

moneyVars == <<node_realized, balance, ks_peak>>
flagVars == <<node_peak, node_killed, oms_killed, drift_breached, drift_latch>>
requestVars == <<kill_reset_mask, reset_request, parked>>
slowVars == <<slow, pending_blocked, gate_blocked, granting>>
seenVars == <<begun, settled>>
killVars == <<moneyVars, flagVars, kill_word, requestVars, composer, slowVars,
              permission, seenVars>>

All(v) == [n \in Node |-> v]
Larger(a, b) == IF a > b THEN a ELSE b

KillInit ==
  /\ node_realized = All(0) /\ balance = Start /\ ks_peak = Start
  /\ node_peak = All(0) /\ node_killed = All(FALSE) /\ oms_killed = FALSE
  /\ drift_breached = All(FALSE) /\ drift_latch = All(FALSE)
  /\ kill_word = [global |-> FALSE, nodes |-> {}]
  /\ kill_reset_mask = {} /\ reset_request = FALSE /\ parked = FALSE
  /\ composer = "book" /\ slow = All("rebuild")
  /\ pending_blocked = All(TRUE) /\ gate_blocked = All(TRUE)
  /\ permission = All(FALSE) /\ granting = All(FALSE)
  /\ begun = All("none") /\ settled = All("none")

(* What the slow path of node n reads: the node's flag itself, and the      *)
(* account's through the published word.                                    *)
Killed(n) == node_killed[n] \/ kill_word.global

(* A kill that is lifted takes what was seen of it along.                   *)
Forget ==
  /\ begun' = [n \in Node |-> IF Killed(n)' THEN begun[n] ELSE "none"]
  /\ settled' = [n \in Node |-> IF Killed(n)' THEN settled[n] ELSE "none"]

-----------------------------------------------------------------------------
(* The composer books a closing fill (EngineCommon_LedgerApplyFill and      *)
(* _NodeRowsBook).                                                          *)
BookExit(n) ==
  /\ composer = "book"
  /\ \E net \in Results :
       /\ node_realized[n] + net \in PnlRange
       /\ node_realized' = [node_realized EXCEPT ![n] = @ + net]
       /\ balance' = balance + net
       /\ ks_peak' = Larger(ks_peak, balance + net)
  /\ UNCHANGED <<flagVars, kill_word, requestVars, composer, slowVars, permission,
                 seenVars>>

(* The drift watch of EngineCommon_DrainPostFill: the first sample of a     *)
(* breach kills the node, once per latch.                                   *)
Drift(n) ==
  /\ composer = "book"
  /\ drift_breached' = [drift_breached EXCEPT ![n] = ~@]
  /\ LET kill == ~drift_breached[n] /\ ~drift_latch[n]
     IN /\ node_killed' = [node_killed EXCEPT ![n] = @ \/ kill]
        /\ drift_latch' = [drift_latch EXCEPT ![n] = @ \/ kill]
  /\ UNCHANGED <<moneyVars, node_peak, oms_killed, kill_word, requestVars, composer,
                 slowVars, permission, seenVars>>

(* The drawdown of a value under its peak is past the threshold.            *)
Past(drop, peak) == drop > 0 /\ peak > 0 /\ drop * 100 > MaxDrawdown * peak

(* EventLoop_KillSwitchEvaluate: the account.                               *)
AccountTrips ==
  \/ MinBalance > 0 /\ balance < MinBalance
  \/ MaxDrawdown > 0 /\ Past(ks_peak - balance, ks_peak)

(* What a reset clears (step 0).                                            *)
Reset(n) == n \in kill_reset_mask
LatchKept(n) == drift_latch[n]       \* mutation: the reset forgets the latch
Latched(n) == drift_latch[n] /\ ~Reset(n)
NodeTrips(n, unrealized) ==
  LET value == Alloc + node_realized[n] + unrealized
      peak  == Larger(IF Reset(n) \/ node_peak[n] = 0 THEN Alloc ELSE node_peak[n], value)
  IN [peak |-> peak,
      trip |-> Past(peak - value, peak) /\ peak - value > MinKillLoss]

(* Steps 0 to 2 of EngineCommon_ComposeAndKillEval: pending resets clear    *)
(* flag, peak and latch; then every node is marked to market and judged,    *)
(* then the account.  A trip of the account clears every permission.        *)
ComposeEval ==
  /\ composer = "book" /\ composer' = "word"
  /\ kill_reset_mask' = {}
  /\ drift_latch' = [n \in Node |-> Latched(n)]
  /\ \E unrealized \in [Node -> Marks] :
       LET judged == [n \in Node |-> NodeTrips(n, unrealized[n])]
       IN /\ node_peak' = [n \in Node |-> judged[n].peak]
          /\ node_killed' = [n \in Node |-> \/ node_killed[n] /\ ~Reset(n)
                                            \/ judged[n].trip]
  /\ oms_killed' = (oms_killed \/ AccountTrips)
  /\ permission' = IF AccountTrips /\ ~oms_killed THEN All(FALSE) ELSE permission
  /\ UNCHANGED <<moneyVars, drift_breached, kill_word, reset_request, parked, slowVars>>
  /\ Forget

(* Step 3: the word is stored after the flags.                              *)
NodesOnly ==                         \* mutation: the account is not in the word
  [global |-> FALSE, nodes |-> {n \in Node : node_killed[n]}]
Word == [global |-> oms_killed, nodes |-> {n \in Node : node_killed[n]}]
ComposeWord ==
  /\ composer = "word" /\ composer' = "tail"
  /\ kill_word' = Word
  /\ UNCHANGED <<moneyVars, flagVars, requestVars, slowVars, permission>>
  /\ Forget

(* The tail of the drainer's cycle runs a paper reset that was asked for:   *)
(* EngineSharded_ExecutePaperReset.  The word is left to the next compose.  *)
CycleTail ==
  /\ composer = "tail" /\ composer' = "book"
  /\ IF reset_request
       THEN /\ node_realized' = All(0) /\ balance' = Start /\ ks_peak' = Start
            /\ node_peak' = All(0) /\ node_killed' = All(FALSE) /\ oms_killed' = FALSE
            /\ drift_breached' = All(FALSE) /\ drift_latch' = All(FALSE)
            /\ reset_request' = FALSE /\ parked' = FALSE
       ELSE UNCHANGED <<moneyVars, flagVars, reset_request, parked>>
  /\ UNCHANGED <<kill_word, kill_reset_mask, slowVars, permission>>
  /\ Forget

-----------------------------------------------------------------------------
(* The slow-path cycle of node n.  A rebuild stages the parameters, blocked *)
(* under a kill; a lazy one leaves them as the last full rebuild staged     *)
(* them.  The cycle is parked while a paper reset is under way.             *)
ObeysNothing(n) == FALSE             \* mutation: the rebuild has no kill mirror
ObeysKill(n) == Killed(n)
CycleBegins(n, kind) ==
  /\ slow[n] = "rebuild" /\ ~parked
  /\ slow' = [slow EXCEPT ![n] = "push"]
  /\ begun' = [begun EXCEPT ![n] = IF Killed(n) THEN kind ELSE "none"]
  /\ UNCHANGED <<moneyVars, flagVars, kill_word, requestVars, composer, gate_blocked,
                 permission, granting, settled>>
FullRebuild(n) ==
  /\ CycleBegins(n, "full")
  /\ \E halted \in BOOLEAN :
       pending_blocked' = [pending_blocked EXCEPT ![n] = ObeysKill(n) \/ halted]
LazySkip(n) ==
  /\ Lazy /\ CycleBegins(n, "lazy")
  /\ UNCHANGED pending_blocked

(* The staged parameters go to the core's parameter slot, DIRTY or not.     *)
PushParameters(n) ==
  /\ slow[n] = "push" /\ slow' = [slow EXCEPT ![n] = "grant"]
  /\ gate_blocked' = [gate_blocked EXCEPT ![n] = pending_blocked[n]]
  /\ settled' = [settled EXCEPT ![n] = begun[n]]
  /\ UNCHANGED <<moneyVars, flagVars, kill_word, requestVars, composer,
                 pending_blocked, permission, granting, begun>>

(* The permission grant reads the word and stores later; the composer may   *)
(* trip in between, and nothing takes that grant back.                      *)
GrantRead(n) ==
  /\ slow[n] = "grant" /\ slow' = [slow EXCEPT ![n] = "store"]
  /\ granting' = [granting EXCEPT ![n] = ~kill_word.global]
  /\ UNCHANGED <<moneyVars, flagVars, kill_word, requestVars, composer,
                 pending_blocked, gate_blocked, permission, seenVars>>
GrantStore(n) ==
  /\ slow[n] = "store" /\ slow' = [slow EXCEPT ![n] = "rebuild"]
  /\ permission' = [permission EXCEPT ![n] = @ \/ granting[n]]
  /\ UNCHANGED <<moneyVars, flagVars, kill_word, requestVars, composer,
                 pending_blocked, gate_blocked, granting, seenVars>>
SlowStep(n) == LazySkip(n) \/ PushParameters(n) \/ GrantRead(n) \/ GrantStore(n)

-----------------------------------------------------------------------------
(* The producer packages what the operator asks for.                        *)
AskNodeReset(n) ==
  /\ n \notin kill_reset_mask
  /\ kill_reset_mask' = kill_reset_mask \cup {n}
  /\ UNCHANGED <<moneyVars, flagVars, kill_word, reset_request, parked, composer,
                 slowVars, permission, seenVars>>
AskPaperReset ==
  /\ ~Live /\ ~reset_request
  /\ parked' = TRUE /\ reset_request' = TRUE
  /\ UNCHANGED <<moneyVars, flagVars, kill_word, kill_reset_mask, composer, slowVars,
                 permission, seenVars>>

ComposerNext ==
  \/ ComposeEval \/ ComposeWord \/ CycleTail
  \/ \E n \in Node : BookExit(n) \/ Drift(n)

KillNext ==
  \/ ComposerNext \/ AskPaperReset
  \/ \E n \in Node : AskNodeReset(n) \/ FullRebuild(n) \/ SlowStep(n)

(* The composer and the slow paths are threads that loop for ever.  A full  *)
(* rebuild comes at the latest with lazy_rebuild_force_period_us.           *)
KillFairness ==
  /\ WF_killVars(ComposeEval \/ ComposeWord \/ CycleTail)
  /\ \A n \in Node : WF_killVars(SlowStep(n)) /\ SF_killVars(FullRebuild(n))
KillSpec == KillInit /\ [][KillNext]_killVars /\ KillFairness

-----------------------------------------------------------------------------
(* Every flag and position of a thread is one the code knows.               *)
KillTypeOK ==
  /\ node_realized \in [Node -> Int] /\ balance \in Int /\ ks_peak \in Int
  /\ node_peak \in [Node -> Int] /\ node_killed \in [Node -> BOOLEAN]
  /\ drift_breached \in [Node -> BOOLEAN] /\ drift_latch \in [Node -> BOOLEAN]
  /\ permission \in [Node -> BOOLEAN] /\ granting \in [Node -> BOOLEAN]
  /\ pending_blocked \in [Node -> BOOLEAN] /\ gate_blocked \in [Node -> BOOLEAN]
  /\ oms_killed \in BOOLEAN /\ reset_request \in BOOLEAN /\ parked \in BOOLEAN
  /\ kill_word \in [global : BOOLEAN, nodes : SUBSET Node]
  /\ kill_reset_mask \subseteq Node
  /\ composer \in {"book", "word", "tail"}
  /\ slow \in [Node -> {"rebuild", "push", "grant", "store"}]
  /\ begun \in [Node -> {"none", "full", "lazy"}]
  /\ settled \in [Node -> {"none", "full", "lazy"}]

(* The hot core of n takes an entry when its gate fires.                    *)
MayEnter(n) == permission[n] /\ ~gate_blocked[n]

(* A kill that one full rebuild has seen holds until it is lifted, whatever *)
(* the grant's race left in the permission (ControllerEventLoop.hpp:3336).  *)
KillHolds == \A n \in Node : settled[n] = "full" => ~MayEnter(n)

(* A drift latch stands only over a killed node: one that outlived its kill *)
(* would leave the node without its drift auto-kill for good (D-421).       *)
LatchOverKill == \A n \in Node : drift_latch[n] => node_killed[n]

(* An account that is tripped reaches every node's gate, or is reset.       *)
KillArrives ==
  oms_killed ~> (~oms_killed \/ \A n \in Node : settled[n] = "full" /\ ~MayEnter(n))
=============================================================================
