------------------------------- MODULE MCNode -------------------------------
(* One node in four parts, one at a time; the first three share variables:  *)
(*   pair:   legs A and B on their own, in paper trading (the constants of  *)
(*           the configuration);                                            *)
(*   single: one leg, beside the other threads that close positions;        *)
(*   lossy:  the order table alone, with REST answers lost, the user-data   *)
(*           stream cut, queues of one that overflow and the adapter shut   *)
(*           down at any time;                                              *)
(*   audit:  the money of a slot, and the reconciler that compares it with  *)
(*           the venue's, through a crash or a lost report.                 *)
EXTENDS NodeTrading, Reconciler

Either == BOOLEAN

VARIABLE part

Single == INSTANCE NodeTrading
            WITH Modes <- {"paper", "ws"}, ResultCap <- 3,
                 Slots <- {0}, OrderSlots <- {0, 1}, PartialOn <- FALSE, MaxRequests <- 2,
                 Legs <- {0}, RingCap <- 2, ManualCloses <- TRUE, SlowExits <- TRUE

Lossy == INSTANCE OrderManager
           WITH Modes <- {"rest", "ws"}, ResultCap <- 1, WsCap <- 1, AnswersLost <- TRUE,
                StreamDrops <- TRUE, MayShutDown <- TRUE, MaxShort <- 1,
                Slots <- {0}, OrderSlots <- {0, 1}, PartialOn <- FALSE, MaxQty <- 2,
                MaxRequests <- 2

NodeInit ==
  /\ AuditInit
  /\ \/ part = "pair" /\ TInit
     \/ part = "single" /\ Single!TInit
     \/ part = "lossy" /\ Lossy!Init /\ CoreInit /\ RaceInit
     \/ part = "audit" /\ TInit
  /\ part # "audit" => exchange.in_quote

NodeNext ==
  /\ UNCHANGED part
  /\ \/ part = "pair" /\ TNext /\ UNCHANGED auditVars
     \/ part = "single" /\ Single!TNext /\ UNCHANGED auditVars
     \/ part = "lossy" /\ Lossy!Next /\ UNCHANGED <<coreVars, raceVars, auditVars>>
     \/ part = "audit" /\ AuditNext /\ UNCHANGED allVars

NodeSpec == NodeInit /\ [][NodeNext]_<<part, allVars, auditVars>>
=============================================================================
