----------------------------- MODULE MCHotPath -----------------------------
(* The parts of a hot core, one at a time: its parameter slot and cache, a  *)
(* ring, its tick, and the arithmetic its gates and books compute with.     *)
(* They share no state, so a behaviour is one part running and the others   *)
(* at rest.                                                                 *)
(*   slot: two words and four writes: the producer laps a slow reader twice *)
(*         and can complete a write in each gap of the refresh;             *)
(*   ring: two slots (the least the static_assert admits), two items and    *)
(*         pushes to wrap twice with a stale copy of the other counter;     *)
(*   core: two legs and a ring of three, so that the two pushes of a tick   *)
(*         can succeed or fail separately;                                  *)
(*   sums: limbs of five bits and a scale of six, whose magic constant meets *)
(*         the bound of MoneyAssumption: every pair of amounts, and binaries *)
(*         from both ends and the middle of their word.                     *)
EXTENDS HotParams, SPSCRing, ExecutionCore, Money

CONSTANTS gate, sizing, a, b, hot
MCWords  == {gate, sizing}
MCItems  == {a, b}
OneOwner == {hot}
Either == BOOLEAN
MCPow2 == [i \in 0 .. Bits |-> 2 ^ i]
MCBinaries ==
  LET low == {0, 1, 2, 5, 15, 16, 31, 32, 33, 96, 160, 181, 257, 341, 480, 511}
  IN low \cup {-x : x \in low}

VARIABLE part

slotPartVars == <<vars, hotVars>>
allVars == <<part, slotPartVars, ringVars, coreVars, moneyVars>>

InSlot(Step) == part = "slot" /\ Step /\ UNCHANGED <<part, ringVars, coreVars, moneyVars>>
InRing(Step) == part = "ring" /\ Step /\ UNCHANGED <<part, slotPartVars, coreVars, moneyVars>>
InCore(Step) == part = "core" /\ Step /\ UNCHANGED <<part, slotPartVars, ringVars, moneyVars>>
InSums(Step) == part = "sums" /\ Step /\ UNCHANGED <<part, slotPartVars, ringVars, coreVars>>

HotPathInit ==
  /\ part \in {"slot", "ring", "core", "sums"}
  /\ HInit /\ RingInit /\ CoreInit /\ MoneyInit
HotPathNext == InSlot(HNext) \/ InRing(RingNext) \/ InCore(CoreNext) \/ InSums(MoneyNext)

(* The fairness of HFairSpec, RingFairSpec and CoreFairSpec.                *)
HotPathFairness ==
  /\ WF_allVars(InSlot((WriteWord \/ WriteTick \/ WriteCommit) /\ UNCHANGED hotVars))
  /\ WF_allVars(InSlot(TickRead \/ TickReload))
  /\ WF_allVars(InRing(TryPop))
  /\ \A p \in Producers :
       WF_allVars(InRing(PushRefresh(p) \/ PushWrite(p) \/ PushPublish(p)))
  /\ WF_allVars(InCore(Tick)) /\ WF_allVars(InCore(PopEvent))
  /\ \A l \in Legs : SF_allVars(InCore(DecideExit(l)))
HotPathSpec == HotPathInit /\ [][HotPathNext]_allVars /\ HotPathFairness
=============================================================================
