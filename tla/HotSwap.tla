------------------------------ MODULE HotSwap ------------------------------
(***************************************************************************)
(* Exchanging a node's models while it trades.  The slow path of the node   *)
(* loads a second zoo beside the serving one and swaps the pointer          *)
(* (HotSwap_ShadowLoad_Ensemble); both learn, and what they learn is kept   *)
(* in the directory of their family, which one zoo at a time may write      *)
(* (EnsembleModelZoo_BindStateDir, a file lock).  The drainer credits the   *)
(* trades it closes to the zoo it finds at the pointer.                     *)
(* Kept: every access of the pointer, of the lock, of a zoo and of the      *)
(* state files.  Left out: the models, what a reward does to a weight (a    *)
(* zoo is the set of rewards it has seen; the credit of the exit model,     *)
(* which follows that of the entry model, is one with it), nodes without    *)
(* models, the single-model sister of the zoo, and what a write through a   *)
(* pointer to freed memory hits.                                            *)
(***************************************************************************)
EXTENDS Integers, Sequences

CONSTANTS
  ZooNodes,     \* number of nodes with models
  Dir,          \* model directories
  Calibrating,  \* calibration_log_path is set
  MaxZoos,      \* bound: zoos allocated by one process
  MaxRewards    \* bound: rewards

ASSUME SwapAssumption ==
  /\ {ZooNodes, MaxZoos, MaxRewards} \subseteq Nat \ {0} /\ Calibrating \in BOOLEAN

VARIABLES
  zoos,       \* zoos[z]: every zoo this process has allocated
  handle,     \* state.nodes[n].ensemble_handle
  disk,       \* disk[d]: the rewards in the state files of d
  foreign,    \* directories locked by other processes
  swap,       \* swap[n]: where the swap of a slow path is
  sale,       \* the drainer: the sale it is booking
  rewards,    \* the number of rewards so far
  kept        \* history: rewards that may not be lost

swapVars == <<zoos, handle, disk, foreign, swap, sale, rewards, kept>>

ZooNode == 1 .. ZooNodes
Zoo == 1 .. Len(zoos)
Bound(z) == zoos[z].bound /\ ~zoos[z].freed       \* it has a bandit_save_path
NoSwap == [at |-> "none"]
NoSale == [at |-> "none"]

-----------------------------------------------------------------------------
(* A lock lasts as long as any descriptor of it.                            *)
LockFree(d) == d \notin foreign /\ \A z \in Zoo : ~(zoos[z].lock /\ zoos[z].family = d)
NewZoo(n, d, bound, store) ==
  [node |-> n, family |-> d, lock |-> bound, bound |-> bound, pending |-> FALSE,
   learned |-> IF bound THEN store[d] ELSE {}, freed |-> FALSE]

(* EnsembleModelZoo_SaveAllBanditState: to the directory the zoo is bound   *)
(* to, or nowhere.                                                          *)
SavedAtBootDir(store, z) ==          \* mutation: to the directory of the boot
  IF Bound(z) THEN [store EXCEPT ![zoos[zoos[z].node].family] = zoos[z].learned] ELSE store
SavedState(store, z) ==
  IF Bound(z) THEN [store EXCEPT ![zoos[z].family] = zoos[z].learned] ELSE store

(* The zoos of a boot, bound one after the other: a directory that another  *)
(* node or process holds leaves the zoo without one, and serving.           *)
Boot(dirs, store) ==
  /\ zoos' = [n \in ZooNode |->
       NewZoo(n, dirs[n], dirs[n] \notin foreign /\ \A m \in 1 .. n - 1 : dirs[m] # dirs[n],
              store)]
  /\ handle' = [n \in ZooNode |-> n]
  /\ swap' = [n \in ZooNode |-> NoSwap] /\ sale' = NoSale /\ disk' = store

SwapInit ==
  /\ zoos = <<>> /\ handle = [n \in ZooNode |-> 0]
  /\ disk = [d \in Dir |-> {}] /\ foreign \in SUBSET Dir
  /\ swap = [n \in ZooNode |-> NoSwap] /\ sale = NoSale
  /\ rewards = 0 /\ kept = {}

Up == zoos # <<>>                    \* the engine is running
FirstBoot ==
  /\ ~Up /\ \E dirs \in [ZooNode -> Dir] : Boot(dirs, disk)
  /\ UNCHANGED <<foreign, rewards, kept>>

-----------------------------------------------------------------------------
(* A reward for a zoo.  It may not be lost if the zoo is the serving one,   *)
(* has a directory, and has not been flushed for a swap.                    *)
Credited(z, pending) ==
  /\ rewards < MaxRewards /\ rewards' = rewards + 1
  /\ zoos' = [zoos EXCEPT ![z].learned = @ \cup {rewards'}, ![z].pending = pending]
  /\ LET n == zoos[z].node
     IN kept' = IF Bound(z) /\ handle[n] = z /\ swap[n].at \in {"none", "flush"}
                  THEN kept \cup {[family |-> zoos[z].family, id |-> rewards']} ELSE kept

(* The slow path between swaps: rewards of its own look-back, saved when    *)
(* their number crosses ensemble_bandit_save_interval, and the save the     *)
(* drainer has left to it.                                                  *)
LooksBack(n) ==
  /\ Up /\ swap[n].at = "none"
  /\ LET z == handle[n]
     IN \E crossed \in BOOLEAN :
          /\ Credited(z, zoos[z].pending /\ ~crossed)
          /\ disk' = IF crossed /\ Bound(z)
                       THEN [disk EXCEPT ![zoos[z].family] = zoos'[z].learned] ELSE disk
  /\ UNCHANGED <<handle, foreign, swap, sale>>
FlushPending(n) ==
  /\ Up /\ swap[n].at = "none" /\ zoos[handle[n]].pending
  /\ zoos' = [zoos EXCEPT ![handle[n]].pending = FALSE]
  /\ disk' = SavedState(disk, handle[n])
  /\ UNCHANGED <<handle, foreign, swap, sale, rewards, kept>>

-----------------------------------------------------------------------------
(* The swap of node n, step by step.                                        *)
At(n, place) == swap[n].at = place
Goes(n, place) == swap' = [swap EXCEPT ![n].at = place]

(* "Apply (live)" is picked up: with no position open, or whatever is open  *)
(* (acknowledge_hot_swap_with_open_positions).  That is no guard here, for  *)
(* a buy may fill as soon as the slow path has looked.                      *)
PickUp(n) ==
  /\ Up /\ At(n, "none") /\ Len(zoos) < MaxZoos
  /\ \E d \in Dir :
       swap' = [swap EXCEPT ![n] =
         [at |-> "flush", dir |-> d, old |-> handle[n], had |-> zoos[handle[n]].learned]]
  /\ UNCHANGED <<zoos, handle, disk, foreign, sale, rewards, kept>>

(* What the outgoing zoo has learned goes to its files before the successor *)
(* reads them.                                                              *)
FlushSkipped(n) ==                   \* mutation: nothing is saved
  /\ At(n, "flush") /\ Goes(n, "load")
  /\ UNCHANGED <<zoos, handle, disk, foreign, sale, rewards, kept>>
FlushOutgoing(n) ==
  /\ At(n, "flush") /\ disk' = SavedState(disk, swap[n].old) /\ Goes(n, "load")
  /\ UNCHANGED <<zoos, handle, foreign, sale, rewards, kept>>

(* No memory, or no bundle in the directory.                                *)
LoadFails(n) ==
  /\ At(n, "load") /\ swap' = [swap EXCEPT ![n] = NoSwap]
  /\ UNCHANGED <<zoos, handle, disk, foreign, sale, rewards, kept>>

(* The successor inherits the lock of its own directory by a second         *)
(* descriptor, which may fail; it takes any other lock, if it is free and   *)
(* the directory can be written; bound, it reads the files.                 *)
Heir(n) == zoos[swap[n].old].lock /\ zoos[swap[n].old].family = swap[n].dir
BindOutcomes(n) ==
  {"unwritable"} \cup (IF Heir(n) \/ LockFree(swap[n].dir) THEN {"bound"} ELSE {})
                 \cup (IF LockFree(swap[n].dir) THEN {} ELSE {"contended"})
BindMovesLock(n) ==                  \* mutation: the descriptor is not duplicated
  /\ At(n, "load") /\ Len(zoos) < MaxZoos
  /\ \E outcome \in BindOutcomes(n) :
       /\ zoos' = Append([zoos EXCEPT ![swap[n].old].lock =
                            @ /\ ~(outcome = "bound" /\ Heir(n))],
                         NewZoo(n, swap[n].dir, outcome = "bound", disk))
       /\ swap' = [swap EXCEPT ![n] =
            [at |-> IF outcome = "contended" THEN "refuse" ELSE "validate", dir |-> @.dir,
             old |-> @.old, had |-> @.had, new |-> Len(zoos) + 1]]
  /\ UNCHANGED <<handle, disk, foreign, sale, rewards, kept>>
Bind(n) ==
  /\ At(n, "load") /\ Len(zoos) < MaxZoos
  /\ \E outcome \in BindOutcomes(n) :
       /\ zoos' = Append(zoos, NewZoo(n, swap[n].dir, outcome = "bound", disk))
       /\ swap' = [swap EXCEPT ![n] =
            [at |-> IF outcome = "contended" THEN "refuse" ELSE "validate", dir |-> @.dir,
             old |-> @.old, had |-> @.had, new |-> Len(zoos) + 1]]
  /\ UNCHANGED <<handle, disk, foreign, sale, rewards, kept>>

(* The expected record of the bundle, in strict mode.                       *)
Refuses(n) ==
  /\ At(n, "validate") /\ Goes(n, "refuse")
  /\ UNCHANGED <<zoos, handle, disk, foreign, sale, rewards, kept>>
Exchange(n) ==
  /\ At(n, "validate") /\ Goes(n, "free")
  /\ handle' = [handle EXCEPT ![n] = swap[n].new]
  /\ UNCHANGED <<zoos, disk, foreign, sale, rewards, kept>>

(* EnsembleModelZoo_Free and free: of the old zoo, or of the refused one.   *)
Frees(n) ==
  /\ At(n, "free") \/ At(n, "refuse")
  /\ LET z == IF At(n, "free") THEN swap[n].old ELSE swap[n].new
     IN zoos' = [zoos EXCEPT ![z] = [NewZoo(n, @.family, FALSE, disk) EXCEPT !.freed = TRUE]]
  /\ swap' = [swap EXCEPT ![n] = NoSwap]
  /\ UNCHANGED <<handle, disk, foreign, sale, rewards, kept>>

SwapStep(n) ==
  \/ PickUp(n) \/ FlushOutgoing(n) \/ LoadFails(n) \/ Bind(n) \/ Refuses(n)
  \/ Exchange(n) \/ Frees(n)

-----------------------------------------------------------------------------
(* The drainer.  A sale writes its calibration row from oms.ezoo_refs, the  *)
(* zoo of the boot, and then credits the zoo at the pointer, which it loads *)
(* first.                                                                   *)
Sells(n) ==
  /\ Up /\ sale = NoSale
  /\ sale' = IF Calibrating THEN [at |-> "calibrate", node |-> n, zoo |-> n]
                               ELSE [at |-> "post", node |-> n]
  /\ UNCHANGED <<zoos, handle, disk, foreign, swap, rewards, kept>>
Calibrates ==
  /\ sale.at = "calibrate" /\ sale' = [at |-> "post", node |-> sale.node]
  /\ UNCHANGED <<zoos, handle, disk, foreign, swap, rewards, kept>>
LoadsHandle ==
  /\ sale.at = "post"
  /\ sale' = [at |-> "reward", node |-> sale.node, zoo |-> handle[sale.node]]
  /\ UNCHANGED <<zoos, handle, disk, foreign, swap, rewards, kept>>

(* EnsembleModelZoo_TradeCloseReward, which never writes a file: it leaves  *)
(* the save to the slow path.  Without a prediction to reward it returns.   *)
Rewards ==
  /\ sale.at = "reward" /\ sale' = NoSale
  /\ \/ /\ ~zoos[sale.zoo].freed
        /\ \E crossed \in BOOLEAN :
             LET z == sale.zoo
             IN Credited(z, zoos[z].pending \/ (crossed /\ Bound(z)))
     \/ UNCHANGED <<zoos, rewards, kept>>
  /\ UNCHANGED <<handle, disk, foreign, swap>>

-----------------------------------------------------------------------------
(* Another process takes a free lock or leaves one.                         *)
ForeignTakes(d) ==
  /\ LockFree(d) /\ foreign' = foreign \cup {d}
  /\ UNCHANGED <<zoos, handle, disk, swap, sale, rewards, kept>>
ForeignLeaves(d) ==
  /\ d \in foreign /\ foreign' = foreign \ {d}
  /\ UNCHANGED <<zoos, handle, disk, swap, sale, rewards, kept>>

(* The engine stops, its threads joined and every serving zoo saved, node   *)
(* after node, and is started again.                                        *)
Saves(store) ==
  LET after[n \in 0 .. ZooNodes] ==
        IF n = 0 THEN store ELSE SavedState(after[n - 1], handle[n])
  IN after
AllSaved(store) == Saves(store)[ZooNodes]
Restarts ==
  /\ Up /\ sale = NoSale /\ \A n \in ZooNode : At(n, "none")
  /\ \E dirs \in [ZooNode -> Dir] : Boot(dirs, AllSaved(disk))
  /\ UNCHANGED <<foreign, rewards, kept>>
(* It is killed at any moment: what no save has reached is gone.            *)
Crashes ==
  /\ Up /\ \E dirs \in [ZooNode -> Dir] : Boot(dirs, disk)
  /\ kept' = {k \in kept : k.id \in disk[k.family]}
  /\ UNCHANGED <<foreign, rewards>>

SwapNext ==
  \/ FirstBoot \/ Restarts \/ Crashes \/ Calibrates \/ LoadsHandle \/ Rewards
  \/ \E n \in ZooNode : SwapStep(n) \/ LooksBack(n) \/ FlushPending(n) \/ Sells(n)
  \/ \E d \in Dir : ForeignTakes(d) \/ ForeignLeaves(d)
SwapSpec == SwapInit /\ [][SwapNext]_swapVars

-----------------------------------------------------------------------------
(* One writer per state directory, "across nodes or processes"              *)
(* (NodeModelZoo.hpp:3799): through swaps into the same or another's        *)
(* directory, refusals and frees, a zoo that may write holds the lock, and  *)
(* only its own node's successor holds it too.                              *)
OneWriterPerDir ==
  /\ \A z \in Zoo : Bound(z) => zoos[z].lock /\ zoos[z].family \notin foreign
  /\ \A y, z \in Zoo : Bound(y) /\ Bound(z) /\ zoos[y].family = zoos[z].family
                      => zoos[y].node = zoos[z].node

(* A swap into the same directory carries over what its node had learned    *)
(* when it was picked up; it is not left on disk for the next boot          *)
(* (HotSwap.hpp:109-117).                                                   *)
CarriesOver ==
  [][\A n \in ZooNode :
       At(n, "validate") /\ At(n, "free")' /\ Bound(swap[n].old) /\ Bound(swap[n].new)
         /\ zoos[swap[n].old].family = swap[n].dir
         => swap[n].had \subseteq zoos[handle'[n]].learned]_swapVars

(* What a serving zoo has learned is on disk or in the zoo that serves its  *)
(* directory, whatever is swapped, refused, saved late or restarted, and a  *)
(* crash takes only what no save had reached.                               *)
NothingForgotten ==
  \A k \in kept :
    \/ k.id \in disk[k.family]
    \/ \E n \in ZooNode : /\ Bound(handle[n]) /\ zoos[handle[n]].family = k.family
                          /\ k.id \in zoos[handle[n]].learned
-----------------------------------------------------------------------------
(* "Per-core slow-path thread is the SOLE caller (writer = reader).  [...]  *)
(* So Free + free() of old_ezoo is safe immediately after atomic swap"      *)
(* (HotSwap.hpp:311-314): no other thread holds a zoo that has been freed.  *)
SoleReader ==
  sale.at \in {"calibrate", "reward"} => ~zoos[sale.zoo].freed
=============================================================================
