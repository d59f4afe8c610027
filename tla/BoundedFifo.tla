---------------------------- MODULE BoundedFifo ----------------------------
(***************************************************************************)
(* What SPSCRing.hpp promises: a bounded queue.  The answers of the two    *)
(* operations are part of the promise, the callers decide on them.         *)
(***************************************************************************)
EXTENDS Naturals, Sequences

CONSTANTS Items, NoItem, Producers, Capacity

VARIABLES queue,    \* the published entries, oldest first
          item,     \* what each producer is pushing or pushed last
          pushed,   \* what each producer's last push answered
          popped    \* what the last pop answered, NoItem when it was refused

Init == /\ queue = << >>
        /\ item = [p \in Producers |-> NoItem]
        /\ pushed = [p \in Producers |-> TRUE]
        /\ popped = NoItem

Ask(p) == /\ \E x \in Items : item' = [item EXCEPT ![p] = x]
          /\ UNCHANGED <<queue, pushed, popped>>

Push(p) == /\ Len(queue) < Capacity
           /\ queue' = Append(queue, item[p])
           /\ pushed' = [pushed EXCEPT ![p] = TRUE]
           /\ UNCHANGED <<item, popped>>

PushRefused(p) == /\ Len(queue) = Capacity
                  /\ pushed' = [pushed EXCEPT ![p] = FALSE]
                  /\ UNCHANGED <<queue, item, popped>>

Pop == /\ queue # << >>
       /\ popped' = Head(queue)
       /\ queue' = Tail(queue)
       /\ UNCHANGED <<item, pushed>>

PopRefused == /\ queue = << >>
              /\ popped' = NoItem
              /\ UNCHANGED <<queue, item, pushed>>

Next == Pop \/ PopRefused \/ \E p \in Producers : Ask(p) \/ Push(p) \/ PushRefused(p)

Spec == Init /\ [][Next]_<<queue, item, pushed, popped>>
=============================================================================
