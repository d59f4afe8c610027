---------------------------- MODULE FaultsProofs ----------------------------
(***************************************************************************)
(* What the node's books (Ledger) and its learned models (HotSwap) keep     *)
(* through faults.                                                          *)
(*   Ledger.  For any number of nodes, ring size, lots and results: each    *)
(* fill event on a node's ring has its own trade row beside it; open        *)
(* notional telescopes, wins and losses balance, the legs of one trade      *)
(* meet; and the ledger implements the account.  Booking a ring is a fold   *)
(* over its events, so the lemmas about it are inductions over the places   *)
(* of the ring and over the nodes (BoundedInduction of SumsProofs).         *)
(*   HotSwap.  For any number of nodes, directories, zoos and rewards:      *)
(* whatever is swapped, refused, freed, restarted or killed, one zoo at a   *)
(* time may write a state directory; what a serving zoo has learned is on   *)
(* disk or in the zoo that serves its directory; and a swap into the same   *)
(* directory carries over what its node had learned.  The invariant has     *)
(* three parts.  ZoosInv: a zoo is bound exactly while it holds its lock,   *)
(* two that are bound to one directory are of one node, and a swap names    *)
(* the zoos it is about.  MemoryOK: where each reward that may not be lost  *)
(* is (Safe).  CarriesOK: where the memory a swap found is at each of its   *)
(* steps.                                                                   *)
(***************************************************************************)
EXTENDS Ledger, HotSwap, SumsProofs

-----------------------------------------------------------------------------
(* Applying the rings: the books after each event, from the first on.       *)

(* EngineCommon_FillRingsApply on the ring of one node: what the books are  *)
(* after each event of it.                                                  *)
LEMMA RingBooksAre ==
  ASSUME NEW S, NEW ring \in Seq(S), NEW b
  PROVE  /\ RingBooks(b, ring)[0] = b
         /\ \A i \in 1 .. Len(ring) :
              RingBooks(b, ring)[i] = NodeRowsBook(RingBooks(b, ring)[i - 1], ring[i])
<1> DEFINE m == Len(ring)
           Ok(n, r) == r = [i \in 0 .. n |-> IF i = 0 THEN b ELSE NodeRowsBook(r[i - 1], ring[i])]
           P == {n \in 0 .. m : \E r : Ok(n, r)}
<1>1. m \in Nat
  OBVIOUS
<1>2. 0 \in P
  <2>1. Ok(0, [i \in 0 .. 0 |-> b])
    OBVIOUS
  <2>2. 0 \in 0 .. m
    BY <1>1
  <2> HIDE DEF Ok
  <2> QED BY <2>1, <2>2
<1>3. ASSUME NEW n \in 0 .. m - 1, n \in P PROVE n + 1 \in P
  <2>1. PICK r : Ok(n, r)
    BY <1>3
  <2> DEFINE q == [i \in 0 .. n + 1 |->
                     IF i = n + 1 THEN NodeRowsBook(r[n], ring[n + 1]) ELSE r[i]]
  <2>2. Ok(n + 1, q)
    <3>1. ASSUME NEW i \in 0 .. n + 1
          PROVE  q[i] = IF i = 0 THEN b ELSE NodeRowsBook(q[i - 1], ring[i])
      <4>1. CASE i = n + 1
        BY <4>1
      <4>2. CASE i \in 0 .. n
        <5>1. r[i] = IF i = 0 THEN b ELSE NodeRowsBook(r[i - 1], ring[i])
          BY <2>1, <4>2
        <5>2. q[i] = r[i] /\ (i # 0 => q[i - 1] = r[i - 1])
          BY <4>2
        <5> QED BY <5>1, <5>2
      <4> QED BY <4>1, <4>2
    <3> QED BY <3>1
  <2>3. n + 1 \in 0 .. m
    BY <1>1
  <2> HIDE DEF Ok, q
  <2> QED BY <2>2, <2>3
<1>4. \E r : Ok(m, r)
  <2>1. 0 .. m \subseteq P
    <3> HIDE DEF P, m
    <3> QED BY <1>1, <1>2, <1>3, BoundedInduction
  <2> QED BY <1>1, <2>1
<1> DEFINE f == RingBooks(b, ring)
<1>5. f = [i \in 0 .. m |-> IF i = 0 THEN b ELSE NodeRowsBook(f[i - 1], ring[i])]
  BY <1>4 DEF RingBooks
<1> HIDE DEF f, m
<1>6. \A i \in 0 .. m : f[i] = IF i = 0 THEN b ELSE NodeRowsBook(f[i - 1], ring[i])
  BY <1>5
<1>7. f[0] = b
  BY <1>1, <1>6
<1>8. \A i \in 1 .. m : f[i] = NodeRowsBook(f[i - 1], ring[i])
  BY <1>1, <1>6
<1> QED BY <1>7, <1>8 DEF f, m

(* What every event keeps, the events of a ring keep.                       *)
LEMMA RingKeeps ==
  ASSUME NEW S, NEW ring \in Seq(S), NEW P, NEW b \in P,
         \A c \in P : \A e \in S : NodeRowsBook(c, e) \in P
  PROVE  RingApplied(b, ring) \in P
<1> DEFINE Q == {i \in Int : RingBooks(b, ring)[i] \in P}
<1>1. 0 \in Q
  BY RingBooksAre
<1>2. ASSUME NEW i \in 0 .. Len(ring) - 1, i \in Q PROVE i + 1 \in Q
  <2>1. i + 1 \in 1 .. Len(ring) /\ ring[i + 1] \in S /\ (i + 1) - 1 = i
    OBVIOUS
  <2>2. RingBooks(b, ring)[i + 1] = NodeRowsBook(RingBooks(b, ring)[i], ring[i + 1])
    BY <2>1, RingBooksAre
  <2> QED BY <1>2, <2>1, <2>2
<1>3. Len(ring) \in Nat
  OBVIOUS
<1>4. 0 .. Len(ring) \subseteq Q
  <2> HIDE DEF Q
  <2> QED BY <1>1, <1>2, <1>3, BoundedInduction
<1> QED BY <1>3, <1>4 DEF RingApplied

(* The same of two books that the same ring is applied to.                  *)
LEMMA RingKeepsBoth ==
  ASSUME NEW S, NEW ring \in Seq(S), NEW R, NEW b, NEW c, <<b, c>> \in R,
         \A x, y : <<x, y>> \in R =>
           \A e \in S : <<NodeRowsBook(x, e), NodeRowsBook(y, e)>> \in R
  PROVE  <<RingApplied(b, ring), RingApplied(c, ring)>> \in R
<1> DEFINE Q == {i \in Int : <<RingBooks(b, ring)[i], RingBooks(c, ring)[i]>> \in R}
<1>1. 0 \in Q
  <2>1. RingBooks(b, ring)[0] = b /\ RingBooks(c, ring)[0] = c
    BY RingBooksAre
  <2> QED BY <2>1
<1>2. ASSUME NEW i \in 0 .. Len(ring) - 1, i \in Q PROVE i + 1 \in Q
  <2>1. i + 1 \in 1 .. Len(ring) /\ ring[i + 1] \in S /\ (i + 1) - 1 = i
    OBVIOUS
  <2>2. RingBooks(b, ring)[i + 1] = NodeRowsBook(RingBooks(b, ring)[i], ring[i + 1])
    BY <2>1, RingBooksAre
  <2>3. RingBooks(c, ring)[i + 1] = NodeRowsBook(RingBooks(c, ring)[i], ring[i + 1])
    BY <2>1, RingBooksAre
  <2>4. <<NodeRowsBook(RingBooks(b, ring)[i], ring[i + 1]),
          NodeRowsBook(RingBooks(c, ring)[i], ring[i + 1])>> \in R
    BY <1>2, <2>1
  <2> QED BY <2>2, <2>3, <2>4
<1>3. Len(ring) \in Nat
  OBVIOUS
<1>4. 0 .. Len(ring) \subseteq Q
  <2> HIDE DEF Q
  <2> QED BY <1>1, <1>2, <1>3, BoundedInduction
<1> QED BY <1>3, <1>4 DEF RingApplied

LEMMA RingEmpty == ASSUME NEW b PROVE RingApplied(b, <<>>) = b
<1>1. <<>> \in Seq({}) /\ Len(<<>>) = 0
  OBVIOUS
<1>2. RingBooks(b, <<>>)[0] = b
  BY <1>1, RingBooksAre
<1> QED BY <1>1, <1>2 DEF RingApplied

LEMMA RingAppend ==
  ASSUME NEW S, NEW ring \in Seq(S), NEW e \in S, NEW b
  PROVE  RingApplied(b, Append(ring, e)) = NodeRowsBook(RingApplied(b, ring), e)
<1> DEFINE m == Len(ring)
           longer == Append(ring, e)
           Q == {i \in Int : RingBooks(b, longer)[i] = RingBooks(b, ring)[i]}
<1>1. /\ m \in Nat /\ longer \in Seq(S) /\ Len(longer) = m + 1 /\ longer[m + 1] = e
      /\ \A i \in 1 .. m : longer[i] = ring[i]
  OBVIOUS
<1> HIDE DEF longer
<1>2. 0 \in Q
  <2>1. RingBooks(b, longer)[0] = b /\ RingBooks(b, ring)[0] = b
    BY <1>1, RingBooksAre
  <2> QED BY <2>1
<1>3. ASSUME NEW i \in 0 .. m - 1, i \in Q PROVE i + 1 \in Q
  <2>1. i + 1 \in 1 .. m /\ i + 1 \in 1 .. Len(longer) /\ (i + 1) - 1 = i
    BY <1>1
  <2>2. RingBooks(b, longer)[i + 1] = NodeRowsBook(RingBooks(b, longer)[i], longer[i + 1])
    BY <1>1, <2>1, RingBooksAre
  <2>3. RingBooks(b, ring)[i + 1] = NodeRowsBook(RingBooks(b, ring)[i], ring[i + 1])
    BY <2>1, RingBooksAre
  <2>4. longer[i + 1] = ring[i + 1]
    BY <1>1, <2>1
  <2> QED BY <1>3, <2>2, <2>3, <2>4
<1>4. 0 .. m \subseteq Q
  <2> HIDE DEF Q, m
  <2> QED BY <1>1, <1>2, <1>3, BoundedInduction
<1>5. RingBooks(b, longer)[m] = RingBooks(b, ring)[m]
  BY <1>1, <1>4
<1>6. RingBooks(b, longer)[m + 1] = NodeRowsBook(RingBooks(b, longer)[m], longer[m + 1])
  <2>1. m + 1 \in 1 .. Len(longer) /\ (m + 1) - 1 = m
    BY <1>1
  <2> QED BY <1>1, <2>1, RingBooksAre
<1> QED BY <1>1, <1>5, <1>6 DEF RingApplied, longer

-----------------------------------------------------------------------------
LEMMA NodesNat == NumNodes \in Nat
BY EngineAssumption

LEMMA NodeBooksAre ==
  ASSUME NEW b
  PROVE  /\ NodeBooks(b)[0] = b
         /\ \A n \in Node :
              NodeBooks(b)[n + 1] = RingApplied(NodeBooks(b)[n], fill_rings[n])
<1> DEFINE Ok(n, r) ==
             r = [k \in 0 .. n |-> IF k = 0 THEN b ELSE RingApplied(r[k - 1], fill_rings[k - 1])]
           P == {n \in 0 .. NumNodes : \E r : Ok(n, r)}
<1>1. NumNodes \in Nat
  BY NodesNat
<1>2. 0 \in P
  <2>1. Ok(0, [i \in 0 .. 0 |-> b])
    OBVIOUS
  <2>2. 0 \in 0 .. NumNodes
    BY <1>1
  <2> HIDE DEF Ok
  <2> QED BY <2>1, <2>2
<1>3. ASSUME NEW n \in 0 .. NumNodes - 1, n \in P PROVE n + 1 \in P
  <2>1. PICK r : Ok(n, r)
    BY <1>3
  <2> DEFINE q == [k \in 0 .. n + 1 |->
                     IF k = n + 1 THEN RingApplied(r[n], fill_rings[n]) ELSE r[k]]
  <2>2. Ok(n + 1, q)
    <3>1. ASSUME NEW k \in 0 .. n + 1
          PROVE  q[k] = IF k = 0 THEN b ELSE RingApplied(q[k - 1], fill_rings[k - 1])
      <4>1. CASE k = n + 1
        <5>1. k # 0 /\ k - 1 = n /\ n \in 0 .. n + 1 /\ n # n + 1
          BY <4>1
        <5>2. q[n] = r[n] /\ q[k] = RingApplied(r[n], fill_rings[n])
          BY <4>1, <5>1
        <5> QED BY <5>1, <5>2
      <4>2. CASE k \in 0 .. n
        <5>1. r[k] = IF k = 0 THEN b ELSE RingApplied(r[k - 1], fill_rings[k - 1])
          BY <2>1, <4>2
        <5>2. q[k] = r[k] /\ (k # 0 => q[k - 1] = r[k - 1])
          BY <4>2
        <5> QED BY <5>1, <5>2
      <4> QED BY <4>1, <4>2
    <3> QED BY <3>1
  <2>3. n + 1 \in 0 .. NumNodes
    BY <1>1
  <2> HIDE DEF Ok, q
  <2> QED BY <2>2, <2>3
<1>4. \E r : Ok(NumNodes, r)
  <2>1. 0 .. NumNodes \subseteq P
    <3> HIDE DEF P
    <3> QED BY <1>1, <1>2, <1>3, BoundedInduction
  <2> QED BY <1>1, <2>1
<1> DEFINE f == NodeBooks(b)
<1>5. f = [k \in 0 .. NumNodes |-> IF k = 0 THEN b ELSE RingApplied(f[k - 1], fill_rings[k - 1])]
  BY <1>4 DEF NodeBooks
<1> HIDE DEF f
<1>6. \A k \in 0 .. NumNodes :
        f[k] = IF k = 0 THEN b ELSE RingApplied(f[k - 1], fill_rings[k - 1])
  BY <1>5
<1>7. f[0] = b
  BY <1>1, <1>6
<1>8. ASSUME NEW n \in Node PROVE f[n + 1] = RingApplied(f[n], fill_rings[n])
  <2>1. n + 1 \in 0 .. NumNodes /\ n + 1 # 0 /\ (n + 1) - 1 = n
    BY <1>1 DEF Node
  <2> QED BY <1>6, <2>1
<1> QED BY <1>7, <1>8 DEF f

LEMMA AppliedKeeps ==
  ASSUME NEW P, NEW b \in P,
         \A n \in Node : \A c \in P : RingApplied(c, fill_rings[n]) \in P
  PROVE  Applied(b) \in P
<1> DEFINE Q == {k \in Int : NodeBooks(b)[k] \in P}
<1>1. 0 \in Q
  BY NodeBooksAre
<1>2. ASSUME NEW k \in 0 .. NumNodes - 1, k \in Q PROVE k + 1 \in Q
  BY <1>2, NodeBooksAre DEF Node
<1>3. 0 .. NumNodes \subseteq Q
  <2> HIDE DEF Q
  <2> QED BY <1>1, <1>2, NodesNat, BoundedInduction
<1> QED BY <1>3, NodesNat DEF Applied

-----------------------------------------------------------------------------
(* Types, and the columns of a node: an event changes only its own node's.  *)

Numbered == [slot : Slot, is_sell : BOOLEAN, slot_flat : BOOLEAN, net : Int,
             notional : Int, trade : Nat, seq : Nat]
Book ==
  [balance : Int, node_realized : [Node -> Int], node_open_notional : [Node -> Int],
   gross_wins : [Node -> Int], gross_losses : [Node -> Int],
   partner_pending : SUBSET Node, partner_pending_pnl : [Node -> Int],
   slot_notional : [Slot -> Int], pending_trade_net : [Slot -> Int],
   parked : [Node -> Int], mispaired : BOOLEAN]

SameColumn(b, c, n) ==
  /\ b.node_realized[n] = c.node_realized[n]
  /\ b.node_open_notional[n] = c.node_open_notional[n]
  /\ b.gross_wins[n] = c.gross_wins[n] /\ b.gross_losses[n] = c.gross_losses[n]
  /\ n \in b.partner_pending <=> n \in c.partner_pending
  /\ b.partner_pending_pnl[n] = c.partner_pending_pnl[n]
  /\ b.parked[n] = c.parked[n]
  /\ \A s \in Slot : s[1] = n => /\ b.slot_notional[s] = c.slot_notional[s]
                                 /\ b.pending_trade_net[s] = c.pending_trade_net[s]

LEMMA SlotParts == ASSUME NEW s \in Slot PROVE s[1] \in Node /\ s[2] \in {"A", "B"} /\ s = <<s[1], s[2]>>
BY DEF Slot

LEMMA EventTyped ==
  ASSUME NEW e \in Numbered
  PROVE  /\ e.slot \in Slot /\ e.slot[1] \in Node /\ e.is_sell \in BOOLEAN /\ e.slot_flat \in BOOLEAN
         /\ e.net \in Int /\ e.notional \in Int /\ e.trade \in Int
BY SlotParts DEF Numbered

LEMMA ClassifyTyped ==
  ASSUME NEW b \in Book, NEW n \in Node, NEW net \in Int, NEW of \in Int
  PROVE  Classify(b, n, net, of) \in Book
<1>1. /\ [b.gross_wins EXCEPT ![n] = IF net > 0 THEN @ + net ELSE @] \in [Node -> Int]
      /\ [b.gross_losses EXCEPT ![n] = IF net > 0 THEN @ ELSE @ - net] \in [Node -> Int]
      /\ [b.partner_pending_pnl EXCEPT ![n] = 0] \in [Node -> Int]
      /\ b.partner_pending \ {n} \in SUBSET Node
      /\ (b.mispaired \/ (n \in b.partner_pending /\ b.parked[n] # of)) \in BOOLEAN
  BY DEF Book
<1> QED BY <1>1 DEF Classify, Book

LEMMA ConcludeTyped ==
  ASSUME NEW b \in Book, NEW n \in Node, NEW net \in Int, NEW of \in Int
  PROVE  Conclude(b, n, net, of) \in Book
<1>1. CASE ~partial_on
  BY <1>1, ClassifyTyped DEF Conclude
<1>2. CASE partial_on /\ n \in b.partner_pending
  <2>1. net + b.partner_pending_pnl[n] \in Int
    BY DEF Book
  <2> QED BY <1>2, <2>1, ClassifyTyped DEF Conclude
<1>3. CASE partial_on /\ n \notin b.partner_pending
  BY <1>3 DEF Conclude, Book
<1> QED BY <1>1, <1>2, <1>3

SellBooked(b, e) ==
  [b EXCEPT !.balance = @ + e.net,
            !.node_realized[e.slot[1]] = @ + e.net,
            !.node_open_notional[e.slot[1]] = @ - Relief(b, e),
            !.slot_notional[e.slot] = @ - Relief(b, e),
            !.pending_trade_net[e.slot] = IF e.slot_flat THEN 0 ELSE @ + e.net]

LEMMA ReliefTyped == ASSUME NEW b \in Book, NEW e \in Numbered PROVE Relief(b, e) \in Int
BY EventTyped DEF Relief, Book

LEMMA SellBookedTyped == ASSUME NEW b \in Book, NEW e \in Numbered PROVE SellBooked(b, e) \in Book
<1> DEFINE n == e.slot[1]
<1>1. n \in Node /\ e.slot \in Slot /\ e.net \in Int /\ Relief(b, e) \in Int
  BY EventTyped, ReliefTyped
<1>2. /\ b.balance + e.net \in Int
      /\ [b.node_realized EXCEPT ![n] = @ + e.net] \in [Node -> Int]
      /\ [b.node_open_notional EXCEPT ![n] = @ - Relief(b, e)] \in [Node -> Int]
      /\ [b.slot_notional EXCEPT ![e.slot] = @ - Relief(b, e)] \in [Slot -> Int]
      /\ [b.pending_trade_net EXCEPT ![e.slot] =
             IF e.slot_flat THEN 0 ELSE @ + e.net] \in [Slot -> Int]
  BY <1>1 DEF Book
<1> QED BY <1>2 DEF SellBooked, Book

LEMMA BookTyped == ASSUME NEW b \in Book, NEW e \in Numbered PROVE NodeRowsBook(b, e) \in Book
<1>1. CASE ~e.is_sell
  <2>1. e.slot[1] \in Node /\ e.slot \in Slot /\ e.notional \in Int
    BY EventTyped
  <2>2. /\ [b.slot_notional EXCEPT ![e.slot] = @ + e.notional] \in [Slot -> Int]
        /\ [b.node_open_notional EXCEPT ![e.slot[1]] = @ + e.notional] \in [Node -> Int]
    BY <2>1 DEF Book
  <2> QED BY <1>1, <2>2 DEF NodeRowsBook, BookBuy, Book
<1>2. CASE e.is_sell
  <2>1. b.pending_trade_net[e.slot] + e.net \in Int
    BY EventTyped DEF Book
  <2> QED BY <1>2, <2>1, EventTyped, SellBookedTyped, ConcludeTyped DEF NodeRowsBook, BookSell, SellBooked
<1> QED BY <1>1, <1>2

LEMMA ConcludeOther ==
  ASSUME NEW b \in Book, NEW n \in Node, NEW net \in Int, NEW of \in Int, NEW m \in Node \ {n}
  PROVE  SameColumn(Conclude(b, n, net, of), b, m)
BY DEF Conclude, Classify, Book, SameColumn

LEMMA ConcludeFollows ==
  ASSUME NEW b \in Book, NEW c \in Book, NEW n \in Node, NEW net \in Int, NEW of \in Int,
         SameColumn(b, c, n)
  PROVE  /\ SameColumn(Conclude(b, n, net, of), Conclude(c, n, net, of), n)
         /\ b.mispaired = c.mispaired =>
              Conclude(b, n, net, of).mispaired = Conclude(c, n, net, of).mispaired
<1>1. CASE ~partial_on
  BY <1>1 DEF Conclude, Classify, Book, SameColumn
<1>2. CASE partial_on /\ n \in b.partner_pending
  BY <1>2 DEF Conclude, Classify, Book, SameColumn
<1>3. CASE partial_on /\ n \notin b.partner_pending
  BY <1>3 DEF Conclude, Classify, Book, SameColumn
<1> QED BY <1>1, <1>2, <1>3

LEMMA SellOther ==
  ASSUME NEW b \in Book, NEW e \in Numbered, NEW m \in Node \ {e.slot[1]}
  PROVE  SameColumn(SellBooked(b, e), b, m)
BY EventTyped, ReliefTyped DEF SellBooked, Book, SameColumn

LEMMA SellFollows ==
  ASSUME NEW b \in Book, NEW c \in Book, NEW e \in Numbered, SameColumn(b, c, e.slot[1])
  PROVE  /\ SameColumn(SellBooked(b, e), SellBooked(c, e), e.slot[1])
         /\ SellBooked(b, e).mispaired = b.mispaired
<1>1. Relief(b, e) = Relief(c, e)
  BY EventTyped DEF Relief, SameColumn
<1> QED BY <1>1, EventTyped, ReliefTyped DEF SellBooked, Book, SameColumn

LEMMA OtherColumn ==
  ASSUME NEW b \in Book, NEW e \in Numbered, NEW m \in Node \ {e.slot[1]}
  PROVE  SameColumn(NodeRowsBook(b, e), b, m)
<1>1. CASE ~e.is_sell
  BY <1>1, EventTyped DEF NodeRowsBook, BookBuy, Book, SameColumn
<1>2. CASE e.is_sell /\ ~e.slot_flat
  BY <1>2, SellOther DEF NodeRowsBook, BookSell, SellBooked
<1>3. CASE e.is_sell /\ e.slot_flat
  <2>1. b.pending_trade_net[e.slot] + e.net \in Int
    BY EventTyped DEF Book
  <2> DEFINE net == b.pending_trade_net[e.slot] + e.net
  <2>2. NodeRowsBook(b, e) = Conclude(SellBooked(b, e), e.slot[1], net, e.trade)
    BY <1>3 DEF NodeRowsBook, BookSell, SellBooked
  <2>3. SameColumn(Conclude(SellBooked(b, e), e.slot[1], net, e.trade), SellBooked(b, e), m)
    BY <2>1, EventTyped, SellBookedTyped, ConcludeOther
  <2>4. SameColumn(SellBooked(b, e), b, m)
    BY SellOther
  <2> HIDE DEF net
  <2> QED BY <2>2, <2>3, <2>4 DEF SameColumn
<1> QED BY <1>1, <1>2, <1>3, EventTyped

LEMMA ColumnFollows ==
  ASSUME NEW b \in Book, NEW c \in Book, NEW e \in Numbered, SameColumn(b, c, e.slot[1])
  PROVE  /\ SameColumn(NodeRowsBook(b, e), NodeRowsBook(c, e), e.slot[1])
         /\ b.mispaired = c.mispaired =>
              NodeRowsBook(b, e).mispaired = NodeRowsBook(c, e).mispaired
<1>1. CASE ~e.is_sell
  <2> DEFINE x == BookBuy(b, e)
             y == BookBuy(c, e)
  <2>1. e.slot[1] \in Node /\ e.slot \in Slot /\ e.notional \in Int
    BY EventTyped
  <2>2. /\ x.slot_notional = [b.slot_notional EXCEPT ![e.slot] = @ + e.notional]
        /\ x.node_open_notional = [b.node_open_notional EXCEPT ![e.slot[1]] = @ + e.notional]
        /\ y.slot_notional = [c.slot_notional EXCEPT ![e.slot] = @ + e.notional]
        /\ y.node_open_notional = [c.node_open_notional EXCEPT ![e.slot[1]] = @ + e.notional]
    BY DEF BookBuy, Book
  <2>3. /\ \A s \in Slot : s[1] = e.slot[1] => x.slot_notional[s] = y.slot_notional[s]
        /\ x.node_open_notional[e.slot[1]] = y.node_open_notional[e.slot[1]]
    BY <2>1, <2>2 DEF SameColumn, Book
  <2>4. /\ x.node_realized = b.node_realized /\ y.node_realized = c.node_realized
        /\ x.gross_wins = b.gross_wins /\ y.gross_wins = c.gross_wins
        /\ x.gross_losses = b.gross_losses /\ y.gross_losses = c.gross_losses
        /\ x.partner_pending = b.partner_pending /\ y.partner_pending = c.partner_pending
        /\ x.partner_pending_pnl = b.partner_pending_pnl
        /\ y.partner_pending_pnl = c.partner_pending_pnl
        /\ x.parked = b.parked /\ y.parked = c.parked
        /\ x.pending_trade_net = b.pending_trade_net /\ y.pending_trade_net = c.pending_trade_net
        /\ x.mispaired = b.mispaired /\ y.mispaired = c.mispaired
    BY DEF BookBuy, Book
  <2>5. SameColumn(x, y, e.slot[1])
    <3> HIDE DEF x, y
    <3> QED BY <2>3, <2>4 DEF SameColumn
  <2> QED BY <1>1, <2>4, <2>5 DEF NodeRowsBook
<1>2. CASE e.is_sell /\ ~e.slot_flat
  <2>1. NodeRowsBook(b, e) = SellBooked(b, e) /\ NodeRowsBook(c, e) = SellBooked(c, e)
    BY <1>2 DEF NodeRowsBook, BookSell, SellBooked
  <2>2. SellBooked(c, e).mispaired = c.mispaired
    BY DEF SellBooked
  <2> QED BY <2>1, <2>2, SellFollows
<1>3. CASE e.is_sell /\ e.slot_flat
  <2>1. b.pending_trade_net[e.slot] + e.net \in Int
    BY EventTyped DEF Book
  <2> DEFINE net == b.pending_trade_net[e.slot] + e.net
  <2>2. net = c.pending_trade_net[e.slot] + e.net
    BY EventTyped DEF SameColumn
  <2>3. /\ NodeRowsBook(b, e) = Conclude(SellBooked(b, e), e.slot[1], net, e.trade)
        /\ NodeRowsBook(c, e) = Conclude(SellBooked(c, e), e.slot[1], net, e.trade)
    BY <1>3, <2>2 DEF NodeRowsBook, BookSell, SellBooked
  <2>4. SameColumn(SellBooked(b, e), SellBooked(c, e), e.slot[1])
    BY SellFollows
  <2>5. SellBooked(b, e).mispaired = b.mispaired /\ SellBooked(c, e).mispaired = c.mispaired
    BY DEF SellBooked
  <2> HIDE DEF net
  <2> QED BY <2>1, <2>3, <2>4, <2>5, EventTyped, SellBookedTyped, ConcludeFollows DEF net
<1> QED BY <1>1, <1>2, <1>3, EventTyped

-----------------------------------------------------------------------------
(* Rings and trade rows.                                                    *)

(* The trades that are stamped on events are numbers, in the snapshot too.  *)
HistoryOK ==
  /\ round \in [Node -> Nat] /\ trade \in [Slot -> Nat] /\ pos \in [Slot -> Int]
  /\ snapshot.taken => /\ snapshot.round \in [Node -> Nat] /\ snapshot.pos \in [Slot -> Int]
                       /\ snapshot.trade \in [Slot -> Nat]

RingsOK ==
  /\ fill_emit_seq \in [Node -> Nat]
  /\ fill_rings \in [Node -> Seq(Numbered)]
  /\ emit_rings \in [Node -> Seq(Nat)]
  /\ \A n \in Node : Len(fill_rings[n]) <= RingSize

(* EmitLockstep, place by place.                                            *)
Matching(rows, fills) ==
  Len(rows) = Len(fills) /\ \A i \in 1 .. Len(fills) : rows[i] = fills[i].seq
Paired == \A n \in Node : Matching(emit_rings[n], fill_rings[n])

IInv == HistoryOK /\ RingsOK /\ Paired

-----------------------------------------------------------------------------
LEMMA Sizes == RingSize \in Nat /\ RingSize > 0 /\ Lot \in Nat
BY LedgerAssumption

LEMMA PairedIsLockstep == RingsOK /\ Paired => EmitLockstep
<1> SUFFICES ASSUME RingsOK, Paired, NEW n \in Node
             PROVE  emit_rings[n] = [i \in 1 .. Len(fill_rings[n]) |-> fill_rings[n][i].seq]
  BY DEF EmitLockstep
<1>1. emit_rings[n] \in Seq(Nat) /\ Matching(emit_rings[n], fill_rings[n])
  BY DEF RingsOK, Paired
<1>2. emit_rings[n] = [i \in 1 .. Len(emit_rings[n]) |-> emit_rings[n][i]]
  BY <1>1
<1> QED BY <1>1, <1>2 DEF Matching

LEMMA BothEmpty == Matching(<<>>, <<>>)
BY DEF Matching

LEMMA BothOne == ASSUME NEW fe PROVE Matching(<<fe.seq>>, <<fe>>)
BY DEF Matching

LEMMA BothLonger ==
  ASSUME NEW fe \in Numbered, NEW fills \in Seq(Numbered), NEW rows \in Seq(Nat),
         Matching(rows, fills)
  PROVE  Matching(Append(rows, fe.seq), Append(fills, fe))
<1>1. fe.seq \in Nat
  BY DEF Numbered
<1>2. Len(Append(rows, fe.seq)) = Len(Append(fills, fe))
  BY <1>1 DEF Matching
<1>3. ASSUME NEW i \in 1 .. Len(Append(fills, fe))
      PROVE  Append(rows, fe.seq)[i] = Append(fills, fe)[i].seq
  <2>1. CASE i = Len(fills) + 1
    BY <1>1, <2>1 DEF Matching
  <2>2. CASE i \in 1 .. Len(fills)
    <3>1. Append(fills, fe)[i] = fills[i]
      BY <2>2
    <3>2. Append(rows, fe.seq)[i] = rows[i]
      BY <1>1, <2>2 DEF Matching
    <3>3. rows[i] = fills[i].seq
      BY <2>2 DEF Matching
    <3> QED BY <3>1, <3>2, <3>3
  <2>3. i = Len(fills) + 1 \/ i \in 1 .. Len(fills)
    OBVIOUS
  <2> QED BY <2>1, <2>2, <2>3
<1> QED BY <1>2, <1>3 DEF Matching

(* Applying the events of a ring takes every row.                           *)
LEMMA NoRowsLeft == ASSUME RingsOK, Paired, NEW n \in Node PROVE RowsLeft(n) = <<>>
<1>1. emit_rings[n] \in Seq(Nat) /\ Len(emit_rings[n]) = Len(fill_rings[n])
  BY DEF RingsOK, Paired, Matching
<1> QED BY <1>1 DEF RowsLeft

(* Rings that are all empty are in order.                                   *)
LEMMA EmptyRings ==
  ASSUME fill_emit_seq' \in [Node -> Nat],
         fill_rings' = [n \in Node |-> <<>>], emit_rings' = [n \in Node |-> <<>>]
  PROVE  RingsOK' /\ Paired'
<1>1. \A n \in Node : Len(fill_rings'[n]) <= RingSize
  BY Sizes
<1>2. fill_rings' \in [Node -> Seq(Numbered)] /\ emit_rings' \in [Node -> Seq(Nat)]
  OBVIOUS
<1>3. Paired'
  BY BothEmpty DEF Paired
<1> QED BY <1>1, <1>2, <1>3 DEF RingsOK

(* EngineCommon_FillEmit and the push of the trade row.                     *)
LEMMA EmitKeeps ==
  ASSUME RingsOK, Paired, NEW n \in Node, NEW fe \in Numbered, Emit(n, fe)
  PROVE  RingsOK' /\ Paired'
<1>1. fill_emit_seq' \in [Node -> Nat] /\ fe.seq \in Nat
  BY DEF Emit, RingsOK, Numbered
<1>2. CASE Len(fill_rings[n]) = RingSize
  <2>1. fill_rings' = [m \in Node |-> IF m = n THEN <<fe>> ELSE <<>>]
    BY <1>2 DEF Emit
  <2>2. emit_rings' = [m \in Node |-> IF m = n THEN <<fe.seq>> ELSE <<>>]
    BY <1>2, NoRowsLeft, Sizes DEF Emit
  <2>3. fill_rings' \in [Node -> Seq(Numbered)] /\ emit_rings' \in [Node -> Seq(Nat)]
    BY <1>1, <2>1, <2>2
  <2>4. \A m \in Node : Len(fill_rings'[m]) <= RingSize
    BY <2>1, Sizes
  <2>5. \A m \in Node : Matching(emit_rings'[m], fill_rings'[m])
    BY <2>1, <2>2, BothEmpty, BothOne
  <2> QED BY <1>1, <2>3, <2>4, <2>5 DEF RingsOK, Paired
<1>3. CASE Len(fill_rings[n]) # RingSize
  <2> DEFINE fills == fill_rings[n]
             rows  == emit_rings[n]
  <2>1. fills \in Seq(Numbered) /\ rows \in Seq(Nat) /\ Matching(rows, fills)
    BY DEF RingsOK, Paired
  <2>2. Len(fills) < RingSize /\ Len(rows) = Len(fills)
    BY <1>3, <2>1, Sizes DEF RingsOK, Matching
  <2>3. fill_rings' = [fill_rings EXCEPT ![n] = Append(fills, fe)]
    BY <1>3 DEF Emit, RingsOK
  <2>4. emit_rings' = [emit_rings EXCEPT ![n] = Append(rows, fe.seq)]
    BY <1>3, <2>2 DEF Emit, RingsOK
  <2>5. fill_rings' \in [Node -> Seq(Numbered)] /\ emit_rings' \in [Node -> Seq(Nat)]
    BY <1>1, <2>1, <2>3, <2>4 DEF RingsOK
  <2>6. \A m \in Node : Len(fill_rings'[m]) <= RingSize
    BY <2>1, <2>2, <2>3, Sizes DEF RingsOK
  <2>7. Matching(Append(rows, fe.seq), Append(fills, fe))
    BY <2>1, BothLonger
  <2>8. \A m \in Node : Matching(emit_rings'[m], fill_rings'[m])
    BY <2>3, <2>4, <2>7 DEF Paired, RingsOK
  <2> QED BY <1>1, <2>5, <2>6, <2>8 DEF RingsOK, Paired
<1> QED BY <1>2, <1>3

LEMMA NextNumber == ASSUME RingsOK, NEW n \in Node PROVE NextSeq(n) \in Nat
<1>1. fill_emit_seq[n] + 1 \in Nat /\ 2 * RingSize \in Nat /\ 2 * RingSize > 0
  BY Sizes DEF RingsOK
<1> QED BY <1>1 DEF NextSeq

(* The notional of a leg is a whole number of units' worth.                 *)
LEMMA Amounts ==
  ASSUME NEW left \in Int, NEW units \in Parts(left)
  PROVE  units \in Int /\ Cost(units) \subseteq Int
<1>1. units \in Int
  BY DEF Parts
<1>2. Worth(units) \in Int
  BY <1>1 DEF Worth
<1> QED BY <1>1, <1>2 DEF Cost

-----------------------------------------------------------------------------
LEMMA InitInv == LedgerInit => IInv
<1> SUFFICES ASSUME LedgerInit PROVE IInv
  OBVIOUS
<1>1. HistoryOK
  <2>1. ~snapshot.taken
    BY DEF LedgerInit, NoSnapshot
  <2> QED BY <2>1 DEF LedgerInit, Zero, HistoryOK
<1>2. fill_rings = [n \in Node |-> <<>>] /\ emit_rings = [n \in Node |-> <<>>]
  BY DEF LedgerInit
<1>3. RingsOK
  <2>1. \A n \in Node : Len(fill_rings[n]) <= RingSize
    <3>1. \A n \in Node : fill_rings[n] = <<>>
      BY <1>2
    <3>2. Len(<<>>) <= RingSize
      BY Sizes
    <3> QED BY <3>1, <3>2
  <2>2. fill_rings \in [Node -> Seq(Numbered)] /\ emit_rings \in [Node -> Seq(Nat)]
    BY <1>2
  <2>3. fill_emit_seq \in [Node -> Nat]
    BY DEF LedgerInit, Zero
  <2> QED BY <2>1, <2>2, <2>3 DEF RingsOK
<1>4. Paired
  BY <1>2, BothEmpty DEF Paired
<1> QED BY <1>1, <1>3, <1>4 DEF IInv

LEMMA BuyStep == ASSUME IInv, NEW s \in Slot, BuyFill(s) PROVE IInv'
<1>1. s[1] \in Node
  BY DEF Slot
<1>2. PICK units \in Parts(Lot - pos[s]) : \E notional \in Cost(units) :
        /\ pos' = [pos EXCEPT ![s] = @ + units]
        /\ Emit(s[1], [slot |-> s, is_sell |-> FALSE, slot_flat |-> FALSE, net |-> 0,
                       notional |-> notional, trade |-> round[s[1]],
                       seq |-> NextSeq(s[1])])
  BY DEF BuyFill
<1>3. Lot - pos[s] \in Int /\ round[s[1]] \in Nat /\ RingsOK /\ Paired
  BY <1>1, Sizes DEF IInv, HistoryOK
<1>4. units \in Int /\ Cost(units) \subseteq Int
  BY <1>2, <1>3, Amounts
<1>5. pos' \in [Slot -> Int]
  BY <1>2, <1>4 DEF IInv, HistoryOK
<1>6. round' = round /\ snapshot' = snapshot /\ trade' = [trade EXCEPT ![s] = round[s[1]]]
  BY DEF BuyFill
<1>7. trade' \in [Slot -> Nat]
  BY <1>3, <1>6 DEF IInv, HistoryOK
<1>8. HistoryOK'
  BY <1>5, <1>6, <1>7 DEF IInv, HistoryOK
<1>9. RingsOK' /\ Paired'
  <2>1. NextSeq(s[1]) \in Nat
    BY <1>1, <1>3, NextNumber
  <2> DEFINE Bought(notional) ==
        [slot |-> s, is_sell |-> FALSE, slot_flat |-> FALSE, net |-> 0,
         notional |-> notional, trade |-> round[s[1]], seq |-> NextSeq(s[1])]
  <2>2. PICK notional \in Cost(units) : Emit(s[1], Bought(notional))
    BY <1>2
  <2>3. Bought(notional) \in Numbered
    BY <1>3, <1>4, <2>1, <2>2 DEF Numbered
  <2> HIDE DEF Bought
  <2> QED BY <1>1, <1>3, <2>2, <2>3, EmitKeeps
<1> QED BY <1>8, <1>9 DEF IInv

LEMMA SellStep == ASSUME IInv, NEW s \in Slot, SellFill(s) PROVE IInv'
<1>1. s[1] \in Node
  BY DEF Slot
<1>2. PICK units \in Parts(pos[s]), net \in Results : \E notional \in Cost(units) :
        /\ pos' = [pos EXCEPT ![s] = @ - units]
        /\ Emit(s[1], [slot |-> s, is_sell |-> TRUE, slot_flat |-> (units = pos[s]),
                       net |-> net, notional |-> notional, trade |-> trade[s],
                       seq |-> NextSeq(s[1])])
  BY DEF SellFill
<1>3. pos[s] \in Int /\ trade[s] \in Nat /\ RingsOK /\ Paired
  BY DEF IInv, HistoryOK
<1>4. units \in Int /\ Cost(units) \subseteq Int /\ net \in Int
  BY <1>2, <1>3, Amounts, LedgerAssumption
<1>5. pos' \in [Slot -> Int]
  BY <1>2, <1>4 DEF IInv, HistoryOK
<1>6. round' = round /\ snapshot' = snapshot /\ trade' = trade
  BY DEF SellFill, historyVars
<1>7. HistoryOK'
  BY <1>5, <1>6 DEF IInv, HistoryOK
<1>8. RingsOK' /\ Paired'
  <2>1. NextSeq(s[1]) \in Nat
    BY <1>1, <1>3, NextNumber
  <2>2. (units = pos[s]) \in BOOLEAN
    OBVIOUS
  <2> DEFINE Sold(notional) ==
        [slot |-> s, is_sell |-> TRUE, slot_flat |-> (units = pos[s]), net |-> net,
         notional |-> notional, trade |-> trade[s], seq |-> NextSeq(s[1])]
  <2>3. PICK notional \in Cost(units) : Emit(s[1], Sold(notional))
    BY <1>2
  <2>4. Sold(notional) \in Numbered
    BY <1>3, <1>4, <2>1, <2>2, <2>3 DEF Numbered
  <2> HIDE DEF Sold
  <2> QED BY <1>1, <1>3, <2>3, <2>4, EmitKeeps
<1> QED BY <1>7, <1>8 DEF IInv

LEMMA ComposeStep == ASSUME IInv, Compose PROVE IInv'
<1>1. fill_emit_seq' \in [Node -> Nat] /\ fill_rings' = [n \in Node |-> <<>>]
  BY DEF Compose, IInv, RingsOK
<1>2. emit_rings' = [n \in Node |-> <<>>]
  <2>1. \A n \in Node : RowsLeft(n) = <<>>
    BY NoRowsLeft DEF IInv
  <2> QED BY <2>1 DEF Compose
<1>3. HistoryOK'
  BY DEF Compose, IInv, HistoryOK, historyVars
<1> QED BY <1>1, <1>2, <1>3, EmptyRings DEF IInv

(* Steps that touch neither the rings nor the history.                      *)
LEMMA RestKeeps ==
  ASSUME IInv, HistoryOK',
         UNCHANGED <<fill_emit_seq, fill_rings, emit_rings>>
  PROVE  IInv'
BY DEF IInv, RingsOK, Paired

LEMMA SaveStep == ASSUME IInv, SaveRenames PROVE IInv'
<1>1. snapshot' = Image /\ pos' = pos /\ round' = round /\ trade' = trade
  BY DEF SaveRenames, historyVars
<1>2. Image.round = round /\ Image.pos = pos /\ Image.trade = trade
  BY DEF Image
<1>3. HistoryOK'
  BY <1>1, <1>2 DEF IInv, HistoryOK
<1> QED BY <1>3, RestKeeps DEF SaveRenames

LEMMA ResetStep == ASSUME IInv, PaperReset PROVE IInv'
<1>1. HistoryOK'
  BY DEF PaperReset, IInv, HistoryOK, Zero, historyVars
<1> QED BY <1>1, RestKeeps DEF PaperReset

LEMMA RestartStep == ASSUME IInv, Restart PROVE IInv'
<1>1. fill_emit_seq' \in [Node -> Nat] /\ fill_rings' = [n \in Node |-> <<>>]
      /\ emit_rings' = [n \in Node |-> <<>>] /\ snapshot' = snapshot
  BY DEF Restart, Zero
<1>2. PICK partial \in BOOLEAN :
        /\ pos' = IF Loads(partial) THEN snapshot.pos ELSE Zero(Slot)
        /\ round' = IF Loads(partial) THEN snapshot.round ELSE Zero(Node)
        /\ trade' = IF Loads(partial) THEN snapshot.trade ELSE Zero(Slot)
  BY DEF Restart
<1>3. HistoryOK'
  <2>1. CASE Loads(partial)
    BY <1>1, <1>2, <2>1 DEF Loads, IInv, HistoryOK
  <2>2. CASE ~Loads(partial)
    BY <1>1, <1>2, <2>2 DEF IInv, HistoryOK, Zero
  <2> QED BY <2>1, <2>2
<1> QED BY <1>1, <1>3, EmptyRings DEF IInv

LEMMA TradeStep == ASSUME IInv, NEW n \in Node, NewTrade(n) PROVE IInv'
<1>1. HistoryOK'
  BY DEF NewTrade, IInv, HistoryOK
<1> QED BY <1>1, RestKeeps DEF NewTrade

LEMMA NextInv == IInv /\ [LedgerNext]_ledgerVars => IInv'
<1> SUFFICES ASSUME IInv, [LedgerNext]_ledgerVars PROVE IInv'
  OBVIOUS
<1>1. CASE Compose
  BY <1>1, ComposeStep
<1>2. CASE SaveWrites
  BY <1>2, RestKeeps DEF SaveWrites, IInv, HistoryOK, historyVars
<1>3. CASE SaveRenames
  BY <1>3, SaveStep
<1>4. CASE PaperReset
  BY <1>4, ResetStep
<1>5. CASE Restart
  BY <1>5, RestartStep
<1>6. CASE \E n \in Node : NewTrade(n)
  BY <1>6, TradeStep
<1>7. CASE \E s \in Slot : BuyFill(s)
  BY <1>7, BuyStep
<1>8. CASE \E s \in Slot : SellFill(s)
  BY <1>8, SellStep
<1>9. CASE \E s \in Slot : ExitLeg(s)
  BY <1>9, RestKeeps DEF ExitLeg, IInv, HistoryOK, historyVars
<1>10. CASE UNCHANGED ledgerVars
  BY <1>10, RestKeeps DEF ledgerVars, IInv, HistoryOK, historyVars
<1> QED
  BY <1>1, <1>2, <1>3, <1>4, <1>5, <1>6, <1>7, <1>8, <1>9, <1>10 DEF LedgerNext

(* The trade row popped beside a fill event is its own, in a ring of any    *)
(* size and through every inline drain, paper reset and restart             *)
(* (OrderManager.hpp:972).                                                  *)
THEOREM RowsMatchEvents == LedgerSpec => []EmitLockstep
<1>1. IInv => EmitLockstep
  BY PairedIsLockstep DEF IInv
<1> QED BY InitInv, NextInv, <1>1, PTL DEF LedgerSpec

-----------------------------------------------------------------------------
(* Whole rings: types, columns and totals after all events.                 *)

(* The events on the ring of node n: fills of its legs, in paper whole.     *)
Fills(n) ==
  {e \in Numbered : /\ e.slot \in SlotsOf(n)
                    /\ ~live /\ e.is_sell => e.slot_flat
                    /\ ~e.is_sell => e.net = 0}
OwnRings == \A n \in Node : fill_rings[n] \in Seq(Fills(n))
After(n) == RingApplied(books, fill_rings[n])

LEMMA FillsAre ==
  ASSUME NEW n \in Node, NEW e \in Fills(n)
  PROVE  e \in Numbered /\ e.slot[1] = n /\ e.slot \in SlotsOf(n) /\ e.slot \in Slot
BY EventTyped DEF Fills, SlotsOf

LEMMA FillsNumbered ==
  ASSUME NEW n \in Node, NEW ring \in Seq(Fills(n)) PROVE ring \in Seq(Numbered)
<1>1. \A i \in 1 .. Len(ring) : ring[i] \in Numbered
  BY DEF Fills
<1>2. ring = [i \in 1 .. Len(ring) |-> ring[i]] /\ Len(ring) \in Nat
  OBVIOUS
<1> HIDE DEF Fills
<1> QED BY <1>1, <1>2

LEMMA RingTyped ==
  ASSUME NEW b \in Book, NEW ring \in Seq(Numbered) PROVE RingApplied(b, ring) \in Book
BY BookTyped, RingKeeps

LEMMA RingOther ==
  ASSUME NEW n \in Node, NEW ring \in Seq(Fills(n)), NEW b \in Book, NEW m \in Node \ {n}
  PROVE  SameColumn(RingApplied(b, ring), b, m)
<1> DEFINE P == {c \in Book : SameColumn(c, b, m)}
<1>1. b \in P
  BY DEF SameColumn
<1>2. ASSUME NEW c \in P, NEW e \in Fills(n) PROVE NodeRowsBook(c, e) \in P
  <2>1. e \in Numbered /\ e.slot[1] = n
    BY FillsAre
  <2>2. NodeRowsBook(c, e) \in Book /\ SameColumn(NodeRowsBook(c, e), c, m)
    BY <2>1, BookTyped, OtherColumn
  <2> QED BY <2>2 DEF SameColumn
<1>3. RingApplied(b, ring) \in P
  <2> HIDE DEF P
  <2> QED BY <1>1, <1>2, RingKeeps
<1> QED BY <1>3

LEMMA RingFollows ==
  ASSUME NEW n \in Node, NEW ring \in Seq(Fills(n)), NEW b \in Book, NEW c \in Book,
         SameColumn(b, c, n)
  PROVE  /\ SameColumn(RingApplied(b, ring), RingApplied(c, ring), n)
         /\ b.mispaired = c.mispaired =>
              RingApplied(b, ring).mispaired = RingApplied(c, ring).mispaired
<1> DEFINE R == {xy \in Book \X Book :
                   /\ SameColumn(xy[1], xy[2], n)
                   /\ b.mispaired = c.mispaired => xy[1].mispaired = xy[2].mispaired}
<1>1. <<b, c>> \in R
  OBVIOUS
<1>2. ASSUME NEW x, NEW y, <<x, y>> \in R, NEW e \in Fills(n)
      PROVE  <<NodeRowsBook(x, e), NodeRowsBook(y, e)>> \in R
  <2>1. e \in Numbered /\ e.slot[1] = n
    BY FillsAre
  <2>2. x \in Book /\ y \in Book /\ SameColumn(x, y, n)
        /\ (b.mispaired = c.mispaired => x.mispaired = y.mispaired)
    BY <1>2
  <2>3. NodeRowsBook(x, e) \in Book /\ NodeRowsBook(y, e) \in Book
    BY <2>1, <2>2, BookTyped
  <2>4. /\ SameColumn(NodeRowsBook(x, e), NodeRowsBook(y, e), n)
        /\ x.mispaired = y.mispaired =>
             NodeRowsBook(x, e).mispaired = NodeRowsBook(y, e).mispaired
    BY <2>1, <2>2, ColumnFollows
  <2> QED BY <2>2, <2>3, <2>4
<1>3. <<RingApplied(b, ring), RingApplied(c, ring)>> \in R
  <2> HIDE DEF R
  <2> QED BY <1>1, <1>2, RingKeepsBoth
<1> QED BY <1>3

LEMMA AppliedTyped == ASSUME OwnRings, NEW b \in Book PROVE Applied(b) \in Book
<1>1. ASSUME NEW n \in Node, NEW c \in Book PROVE RingApplied(c, fill_rings[n]) \in Book
  BY FillsNumbered, RingTyped DEF OwnRings
<1> QED BY <1>1, AppliedKeeps

(* All rings applied in their order: each node's part is what its own ring  *)
(* makes of it.                                                             *)
LEMMA AppliedColumns ==
  ASSUME OwnRings, NEW b \in Book
  PROVE  /\ \A n \in Node : SameColumn(Applied(b), RingApplied(b, fill_rings[n]), n)
         /\ ~b.mispaired /\ (\A n \in Node : ~RingApplied(b, fill_rings[n]).mispaired) =>
              ~Applied(b).mispaired
<1> DEFINE at == NodeBooks(b)
           unmixed == ~b.mispaired /\ (\A n \in Node : ~RingApplied(b, fill_rings[n]).mispaired)
           Q == {k \in Int :
                   /\ at[k] \in Book
                   /\ \A n \in Node : n < k => SameColumn(at[k], RingApplied(b, fill_rings[n]), n)
                   /\ \A n \in Node : n >= k => SameColumn(at[k], b, n)
                   /\ unmixed => ~at[k].mispaired}
<1>1. at[0] = b /\ \A n \in Node : at[n + 1] = RingApplied(at[n], fill_rings[n])
  BY NodeBooksAre
<1> HIDE DEF at
<1>2. 0 \in Q
  <2>1. \A n \in Node : ~(n < 0) /\ n \in Nat
    BY DEF Node
  <2>2. \A n \in Node : SameColumn(b, b, n)
    BY DEF SameColumn
  <2> QED BY <1>1, <2>1, <2>2
<1>3. ASSUME NEW k \in 0 .. NumNodes - 1, k \in Q PROVE k + 1 \in Q
  <2>1. k \in Node /\ fill_rings[k] \in Seq(Fills(k))
    BY DEF OwnRings, Node
  <2>2. at[k + 1] = RingApplied(at[k], fill_rings[k]) /\ at[k] \in Book
    BY <1>1, <1>3, <2>1
  <2>3. at[k + 1] \in Book
    BY <2>1, <2>2, FillsNumbered, RingTyped
  <2>4. SameColumn(at[k], b, k)
    BY <1>3, <2>1
  <2>5. /\ SameColumn(at[k + 1], RingApplied(b, fill_rings[k]), k)
        /\ at[k].mispaired = b.mispaired =>
             at[k + 1].mispaired = RingApplied(b, fill_rings[k]).mispaired
    BY <2>1, <2>2, <2>4, RingFollows
  <2>6. ASSUME NEW n \in Node, n # k PROVE SameColumn(at[k + 1], at[k], n)
    BY <2>1, <2>2, <2>6, RingOther
  <2>7. ASSUME NEW n \in Node, n < k + 1
        PROVE  SameColumn(at[k + 1], RingApplied(b, fill_rings[n]), n)
    <3>1. CASE n = k
      BY <2>5, <3>1
    <3>2. CASE n < k
      <4>1. SameColumn(at[k + 1], at[k], n)
        BY <2>6, <3>2
      <4>2. SameColumn(at[k], RingApplied(b, fill_rings[n]), n)
        BY <1>3, <3>2
      <4> QED BY <4>1, <4>2 DEF SameColumn
    <3> QED BY <2>7, <3>1, <3>2 DEF Node
  <2>8. ASSUME NEW n \in Node, n >= k + 1 PROVE SameColumn(at[k + 1], b, n)
    <3>1. SameColumn(at[k + 1], at[k], n) /\ n >= k
      BY <2>6, <2>8 DEF Node
    <3>2. SameColumn(at[k], b, n)
      BY <1>3, <3>1
    <3> QED BY <3>1, <3>2 DEF SameColumn
  <2>9. unmixed => ~at[k + 1].mispaired
    BY <1>3, <2>1, <2>2, <2>5 DEF Book
  <2> QED BY <2>3, <2>7, <2>8, <2>9
<1>4. NumNodes \in Q
  <2>1. 0 .. NumNodes \subseteq Q
    <3> HIDE DEF Q
    <3> QED BY <1>2, <1>3, NodesNat, BoundedInduction
  <2> QED BY <2>1, NodesNat
<1>5. \A n \in Node : n < NumNodes
  BY NodesNat DEF Node
<1> QED BY <1>4, <1>5 DEF Applied, at

-----------------------------------------------------------------------------
(* Every sale of a ring reaches the balance and the row of its node.        *)
LEMMA BookingTotals ==
  ASSUME NEW b \in Book, NEW n \in Node, NEW e \in Fills(n)
  PROVE  /\ NodeRowsBook(b, e).balance = b.balance + e.net
         /\ NodeRowsBook(b, e).node_realized[n] = b.node_realized[n] + e.net
<1>1. /\ e \in Numbered /\ e.slot[1] = n /\ e.net \in Int /\ e.is_sell \in BOOLEAN
      /\ ~e.is_sell => e.net = 0
  BY EventTyped, FillsAre DEF Fills
<1>2. CASE ~e.is_sell
  BY <1>1, <1>2 DEF NodeRowsBook, BookBuy, Book
<1>3. CASE e.is_sell
  <2>1. /\ SellBooked(b, e).balance = b.balance + e.net
        /\ SellBooked(b, e).node_realized[n] = b.node_realized[n] + e.net
    <3>1. b.node_realized \in [Node -> Int]
          /\ b = [balance |-> b.balance, node_realized |-> b.node_realized,
                  node_open_notional |-> b.node_open_notional, gross_wins |-> b.gross_wins,
                  gross_losses |-> b.gross_losses, partner_pending |-> b.partner_pending,
                  partner_pending_pnl |-> b.partner_pending_pnl,
                  slot_notional |-> b.slot_notional, pending_trade_net |-> b.pending_trade_net,
                  parked |-> b.parked, mispaired |-> b.mispaired]
      BY DEF Book
    <3>2. /\ SellBooked(b, e).balance = b.balance + e.net
          /\ SellBooked(b, e).node_realized = [b.node_realized EXCEPT ![n] = @ + e.net]
      BY <1>1, <3>1 DEF SellBooked
    <3> QED BY <3>1, <3>2
  <2>2. \/ NodeRowsBook(b, e) = SellBooked(b, e)
        \/ NodeRowsBook(b, e) =
             Conclude(SellBooked(b, e), n, b.pending_trade_net[e.slot] + e.net, e.trade)
    BY <1>1, <1>3 DEF NodeRowsBook, BookSell, SellBooked
  <2>3. \A c \in Book : \A net, of :
          /\ Conclude(c, n, net, of).balance = c.balance
          /\ Conclude(c, n, net, of).node_realized = c.node_realized
    BY DEF Conclude, Classify, Book
  <2>4. SellBooked(b, e) \in Book
    BY <1>1, SellBookedTyped
  <2> QED BY <2>1, <2>2, <2>3, <2>4
<1> QED BY <1>1, <1>2, <1>3

NetsOf(ring) == [i \in 1 .. Len(ring) |-> ring[i].net]

LEMMA NetsAreInts ==
  ASSUME NEW n \in Node, NEW ring \in Seq(Fills(n))
  PROVE  NetsOf(ring) \in Seq(Int) /\ Len(NetsOf(ring)) = Len(ring) /\ Nets(ring) \in Int
<1>1. ring \in Seq(Numbered)
  BY FillsNumbered
<1>2. Len(ring) \in Nat /\ \A i \in 1 .. Len(ring) : ring[i].net \in Int
  <2>1. \A i \in 1 .. Len(ring) : ring[i] \in Numbered
    BY <1>1
  <2>2. \A e \in Numbered : e.net \in Int
    BY DEF Numbered
  <2> QED BY <1>1, <2>1, <2>2
<1>3. NetsOf(ring) \in Seq(Int) /\ Len(NetsOf(ring)) = Len(ring)
  BY <1>2 DEF NetsOf
<1> QED BY <1>3, SumType DEF Nets, NetsOf

LEMMA RingTotals ==
  ASSUME NEW b \in Book, NEW n \in Node, NEW ring \in Seq(Fills(n))
  PROVE  /\ RingApplied(b, ring).balance = b.balance + Nets(ring)
         /\ RingApplied(b, ring).node_realized[n] = b.node_realized[n] + Nets(ring)
<1> DEFINE at == RingBooks(b, ring)
           sum == Totals(NetsOf(ring))
           Q == {i \in Int : /\ at[i] \in Book
                             /\ at[i].balance = b.balance + sum[i]
                             /\ at[i].node_realized[n] = b.node_realized[n] + sum[i]}
<1>1. at[0] = b /\ \A i \in 1 .. Len(ring) : at[i] = NodeRowsBook(at[i - 1], ring[i])
  BY RingBooksAre
<1>2. NetsOf(ring) \in Seq(Int) /\ Len(NetsOf(ring)) = Len(ring) /\ Len(ring) \in Nat
  BY NetsAreInts
<1>3. sum[0] = 0 /\ \A i \in 1 .. Len(ring) : sum[i] = sum[i - 1] + NetsOf(ring)[i]
  BY <1>2, TotalsAre
<1>4. \A i \in 0 .. Len(ring) : sum[i] \in Int
  BY <1>2, TotalsType
<1> HIDE DEF at, sum
<1>5. 0 \in Q
  BY <1>1, <1>3 DEF Book
<1>6. ASSUME NEW i \in 0 .. Len(ring) - 1, i \in Q PROVE i + 1 \in Q
  <2>1. i + 1 \in 1 .. Len(ring) /\ (i + 1) - 1 = i /\ ring[i + 1] \in Fills(n)
        /\ i \in 0 .. Len(ring)
    BY <1>2
  <2>2. at[i + 1] = NodeRowsBook(at[i], ring[i + 1]) /\ sum[i + 1] = sum[i] + ring[i + 1].net
    BY <1>1, <1>3, <2>1 DEF NetsOf
  <2>3. ring[i + 1] \in Numbered /\ ring[i + 1].net \in Int
    BY <2>1, FillsAre, EventTyped
  <2>4. at[i + 1] \in Book
    BY <1>6, <2>2, <2>3, BookTyped
  <2>5. /\ at[i + 1].balance = at[i].balance + ring[i + 1].net
        /\ at[i + 1].node_realized[n] = at[i].node_realized[n] + ring[i + 1].net
    BY <1>6, <2>1, <2>2, BookingTotals
  <2>6. b.balance \in Int /\ b.node_realized[n] \in Int /\ sum[i] \in Int
    BY <1>4, <2>1 DEF Book
  <2> QED BY <1>6, <2>2, <2>3, <2>4, <2>5, <2>6
<1>7. Len(ring) \in Q
  <2>1. 0 .. Len(ring) \subseteq Q
    <3> HIDE DEF Q
    <3> QED BY <1>2, <1>5, <1>6, BoundedInduction
  <2> QED BY <1>2, <2>1
<1>8. RingApplied(b, ring) = at[Len(ring)]
  BY DEF RingApplied, at
<1>9. Nets(ring) = sum[Len(ring)]
  BY <1>2 DEF Nets, SumSeq, sum, NetsOf
<1> QED BY <1>7, <1>8, <1>9

RingNets == [k \in 1 .. NumNodes |-> RingNet(k - 1)]

LEMMA RingNetsAreInts ==
  ASSUME OwnRings
  PROVE  /\ \A n \in Node : RingNet(n) \in Int
         /\ RingNets \in Seq(Int) /\ Len(RingNets) = NumNodes
<1>1. \A n \in Node : RingNet(n) \in Int
  BY NetsAreInts DEF OwnRings, RingNet
<1>2. \A k \in 1 .. NumNodes : k - 1 \in Node
  BY NodesNat DEF Node
<1> QED BY <1>1, <1>2, NodesNat DEF RingNets

LEMMA AppliedTotals ==
  ASSUME OwnRings, NEW b \in Book
  PROVE  /\ Applied(b).balance = b.balance + SumSeq(RingNets)
         /\ \A n \in Node : Applied(b).node_realized[n] = b.node_realized[n] + RingNet(n)
<1> DEFINE at == NodeBooks(b)
           sum == Totals(RingNets)
           Q == {k \in Int : at[k] \in Book /\ at[k].balance = b.balance + sum[k]}
<1>1. at[0] = b /\ \A n \in Node : at[n + 1] = RingApplied(at[n], fill_rings[n])
  BY NodeBooksAre
<1>2. sum[0] = 0 /\ \A k \in 1 .. NumNodes : sum[k] = sum[k - 1] + RingNets[k]
  BY RingNetsAreInts, TotalsAre
<1>3. \A k \in 0 .. NumNodes : sum[k] \in Int
  BY RingNetsAreInts, TotalsType
<1> HIDE DEF at, sum
<1>4. 0 \in Q
  BY <1>1, <1>2 DEF Book
<1>5. ASSUME NEW k \in 0 .. NumNodes - 1, k \in Q PROVE k + 1 \in Q
  <2>1. k \in Node /\ fill_rings[k] \in Seq(Fills(k)) /\ k + 1 \in 1 .. NumNodes
        /\ (k + 1) - 1 = k /\ k \in 0 .. NumNodes
    BY NodesNat DEF OwnRings, Node
  <2>2. at[k + 1] = RingApplied(at[k], fill_rings[k]) /\ sum[k + 1] = sum[k] + RingNet(k)
    BY <1>1, <1>2, <2>1 DEF RingNets
  <2>3. at[k + 1] \in Book
    BY <1>5, <2>1, <2>2, FillsNumbered, RingTyped
  <2>4. at[k + 1].balance = at[k].balance + RingNet(k)
    BY <1>5, <2>1, <2>2, RingTotals DEF RingNet
  <2>5. b.balance \in Int /\ sum[k] \in Int /\ RingNet(k) \in Int
    BY <1>3, <2>1, RingNetsAreInts DEF Book
  <2> QED BY <1>5, <2>2, <2>3, <2>4, <2>5
<1>6. NumNodes \in Q
  <2>1. 0 .. NumNodes \subseteq Q
    <3> HIDE DEF Q
    <3> QED BY <1>4, <1>5, NodesNat, BoundedInduction
  <2> QED BY <2>1, NodesNat
<1>7. Applied(b).balance = b.balance + SumSeq(RingNets)
  BY <1>6, RingNetsAreInts DEF Applied, SumSeq, at, sum
<1>8. ASSUME NEW n \in Node
      PROVE  Applied(b).node_realized[n] = b.node_realized[n] + RingNet(n)
  <2>1. SameColumn(Applied(b), RingApplied(b, fill_rings[n]), n)
    BY AppliedColumns
  <2>2. RingApplied(b, fill_rings[n]).node_realized[n] = b.node_realized[n] + RingNet(n)
    BY RingTotals DEF OwnRings, RingNet
  <2> QED BY <2>1, <2>2 DEF SameColumn
<1> QED BY <1>7, <1>8

-----------------------------------------------------------------------------
(* Sound books: what an event keeps of them, and so a whole ring.           *)

Sound(b, n) ==
  /\ b.node_open_notional[n] = LegSum(b.slot_notional, n)
  /\ ~partial_on => n \notin b.partner_pending
  /\ ~live => \A s \in SlotsOf(n) : b.pending_trade_net[s] = 0
  /\ ~orphaned =>
       /\ n \notin b.partner_pending => b.partner_pending_pnl[n] = 0
       /\ b.node_realized[n] = b.gross_wins[n] - b.gross_losses[n] + b.partner_pending_pnl[n]
                                 + LegSum(b.pending_trade_net, n)

LEMMA LegsOf ==
  ASSUME NEW n \in Node
  PROVE  /\ <<n, "A">> \in Slot /\ <<n, "B">> \in Slot /\ <<n, "A">> # <<n, "B">>
         /\ SlotsOf(n) \subseteq Slot
         /\ SlotsOf(n) = IF partial_on THEN {<<n, "A">>, <<n, "B">>} ELSE {<<n, "A">>}
         /\ \A s \in Slot : s[1] = n => s \in {<<n, "A">>, <<n, "B">>}
         /\ \A s \in SlotsOf(n) : s[1] = n
BY DEF Slot, SlotsOf, Legs

LEMMA SoundColumn ==
  ASSUME NEW n \in Node, NEW b, NEW c, SameColumn(b, c, n), Sound(c, n)
  PROVE  Sound(b, n)
BY LegsOf DEF SameColumn, Sound, LegSum

(* What a BUY leg changes.                                                  *)
LEMMA BuyRow ==
  ASSUME NEW b \in Book, NEW e \in Numbered, ~e.is_sell
  PROVE  /\ NodeRowsBook(b, e).slot_notional =
              [b.slot_notional EXCEPT ![e.slot] = @ + e.notional]
         /\ NodeRowsBook(b, e).node_open_notional =
              [b.node_open_notional EXCEPT ![e.slot[1]] = @ + e.notional]
         /\ NodeRowsBook(b, e).node_realized = b.node_realized
         /\ NodeRowsBook(b, e).gross_wins = b.gross_wins
         /\ NodeRowsBook(b, e).gross_losses = b.gross_losses
         /\ NodeRowsBook(b, e).partner_pending = b.partner_pending
         /\ NodeRowsBook(b, e).partner_pending_pnl = b.partner_pending_pnl
         /\ NodeRowsBook(b, e).pending_trade_net = b.pending_trade_net
         /\ NodeRowsBook(b, e).parked = b.parked
         /\ NodeRowsBook(b, e).mispaired = b.mispaired
BY DEF NodeRowsBook, BookBuy, Book

(* What a SELL leg changes before the trade it may end is classified.       *)
LEMMA SellRow ==
  ASSUME NEW b \in Book, NEW e \in Numbered
  PROVE  /\ SellBooked(b, e).slot_notional =
              [b.slot_notional EXCEPT ![e.slot] = @ - Relief(b, e)]
         /\ SellBooked(b, e).node_open_notional =
              [b.node_open_notional EXCEPT ![e.slot[1]] = @ - Relief(b, e)]
         /\ SellBooked(b, e).node_realized = [b.node_realized EXCEPT ![e.slot[1]] = @ + e.net]
         /\ SellBooked(b, e).pending_trade_net =
              [b.pending_trade_net EXCEPT ![e.slot] = IF e.slot_flat THEN 0 ELSE @ + e.net]
         /\ SellBooked(b, e).gross_wins = b.gross_wins
         /\ SellBooked(b, e).gross_losses = b.gross_losses
         /\ SellBooked(b, e).partner_pending = b.partner_pending
         /\ SellBooked(b, e).partner_pending_pnl = b.partner_pending_pnl
         /\ SellBooked(b, e).parked = b.parked
         /\ SellBooked(b, e).mispaired = b.mispaired
BY DEF SellBooked, Book

(* What the end of a trade changes.                                         *)
LEMMA ConcludeRow ==
  ASSUME NEW b \in Book, NEW n \in Node, NEW net \in Int, NEW of \in Int
  PROVE  LET c == Conclude(b, n, net, of) IN
         /\ c.slot_notional = b.slot_notional /\ c.node_open_notional = b.node_open_notional
         /\ c.node_realized = b.node_realized /\ c.pending_trade_net = b.pending_trade_net
         /\ partial_on /\ n \notin b.partner_pending =>
              /\ c.partner_pending = b.partner_pending \cup {n}
              /\ c.partner_pending_pnl[n] = net /\ c.parked[n] = of
              /\ c.gross_wins = b.gross_wins /\ c.gross_losses = b.gross_losses
              /\ c.mispaired = b.mispaired
         /\ ~(partial_on /\ n \notin b.partner_pending) =>
              /\ c.partner_pending = b.partner_pending \ {n}
              /\ c.partner_pending_pnl[n] = 0
              /\ c.gross_wins[n] - c.gross_losses[n] =
                   b.gross_wins[n] - b.gross_losses[n] + net
                     + (IF partial_on THEN b.partner_pending_pnl[n] ELSE 0)
              /\ c.mispaired = (b.mispaired \/ (n \in b.partner_pending /\ b.parked[n] # of))
<1>1. CASE ~partial_on
  BY <1>1 DEF Conclude, Classify, Book
<1>2. CASE partial_on /\ n \in b.partner_pending
  BY <1>2 DEF Conclude, Classify, Book
<1>3. CASE partial_on /\ n \notin b.partner_pending
  BY <1>3 DEF Conclude, Book
<1> QED BY <1>1, <1>2, <1>3

LEMMA SellIs ==
  ASSUME NEW b \in Book, NEW e \in Numbered, e.is_sell
  PROVE  NodeRowsBook(b, e) =
           IF e.slot_flat
             THEN Conclude(SellBooked(b, e), e.slot[1], b.pending_trade_net[e.slot] + e.net, e.trade)
             ELSE SellBooked(b, e)
BY DEF NodeRowsBook, BookSell, SellBooked

(* Each event keeps the row of its node in balance.                         *)
LEMMA SoundKept ==
  ASSUME NEW n \in Node, NEW e \in Fills(n), NEW b \in Book, Sound(b, n)
  PROVE  Sound(NodeRowsBook(b, e), n)
<1> DEFINE A == <<n, "A">>
           B == <<n, "B">>
           c == NodeRowsBook(b, e)
<1> SUFFICES Sound(c, n)
  OBVIOUS
<1>1. /\ e \in Numbered /\ e.slot[1] = n /\ e.slot \in SlotsOf(n) /\ e.slot \in Slot
      /\ e.net \in Int /\ e.notional \in Int /\ e.trade \in Int /\ e.slot_flat \in BOOLEAN
      /\ ~live /\ e.is_sell => e.slot_flat
  BY FillsAre, EventTyped DEF Fills
<1>2. /\ A \in Slot /\ B \in Slot /\ A # B
      /\ SlotsOf(n) = IF partial_on THEN {A, B} ELSE {A}
  BY LegsOf
<1>3. /\ b.slot_notional \in [Slot -> Int] /\ b.pending_trade_net \in [Slot -> Int]
      /\ b.node_open_notional \in [Node -> Int] /\ b.node_realized \in [Node -> Int]
      /\ b.gross_wins \in [Node -> Int] /\ b.gross_losses \in [Node -> Int]
      /\ b.partner_pending_pnl \in [Node -> Int]
  BY DEF Book
<1> HIDE DEF A, B
<1>4. CASE ~e.is_sell
  <2>1. /\ c.slot_notional = [b.slot_notional EXCEPT ![e.slot] = @ + e.notional]
        /\ c.node_open_notional = [b.node_open_notional EXCEPT ![n] = @ + e.notional]
        /\ c.node_realized = b.node_realized
        /\ c.gross_wins = b.gross_wins /\ c.gross_losses = b.gross_losses
        /\ c.partner_pending = b.partner_pending
        /\ c.partner_pending_pnl = b.partner_pending_pnl
        /\ c.pending_trade_net = b.pending_trade_net
    BY <1>1, <1>4, BuyRow
  <2> HIDE DEF c
  <2>2. c.node_open_notional[n] = LegSum(c.slot_notional, n)
    BY <1>1, <1>2, <1>3, <2>1 DEF Sound, LegSum, A, B
  <2> QED BY <2>1, <2>2 DEF Sound
<1>5. CASE e.is_sell
  <2> DEFINE d == SellBooked(b, e)
  <2>0. Relief(b, e) \in Int /\ d \in Book
    BY <1>1, ReliefTyped, SellBookedTyped
  <2>1. /\ d.slot_notional = [b.slot_notional EXCEPT ![e.slot] = @ - Relief(b, e)]
        /\ d.node_open_notional = [b.node_open_notional EXCEPT ![n] = @ - Relief(b, e)]
        /\ d.node_realized = [b.node_realized EXCEPT ![n] = @ + e.net]
        /\ d.pending_trade_net =
             [b.pending_trade_net EXCEPT ![e.slot] = IF e.slot_flat THEN 0 ELSE @ + e.net]
        /\ d.gross_wins = b.gross_wins /\ d.gross_losses = b.gross_losses
        /\ d.partner_pending = b.partner_pending
        /\ d.partner_pending_pnl = b.partner_pending_pnl
    BY <1>1, SellRow
  <2> HIDE DEF d
  <2>2. d.node_open_notional[n] = LegSum(d.slot_notional, n)
    BY <1>1, <1>2, <1>3, <2>0, <2>1 DEF Sound, LegSum, A, B
  <2>3. ~live => \A s \in SlotsOf(n) : d.pending_trade_net[s] = 0
    BY <1>1, <1>2, <1>3, <1>5, <2>1 DEF Sound
  <2>4. CASE ~e.slot_flat
    <3>1. c = d
      BY <1>1, <1>5, <2>4, SellIs DEF d
    <3>2. LegSum(d.pending_trade_net, n) = LegSum(b.pending_trade_net, n) + e.net
      BY <1>1, <1>2, <1>3, <2>1, <2>4 DEF LegSum, A, B
    <3>3. LegSum(b.pending_trade_net, n) \in Int
      BY <1>2, <1>3 DEF LegSum, A, B
    <3>4. d.node_realized[n] = b.node_realized[n] + e.net
      BY <1>1, <1>3, <2>1
    <3> HIDE DEF c
    <3> QED BY <1>1, <1>3, <2>1, <2>2, <2>3, <3>1, <3>2, <3>3, <3>4 DEF Sound
  <2>5. CASE e.slot_flat
    <3> DEFINE net == b.pending_trade_net[e.slot] + e.net
    <3>1. c = Conclude(d, n, net, e.trade)
      BY <1>1, <1>5, <2>5, SellIs DEF d
    <3>2. net \in Int
      BY <1>1, <1>3
    <3>3. LegSum(d.pending_trade_net, n) = LegSum(b.pending_trade_net, n) - b.pending_trade_net[e.slot]
      BY <1>1, <1>2, <1>3, <2>1, <2>5 DEF LegSum, A, B
    <3>4. LegSum(b.pending_trade_net, n) \in Int
      BY <1>2, <1>3 DEF LegSum, A, B
    <3>5. d.node_realized[n] = b.node_realized[n] + e.net
      BY <1>1, <1>3, <2>1
    <3>6. b.pending_trade_net[e.slot] \in Int
      BY <1>1, <1>3
    <3> HIDE DEF c
    <3>7. /\ c.slot_notional = d.slot_notional /\ c.node_open_notional = d.node_open_notional
          /\ c.node_realized = d.node_realized /\ c.pending_trade_net = d.pending_trade_net
      BY <1>1, <2>0, <3>1, <3>2, ConcludeRow
    <3>8. c.node_open_notional[n] = LegSum(c.slot_notional, n)
      BY <2>2, <3>7
    <3>9. ~live => \A s \in SlotsOf(n) : c.pending_trade_net[s] = 0
      BY <2>3, <3>7
    <3>10. CASE partial_on /\ n \notin b.partner_pending
      <4>1. /\ c.partner_pending = d.partner_pending \cup {n} /\ c.partner_pending_pnl[n] = net
            /\ c.gross_wins = d.gross_wins /\ c.gross_losses = d.gross_losses
        BY <1>1, <2>0, <2>1, <3>1, <3>2, <3>10, ConcludeRow
      <4>2. ~orphaned => c.node_realized[n] =
              c.gross_wins[n] - c.gross_losses[n] + c.partner_pending_pnl[n]
                + LegSum(c.pending_trade_net, n)
        BY <1>1, <1>3, <2>1, <3>3, <3>4, <3>5, <3>6, <3>7, <3>10, <4>1 DEF Sound
      <4> QED BY <3>8, <3>9, <3>10, <4>1, <4>2 DEF Sound
    <3>11. CASE ~(partial_on /\ n \notin b.partner_pending)
      <4>1. /\ c.partner_pending = d.partner_pending \ {n} /\ c.partner_pending_pnl[n] = 0
            /\ c.gross_wins[n] - c.gross_losses[n] =
                 d.gross_wins[n] - d.gross_losses[n] + net
                   + (IF partial_on THEN d.partner_pending_pnl[n] ELSE 0)
        BY <1>1, <2>0, <2>1, <3>1, <3>2, <3>11, ConcludeRow
      <4>2. ~orphaned => c.node_realized[n] =
              c.gross_wins[n] - c.gross_losses[n] + c.partner_pending_pnl[n]
                + LegSum(c.pending_trade_net, n)
        BY <1>1, <1>3, <2>1, <3>3, <3>4, <3>5, <3>6, <3>7, <3>11, <4>1 DEF Sound
      <4> QED BY <3>8, <3>9, <3>11, <4>1, <4>2 DEF Sound
    <3> QED BY <3>10, <3>11
  <2> QED BY <1>1, <2>4, <2>5
<1> QED BY <1>1, <1>4, <1>5

LEMMA RingSound ==
  ASSUME NEW n \in Node, NEW ring \in Seq(Fills(n)), NEW b \in Book, Sound(b, n)
  PROVE  Sound(RingApplied(b, ring), n)
<1> DEFINE P == {c \in Book : Sound(c, n)}
<1>1. ASSUME NEW c \in P, NEW e \in Fills(n) PROVE NodeRowsBook(c, e) \in P
  BY SoundKept, BookTyped, FillsAre
<1>2. RingApplied(b, ring) \in P
  <2>1. b \in P
    OBVIOUS
  <2> HIDE DEF P
  <2> QED BY <1>1, <2>1, RingKeeps
<1> QED BY <1>2

LEMMA AppliedSound ==
  ASSUME OwnRings, NEW n \in Node, NEW b \in Book, Sound(b, n)
  PROVE  Sound(Applied(b), n)
<1>1. SameColumn(Applied(b), RingApplied(b, fill_rings[n]), n)
  BY AppliedColumns
<1>2. Sound(RingApplied(b, fill_rings[n]), n)
  BY RingSound DEF OwnRings
<1> QED BY <1>1, <1>2, SoundColumn

-----------------------------------------------------------------------------
(* A fill, its ring full or not, books the same as one more event would.    *)

BooksFollow ==
  \A S : \A ring \in Seq(S) : \A b :
    /\ RingBooks(b, ring)[0] = b
    /\ \A i \in 1 .. Len(ring) :
         RingBooks(b, ring)[i] = NodeRowsBook(RingBooks(b, ring)[i - 1], ring[i])

LEMMA RingBooksFollow == BooksFollow
BY RingBooksAre DEF BooksFollow

(* How an event is booked depends on the geometry alone.                    *)
LEMMA SameBooking ==
  ASSUME partial_on' = partial_on, NEW S, NEW ring \in Seq(S), NEW b
  PROVE  RingApplied(b, ring)' = RingApplied(b, ring)
<1>1. BooksFollow'
  BY RingBooksFollow, PTL
<1>2. \A c, e : NodeRowsBook(c, e)' = NodeRowsBook(c, e)
  <2>1. \A c, n, net, of : Conclude(c, n, net, of)' = Conclude(c, n, net, of)
    BY DEF Conclude, Classify
  <2>2. \A c, e : BookSell(c, e)' = BookSell(c, e)
    BY <2>1 DEF BookSell, Relief
  <2>3. \A c, e : BookBuy(c, e)' = BookBuy(c, e)
    BY DEF BookBuy
  <2> QED BY <2>2, <2>3 DEF NodeRowsBook
<1> DEFINE Q == {i \in Int : RingBooks(b, ring)'[i] = RingBooks(b, ring)[i]}
<1>3. 0 \in Q
  BY <1>1, RingBooksAre DEF BooksFollow
<1>4. ASSUME NEW i \in 0 .. Len(ring) - 1, i \in Q PROVE i + 1 \in Q
  <2>1. i + 1 \in 1 .. Len(ring) /\ (i + 1) - 1 = i
    OBVIOUS
  <2>2. RingBooks(b, ring)[i + 1] = NodeRowsBook(RingBooks(b, ring)[i], ring[i + 1])
    BY <2>1, RingBooksAre
  <2>3. RingBooks(b, ring)'[i + 1] = NodeRowsBook(RingBooks(b, ring)'[i], ring[i + 1])
    BY <1>1, <1>2, <2>1 DEF BooksFollow
  <2> QED BY <1>4, <2>2, <2>3
<1>5. Len(ring) \in Nat
  OBVIOUS
<1>6. 0 .. Len(ring) \subseteq Q
  <2> HIDE DEF Q
  <2> QED BY <1>3, <1>4, <1>5, BoundedInduction
<1> QED BY <1>5, <1>6 DEF RingApplied

(* No two nets of different trades have met, in the books or in a ring.     *)
Unmixed == ~books.mispaired /\ \A n \in Node : ~After(n).mispaired

LEMMA AfterTyped == ASSUME books \in Book, OwnRings, NEW n \in Node PROVE After(n) \in Book
BY FillsNumbered, RingTyped DEF After, OwnRings

LEMMA SameAfter ==
  ASSUME OwnRings, UNCHANGED <<partial_on, books, fill_rings>>
  PROVE  /\ \A n \in Node : After(n)' = After(n)
         /\ Unmixed => Unmixed'
<1>1. ASSUME NEW n \in Node PROVE After(n)' = After(n)
  <2>1. fill_rings[n] \in Seq(Fills(n))
    BY DEF OwnRings
  <2> QED BY <2>1, SameBooking DEF After
<1> QED BY <1>1 DEF Unmixed

LEMMA SameFills ==
  ASSUME UNCHANGED <<live, partial_on>>, NEW n \in Node PROVE Fills(n)' = Fills(n)
BY DEF Fills, SlotsOf, Legs

(* A fill is booked once: in place when there is room, after all the rings  *)
(* when there is none.                                                      *)
LEMMA EmitFacts ==
  ASSUME books \in Book, fill_rings \in [Node -> Seq(Numbered)], OwnRings,
         NEW n \in Node, NEW fe \in Fills(n), Emit(n, fe), UNCHANGED <<live, partial_on>>
  PROVE  /\ books' \in {books, Applied(books)}
         /\ OwnRings'
         /\ SameColumn(After(n)', NodeRowsBook(After(n), fe), n)
         /\ \A m \in Node \ {n} : SameColumn(After(m)', After(m), m)
         /\ Unmixed /\ ~NodeRowsBook(After(n), fe).mispaired => Unmixed'
<1>1. fe \in Numbered
  BY FillsAre
<1>2. CASE Len(fill_rings[n]) = RingSize
  <2>1. books' = Applied(books) /\ fill_rings' = [m \in Node |-> IF m = n THEN <<fe>> ELSE <<>>]
    BY <1>2 DEF Emit
  <2>2. <<fe>> \in Seq(Fills(n)) /\ \A m \in Node : <<>> \in Seq(Fills(m))
    OBVIOUS
  <2>3. OwnRings'
    BY <2>1, <2>2, SameFills DEF OwnRings
  <2>4. RingApplied(Applied(books), <<fe>>) = NodeRowsBook(Applied(books), fe)
    <3>1. <<>> \in Seq(Fills(n)) /\ Append(<<>>, fe) = <<fe>>
      OBVIOUS
    <3> QED BY <3>1, RingAppend, RingEmpty
  <2>5. After(n)' = NodeRowsBook(Applied(books), fe)
    BY <2>1, <2>2, <2>4, SameBooking DEF After
  <2>6. \A m \in Node \ {n} : After(m)' = Applied(books)
    BY <2>1, <2>2, RingEmpty, SameBooking DEF After
  <2>7. /\ \A m \in Node : SameColumn(Applied(books), After(m), m)
        /\ Unmixed => ~Applied(books).mispaired
    BY AppliedColumns DEF After, Unmixed
  <2>8. /\ SameColumn(After(n)', NodeRowsBook(After(n), fe), n)
        /\ Unmixed /\ ~NodeRowsBook(After(n), fe).mispaired => ~After(n)'.mispaired
    <3>1. Applied(books) \in Book /\ After(n) \in Book /\ SameColumn(Applied(books), After(n), fe.slot[1])
      BY <2>7, AppliedTyped, AfterTyped, FillsAre
    <3>2. /\ SameColumn(NodeRowsBook(Applied(books), fe), NodeRowsBook(After(n), fe), n)
          /\ Applied(books).mispaired = After(n).mispaired =>
               NodeRowsBook(Applied(books), fe).mispaired = NodeRowsBook(After(n), fe).mispaired
      BY <1>1, <3>1, ColumnFollows, FillsAre
    <3>3. Unmixed => Applied(books).mispaired = After(n).mispaired
      BY <2>7, <3>1 DEF Unmixed, Book
    <3> QED BY <2>5, <3>2, <3>3
  <2>9. Unmixed /\ ~NodeRowsBook(After(n), fe).mispaired => Unmixed'
    <3> SUFFICES ASSUME Unmixed, ~NodeRowsBook(After(n), fe).mispaired PROVE Unmixed'
      OBVIOUS
    <3>1. ~books'.mispaired
      BY <2>1, <2>7
    <3>2. ASSUME NEW m \in Node PROVE ~After(m)'.mispaired
      BY <2>6, <2>7, <2>8
    <3> QED BY <3>1, <3>2 DEF Unmixed
  <2> QED BY <2>1, <2>3, <2>6, <2>7, <2>8, <2>9
<1>3. CASE Len(fill_rings[n]) # RingSize
  <2>1. books' = books /\ fill_rings' = [fill_rings EXCEPT ![n] = Append(@, fe)]
    BY <1>3 DEF Emit
  <2>2. Append(fill_rings[n], fe) \in Seq(Fills(n)) /\ fill_rings[n] \in Seq(Fills(n))
    BY DEF OwnRings
  <2>3. OwnRings'
    BY <2>1, <2>2, SameFills DEF OwnRings
  <2>4. After(n)' = NodeRowsBook(After(n), fe)
    <3>1. fill_rings'[n] = Append(fill_rings[n], fe)
      BY <2>1
    <3>2. RingApplied(books, Append(fill_rings[n], fe)) = NodeRowsBook(After(n), fe)
      BY <2>2, RingAppend DEF After
    <3> QED BY <2>1, <2>2, <3>1, <3>2, SameBooking DEF After
  <2>5. ASSUME NEW m \in Node \ {n} PROVE After(m)' = After(m)
    <3>1. fill_rings'[m] = fill_rings[m] /\ fill_rings[m] \in Seq(Fills(m))
      BY <2>1 DEF OwnRings
    <3> QED BY <2>1, <3>1, SameBooking DEF After
  <2>6. \A m \in Node : SameColumn(After(m), After(m), m) /\ SameColumn(After(n)', After(n)', n)
    BY DEF SameColumn
  <2> QED BY <2>1, <2>3, <2>4, <2>5, <2>6 DEF Unmixed
<1> QED BY <1>2, <1>3

-----------------------------------------------------------------------------
(* The invariant: books, orders, trackers, pairs and the file.              *)

Empty == fill_rings = [n \in Node |-> <<>>]

BooksOK ==
  /\ {live, partial_on, orphaned} \subseteq BOOLEAN
  /\ books \in Book /\ OwnRings
  /\ composer # "book" => Empty
  /\ composer = "saving" => ~live
  /\ \A n \in Node : Sound(books, n)

(* What the core of a node holds, has ordered and is selling.               *)
OrdersOK ==
  /\ hot \subseteq Node \X Legs /\ ordered \subseteq hot /\ selling \subseteq Node \X Legs
  /\ \A s \in Slot :
       /\ pos[s] \in 0 .. Lot
       /\ pos[s] > 0 => s \in hot \cup selling
       /\ s \in selling => pos[s] > 0
       /\ s \in ordered \ selling => pos[s] < Lot

(* A tracker is empty when its slot is; in paper it is the position's worth. *)
Tracked(c, s) ==
  /\ pos[s] = 0 => c.slot_notional[s] = 0
  /\ ~live => c.slot_notional[s] = Worth(pos[s])
TrackersOK == \A n \in Node : \A s \in SlotsOf(n) : Tracked(After(n), s)

(* The legs of a paper trade: what is parked is of the trade of the leg     *)
(* that is still open, and legs open together are of one trade.             *)
Held(s) == pos[s] > 0
PairOK(c, n) ==
  LET a == <<n, "A">>
      b == <<n, "B">>
  IN /\ n \in c.partner_pending =>
          /\ Held(a) # Held(b) /\ (a \in ordered <=> b \in ordered)
          /\ \A s \in {a, b} : Held(s) =>
               c.parked[n] = trade[s] /\ (s \in ordered => s \in selling)
     /\ n \notin c.partner_pending /\ Held(a) # Held(b) =>
          \A s \in {a, b} :
            /\ s \notin selling /\ (s \in ordered <=> ~Held(s))
            /\ Held(s) => trade[s] = round[n]
     /\ n \notin c.partner_pending /\ (Held(a) <=> Held(b)) =>
          /\ a \in ordered <=> b \in ordered
          /\ Held(a) => /\ trade[a] = trade[b]
                        /\ a \in ordered => a \in selling /\ b \in selling
PairsOK ==
  ~live /\ ~orphaned =>
    Unmixed /\ (partial_on => \A n \in Node : PairOK(After(n), n))

(* The snapshot: what the same books say of the positions saved with them.  *)
FileOK ==
  snapshot.taken =>
    LET f == snapshot
        Open(n) == {s \in {<<n, "A">>, <<n, "B">>} : f.pos[s] > 0}
    IN /\ ~live /\ f.books \in Book /\ f.partial_on \in BOOLEAN
       /\ \A s \in Slot : f.pos[s] \in 0 .. Lot
       /\ \A n \in Node :
            /\ f.books.node_open_notional[n] = Worth(f.pos[<<n, "A">>]) + Worth(f.pos[<<n, "B">>])
            /\ ~f.partial_on => n \notin f.books.partner_pending /\ f.pos[<<n, "B">>] = 0
            /\ ~orphaned =>
                 /\ n \notin f.books.partner_pending => f.books.partner_pending_pnl[n] = 0
                 /\ f.books.node_realized[n] =
                      f.books.gross_wins[n] - f.books.gross_losses[n]
                        + f.books.partner_pending_pnl[n]
                 /\ n \in f.books.partner_pending =>
                      \E s \in Slot : Open(n) = {s} /\ f.books.parked[n] = f.trade[s]
                 /\ Open(n) = {<<n, "A">>, <<n, "B">>} => f.trade[<<n, "A">>] = f.trade[<<n, "B">>]
       /\ ~orphaned => ~f.books.mispaired

BoughtEvent(s, notional) ==
  [slot |-> s, is_sell |-> FALSE, slot_flat |-> FALSE, net |-> 0,
   notional |-> notional, trade |-> round[s[1]], seq |-> NextSeq(s[1])]
SoldEvent(s, units, net, notional) ==
  [slot |-> s, is_sell |-> TRUE, slot_flat |-> (units = pos[s]), net |-> net,
   notional |-> notional, trade |-> trade[s], seq |-> NextSeq(s[1])]

(* What a fill is: whole in paper, of at least a unit and at most what is   *)
(* open.                                                                    *)
LEMMA BuyIs ==
  ASSUME HistoryOK, RingsOK, OrdersOK, NEW s \in Slot, BuyFill(s)
  PROVE  /\ s[1] \in Node /\ s \in SlotsOf(s[1]) /\ s \in ordered
         /\ \E units \in Int, notional \in Int :
              /\ units >= 1 /\ pos[s] + units <= Lot
              /\ ~live => pos[s] + units = Lot /\ notional = Worth(units)
                          /\ SlotsOf(s[1]) \cap selling = {}
              /\ pos' = [pos EXCEPT ![s] = @ + units]
              /\ Emit(s[1], BoughtEvent(s, notional))
              /\ BoughtEvent(s, notional) \in Fills(s[1])
<1>1. s[1] \in Node /\ s \in SlotsOf(s[1]) /\ s \in ordered
  BY SlotParts DEF BuyFill, OrdersOK, SlotsOf
<1>2. pos[s] \in 0 .. Lot /\ s \notin selling /\ pos[s] < Lot /\ Lot \in Nat
  <2>1. s \notin selling
    BY <1>1 DEF BuyFill
  <2> QED BY <1>1, <2>1, Sizes DEF OrdersOK
<1>a. PICK units \in Parts(Lot - pos[s]) : \E notional \in Cost(units) :
        /\ pos' = [pos EXCEPT ![s] = @ + units]
        /\ Emit(s[1], BoughtEvent(s, notional))
  BY DEF BuyFill, BoughtEvent
<1>3. PICK notional \in Cost(units) :
        /\ pos' = [pos EXCEPT ![s] = @ + units]
        /\ Emit(s[1], BoughtEvent(s, notional))
  BY <1>a
<1>4. units \in Int /\ units >= 1 /\ pos[s] + units <= Lot /\ (~live => pos[s] + units = Lot)
  BY <1>2, <1>a DEF Parts
<1>5. notional \in Int /\ (~live => notional = Worth(units))
  BY <1>3, <1>4 DEF Cost, Worth
<1>6. ~live => SlotsOf(s[1]) \cap selling = {}
  BY DEF BuyFill
<1>7. BoughtEvent(s, notional) \in Fills(s[1])
  <2>1. NextSeq(s[1]) \in Nat /\ round[s[1]] \in Nat
    BY <1>1, NextNumber DEF HistoryOK
  <2> QED BY <1>1, <1>5, <2>1 DEF BoughtEvent, Fills, Numbered
<1> QED BY <1>1, <1>3, <1>4, <1>5, <1>6, <1>7

LEMMA SellEventIs ==
  ASSUME HistoryOK, RingsOK, OrdersOK, NEW s \in Slot, SellFill(s)
  PROVE  /\ s[1] \in Node /\ s \in SlotsOf(s[1]) /\ s \in selling
         /\ \E units \in Int, net \in Results, notional \in Int :
              /\ net \in Int /\ units >= 1 /\ units <= pos[s]
              /\ ~live => units = pos[s] /\ notional = Worth(units)
              /\ pos' = [pos EXCEPT ![s] = @ - units]
              /\ selling' = IF units = pos[s] THEN selling \ {s} ELSE selling
              /\ Emit(s[1], SoldEvent(s, units, net, notional))
              /\ SoldEvent(s, units, net, notional) \in Fills(s[1])
<1>1. s[1] \in Node /\ s \in SlotsOf(s[1]) /\ s \in selling
  BY SlotParts DEF SellFill, OrdersOK, SlotsOf
<1>2. pos[s] \in 0 .. Lot /\ pos[s] > 0 /\ Lot \in Nat
  BY <1>1, Sizes DEF OrdersOK
<1>3. PICK units \in Parts(pos[s]), net \in Results : \E notional \in Cost(units) :
        /\ pos' = [pos EXCEPT ![s] = @ - units]
        /\ Emit(s[1], SoldEvent(s, units, net, notional))
        /\ selling' = IF units = pos[s] THEN selling \ {s} ELSE selling
  BY DEF SellFill, SoldEvent
<1>4. PICK notional \in Cost(units) :
        /\ pos' = [pos EXCEPT ![s] = @ - units]
        /\ Emit(s[1], SoldEvent(s, units, net, notional))
        /\ selling' = IF units = pos[s] THEN selling \ {s} ELSE selling
  BY <1>3
<1>5. units \in Int /\ units >= 1 /\ units <= pos[s] /\ (~live => units = pos[s])
  BY <1>2, <1>3 DEF Parts
<1>6. notional \in Int /\ (~live => notional = Worth(units))
  BY <1>4, <1>5 DEF Cost, Worth
<1>7. net \in Int
  BY <1>3, LedgerAssumption
<1>8. SoldEvent(s, units, net, notional) \in Fills(s[1])
  <2>1. NextSeq(s[1]) \in Nat /\ trade[s] \in Nat /\ (units = pos[s]) \in BOOLEAN
    BY <1>1, NextNumber DEF HistoryOK
  <2>2. SoldEvent(s, units, net, notional) \in Numbered
    BY <1>6, <1>7, <2>1 DEF SoldEvent, Numbered
  <2>3. /\ SoldEvent(s, units, net, notional).slot = s
        /\ SoldEvent(s, units, net, notional).is_sell
        /\ ~live => SoldEvent(s, units, net, notional).slot_flat
    BY <1>5 DEF SoldEvent
  <2> QED BY <1>1, <2>2, <2>3 DEF Fills
<1> QED BY <1>1, <1>3, <1>4, <1>5, <1>6, <1>7, <1>8

-----------------------------------------------------------------------------
LEMMA BuyOrders ==
  ASSUME HistoryOK, RingsOK, OrdersOK, NEW s \in Slot, BuyFill(s)
  PROVE  OrdersOK'
<1>1. PICK units \in Int, notional \in Int :
        /\ units >= 1 /\ pos[s] + units <= Lot
        /\ pos' = [pos EXCEPT ![s] = @ + units]
  BY BuyIs
<1>2. /\ s \in ordered /\ hot' = hot /\ selling' = selling /\ Legs' = Legs
      /\ ordered' = IF pos'[s] = Lot THEN ordered \ {s} ELSE ordered
  BY DEF BuyFill, startVars, Legs
<1>3. ASSUME NEW t \in Slot
      PROVE  /\ pos'[t] \in 0 .. Lot
             /\ pos'[t] > 0 => t \in hot \cup selling
             /\ t \in selling => pos'[t] > 0
             /\ t \in ordered' \ selling => pos'[t] < Lot
  <2>1. pos[t] \in 0 .. Lot /\ Lot \in Nat
    BY Sizes DEF OrdersOK
  <2>2. CASE t = s
    BY <1>1, <1>2, <2>1, <2>2 DEF OrdersOK, HistoryOK
  <2>3. CASE t # s
    <3>1. pos'[t] = pos[t] /\ (t \in ordered' => t \in ordered)
      BY <1>1, <1>2, <2>3 DEF HistoryOK
    <3> QED BY <2>1, <3>1 DEF OrdersOK
  <2> QED BY <2>2, <2>3
<1> QED BY <1>2, <1>3 DEF OrdersOK

LEMMA SellOrders ==
  ASSUME HistoryOK, RingsOK, OrdersOK, NEW s \in Slot, SellFill(s)
  PROVE  OrdersOK'
<1>1. PICK units \in Int :
        /\ units >= 1 /\ units <= pos[s]
        /\ pos' = [pos EXCEPT ![s] = @ - units]
        /\ selling' = IF units = pos[s] THEN selling \ {s} ELSE selling
  BY SellEventIs
<1>2. s \in selling /\ hot' = hot /\ ordered' = ordered /\ Legs' = Legs
  BY DEF SellFill, startVars, Legs
<1>3. ASSUME NEW t \in Slot
      PROVE  /\ pos'[t] \in 0 .. Lot
             /\ pos'[t] > 0 => t \in hot \cup selling'
             /\ t \in selling' => pos'[t] > 0
             /\ t \in ordered \ selling' => pos'[t] < Lot
  <2>1. pos[t] \in 0 .. Lot /\ Lot \in Nat /\ Lot > 0
    BY Sizes, LedgerAssumption DEF OrdersOK
  <2>2. CASE t = s
    <3>1. pos'[s] = pos[s] - units
      BY <1>1 DEF HistoryOK
    <3> QED BY <1>1, <1>2, <2>1, <2>2, <3>1 DEF OrdersOK
  <2>3. CASE t # s
    <3>1. pos'[t] = pos[t] /\ (t \in selling' <=> t \in selling)
      BY <1>1, <2>3 DEF HistoryOK
    <3> QED BY <2>1, <3>1 DEF OrdersOK
  <2> QED BY <2>2, <2>3
<1> QED BY <1>1, <1>2, <1>3 DEF OrdersOK

LEMMA TradeOrders == ASSUME OrdersOK, NEW n \in Node, NewTrade(n) PROVE OrdersOK'
<1>1. /\ SlotsOf(n) \cap (hot \cup ordered) = {}
      /\ \E legs \in SUBSET SlotsOf(n) : hot' = hot \cup legs /\ ordered' = ordered \cup legs
  <2>1. PICK refused \in BOOLEAN :
          /\ refused => LegRefused /\ partial_on
          /\ LET legs == IF refused THEN {<<n, "A">>} ELSE SlotsOf(n)
             IN hot' = hot \cup legs /\ ordered' = ordered \cup legs
    BY DEF NewTrade
  <2>2. (IF refused THEN {<<n, "A">>} ELSE SlotsOf(n)) \in SUBSET SlotsOf(n)
    BY DEF SlotsOf, Legs
  <2> QED BY <2>1, <2>2 DEF NewTrade
<1>2. PICK legs \in SUBSET SlotsOf(n) : hot' = hot \cup legs /\ ordered' = ordered \cup legs
  BY <1>1
<1>3. selling' = selling /\ pos' = pos /\ Legs' = Legs /\ SlotsOf(n) \subseteq Node \X Legs
  BY DEF NewTrade, Legs, startVars, SlotsOf
<1>4. ASSUME NEW t \in Slot, t \in ordered' \ selling PROVE pos[t] < Lot
  <2>1. CASE t \in ordered
    BY <1>4, <2>1 DEF OrdersOK
  <2>2. CASE t \in legs
    <3>1. t \notin hot
      BY <1>1, <2>2
    <3>2. ~(pos[t] > 0) /\ pos[t] \in 0 .. Lot /\ Lot > 0 /\ Lot \in Nat
      BY <1>4, <3>1, LedgerAssumption, Sizes DEF OrdersOK
    <3> QED BY <3>2
  <2> QED BY <1>2, <1>4, <2>1, <2>2
<1> QED BY <1>2, <1>3, <1>4 DEF OrdersOK

LEMMA ExitOrders == ASSUME OrdersOK, NEW s \in Slot, ExitLeg(s) PROVE OrdersOK'
<1>1. /\ s \in hot /\ s \notin ordered /\ hot' = hot \ {s} /\ ordered' = ordered /\ pos' = pos
      /\ selling' = IF pos[s] > 0 THEN selling \cup {s} ELSE selling
      /\ Legs' = Legs
  BY DEF ExitLeg, Legs, startVars
<1> QED BY <1>1 DEF OrdersOK

LEMMA ResetOrders == ASSUME PaperReset, OrdersOK PROVE OrdersOK'
<1>1. /\ hot' \subseteq hot /\ ordered' = {} /\ selling' = {} /\ Legs' = Legs
      /\ \A s \in Slot : pos'[s] = 0
  BY DEF PaperReset, Legs, startVars, Zero
<1> QED BY <1>1, Sizes DEF OrdersOK

LEMMA RestartOrders == ASSUME Restart, OrdersOK, FileOK, HistoryOK PROVE OrdersOK'
<1>1. PICK partial \in BOOLEAN :
        /\ partial_on' = partial
        /\ pos' = IF Loads(partial) THEN snapshot.pos ELSE Zero(Slot)
  BY DEF Restart
<1>2. hot' = {s \in Slot : pos'[s] > 0} /\ ordered' = {} /\ selling' = {}
  BY DEF Restart
<1>3. ASSUME NEW s \in Slot
      PROVE  pos'[s] \in 0 .. Lot /\ (pos'[s] > 0 => s[2] \in Legs')
  <2>1. CASE Loads(partial)
    <3>1. pos'[s] \in 0 .. Lot
      BY <1>1, <2>1 DEF Loads, FileOK
    <3>2. ~partial => pos'[<<s[1], "B">>] = 0
      BY <1>1, <2>1, SlotParts DEF Loads, FileOK
    <3>3. s[2] \in {"A", "B"} /\ s = <<s[1], s[2]>>
      BY SlotParts
    <3> QED BY <1>1, <3>1, <3>2, <3>3 DEF Legs
  <2>2. CASE ~Loads(partial)
    BY <1>1, <2>2, Sizes DEF Zero
  <2> QED BY <2>1, <2>2
<1>4. hot' \subseteq Node \X Legs'
  <2>1. ASSUME NEW s \in hot' PROVE s \in Node \X Legs'
    BY <1>2, <1>3, SlotParts
  <2> QED BY <2>1
<1> QED BY <1>2, <1>3, <1>4, Sizes DEF OrdersOK

-----------------------------------------------------------------------------
(* The trackers of the open notional, across every action.                  *)

LEMMA SoundNext ==
  ASSUME NEW n \in Node, NEW b, Sound(b, n), UNCHANGED <<live, partial_on>>,
         {orphaned, orphaned'} \subseteq BOOLEAN, orphaned => orphaned', books' = b
  PROVE  Sound(books, n)'
BY DEF Sound, LegSum, SlotsOf, Legs

(* A fill leaves sound books.                                               *)
LEMMA EmitBooks ==
  ASSUME BooksOK, RingsOK, NEW n \in Node, NEW fe \in Fills(n), Emit(n, fe),
         UNCHANGED <<live, partial_on, orphaned>>
  PROVE  BooksOK'
<1>1. books' \in {books, Applied(books)} /\ OwnRings' /\ books \in Book /\ OwnRings
  BY EmitFacts DEF BooksOK, RingsOK
<1>2. books' \in Book
  BY <1>1, AppliedTyped
<1>3. ASSUME NEW m \in Node PROVE Sound(books, m)'
  <2>1. Sound(books, m) /\ Sound(Applied(books), m)
    BY <1>1, AppliedSound DEF BooksOK
  <2> QED BY <1>1, <2>1, SoundNext DEF BooksOK
<1>4. composer' = "book"
  BY DEF Emit
<1> QED BY <1>1, <1>2, <1>3, <1>4 DEF BooksOK

LEMMA ComposeBooks ==
  ASSUME BooksOK, RingsOK, Compose
  PROVE  /\ BooksOK'
         /\ \A n \in Node : SameColumn(After(n)', After(n), n)
         /\ Unmixed => Unmixed'
<1>1. /\ books' = Applied(books) /\ fill_rings' = [n \in Node |-> <<>>] /\ composer' = "tail"
      /\ UNCHANGED <<live, partial_on, orphaned>>
  BY DEF Compose, historyVars
<1>2. books' \in Book
  BY <1>1, AppliedTyped DEF BooksOK
<1>3. ASSUME NEW n \in Node PROVE Sound(books, n)'
  <2>1. Sound(Applied(books), n)
    BY AppliedSound DEF BooksOK
  <2> QED BY <1>1, <2>1, SoundNext DEF BooksOK
<1>4. OwnRings'
  <2>1. \A n \in Node : fill_rings'[n] = <<>> /\ <<>> \in Seq(Fills(n)')
    BY <1>1
  <2> QED BY <2>1 DEF OwnRings
<1>5. \A n \in Node : After(n)' = Applied(books)
  <2>1. <<>> \in Seq({})
    OBVIOUS
  <2> QED BY <1>1, <2>1, RingEmpty, SameBooking DEF After
<1>6. /\ \A n \in Node : SameColumn(Applied(books), After(n), n)
      /\ Unmixed => ~Applied(books).mispaired
  BY AppliedColumns DEF BooksOK, After, Unmixed
<1>7. Empty'
  BY <1>1 DEF Empty
<1> QED BY <1>1, <1>2, <1>3, <1>4, <1>5, <1>6, <1>7 DEF BooksOK, Unmixed

(* Empty rings: the books are what they will be.                            *)
LEMMA EmptyAfter == ASSUME Empty, NEW n \in Node PROVE After(n) = books
BY RingEmpty DEF Empty, After

LEMMA ResetBooks ==
  ASSUME BooksOK, PaperReset
  PROVE  /\ BooksOK' /\ fill_rings' = fill_rings /\ Empty
         /\ books'.partner_pending = {} /\ ~books'.mispaired
         /\ \A s \in Slot : books'.slot_notional[s] = 0
<1> DEFINE b == [EmptyBooks EXCEPT !.slot_notional = books.slot_notional,
                                   !.pending_trade_net = books.pending_trade_net]
<1>1. /\ books' = Seed(b, Zero(Slot)) /\ composer' = "book" /\ composer # "book"
      /\ UNCHANGED <<fill_rings, live, partial_on, orphaned>>
  BY DEF PaperReset, startVars, historyVars
<1>3. books' = [balance |-> Start, node_realized |-> Zero(Node), node_open_notional |-> Zero(Node),
           gross_wins |-> Zero(Node), gross_losses |-> Zero(Node),
           partner_pending |-> {}, partner_pending_pnl |-> Zero(Node),
           slot_notional |-> [s \in Slot |-> Worth(Zero(Slot)[s])],
           pending_trade_net |-> Zero(Slot),
           parked |-> Zero(Node), mispaired |-> FALSE]
  BY <1>1 DEF Seed, EmptyBooks
<1>4. \A s \in Slot : Worth(Zero(Slot)[s]) = 0
  BY DEF Worth, Zero
<1>5. Start \in Int /\ Zero(Node) \in [Node -> Int] /\ Zero(Slot) \in [Slot -> Int]
      /\ [s \in Slot |-> Worth(Zero(Slot)[s])] \in [Slot -> Int]
  BY <1>4, EngineAssumption DEF Zero
<1>6. books' \in Book
  BY <1>3, <1>5 DEF Book
<1>7. ASSUME NEW n \in Node PROVE Sound(books, n)'
  BY <1>3, <1>4, LegsOf DEF Sound, LegSum, Zero, SlotsOf, Legs
<1>8. OwnRings'
  BY <1>1, SameFills DEF BooksOK, OwnRings
<1> QED BY <1>1, <1>3, <1>4, <1>6, <1>7, <1>8 DEF BooksOK

(* What a boot finds: the snapshot, or nothing.                             *)
LEMMA LoadIs ==
  ASSUME NEW partial \in BOOLEAN, snapshot.taken, snapshot.books \in Book
  PROVE  LET c == Load(snapshot, partial)
             f == snapshot
         IN /\ c.balance = f.books.balance /\ c.node_realized = f.books.node_realized
            /\ c.node_open_notional = f.books.node_open_notional
            /\ c.gross_wins = f.books.gross_wins /\ c.gross_losses = f.books.gross_losses
            /\ c.partner_pending = IF partial THEN PartnerBits(f.pos) ELSE {}
            /\ c.partner_pending_pnl = f.books.partner_pending_pnl
            /\ c.slot_notional = [s \in Slot |-> Worth(f.pos[s])]
            /\ c.pending_trade_net = Zero(Slot)
            /\ c.parked = [n \in Node |->
                 IF n \in f.books.partner_pending THEN f.books.parked[n]
                 ELSE IF f.pos[<<n, "A">>] > 0 THEN f.trade[<<n, "A">>]
                      ELSE f.trade[<<n, "B">>]]
            /\ c.mispaired = f.books.mispaired
BY DEF Load, Seed, Book

LEMMA LoadTyped ==
  ASSUME NEW partial \in BOOLEAN, snapshot.taken, FileOK, HistoryOK
  PROVE  Load(snapshot, partial) \in Book
<1> DEFINE c == Load(snapshot, partial)
           f == snapshot
<1>1. f.books \in Book /\ f.pos \in [Slot -> Int] /\ f.trade \in [Slot -> Nat]
  BY DEF FileOK, HistoryOK
<1>2. /\ f.books.balance \in Int /\ f.books.node_realized \in [Node -> Int]
      /\ f.books.node_open_notional \in [Node -> Int] /\ f.books.gross_wins \in [Node -> Int]
      /\ f.books.gross_losses \in [Node -> Int] /\ f.books.partner_pending_pnl \in [Node -> Int]
      /\ f.books.parked \in [Node -> Int] /\ f.books.mispaired \in BOOLEAN
  BY <1>1 DEF Book
<1>3. (IF partial THEN PartnerBits(f.pos) ELSE {}) \subseteq Node
  BY DEF PartnerBits
<1>4. [s \in Slot |-> Worth(f.pos[s])] \in [Slot -> Int] /\ Zero(Slot) \in [Slot -> Int]
  BY <1>1 DEF Worth, Zero
<1>5. [n \in Node |-> IF n \in f.books.partner_pending THEN f.books.parked[n]
                      ELSE IF f.pos[<<n, "A">>] > 0 THEN f.trade[<<n, "A">>]
                           ELSE f.trade[<<n, "B">>]] \in [Node -> Int]
  BY <1>1, <1>2, LegsOf
<1> QED BY <1>1, <1>3, <1>4, <1>5 DEF Load, Seed, Book

LEMMA EmptyBooksTyped == ASSUME NEW x \in BOOLEAN PROVE [EmptyBooks EXCEPT !.mispaired = x] \in Book
<1>1. Start \in Int /\ Zero(Node) \in [Node -> Int] /\ Zero(Slot) \in [Slot -> Int]
  BY EngineAssumption DEF Zero
<1> QED BY <1>1 DEF EmptyBooks, Book

LEMMA RestartBooks == ASSUME BooksOK, FileOK, HistoryOK, Restart PROVE BooksOK'
<1>1. PICK partial \in BOOLEAN :
        /\ partial_on' = partial
        /\ books' = IF Loads(partial) THEN Load(snapshot, partial)
                                      ELSE [EmptyBooks EXCEPT !.mispaired = books.mispaired]
  BY DEF Restart
<1>2. /\ fill_rings' = [n \in Node |-> <<>>] /\ composer' = "book"
      /\ UNCHANGED <<live, orphaned>> /\ ~live
  BY DEF Restart
<1>3. OwnRings'
  <2>1. \A n \in Node : fill_rings'[n] = <<>> /\ <<>> \in Seq(Fills(n)')
    BY <1>2
  <2> QED BY <2>1 DEF OwnRings
<1>4. CASE Loads(partial)
  <2> DEFINE f == snapshot
  <2>1. snapshot.taken /\ f.partial_on = partial /\ books' = Load(snapshot, partial)
        /\ f.books \in Book
    BY <1>1, <1>4 DEF Loads, FileOK
  <2>2. books' \in Book
    BY <2>1, LoadTyped
  <2>3. /\ books'.node_realized = f.books.node_realized
        /\ books'.node_open_notional = f.books.node_open_notional
        /\ books'.gross_wins = f.books.gross_wins /\ books'.gross_losses = f.books.gross_losses
        /\ books'.partner_pending = IF partial THEN PartnerBits(f.pos) ELSE {}
        /\ books'.partner_pending_pnl = f.books.partner_pending_pnl
        /\ books'.slot_notional = [s \in Slot |-> Worth(f.pos[s])]
        /\ books'.pending_trade_net = Zero(Slot)
    BY <2>1, LoadIs
  <2>4. ASSUME NEW n \in Node PROVE Sound(books, n)'
    <3> DEFINE A == <<n, "A">>
               B == <<n, "B">>
    <3>1. A \in Slot /\ B \in Slot /\ f.pos[A] \in Int /\ f.pos[B] \in Int
      BY <2>1, LegsOf DEF HistoryOK
    <3>2. /\ f.books.node_open_notional[n] = Worth(f.pos[A]) + Worth(f.pos[B])
          /\ ~partial => n \notin f.books.partner_pending /\ f.pos[B] = 0
      BY <2>1 DEF FileOK
    <3>3. books'.slot_notional[A] = Worth(f.pos[A]) /\ books'.slot_notional[B] = Worth(f.pos[B])
      BY <2>3, <3>1
    <3>4. books'.pending_trade_net[A] = 0 /\ books'.pending_trade_net[B] = 0
      BY <2>3, <3>1 DEF Zero
    <3>5. (books'.node_open_notional[n] = LegSum(books.slot_notional, n)')
      BY <1>1, <2>3, <3>1, <3>2, <3>3 DEF LegSum, Worth
    <3>6. (LegSum(books.pending_trade_net, n)' = 0)
      BY <1>1, <3>4 DEF LegSum
    <3>7. n \notin books'.partner_pending => n \notin f.books.partner_pending \/ orphaned
      <4> SUFFICES ASSUME n \in f.books.partner_pending, ~orphaned
                   PROVE  n \in books'.partner_pending
        OBVIOUS
      <4>1. PICK s \in Slot : {t \in {A, B} : f.pos[t] > 0} = {s}
        BY <2>1 DEF FileOK
      <4>2. (f.pos[A] > 0) # (f.pos[B] > 0)
        BY <4>1, LegsOf
      <4>3. n \in PartnerBits(f.pos)
        BY <4>2 DEF PartnerBits
      <4> QED BY <2>3, <3>2, <4>3
    <3>8. ~orphaned =>
            /\ n \notin books'.partner_pending => books'.partner_pending_pnl[n] = 0
            /\ f.books.node_realized[n] = f.books.gross_wins[n] - f.books.gross_losses[n]
                                          + f.books.partner_pending_pnl[n]
      BY ZenonT(30), <2>1, <2>3, <3>7 DEF FileOK
    <3>9. ~orphaned => (books'.node_realized[n] =
            books'.gross_wins[n] - books'.gross_losses[n] + books'.partner_pending_pnl[n]
              + LegSum(books.pending_trade_net, n)')
      <4>1. f.books.node_realized[n] \in Int /\ f.books.gross_wins[n] \in Int
            /\ f.books.gross_losses[n] \in Int /\ f.books.partner_pending_pnl[n] \in Int
        BY <2>1 DEF Book
      <4> QED BY <2>3, <3>6, <3>8, <4>1
    <3>10. \A s \in SlotsOf(n)' : books'.pending_trade_net[s] = 0
      BY <3>4 DEF SlotsOf, Legs
    <3> HIDE DEF A, B, f
    <3> QED BY <1>1, <1>2, <2>3, <3>5, <3>8, <3>9, <3>10 DEF Sound
  <2> QED BY <1>1, <1>2, <1>3, <2>2, <2>4 DEF BooksOK
<1>5. CASE ~Loads(partial)
  <2>1. books' = [EmptyBooks EXCEPT !.mispaired = books.mispaired] /\ books.mispaired \in BOOLEAN
    BY <1>1, <1>5 DEF BooksOK, Book
  <2>2. books' \in Book
    BY <2>1, EmptyBooksTyped
  <2>3. ASSUME NEW n \in Node PROVE Sound(books, n)'
    BY <2>1, LegsOf DEF EmptyBooks, Sound, LegSum, Zero, SlotsOf, Legs
  <2> QED BY <1>1, <1>2, <1>3, <2>2, <2>3 DEF BooksOK
<1> QED BY <1>4, <1>5

-----------------------------------------------------------------------------
(* What the books are to become, for the legs of a node.                    *)

LEMMA BookedRow ==
  ASSUME BooksOK, NEW n \in Node
  PROVE  /\ After(n) \in Book /\ Sound(After(n), n)
         /\ fill_rings[n] \in Seq(Fills(n))
BY AfterTyped, RingSound DEF BooksOK, OwnRings, After

LEMMA BuyTrackers ==
  ASSUME HistoryOK, RingsOK, BooksOK, OrdersOK, TrackersOK, NEW s \in Slot, BuyFill(s)
  PROVE  TrackersOK'
<1>1. PICK units \in Int, notional \in Int :
        /\ units >= 1 /\ pos[s] + units <= Lot
        /\ ~live => pos[s] + units = Lot /\ notional = Worth(units)
        /\ pos' = [pos EXCEPT ![s] = @ + units]
        /\ Emit(s[1], BoughtEvent(s, notional))
        /\ BoughtEvent(s, notional) \in Fills(s[1])
  BY BuyIs
<1>2. UNCHANGED <<live, partial_on>> /\ s[1] \in Node
  BY SlotParts DEF BuyFill, startVars
<1> DEFINE e == BoughtEvent(s, notional)
           n == s[1]
<1>3. /\ SameColumn(After(n)', NodeRowsBook(After(n), e), n)
      /\ \A m \in Node \ {n} : SameColumn(After(m)', After(m), m)
  BY <1>1, <1>2, EmitFacts DEF BooksOK, RingsOK
<1>4. /\ NodeRowsBook(After(n), e).slot_notional =
           [After(n).slot_notional EXCEPT ![s] = @ + notional]
      /\ After(n).slot_notional \in [Slot -> Int]
  <2>1. e \in Numbered /\ ~e.is_sell /\ e.slot = s /\ e.notional = notional
    BY <1>1, <1>2, FillsAre DEF BoughtEvent
  <2>2. After(n) \in Book
    BY <1>2, BookedRow
  <2>3. After(n).slot_notional \in [Slot -> Int]
    BY <2>2 DEF Book
  <2> HIDE DEF e, n
  <2>4. NodeRowsBook(After(n), e).slot_notional =
          [After(n).slot_notional EXCEPT ![e.slot] = @ + e.notional]
    BY <2>1, <2>2, BuyRow
  <2> QED BY <2>1, <2>3, <2>4
<1> HIDE DEF e, n
<1>5. ASSUME NEW m \in Node, NEW t \in SlotsOf(m) PROVE Tracked(After(m), t)'
  <2>1. t \in Slot /\ t[1] = m /\ Tracked(After(m), t) /\ pos[t] \in 0 .. Lot /\ Lot \in Nat
    BY LegsOf, Sizes DEF TrackersOK, OrdersOK
  <2>2. CASE t = s
    <3>1. pos'[s] = pos[s] + units /\ pos'[s] > 0 /\ m = n
      BY <1>1, <2>1, <2>2 DEF HistoryOK, n
    <3>2. After(m)'.slot_notional[s] = After(m).slot_notional[s] + notional
      BY <1>3, <1>4, <2>1, <2>2, <3>1 DEF SameColumn
    <3>3. ~live => After(m)'.slot_notional[s] = Worth(pos'[s])
      BY <1>1, <2>1, <2>2, <3>1, <3>2 DEF Tracked, Worth
    <3> QED BY <1>2, <2>2, <3>1, <3>3 DEF Tracked
  <2>3. CASE t # s
    <3>1. pos'[t] = pos[t]
      BY <1>1, <2>1, <2>3 DEF HistoryOK
    <3>2. After(m)'.slot_notional[t] = After(m).slot_notional[t]
      <4>1. CASE m = n
        BY <1>3, <1>4, <2>1, <2>3, <4>1 DEF SameColumn
      <4>2. CASE m # n
        BY <1>3, <2>1, <4>2 DEF SameColumn
      <4> QED BY <4>1, <4>2
    <3> QED BY <1>2, <2>1, <3>1, <3>2 DEF Tracked
  <2> QED BY <2>2, <2>3
<1> QED BY <1>2, <1>5 DEF TrackersOK, SlotsOf, Legs

LEMMA SellTrackers ==
  ASSUME HistoryOK, RingsOK, BooksOK, OrdersOK, TrackersOK, NEW s \in Slot, SellFill(s)
  PROVE  TrackersOK'
<1>1. PICK units \in Int, net \in Results, notional \in Int :
        /\ net \in Int /\ units >= 1 /\ units <= pos[s]
        /\ ~live => units = pos[s]
        /\ pos' = [pos EXCEPT ![s] = @ - units]
        /\ Emit(s[1], SoldEvent(s, units, net, notional))
        /\ SoldEvent(s, units, net, notional) \in Fills(s[1])
  BY SellEventIs
<1>2. UNCHANGED <<live, partial_on>> /\ s[1] \in Node
  BY SlotParts DEF SellFill, startVars
<1> DEFINE e == SoldEvent(s, units, net, notional)
           n == s[1]
<1>3. /\ SameColumn(After(n)', NodeRowsBook(After(n), e), n)
      /\ \A m \in Node \ {n} : SameColumn(After(m)', After(m), m)
  BY <1>1, <1>2, EmitFacts DEF BooksOK, RingsOK
<1>4. /\ NodeRowsBook(After(n), e).slot_notional =
           [After(n).slot_notional EXCEPT ![s] = @ - Relief(After(n), e)]
      /\ After(n).slot_notional \in [Slot -> Int]
      /\ Relief(After(n), e) \in Int
      /\ units = pos[s] => Relief(After(n), e) = After(n).slot_notional[s]
  <2>1. e \in Numbered /\ e.is_sell /\ e.slot = s /\ e.slot_flat = (units = pos[s])
        /\ e.trade \in Int /\ e.net \in Int
    BY <1>1, <1>2, FillsAre, EventTyped DEF SoldEvent
  <2>2. After(n) \in Book
    BY <1>2, BookedRow
  <2>3. SellBooked(After(n), e).slot_notional =
           [After(n).slot_notional EXCEPT ![s] = @ - Relief(After(n), e)]
    <3>1. SellBooked(After(n), e).slot_notional =
            [After(n).slot_notional EXCEPT ![e.slot] = @ - Relief(After(n), e)]
      <4> HIDE DEF e, n
      <4> QED BY <2>1, <2>2, SellRow
    <3> HIDE DEF e, n
    <3> QED BY <2>1, <3>1
  <2>4. NodeRowsBook(After(n), e).slot_notional = SellBooked(After(n), e).slot_notional
    <3>1. SellBooked(After(n), e) \in Book /\ After(n).pending_trade_net[s] + e.net \in Int
      BY <2>1, <2>2, SellBookedTyped DEF Book
    <3> QED BY <1>2, <2>1, <2>2, <3>1, SellIs, ConcludeRow
  <2> QED BY <2>1, <2>2, <2>3, <2>4, ReliefTyped DEF Book, Relief
<1> HIDE DEF e, n
<1>5. ASSUME NEW m \in Node, NEW t \in SlotsOf(m) PROVE Tracked(After(m), t)'
  <2>1. t \in Slot /\ t[1] = m /\ Tracked(After(m), t) /\ pos[t] \in 0 .. Lot /\ Lot \in Nat
    BY LegsOf, Sizes DEF TrackersOK, OrdersOK
  <2>2. CASE t = s
    <3>1. pos'[s] = pos[s] - units /\ m = n
      BY <1>1, <2>1, <2>2 DEF HistoryOK, n
    <3>2. After(m)'.slot_notional[s] = After(m).slot_notional[s] - Relief(After(m), e)
      BY <1>3, <1>4, <2>1, <2>2, <3>1 DEF SameColumn
    <3>3. CASE units = pos[s]
      <4>1. After(m)'.slot_notional[s] = 0 /\ pos'[s] = 0
        BY <1>1, <1>4, <2>1, <2>2, <3>1, <3>2, <3>3
      <4> QED BY <2>2, <4>1 DEF Tracked, Worth
    <3>4. CASE units # pos[s]
      BY <1>1, <1>2, <2>1, <2>2, <3>1, <3>4 DEF Tracked
    <3> QED BY <3>3, <3>4
  <2>3. CASE t # s
    <3>1. pos'[t] = pos[t]
      BY <1>1, <2>1, <2>3 DEF HistoryOK
    <3>2. After(m)'.slot_notional[t] = After(m).slot_notional[t]
      <4>1. CASE m = n
        BY <1>3, <1>4, <2>1, <2>3, <4>1 DEF SameColumn
      <4>2. CASE m # n
        BY <1>3, <2>1, <4>2 DEF SameColumn
      <4> QED BY <4>1, <4>2
    <3> QED BY <1>2, <2>1, <3>1, <3>2 DEF Tracked
  <2> QED BY <2>2, <2>3
<1> QED BY <1>2, <1>5 DEF TrackersOK, SlotsOf, Legs

(* Steps that keep each node's part of the books and the positions.         *)
LEMMA TrackersStay ==
  ASSUME TrackersOK, UNCHANGED <<live, partial_on, pos>>,
         \A n \in Node : SameColumn(After(n)', After(n), n)
  PROVE  TrackersOK'
<1>1. ASSUME NEW n \in Node, NEW s \in SlotsOf(n) PROVE Tracked(After(n), s)'
  <2>1. s \in Slot /\ s[1] = n /\ Tracked(After(n), s)
    BY LegsOf DEF TrackersOK
  <2>2. After(n)'.slot_notional[s] = After(n).slot_notional[s]
    BY <2>1 DEF SameColumn
  <2> QED BY <2>1, <2>2 DEF Tracked
<1> QED BY <1>1 DEF TrackersOK, SlotsOf, Legs

LEMMA ResetTrackers == ASSUME BooksOK, PaperReset PROVE TrackersOK'
<1>1. Empty' /\ BooksOK' /\ \A s \in Slot : books'.slot_notional[s] = 0 /\ pos'[s] = 0
  BY ResetBooks DEF Empty, PaperReset, Zero
<1>2. \A n \in Node : After(n)' = books'
  <2>1. <<>> \in Seq({}) /\ partial_on' = partial_on
    BY DEF PaperReset, startVars
  <2> QED BY <1>1, <2>1, RingEmpty, SameBooking DEF After, Empty
<1>3. \A n \in Node : SlotsOf(n)' \subseteq Slot
  BY DEF SlotsOf, Legs, Slot
<1> QED BY <1>1, <1>2, <1>3 DEF TrackersOK, Tracked, Worth

BooksAlone == \A b : RingApplied(b, <<>>) = b
LEMMA NothingApplied == BooksAlone
BY RingEmpty DEF BooksAlone

(* After a boot the rings are empty, whatever the geometry.                 *)
LEMMA RestartAfter == ASSUME Restart, NEW n \in Node PROVE After(n)' = books'
<1>1. BooksAlone'
  BY NothingApplied, PTL
<1>2. fill_rings' = [m \in Node |-> <<>>]
  BY DEF Restart
<1> QED BY <1>1, <1>2 DEF BooksAlone, After

LEMMA RestartTrackers == ASSUME FileOK, HistoryOK, Restart PROVE TrackersOK'
<1>1. PICK partial \in BOOLEAN :
        /\ pos' = IF Loads(partial) THEN snapshot.pos ELSE Zero(Slot)
        /\ books' = IF Loads(partial) THEN Load(snapshot, partial)
                                      ELSE [EmptyBooks EXCEPT !.mispaired = books.mispaired]
  BY DEF Restart
<1>2. ASSUME NEW s \in Slot PROVE books'.slot_notional[s] = Worth(pos'[s]) /\ pos'[s] \in Int
  <2>1. CASE Loads(partial)
    <3>1. snapshot.taken /\ snapshot.books \in Book /\ snapshot.pos \in [Slot -> Int]
      BY <2>1 DEF Loads, FileOK, HistoryOK
    <3>2. books' = Load(snapshot, partial) /\ pos' = snapshot.pos
      BY <1>1, <2>1
    <3>3. books'.slot_notional = [t \in Slot |-> Worth(snapshot.pos[t])]
      BY <3>1, <3>2, LoadIs
    <3> QED BY <3>1, <3>2, <3>3
  <2>2. CASE ~Loads(partial)
    BY <1>1, <2>2 DEF EmptyBooks, Zero, Worth
  <2> QED BY <2>1, <2>2
<1>3. \A n \in Node : SlotsOf(n)' \subseteq Slot
  BY LegsOf DEF SlotsOf, Legs, Slot
<1> QED BY <1>2, <1>3, RestartAfter DEF TrackersOK, Tracked, Worth

-----------------------------------------------------------------------------
(* The legs of a node, across every action.                                 *)

(* The pair of a node that a step leaves alone.                             *)
LEMMA PairStays ==
  ASSUME NEW n \in Node, PairOK(After(n), n), SameColumn(After(n)', After(n), n),
         round'[n] = round[n],
         \A s \in {<<n, "A">>, <<n, "B">>} :
           /\ pos'[s] = pos[s] /\ trade'[s] = trade[s]
           /\ s \in ordered' <=> s \in ordered
           /\ s \in selling' <=> s \in selling
  PROVE  PairOK(After(n), n)'
BY DEF PairOK, Held, SameColumn

LEMMA BuyPairs ==
  ASSUME HistoryOK, RingsOK, BooksOK, OrdersOK, PairsOK, NEW s \in Slot, BuyFill(s)
  PROVE  PairsOK'
<1>1. PICK units \in Int, notional \in Int :
        /\ units >= 1 /\ pos[s] + units <= Lot
        /\ ~live => pos[s] + units = Lot /\ SlotsOf(s[1]) \cap selling = {}
        /\ pos' = [pos EXCEPT ![s] = @ + units]
        /\ Emit(s[1], BoughtEvent(s, notional))
        /\ BoughtEvent(s, notional) \in Fills(s[1])
  BY BuyIs
<1>2. /\ UNCHANGED <<live, partial_on, orphaned, round, selling>> /\ s[1] \in Node /\ s \in ordered
      /\ trade' = [trade EXCEPT ![s] = round[s[1]]]
      /\ ordered' = IF pos'[s] = Lot THEN ordered \ {s} ELSE ordered
      /\ s \in SlotsOf(s[1])
  BY SlotParts, BuyIs DEF BuyFill, startVars
<1> SUFFICES ASSUME ~live, ~orphaned PROVE Unmixed' /\ (partial_on => \A n \in Node : PairOK(After(n), n)')
  BY <1>2 DEF PairsOK
<1> DEFINE e == BoughtEvent(s, notional)
           k == s[1]
<1>3. /\ SameColumn(After(k)', NodeRowsBook(After(k), e), k)
      /\ \A m \in Node \ {k} : SameColumn(After(m)', After(m), m)
      /\ Unmixed /\ ~NodeRowsBook(After(k), e).mispaired => Unmixed'
  BY <1>1, <1>2, EmitFacts DEF BooksOK, RingsOK
<1>4. e \in Numbered /\ ~e.is_sell
  BY <1>1, <1>2, FillsAre DEF BoughtEvent
<1>5. After(k) \in Book
  BY <1>2, BookedRow
<1> HIDE DEF e
<1>6. /\ NodeRowsBook(After(k), e).partner_pending = After(k).partner_pending
      /\ NodeRowsBook(After(k), e).parked = After(k).parked
      /\ NodeRowsBook(After(k), e).mispaired = After(k).mispaired
  BY <1>4, <1>5, BuyRow
<1>7. Unmixed'
  BY <1>2, <1>3, <1>6 DEF PairsOK, Unmixed
<1>8. ASSUME partial_on, NEW n \in Node PROVE PairOK(After(n), n)'
  <2>1. PairOK(After(n), n)
    BY <1>8 DEF PairsOK
  <2>2. CASE n # k
    <3>1. \A t \in {<<n, "A">>, <<n, "B">>} : t \in Slot /\ t # s
      BY <2>2, LegsOf
    <3> QED BY <1>1, <1>2, <1>3, <2>1, <2>2, <3>1, PairStays DEF HistoryOK
  <2>3. CASE n = k
    <3> DEFINE a == <<n, "A">>
               b == <<n, "B">>
    <3>1. /\ s \in {a, b} /\ a # b /\ a \in Slot /\ b \in Slot
          /\ a \notin selling /\ b \notin selling
      BY <1>1, <1>2, <1>8, <2>3, LegsOf
    <3>2. /\ n \in After(n)'.partner_pending <=> n \in After(n).partner_pending
          /\ After(n)'.parked[n] = After(n).parked[n]
      BY <1>3, <1>6, <2>3 DEF SameColumn
    <3>3. /\ pos[s] \in 0 .. Lot /\ pos[s] < Lot /\ pos'[s] = Lot /\ Lot \in Nat /\ Lot > 0
          /\ \A t \in {a, b} : t # s => pos'[t] = pos[t] /\ trade'[t] = trade[t]
          /\ trade'[s] = round[n]
          /\ ordered' = ordered \ {s} /\ selling' = selling /\ round' = round
      BY <1>1, <1>2, <2>3, <3>1, Sizes, LedgerAssumption DEF HistoryOK, OrdersOK
    <3> HIDE DEF a, b
    <3> QED BY <1>2, <2>1, <3>1, <3>2, <3>3 DEF PairOK, Held, a, b
  <2> QED BY <2>2, <2>3
<1> QED BY <1>7, <1>8

LEMMA SellPairs ==
  ASSUME HistoryOK, RingsOK, BooksOK, OrdersOK, PairsOK, NEW s \in Slot, SellFill(s)
  PROVE  PairsOK'
<1>1. PICK units \in Int, net \in Results, notional \in Int :
        /\ net \in Int /\ units >= 1 /\ units <= pos[s]
        /\ ~live => units = pos[s]
        /\ pos' = [pos EXCEPT ![s] = @ - units]
        /\ selling' = IF units = pos[s] THEN selling \ {s} ELSE selling
        /\ Emit(s[1], SoldEvent(s, units, net, notional))
        /\ SoldEvent(s, units, net, notional) \in Fills(s[1])
  BY SellEventIs
<1>2. /\ UNCHANGED <<live, partial_on, orphaned, round, trade, ordered>>
      /\ s[1] \in Node /\ s \in selling /\ s \in SlotsOf(s[1])
  BY SlotParts, SellEventIs DEF SellFill, startVars, historyVars
<1> SUFFICES ASSUME ~live, ~orphaned PROVE Unmixed' /\ (partial_on => \A n \in Node : PairOK(After(n), n)')
  BY <1>2 DEF PairsOK
<1> DEFINE e == SoldEvent(s, units, net, notional)
           k == s[1]
<1>3. /\ SameColumn(After(k)', NodeRowsBook(After(k), e), k)
      /\ \A m \in Node \ {k} : SameColumn(After(m)', After(m), m)
      /\ Unmixed /\ ~NodeRowsBook(After(k), e).mispaired => Unmixed'
  BY <1>1, <1>2, EmitFacts DEF BooksOK, RingsOK
<1>4. /\ e \in Numbered /\ e.is_sell /\ e.slot = s /\ e.slot_flat /\ e.trade = trade[s]
      /\ e.net \in Int /\ e.trade \in Int
  BY <1>1, <1>2, FillsAre, EventTyped DEF SoldEvent
<1>5. After(k) \in Book /\ Sound(After(k), k)
  BY <1>2, BookedRow
<1> HIDE DEF e, k
<1> DEFINE c == NodeRowsBook(After(k), e)
<1>6. /\ partial_on /\ k \notin After(k).partner_pending =>
           /\ k \in c.partner_pending /\ c.parked[k] = trade[s]
           /\ c.mispaired = After(k).mispaired
      /\ ~(partial_on /\ k \notin After(k).partner_pending) =>
           /\ k \notin c.partner_pending
           /\ c.mispaired = (After(k).mispaired \/
                               (k \in After(k).partner_pending /\ After(k).parked[k] # trade[s]))
  <2> DEFINE d == SellBooked(After(k), e)
             r == After(k).pending_trade_net[s] + e.net
  <2>1. c = Conclude(d, k, r, e.trade)
    BY <1>4, <1>5, SellIs DEF k
  <2>2. d \in Book /\ r \in Int /\ k \in Node
    BY <1>2, <1>4, <1>5, SellBookedTyped DEF Book, k
  <2>3. /\ d.partner_pending = After(k).partner_pending /\ d.parked = After(k).parked
        /\ d.mispaired = After(k).mispaired
    BY <1>4, <1>5, SellRow
  <2> HIDE DEF c, d, r
  <2>4. CASE partial_on /\ k \notin d.partner_pending
    <3>1. /\ c.partner_pending = d.partner_pending \cup {k} /\ c.parked[k] = e.trade
          /\ c.mispaired = d.mispaired
      BY <1>4, <2>1, <2>2, <2>4, ConcludeRow
    <3> QED BY <1>4, <2>3, <2>4, <3>1
  <2>5. CASE ~(partial_on /\ k \notin d.partner_pending)
    <3>1. /\ c.partner_pending = d.partner_pending \ {k}
          /\ c.mispaired = (d.mispaired \/ (k \in d.partner_pending /\ d.parked[k] # e.trade))
      BY <1>4, <2>1, <2>2, <2>5, ConcludeRow
    <3> QED BY <1>4, <2>3, <2>5, <3>1
  <2> QED BY <2>4, <2>5
<1> HIDE DEF c
<1>7. Unmixed'
  <2>1. ~After(k).mispaired
    BY <1>2 DEF PairsOK, Unmixed, k
  <2>2. CASE partial_on
    <3>1. PairOK(After(k), k) /\ s \in {<<k, "A">>, <<k, "B">>} /\ pos[s] > 0
      BY <1>2, <2>2, LegsOf DEF PairsOK, k, OrdersOK
    <3>2. k \in After(k).partner_pending => After(k).parked[k] = trade[s]
      BY <3>1 DEF PairOK, Held
    <3> QED BY <1>2, <1>3, <1>6, <2>1, <2>2, <3>2 DEF PairsOK, c
  <2>3. CASE ~partial_on
    <3>1. k \notin After(k).partner_pending
      BY <1>5, <2>3 DEF Sound
    <3> QED BY <1>2, <1>3, <1>6, <2>1, <2>3, <3>1 DEF PairsOK, c
  <2> QED BY <1>2, <2>2, <2>3 DEF BooksOK
<1>8. ASSUME partial_on, NEW n \in Node PROVE PairOK(After(n), n)'
  <2>1. PairOK(After(n), n)
    BY <1>8 DEF PairsOK
  <2>2. CASE n # k
    <3>1. \A t \in {<<n, "A">>, <<n, "B">>} : t \in Slot /\ t # s
      BY <2>2, LegsOf DEF k
    <3>2. \A t \in {<<n, "A">>, <<n, "B">>} : pos'[t] = pos[t] /\ (t \in selling' <=> t \in selling)
      BY <1>1, <3>1 DEF HistoryOK
    <3> QED BY <1>2, <1>3, <2>1, <2>2, <3>2, PairStays
  <2>3. CASE n = k
    <3> DEFINE a == <<n, "A">>
               b == <<n, "B">>
    <3>1. s \in {a, b} /\ a # b /\ a \in Slot /\ b \in Slot
      BY <1>2, <1>8, <2>3, LegsOf DEF k
    <3>2. /\ n \in After(n)'.partner_pending <=> n \in c.partner_pending
          /\ After(n)'.parked[n] = c.parked[n]
      BY <1>3, <2>3 DEF SameColumn, c
    <3>3. /\ pos[s] > 0 /\ pos'[s] = 0 /\ s \in selling
          /\ \A t \in {a, b} : t # s => pos'[t] = pos[t]
          /\ selling' = selling \ {s}
      BY <1>1, <1>2, <3>1 DEF HistoryOK, OrdersOK
    <3> HIDE DEF a, b
    <3> QED BY <1>2, <1>6, <1>8, <2>1, <2>3, <3>1, <3>2, <3>3 DEF PairOK, Held, a, b
  <2> QED BY <2>2, <2>3
<1> QED BY <1>7, <1>8

LEMMA TradePairs ==
  ASSUME BooksOK, OrdersOK, PairsOK, HistoryOK, NEW k \in Node, NewTrade(k)
  PROVE  PairsOK'
<1>1. /\ UNCHANGED <<live, partial_on, books, fill_rings, pos, selling, trade>>
      /\ SlotsOf(k) \cap (hot \cup ordered) = {}
      /\ round' = [round EXCEPT ![k] = @ + 1]
  BY DEF NewTrade, startVars
<1>2. PICK refused \in BOOLEAN :
        /\ orphaned' = (orphaned \/ refused)
        /\ ordered' = ordered \cup (IF refused THEN {<<k, "A">>} ELSE SlotsOf(k))
  BY DEF NewTrade
<1> SUFFICES ASSUME ~live, ~orphaned'
             PROVE  Unmixed' /\ (partial_on => \A n \in Node : PairOK(After(n), n)')
  BY <1>1 DEF PairsOK
<1>3. ~orphaned /\ ordered' = ordered \cup SlotsOf(k)
  BY <1>2
<1>4. Unmixed' /\ \A n \in Node : After(n)' = After(n)
  BY <1>1, <1>3, SameAfter DEF PairsOK, BooksOK
<1>5. ASSUME partial_on, NEW n \in Node PROVE PairOK(After(n), n)'
  <2>1. PairOK(After(n), n)
    BY <1>1, <1>3, <1>5 DEF PairsOK
  <2>2. CASE n # k
    <3>1. \A t \in {<<n, "A">>, <<n, "B">>} : t \notin SlotsOf(k)
      BY <2>2, LegsOf
    <3> QED BY <1>1, <1>3, <1>4, <2>1, <2>2, <3>1, PairStays DEF HistoryOK, SameColumn
  <2>3. CASE n = k
    <3> DEFINE a == <<n, "A">>
               b == <<n, "B">>
    <3>1. /\ a \in Slot /\ b \in Slot /\ SlotsOf(k) = {a, b}
      BY <1>5, <2>3, LegsOf
    <3>2. /\ a \notin hot /\ b \notin hot /\ a \notin ordered /\ b \notin ordered
          /\ a \in ordered' /\ b \in ordered'
      BY <1>1, <1>3, <3>1
    <3>3. (pos[a] > 0 => a \in selling) /\ (pos[b] > 0 => b \in selling)
      BY <3>1, <3>2 DEF OrdersOK
    <3> HIDE DEF a, b
    <3> QED BY <1>1, <1>4, <2>1, <3>1, <3>2, <3>3 DEF PairOK, Held, a, b
  <2> QED BY <2>2, <2>3
<1> QED BY <1>4, <1>5

LEMMA ExitPairs ==
  ASSUME BooksOK, OrdersOK, PairsOK, NEW s \in Slot, ExitLeg(s)
  PROVE  PairsOK'
<1>1. /\ UNCHANGED <<live, partial_on, books, fill_rings, pos, ordered, trade, round, orphaned>>
      /\ ~live => SlotsOf(s[1]) \cap ordered = {}
      /\ selling' = IF pos[s] > 0 THEN selling \cup {s} ELSE selling
  BY DEF ExitLeg, startVars, historyVars
<1> SUFFICES ASSUME ~live, ~orphaned
             PROVE  Unmixed' /\ (partial_on => \A n \in Node : PairOK(After(n), n)')
  BY <1>1 DEF PairsOK
<1>4. Unmixed' /\ \A n \in Node : After(n)' = After(n)
  BY <1>1, SameAfter DEF PairsOK, BooksOK
<1>5. ASSUME partial_on, NEW n \in Node PROVE PairOK(After(n), n)'
  <2>1. PairOK(After(n), n)
    BY <1>1, <1>5 DEF PairsOK
  <2>2. CASE n # s[1]
    <3>1. \A t \in {<<n, "A">>, <<n, "B">>} : t # s
      BY <2>2
    <3> QED BY <1>1, <1>4, <2>1, <3>1, PairStays DEF SameColumn
  <2>3. CASE n = s[1]
    <3> DEFINE a == <<n, "A">>
               b == <<n, "B">>
    <3>1. a \in Slot /\ b \in Slot /\ SlotsOf(n) = {a, b} /\ s \in {a, b} /\ a # b
      BY <1>5, <2>3, LegsOf
    <3>2. a \notin ordered /\ b \notin ordered
      BY <1>1, <2>3, <3>1
    <3> HIDE DEF a, b
    <3> QED BY <1>1, <1>4, <2>1, <3>1, <3>2 DEF PairOK, Held, a, b
  <2> QED BY <2>2, <2>3
<1> QED BY <1>4, <1>5

LEMMA ComposePairs == ASSUME BooksOK, RingsOK, PairsOK, Compose PROVE PairsOK'
<1>1. UNCHANGED <<live, partial_on, orphaned, pos, ordered, selling, round, trade>>
  BY DEF Compose, historyVars
<1>2. /\ \A n \in Node : SameColumn(After(n)', After(n), n)
      /\ Unmixed => Unmixed'
  BY ComposeBooks
<1>3. ASSUME ~live, ~orphaned, partial_on, NEW n \in Node PROVE PairOK(After(n), n)'
  BY <1>1, <1>2, <1>3, PairStays DEF PairsOK
<1> QED BY <1>1, <1>2, <1>3 DEF PairsOK

LEMMA ResetPairs == ASSUME BooksOK, PaperReset PROVE PairsOK'
<1>1. /\ \A s \in Slot : pos'[s] = 0 /\ s \notin ordered' /\ s \notin selling'
      /\ fill_rings' = fill_rings /\ Empty /\ partial_on' = partial_on
      /\ books'.partner_pending = {} /\ ~books'.mispaired
  BY ResetBooks DEF PaperReset, Zero, startVars
<1>2. \A n \in Node : After(n)' = books'
  <2>1. <<>> \in Seq({})
    OBVIOUS
  <2> QED BY <1>1, <2>1, RingEmpty, SameBooking DEF After, Empty
<1>3. Unmixed'
  BY <1>1, <1>2 DEF Unmixed
<1>4. ASSUME NEW n \in Node PROVE PairOK(After(n), n)'
  <2>1. /\ <<n, "A">> \in Slot /\ <<n, "B">> \in Slot
        /\ n \notin After(n)'.partner_pending
    BY <1>1, <1>2, LegsOf
  <2> QED BY <1>1, <2>1 DEF PairOK, Held
<1> QED BY <1>3, <1>4 DEF PairsOK

LEMMA RestartPairs ==
  ASSUME FileOK, HistoryOK, PairsOK, Restart
  PROVE  PairsOK'
<1>1. PICK partial \in BOOLEAN :
        /\ partial_on' = partial
        /\ pos' = IF Loads(partial) THEN snapshot.pos ELSE Zero(Slot)
        /\ books' = IF Loads(partial) THEN Load(snapshot, partial)
                                      ELSE [EmptyBooks EXCEPT !.mispaired = books.mispaired]
        /\ trade' = IF Loads(partial) THEN snapshot.trade ELSE Zero(Slot)
  BY DEF Restart
<1>2. ordered' = {} /\ selling' = {} /\ ~live /\ live' = live /\ orphaned' = orphaned
  BY DEF Restart
<1>3. \A n \in Node : After(n)' = books'
  BY RestartAfter
<1> SUFFICES ASSUME ~orphaned
             PROVE  Unmixed' /\ (partial_on' => \A n \in Node : PairOK(After(n), n)')
  BY <1>2 DEF PairsOK
<1>4. CASE Loads(partial)
  <2>1. /\ snapshot.taken /\ snapshot.partial_on = partial
        /\ pos' = snapshot.pos /\ trade' = snapshot.trade
        /\ books' = Load(snapshot, partial) /\ snapshot.books \in Book
    BY <1>1, <1>4 DEF Loads, FileOK
  <2>2. /\ books'.partner_pending = IF partial THEN PartnerBits(snapshot.pos) ELSE {}
        /\ books'.parked = [n \in Node |->
                 IF n \in snapshot.books.partner_pending THEN snapshot.books.parked[n]
                 ELSE IF snapshot.pos[<<n, "A">>] > 0 THEN snapshot.trade[<<n, "A">>]
                      ELSE snapshot.trade[<<n, "B">>]]
        /\ books'.mispaired = snapshot.books.mispaired
    BY <2>1, LoadIs
  <2>3. Unmixed'
    BY <1>3, <2>1, <2>2 DEF Unmixed, FileOK
  <2>4. ASSUME partial, NEW n \in Node PROVE PairOK(After(n), n)'
    <3> DEFINE a == <<n, "A">>
               b == <<n, "B">>
    <3>1. a \in Slot /\ b \in Slot /\ a # b
      BY LegsOf
    <3>2. n \in books'.partner_pending <=> (pos'[a] > 0) # (pos'[b] > 0)
      BY <2>1, <2>2, <2>4 DEF PartnerBits
    <3>3. (pos'[a] > 0 /\ pos'[b] > 0) => trade'[a] = trade'[b]
      <4> SUFFICES ASSUME pos'[a] > 0, pos'[b] > 0 PROVE trade'[a] = trade'[b]
        OBVIOUS
      <4>1. {s \in {a, b} : snapshot.pos[s] > 0} = {a, b}
        BY <2>1
      <4> QED BY <2>1, <4>1 DEF FileOK
    <3>4. ASSUME (pos'[a] > 0) # (pos'[b] > 0), NEW s \in {a, b}, pos'[s] > 0
          PROVE  books'.parked[n] = trade'[s]
      <4>1. CASE n \in snapshot.books.partner_pending
        <5>1. PICK t \in Slot : /\ {x \in {a, b} : snapshot.pos[x] > 0} = {t}
                                /\ snapshot.books.parked[n] = snapshot.trade[t]
          BY <2>1, <4>1 DEF FileOK
        <5>2. s = t
          BY <2>1, <3>4, <5>1
        <5> QED BY <2>1, <2>2, <4>1, <5>1, <5>2
      <4>2. CASE n \notin snapshot.books.partner_pending
        BY <2>1, <2>2, <3>1, <3>4, <4>2
      <4> QED BY <4>1, <4>2
    <3> HIDE DEF a, b
    <3> QED BY <1>2, <1>3, <3>1, <3>2, <3>3, <3>4 DEF PairOK, Held, a, b
  <2> QED BY <1>1, <2>3, <2>4
<1>5. CASE ~Loads(partial)
  <2>1. books'.partner_pending = {} /\ books'.mispaired = books.mispaired
        /\ \A s \in Slot : pos'[s] = 0
    BY <1>1, <1>5 DEF EmptyBooks, Zero
  <2>2. Unmixed'
    BY <1>2, <1>3, <2>1 DEF Unmixed, PairsOK
  <2>3. ASSUME NEW n \in Node PROVE PairOK(After(n), n)'
    <3>1. /\ <<n, "A">> \in Slot /\ <<n, "B">> \in Slot
          /\ n \notin After(n)'.partner_pending
      BY <1>3, <2>1, LegsOf
    <3> QED BY <1>2, <2>1, <3>1 DEF PairOK, Held
  <2> QED BY <2>2, <2>3
<1> QED BY <1>4, <1>5

-----------------------------------------------------------------------------
(* The file, and the invariant as a whole.                                  *)

LEMMA FileStays ==
  ASSUME FileOK, UNCHANGED <<live, snapshot>>, {orphaned, orphaned'} \subseteq BOOLEAN,
         orphaned => orphaned'
  PROVE  FileOK'
BY DEF FileOK

LEMMA SaveFile ==
  ASSUME HistoryOK, BooksOK, OrdersOK, TrackersOK, PairsOK, SaveRenames
  PROVE  FileOK'
<1>1. /\ snapshot' = Image /\ UNCHANGED <<live, orphaned>> /\ Empty /\ ~live
  BY DEF SaveRenames, historyVars, startVars, BooksOK
<1>2. /\ Image.partial_on = partial_on /\ Image.pos = pos /\ Image.books = books
      /\ Image.trade = trade
  BY DEF Image
<1> DEFINE Open(n) == {s \in {<<n, "A">>, <<n, "B">>} : pos[s] > 0}
<1>3. \A n \in Node : After(n) = books
  BY <1>1, EmptyAfter
<1>4. ASSUME NEW n \in Node
      PROVE
        /\ books.node_open_notional[n] = Worth(pos[<<n, "A">>]) + Worth(pos[<<n, "B">>])
        /\ ~partial_on => n \notin books.partner_pending /\ pos[<<n, "B">>] = 0
        /\ ~orphaned =>
             /\ n \notin books.partner_pending => books.partner_pending_pnl[n] = 0
             /\ books.node_realized[n] =
                  books.gross_wins[n] - books.gross_losses[n] + books.partner_pending_pnl[n]
             /\ n \in books.partner_pending =>
                  \E s \in Slot : Open(n) = {s} /\ books.parked[n] = trade[s]
             /\ Open(n) = {<<n, "A">>, <<n, "B">>} => trade[<<n, "A">>] = trade[<<n, "B">>]
  <2> DEFINE a == <<n, "A">>
             b == <<n, "B">>
  <2>1. /\ a \in Slot /\ b \in Slot /\ a # b
        /\ SlotsOf(n) = IF partial_on THEN {a, b} ELSE {a}
    BY LegsOf
  <2>2. Sound(books, n) /\ \A s \in SlotsOf(n) : books.slot_notional[s] = Worth(pos[s])
    BY <1>1, <1>3 DEF BooksOK, TrackersOK, Tracked
  <2>3. ~partial_on => pos[b] = 0
    <3>1. ~partial_on => b \notin hot /\ b \notin selling
      BY DEF OrdersOK, Legs
    <3>2. pos[b] \in 0 .. Lot
      BY <2>1 DEF OrdersOK
    <3> QED BY <2>1, <3>1, <3>2, Sizes DEF OrdersOK
  <2>4. pos[a] \in Int /\ pos[b] \in Int /\ books.node_realized[n] \in Int
        /\ books.gross_wins[n] \in Int /\ books.gross_losses[n] \in Int
        /\ books.partner_pending_pnl[n] \in Int
    <3>1. books \in Book
      BY DEF BooksOK
    <3> QED BY <2>1, <3>1 DEF HistoryOK, Book
  <2>5. books.node_open_notional[n] = Worth(pos[a]) + Worth(pos[b])
    <3>1. CASE partial_on
      BY <2>1, <2>2, <3>1 DEF Sound, LegSum
    <3>2. CASE ~partial_on
      BY <2>1, <2>2, <2>3, <2>4, <3>2 DEF Sound, LegSum, Worth
    <3> QED BY <3>1, <3>2
  <2>6. ~orphaned => books.node_realized[n] =
          books.gross_wins[n] - books.gross_losses[n] + books.partner_pending_pnl[n]
    <3>1. LegSum(books.pending_trade_net, n) = 0
      BY <1>1, <2>1, <2>2 DEF Sound, LegSum
    <3> QED BY <2>2, <2>4, <3>1 DEF Sound
  <2>7. ~orphaned /\ n \in books.partner_pending =>
          \E s \in Slot : Open(n) = {s} /\ books.parked[n] = trade[s]
    <3> SUFFICES ASSUME ~orphaned, n \in books.partner_pending
                 PROVE  \E s \in Slot : Open(n) = {s} /\ books.parked[n] = trade[s]
      OBVIOUS
    <3>1. PairOK(books, n)
      BY <1>1, <1>3, <2>2 DEF PairsOK, Sound
    <3>2. CASE pos[a] > 0
      <4>1. ~(pos[b] > 0) /\ books.parked[n] = trade[a]
        BY <3>1, <3>2 DEF PairOK, Held
      <4>2. Open(n) = {a}
        BY <2>1, <3>2, <4>1
      <4> QED BY <2>1, <4>1, <4>2
    <3>3. CASE ~(pos[a] > 0)
      <4>1. pos[b] > 0 /\ books.parked[n] = trade[b]
        BY <3>1, <3>3 DEF PairOK, Held
      <4>2. Open(n) = {b}
        BY <2>1, <3>3, <4>1
      <4> QED BY <2>1, <4>1, <4>2
    <3> QED BY <3>2, <3>3
  <2>8. ~orphaned /\ Open(n) = {a, b} => trade[a] = trade[b]
    <3> SUFFICES ASSUME ~orphaned, Open(n) = {a, b} PROVE trade[a] = trade[b]
      OBVIOUS
    <3>1. pos[a] > 0 /\ pos[b] > 0
      OBVIOUS
    <3>2. partial_on
      BY <2>3, <2>4, <3>1
    <3> QED BY <1>1, <1>3, <3>1, <3>2 DEF PairsOK, PairOK, Held
  <2>9. ~orphaned /\ n \notin books.partner_pending => books.partner_pending_pnl[n] = 0
    BY <2>2 DEF Sound
  <2> QED BY <2>2, <2>3, <2>5, <2>6, <2>7, <2>8, <2>9 DEF Sound
<1>5. ~orphaned => ~books.mispaired
  BY <1>1 DEF PairsOK, Unmixed
<1>6. \A s \in Slot : pos[s] \in 0 .. Lot
  BY DEF OrdersOK
<1>7. books \in Book /\ partial_on \in BOOLEAN
  BY DEF BooksOK
<1> QED BY <1>1, <1>2, <1>4, <1>5, <1>6, <1>7 DEF FileOK

-----------------------------------------------------------------------------
LedgerInv == IInv /\ BooksOK /\ OrdersOK /\ TrackersOK /\ PairsOK /\ FileOK

LEMMA InitLedgerInv == LedgerInit => LedgerInv
<1> SUFFICES ASSUME LedgerInit PROVE LedgerInv
  OBVIOUS
<1>1. IInv
  BY InitInv
<1>2. /\ {live, partial_on} \subseteq BOOLEAN /\ orphaned = FALSE /\ Empty
      /\ books = EmptyBooks /\ pos = Zero(Slot) /\ composer = "book"
      /\ hot = {} /\ ordered = {} /\ selling = {}
  BY DEF LedgerInit, Empty
<1>3. /\ EmptyBooks.partner_pending = {} /\ ~EmptyBooks.mispaired
      /\ \A s \in Slot : EmptyBooks.slot_notional[s] = 0 /\ pos[s] = 0
  BY <1>2 DEF EmptyBooks, Zero
<1>4. BooksOK
  <2>1. books \in Book
    <3>1. Start \in Int /\ Zero(Node) \in [Node -> Int] /\ Zero(Slot) \in [Slot -> Int]
      BY EngineAssumption DEF Zero
    <3> QED BY <1>2, <3>1 DEF EmptyBooks, Book
  <2>2. OwnRings
    <3>1. \A n \in Node : fill_rings[n] = <<>> /\ <<>> \in Seq(Fills(n))
      BY <1>2 DEF Empty
    <3> QED BY <3>1 DEF OwnRings
  <2>3. ASSUME NEW n \in Node PROVE Sound(books, n)
    <3>1. /\ <<n, "A">> \in Slot /\ <<n, "B">> \in Slot /\ SlotsOf(n) \subseteq Slot
      BY LegsOf
    <3>2. /\ books.node_open_notional[n] = 0 /\ books.node_realized[n] = 0
          /\ books.gross_wins[n] = 0 /\ books.gross_losses[n] = 0
          /\ books.partner_pending = {} /\ books.partner_pending_pnl[n] = 0
          /\ \A s \in Slot : books.slot_notional[s] = 0 /\ books.pending_trade_net[s] = 0
      BY <1>2 DEF EmptyBooks, Zero
    <3> QED BY <3>1, <3>2 DEF Sound, LegSum
  <2> QED BY <1>2, <2>1, <2>2, <2>3 DEF BooksOK
<1>5. \A n \in Node : After(n) = books
  BY <1>2, EmptyAfter
<1>6. OrdersOK
  BY <1>2, <1>3, Sizes DEF OrdersOK
<1>7. TrackersOK
  <2>1. \A n \in Node : SlotsOf(n) \subseteq Slot
    BY LegsOf
  <2> QED BY <1>2, <1>3, <1>5, <2>1 DEF TrackersOK, Tracked, Worth
<1>8. PairsOK
  <2>1. \A n \in Node : PairOK(After(n), n)
    <3>1. ASSUME NEW n \in Node PROVE PairOK(After(n), n)
      <4>1. <<n, "A">> \in Slot /\ <<n, "B">> \in Slot /\ n \notin After(n).partner_pending
        BY <1>2, <1>3, <1>5, LegsOf
      <4> QED BY <1>2, <1>3, <4>1 DEF PairOK, Held
    <3> QED BY <3>1
  <2>2. Unmixed
    BY <1>2, <1>3, <1>5 DEF Unmixed
  <2> QED BY <2>1, <2>2 DEF PairsOK
<1>9. FileOK
  BY DEF LedgerInit, NoSnapshot, FileOK
<1> QED BY <1>1, <1>4, <1>6, <1>7, <1>8, <1>9 DEF LedgerInv

(* Steps that touch neither the books nor the positions.                    *)
LEMMA RestLedger ==
  ASSUME LedgerInv, IInv',
         UNCHANGED <<live, partial_on, books, fill_rings, pos, hot, ordered, selling,
                     round, trade, orphaned>>,
         composer' # "book" => Empty /\ ~live
  PROVE  BooksOK' /\ OrdersOK' /\ TrackersOK' /\ PairsOK'
<1>1. /\ \A n \in Node : After(n)' = After(n)
      /\ Unmixed => Unmixed'
  BY SameAfter DEF LedgerInv, BooksOK
<1>2. \A n \in Node : SameColumn(After(n), After(n), n)
  BY DEF SameColumn
<1>3. BooksOK'
  <2>1. OwnRings'
    BY SameFills DEF LedgerInv, BooksOK, OwnRings
  <2>2. \A n \in Node : Sound(books, n)'
    BY SoundNext DEF LedgerInv, BooksOK
  <2> QED BY <2>1, <2>2 DEF LedgerInv, BooksOK, Empty
<1>4. OrdersOK'
  BY DEF LedgerInv, OrdersOK, Legs
<1>5. TrackersOK'
  BY <1>1, <1>2, TrackersStay DEF LedgerInv
<1>6. PairsOK'
  <2>1. ASSUME ~live, ~orphaned, partial_on, NEW n \in Node PROVE PairOK(After(n), n)'
    BY <1>1, <1>2, <2>1, PairStays DEF LedgerInv, PairsOK
  <2> QED BY <1>1, <2>1 DEF LedgerInv, PairsOK
<1> QED BY <1>3, <1>4, <1>5, <1>6

LEMMA NextLedgerInv == LedgerInv /\ [LedgerNext]_ledgerVars => LedgerInv'
<1> SUFFICES ASSUME LedgerInv, [LedgerNext]_ledgerVars PROVE LedgerInv'
  OBVIOUS
<1>0. IInv' /\ HistoryOK /\ RingsOK /\ BooksOK /\ OrdersOK /\ TrackersOK /\ PairsOK /\ FileOK
      /\ {live, partial_on, orphaned} \subseteq BOOLEAN
  BY NextInv DEF LedgerInv, IInv, BooksOK
<1>1. CASE Compose
  <2>1. UNCHANGED <<live, partial_on, orphaned, snapshot, pos, hot, ordered, selling>>
    BY <1>1 DEF Compose, historyVars
  <2>2. BooksOK' /\ TrackersOK' /\ PairsOK'
    BY <1>0, <1>1, <2>1, ComposeBooks, ComposePairs, TrackersStay
  <2>3. OrdersOK' /\ FileOK'
    BY <1>0, <2>1, FileStays DEF OrdersOK, Legs
  <2> QED BY <1>0, <2>2, <2>3 DEF LedgerInv
<1>2. CASE SaveWrites
  <2>1. /\ UNCHANGED <<live, partial_on, books, fill_rings, pos, hot, ordered, selling,
                     round, trade, orphaned, snapshot>>
        /\ composer' # "book" => Empty /\ ~live
    BY <1>0, <1>2 DEF SaveWrites, startVars, historyVars, BooksOK
  <2> QED BY <1>0, <2>1, RestLedger, FileStays DEF LedgerInv
<1>3. CASE SaveRenames
  <2>1. /\ UNCHANGED <<live, partial_on, books, fill_rings, pos, hot, ordered, selling,
                     round, trade, orphaned>>
        /\ composer' # "book" => Empty /\ ~live
    BY <1>0, <1>3 DEF SaveRenames, startVars, historyVars, BooksOK
  <2> QED BY <1>0, <1>3, <2>1, RestLedger, SaveFile DEF LedgerInv
<1>4. CASE PaperReset
  <2>1. UNCHANGED <<live, snapshot, orphaned>>
    BY <1>4 DEF PaperReset, startVars, historyVars
  <2> QED BY <1>0, <1>4, <2>1, ResetBooks, ResetOrders, ResetTrackers, ResetPairs, FileStays
          DEF LedgerInv
<1>5. CASE Restart
  <2>1. UNCHANGED <<live, snapshot, orphaned>>
    BY <1>5 DEF Restart
  <2> QED BY <1>0, <1>5, <2>1, RestartBooks, RestartOrders, RestartTrackers, RestartPairs,
             FileStays DEF LedgerInv
<1>6. ASSUME NEW n \in Node, NewTrade(n) PROVE LedgerInv'
  <2>1. UNCHANGED <<live, partial_on, books, fill_rings, composer, pos, snapshot>>
    BY <1>6 DEF NewTrade, startVars
  <2>2. orphaned' \in BOOLEAN /\ (orphaned => orphaned')
    BY <1>0, <1>6 DEF NewTrade
  <2>3. \A m \in Node : After(m)' = After(m) /\ SameColumn(After(m), After(m), m)
    BY <1>0, <2>1, SameAfter DEF BooksOK, SameColumn
  <2>4. TrackersOK'
    BY <1>0, <2>1, <2>3, TrackersStay
  <2>5. BooksOK'
    <3>1. OwnRings'
      BY <1>0, <2>1, SameFills DEF BooksOK, OwnRings
    <3>2. \A m \in Node : Sound(books, m)'
      BY <1>0, <2>1, <2>2, SoundNext DEF BooksOK
    <3> QED BY <1>0, <2>1, <2>2, <3>1, <3>2 DEF BooksOK, Empty
  <2>6. OrdersOK' /\ PairsOK' /\ FileOK'
    BY <1>0, <1>6, <2>1, <2>2, TradeOrders, TradePairs, FileStays
  <2> QED BY <1>0, <2>4, <2>5, <2>6 DEF LedgerInv
<1>7. ASSUME NEW s \in Slot, BuyFill(s) PROVE LedgerInv'
  <2>1. UNCHANGED <<live, partial_on, snapshot, orphaned>>
    BY <1>7 DEF BuyFill, startVars
  <2>2. BooksOK'
    <3>1. s[1] \in Node
      BY SlotParts
    <3>2. \E fe \in Fills(s[1]) : Emit(s[1], fe)
      BY <1>0, <1>7, BuyIs
    <3> QED BY <1>0, <2>1, <3>1, <3>2, EmitBooks
  <2> QED BY <1>0, <1>7, <2>1, <2>2, BuyOrders, BuyTrackers, BuyPairs, FileStays DEF LedgerInv
<1>8. ASSUME NEW s \in Slot, SellFill(s) PROVE LedgerInv'
  <2>1. UNCHANGED <<live, partial_on, snapshot, orphaned>>
    BY <1>8 DEF SellFill, startVars, historyVars
  <2>2. BooksOK'
    <3>1. s[1] \in Node
      BY SlotParts
    <3>2. \E fe \in Fills(s[1]) : Emit(s[1], fe)
      BY <1>0, <1>8, SellEventIs
    <3> QED BY <1>0, <2>1, <3>1, <3>2, EmitBooks
  <2> QED BY <1>0, <1>8, <2>1, <2>2, SellOrders, SellTrackers, SellPairs, FileStays DEF LedgerInv
<1>9. ASSUME NEW s \in Slot, ExitLeg(s) PROVE LedgerInv'
  <2>1. UNCHANGED <<live, partial_on, books, fill_rings, composer, pos, snapshot, orphaned>>
    BY <1>9 DEF ExitLeg, startVars, historyVars
  <2>3. \A m \in Node : After(m)' = After(m) /\ SameColumn(After(m), After(m), m)
    BY <1>0, <2>1, SameAfter DEF BooksOK, SameColumn
  <2>4. TrackersOK'
    BY <1>0, <2>1, <2>3, TrackersStay
  <2>5. BooksOK'
    <3>1. OwnRings'
      BY <1>0, <2>1, SameFills DEF BooksOK, OwnRings
    <3>2. \A m \in Node : Sound(books, m)'
      BY <1>0, <2>1, SoundNext DEF BooksOK
    <3> QED BY <1>0, <2>1, <3>1, <3>2 DEF BooksOK, Empty
  <2>6. OrdersOK' /\ PairsOK' /\ FileOK'
    BY <1>0, <1>9, <2>1, ExitOrders, ExitPairs, FileStays
  <2> QED BY <1>0, <2>4, <2>5, <2>6 DEF LedgerInv
<1>10. CASE UNCHANGED ledgerVars
  <2>1. /\ UNCHANGED <<live, partial_on, books, fill_rings, pos, hot, ordered, selling,
                     round, trade, orphaned, snapshot, composer>>
        /\ composer # "book" => Empty
    BY <1>0, <1>10 DEF ledgerVars, BooksOK
  <2>2. \A m \in Node : After(m)' = After(m) /\ SameColumn(After(m), After(m), m)
    BY <1>0, <2>1, SameAfter DEF BooksOK, SameColumn
  <2>3. BooksOK'
    <3>1. OwnRings'
      BY <1>0, <2>1, SameFills DEF BooksOK, OwnRings
    <3>2. \A m \in Node : Sound(books, m)'
      BY <1>0, <2>1, SoundNext DEF BooksOK
    <3> QED BY <1>0, <2>1, <3>1, <3>2 DEF BooksOK, Empty
  <2>4. PairsOK'
    <3>1. ASSUME ~live, ~orphaned, partial_on, NEW n \in Node PROVE PairOK(After(n), n)'
      BY <1>0, <2>1, <2>2, <3>1, PairStays DEF PairsOK
    <3>2. Unmixed => Unmixed'
      BY <1>0, <2>1, SameAfter DEF BooksOK
    <3> QED BY <1>0, <2>1, <3>1, <3>2 DEF PairsOK
  <2>5. OrdersOK'
    BY <1>0, <2>1 DEF OrdersOK, Legs
  <2> QED BY <1>0, <2>1, <2>2, <2>3, <2>4, <2>5, TrackersStay, FileStays DEF LedgerInv
<1> QED BY <1>1, <1>2, <1>3, <1>4, <1>5, <1>6, <1>7, <1>8, <1>9, <1>10 DEF LedgerNext

-----------------------------------------------------------------------------
LEMMA Telescopes == LedgerInv => NotionalTelescopes
<1> SUFFICES ASSUME LedgerInv, NEW n \in Node
             PROVE  /\ books.node_open_notional[n] = LegSum(books.slot_notional, n)
                    /\ fill_rings[n] = <<>> =>
                         \A s \in SlotsOf(n) : pos[s] = 0 => books.slot_notional[s] = 0
  BY DEF NotionalTelescopes
<1>1. Sound(books, n)
  BY DEF LedgerInv, BooksOK
<1>2. fill_rings[n] = <<>> => After(n) = books
  BY RingEmpty DEF After
<1> QED BY <1>1, <1>2 DEF Sound, LedgerInv, TrackersOK, Tracked

LEMMA Balances == LedgerInv => BooksBalance
<1> SUFFICES ASSUME LedgerInv, ~orphaned, NEW n \in Node
             PROVE  books.node_realized[n] =
                      books.gross_wins[n] - books.gross_losses[n] + Parked(n)
                        + LegSum(books.pending_trade_net, n)
  BY DEF BooksBalance
<1>1. Sound(books, n)
  BY DEF LedgerInv, BooksOK
<1>2. Parked(n) = books.partner_pending_pnl[n]
  BY <1>1 DEF Sound, Parked
<1> QED BY <1>1, <1>2 DEF Sound

(* The open notional of a node is what its slots' trackers hold, through    *)
(* partial fills, inline drains, paper resets and restarts, so that a flat  *)
(* node whose rings are applied carries nothing                             *)
(* (EngineCommon_ApplyFillEventToBooks; ControllerEventLoop.hpp:3300 reads  *)
(* it).                                                                     *)
THEOREM OpenNotionalTelescopes == LedgerSpec => []NotionalTelescopes
BY InitLedgerInv, NextLedgerInv, Telescopes, PTL DEF LedgerSpec

(* What a node has realized is its wins less its losses, and what is parked *)
(* for a partner leg or not yet classified, whatever the order of the legs' *)
(* fills (EngineCommon_ClassifyTrade, EngineCommon.hpp:712).                *)
THEOREM WinsAndLossesBalance == LedgerSpec => []BooksBalance
BY InitLedgerInv, NextLedgerInv, Balances, PTL DEF LedgerSpec

(* In paper trading the two legs classified as one logical trade are of one *)
(* trade (EngineCommon.hpp:712): a node enters with both legs and flattens  *)
(* both before it enters again.                                             *)
THEOREM LegsOfOneTradeMeet == LedgerSpec => []PaperPairsAgree
<1>1. LedgerInv => PaperPairsAgree
  BY DEF LedgerInv, PairsOK, Unmixed, PaperPairsAgree
<1> QED BY InitLedgerInv, NextLedgerInv, <1>1, PTL DEF LedgerSpec

-----------------------------------------------------------------------------
(* The ledger implements the account.                                       *)

Cash == books.balance + SumSeq(RingNets)
Settled(m) == books.node_realized[m] + RingNet(m)

BookedNow ==
  Booked = [cash |-> Cash, earned |-> [n \in Node |-> Settled(n)], held |-> pos]
LEMMA BookedIs == BookedNow
BY DEF BookedNow, Booked, Cash, RingNets, Settled

LEMMA NetsNext == \A ring : Nets(ring)' = Nets(ring)
BY DEF Nets, SumSeq, Totals

(* Rings without events hold no results.                                    *)
LEMMA NoNets ==
  ASSUME NEW t, t = [k \in 1 .. NumNodes |-> Nets(<<>>)]
  PROVE  Nets(<<>>) = 0 /\ SumSeq(t) = 0
<1>1. Nets(<<>>) = 0
  <2>1. [i \in 1 .. Len(<<>>) |-> <<>>[i].net] = <<>>
    OBVIOUS
  <2> QED BY <2>1, SumEmpty DEF Nets
<1>2. t \in Seq(Int) /\ Len(t) = NumNodes /\ \A i \in 1 .. Len(t) : t[i] = 0
  BY <1>1, NodesNat
<1> QED BY <1>1, <1>2, SumZero

LEMMA NetsLonger ==
  ASSUME NEW n \in Node, NEW ring \in Seq(Fills(n)), NEW fe \in Fills(n)
  PROVE  Nets(Append(ring, fe)) = Nets(ring) + fe.net
<1>1. NetsOf(ring) \in Seq(Int) /\ fe.net \in Int
  BY NetsAreInts, FillsAre, EventTyped
<1>2. NetsOf(Append(ring, fe)) = Append(NetsOf(ring), fe.net)
  <2>1. Len(ring) \in Nat /\ Len(Append(ring, fe)) = Len(ring) + 1
    OBVIOUS
  <2> QED BY <2>1 DEF NetsOf
<1> QED BY <1>1, <1>2, SumAppend DEF Nets, NetsOf

(* A fill adds its result to the cash and to its node, ring full or not.    *)
LEMMA EmitTotals ==
  ASSUME BooksOK, RingsOK, NEW n \in Node, NEW fe \in Fills(n), Emit(n, fe)
  PROVE  /\ Cash' = Cash + fe.net
         /\ \A m \in Node : Settled(m)' = Settled(m) + (IF m = n THEN fe.net ELSE 0)
<1>1. /\ OwnRings /\ books \in Book /\ fe.net \in Int /\ fill_rings \in [Node -> Seq(Numbered)]
      /\ n + 1 \in 1 .. NumNodes /\ \A k \in 1 .. NumNodes : k - 1 \in Node
      /\ NumNodes \in Nat /\ (n + 1) - 1 = n
      /\ \A k \in 1 .. NumNodes : k # n + 1 => k - 1 # n
  BY FillsAre, EventTyped, NodesNat DEF BooksOK, RingsOK, Node
<1>2. /\ \A m \in Node : RingNet(m) \in Int /\ books.node_realized[m] \in Int
      /\ RingNets \in Seq(Int) /\ Len(RingNets) = NumNodes /\ books.balance \in Int
      /\ SumSeq(RingNets) \in Int
  BY <1>1, RingNetsAreInts, SumType DEF Book
<1> DEFINE t == [k \in 1 .. NumNodes |-> Nets(fill_rings'[k - 1])]
<1>3. \A m \in Node : Settled(m)' = books'.node_realized[m] + Nets(fill_rings'[m])
  BY NetsNext DEF RingNet, Settled
<1>4. Cash' = books'.balance + SumSeq(t)
  <2>1. RingNets' = t
    BY NetsNext DEF RingNets, RingNet
  <2>2. SumSeq(RingNets)' = SumSeq(RingNets')
    BY DEF SumSeq, Totals
  <2> QED BY <2>1, <2>2 DEF Cash
<1>5. CASE Len(fill_rings[n]) = RingSize
  <2>1. books' = Applied(books) /\ fill_rings' = [m \in Node |-> IF m = n THEN <<fe>> ELSE <<>>]
    BY <1>5 DEF Emit
  <2>2. /\ books'.balance = Cash
        /\ \A m \in Node : books'.node_realized[m] = Settled(m)
    BY <1>1, <2>1, AppliedTotals DEF Cash, Settled
  <2> DEFINE z == [k \in 1 .. NumNodes |-> Nets(<<>>)]
  <2>3. Nets(<<>>) = 0 /\ Nets(<<fe>>) = fe.net /\ SumSeq(z) = 0
    <3>1. Append(<<>>, fe) = <<fe>> /\ <<>> \in Seq(Fills(n))
      OBVIOUS
    <3>3. Nets(Append(<<>>, fe)) = Nets(<<>>) + fe.net
      BY <3>1, NetsLonger
    <3>2. Nets(<<>>) = 0 /\ SumSeq(z) = 0
      BY NoNets
    <3> QED BY <1>1, <3>1, <3>2, <3>3
  <2>4. \A m \in Node : Nets(fill_rings'[m]) = IF m = n THEN fe.net ELSE 0
    BY <2>1, <2>3
  <2>5. \A k \in 1 .. NumNodes : t[k] = IF k = n + 1 THEN fe.net ELSE 0
    BY <1>1, <2>4
  <2>6. /\ z \in Seq(Int) /\ t \in Seq(Int) /\ Len(t) = Len(z) /\ Len(z) = NumNodes
        /\ z[n + 1] = 0 /\ t[n + 1] = fe.net
        /\ \A k \in 1 .. Len(z) : k # n + 1 => t[k] = z[k]
    <3>0. \A k \in 1 .. NumNodes : z[k] = 0
      BY <2>3
    <3>1. \A k \in 1 .. NumNodes : z[k] = 0 /\ t[k] \in Int
      <4> HIDE DEF z, t
      <4> QED BY <1>1, <2>5, <3>0
    <3>2. z \in Seq(Int) /\ Len(z) = NumNodes
      BY <1>1, <2>3
    <3>3. t \in Seq(Int) /\ Len(t) = NumNodes
      <4>1. t \in [1 .. NumNodes -> Int]
        BY <3>1
      <4> HIDE DEF t
      <4> QED BY <1>1, <4>1
    <3> HIDE DEF z, t
    <3> QED BY <1>1, <2>5, <3>1, <3>2, <3>3
  <2> HIDE DEF z, t
  <2>7. SumSeq(t) = SumSeq(z) + (t[n + 1] - z[n + 1])
    BY <1>1, <2>6, SumChanged
  <2>8. Cash' = Cash + fe.net
    BY <1>1, <1>4, <2>2, <2>3, <2>6, <2>7
  <2>9. \A m \in Node : Settled(m)' = Settled(m) + (IF m = n THEN fe.net ELSE 0)
    BY <1>3, <2>2, <2>4
  <2> QED BY <2>8, <2>9
<1>6. CASE Len(fill_rings[n]) # RingSize
  <2>1. books' = books /\ fill_rings' = [fill_rings EXCEPT ![n] = Append(@, fe)]
    BY <1>1, <1>6 DEF Emit
  <2>2. fill_rings[n] \in Seq(Fills(n))
    BY <1>1 DEF OwnRings
  <2>3. Nets(fill_rings'[n]) = RingNet(n) + fe.net
    BY <1>1, <2>1, <2>2, NetsLonger DEF RingNet
  <2>4. \A m \in Node : m # n => Nets(fill_rings'[m]) = RingNet(m)
    BY <1>1, <2>1 DEF RingNet
  <2>5. \A k \in 1 .. NumNodes : RingNets[k] = RingNet(k - 1)
    BY DEF RingNets
  <2>6. t[n + 1] = RingNets[n + 1] + fe.net
    BY <1>1, <2>3, <2>5
  <2>7. \A k \in 1 .. NumNodes : k # n + 1 => t[k] = RingNets[k]
    BY <1>1, <2>4, <2>5
  <2>8. RingNets[n + 1] \in Int /\ t \in Seq(Int) /\ Len(t) = NumNodes
    <3>1. \A k \in 1 .. NumNodes : RingNets[k] \in Int
      BY <1>1, <1>2, <2>5
    <3>2. \A k \in 1 .. NumNodes : t[k] \in Int
      <4> HIDE DEF t
      <4> QED BY SMTT(30), <1>1, <2>6, <2>7, <3>1
    <3> QED BY <1>1, <3>1, <3>2
  <2> HIDE DEF t
  <2>9. SumSeq(t) = SumSeq(RingNets) + (t[n + 1] - RingNets[n + 1])
    BY ZenonT(30), <1>1, <1>2, <2>7, <2>8, SumChanged
  <2>10. Cash' = Cash + fe.net
    <3>1. Cash = books.balance + SumSeq(RingNets) /\ Cash' = books.balance + SumSeq(t)
      BY <1>4, <2>1 DEF Cash
    <3>2. SumSeq(t) = SumSeq(RingNets) + fe.net
      BY <1>1, <1>2, <2>6, <2>8, <2>9
    <3> QED BY <1>1, <1>2, <3>1, <3>2
  <2>11. ASSUME NEW m \in Node
         PROVE  Settled(m)' = Settled(m) + (IF m = n THEN fe.net ELSE 0)
    <3>1. Settled(m)' = books.node_realized[m] + Nets(fill_rings'[m])
      BY <1>3, <2>1
    <3> QED BY SMTT(30), <1>1, <1>2, <2>3, <2>4, <3>1 DEF Settled
  <2> QED BY <2>10, <2>11
<1> QED BY <1>5, <1>6

(* Without events the cash is the balance.                                  *)
LEMMA EmptyCash ==
  ASSUME Empty
  PROVE  SumSeq(RingNets) = 0 /\ \A n \in Node : RingNet(n) = 0
<1>1. \A n \in Node : RingNet(n) = Nets(<<>>)
  BY DEF Empty, RingNet
<1>2. RingNets = [k \in 1 .. NumNodes |-> Nets(<<>>)]
  <2>1. \A k \in 1 .. NumNodes : k - 1 \in Node
    BY NodesNat DEF Node
  <2> QED BY <1>1, <2>1 DEF RingNets
<1> QED BY <1>1, <1>2, NoNets

EmptyCashAlways == Empty => SumSeq(RingNets) = 0 /\ \A n \in Node : RingNet(n) = 0
LEMMA EmptyCashHolds == EmptyCashAlways
BY EmptyCash DEF EmptyCashAlways
LEMMA EmptyCashNext == EmptyCashAlways'
BY EmptyCashHolds, PTL

LEMMA SettledAreInts ==
  ASSUME BooksOK, RingsOK
  PROVE  Cash \in Int /\ \A n \in Node : Settled(n) \in Int
<1>1. OwnRings /\ books \in Book
  BY DEF BooksOK, RingsOK
<1>2. SumSeq(RingNets) \in Int /\ \A n \in Node : RingNet(n) \in Int
  BY <1>1, RingNetsAreInts, SumType
<1> QED BY <1>1, <1>2 DEF Cash, Settled, Book

LEMMA PromiseInit == LedgerInit => Promise!AccountInit
<1> SUFFICES ASSUME LedgerInit PROVE Promise!AccountInit
  OBVIOUS
<1>1. Empty /\ books = EmptyBooks /\ pos = Zero(Slot) /\ ~snapshot.taken
  BY DEF LedgerInit, Empty, NoSnapshot
<1>2. Booked = [cash |-> Start, earned |-> Zero(Node), held |-> Zero(Slot)]
  <2>1. SumSeq(RingNets) = 0 /\ \A n \in Node : RingNet(n) = 0
    BY <1>1, EmptyCash
  <2>2. books.balance = Start /\ \A n \in Node : books.node_realized[n] = 0
    BY <1>1 DEF EmptyBooks, Zero
  <2>3. Cash = Start /\ \A n \in Node : Settled(n) = 0
    BY <2>1, <2>2, EngineAssumption DEF Cash, Settled
  <2> QED BY <1>1, <2>3, BookedIs DEF Zero, BookedNow
<1>3. Saved = [cash |-> Start, earned |-> Zero(Node), held |-> Zero(Slot)]
  BY <1>1 DEF Saved
<1> QED BY <1>2, <1>3 DEF Promise!AccountInit, Promise!Fresh, Promise!Node, Node, Zero

LEMMA BookedNext ==
  Booked' = [cash |-> Cash', earned |-> [n \in Node |-> Settled(n)'], held |-> pos']
<1>1. BookedNow'
  BY BookedIs, PTL
<1> QED BY <1>1 DEF BookedNow

LEMMA PromiseBuy ==
  ASSUME LedgerInv, NEW s \in Slot, BuyFill(s)
  PROVE  Promise!Bought(s)
<1>0. HistoryOK /\ RingsOK /\ OrdersOK /\ BooksOK
  BY DEF LedgerInv, IInv
<1>1. PICK units \in Int, notional \in Int :
        /\ units >= 1 /\ pos' = [pos EXCEPT ![s] = @ + units]
        /\ Emit(s[1], BoughtEvent(s, notional))
        /\ BoughtEvent(s, notional) \in Fills(s[1])
  BY <1>0, BuyIs
<1>2. s[1] \in Node /\ BoughtEvent(s, notional).net = 0
  BY SlotParts DEF BoughtEvent
<1>3. /\ Cash' = Cash /\ \A m \in Node : Settled(m)' = Settled(m)
  <2>1. Cash \in Int /\ \A m \in Node : Settled(m) \in Int
    BY <1>0, SettledAreInts
  <2> QED BY <1>0, <1>1, <1>2, <2>1, EmitTotals
<1>4. Saved' = Saved
  BY DEF BuyFill, Saved
<1>5. pos \in [Slot -> Int] /\ pos'[s] > pos[s]
  BY <1>0, <1>1 DEF HistoryOK
<1>6. Booked' = [Booked EXCEPT !.held[s] = pos'[s]] /\ Booked'.held = pos' /\ Booked.held = pos
  <2>1. pos' = [pos EXCEPT ![s] = pos'[s]]
    BY <1>1, <1>5
  <2> QED BY <1>3, <2>1, BookedIs, BookedNext DEF BookedNow
<1> QED BY <1>4, <1>5, <1>6 DEF Promise!Bought

(* An entry of the account, field by field.                                 *)
LEMMA AccountEntry ==
  ASSUME NEW c, NEW e, NEW h, NEW s, NEW x, NEW m, NEW net, NEW b,
         b = [[cash |-> c, earned |-> e, held |-> h]
                EXCEPT !.held[s] = x, !.cash = @ + net, !.earned[m] = @ + net]
  PROVE  b = [cash |-> c + net, earned |-> [e EXCEPT ![m] = @ + net],
              held |-> [h EXCEPT ![s] = x]]
<1>1. b.cash = c + net
  OBVIOUS
<1>2. b.earned = [e EXCEPT ![m] = @ + net]
  OBVIOUS
<1>3. b.held = [h EXCEPT ![s] = x]
  OBVIOUS
<1>4. b = [cash |-> b.cash, earned |-> b.earned, held |-> b.held]
  OBVIOUS
<1> QED BY ONLY <1>1, <1>2, <1>3, <1>4

LEMMA PromiseSell ==
  ASSUME LedgerInv, NEW s \in Slot, SellFill(s)
  PROVE  \E net \in Results : Promise!Sold(s, net)
<1>0. HistoryOK /\ RingsOK /\ OrdersOK /\ BooksOK
  BY DEF LedgerInv, IInv
<1>1. PICK units \in Int, net \in Results, notional \in Int :
        /\ net \in Int /\ units >= 1 /\ pos' = [pos EXCEPT ![s] = @ - units]
        /\ Emit(s[1], SoldEvent(s, units, net, notional))
        /\ SoldEvent(s, units, net, notional) \in Fills(s[1])
  BY <1>0, SellEventIs
<1>2. s[1] \in Node /\ SoldEvent(s, units, net, notional).net = net
  BY SlotParts DEF SoldEvent
<1>3. /\ Cash' = Cash + net
      /\ \A m \in Node : Settled(m)' = IF m = s[1] THEN Settled(m) + net ELSE Settled(m)
  <2>1. Cash \in Int /\ \A m \in Node : Settled(m) \in Int
    BY <1>0, SettledAreInts
  <2>2. /\ Cash' = Cash + net
        /\ \A m \in Node : Settled(m)' = Settled(m) + (IF m = s[1] THEN net ELSE 0)
    BY <1>0, <1>1, <1>2, EmitTotals
  <2> QED BY <2>1, <2>2
<1>4. Saved' = Saved
  BY DEF SellFill, Saved
<1>5. pos \in [Slot -> Int] /\ pos'[s] < pos[s]
  BY <1>0, <1>1 DEF HistoryOK
<1>6. /\ Booked' = [Booked EXCEPT !.held[s] = pos'[s], !.cash = @ + net,
                                   !.earned[s[1]] = @ + net]
      /\ Booked'.held = pos' /\ Booked.held = pos
  <2>1. pos' = [pos EXCEPT ![s] = pos'[s]]
    BY <1>1, <1>5
  <2> DEFINE rows == [n \in Node |-> Settled(n)]
  <2>2. [n \in Node |-> Settled(n)'] = [rows EXCEPT ![s[1]] = @ + net]
    BY <1>2, <1>3
  <2>3. Booked = [cash |-> Cash, earned |-> rows, held |-> pos]
    BY BookedIs DEF BookedNow
  <2>4. Booked' = [cash |-> Cash + net, earned |-> [rows EXCEPT ![s[1]] = @ + net], held |-> pos']
    BY <1>3, <2>2, BookedNext
  <2> HIDE DEF rows
  <2>5. Booked.held = pos /\ Booked.cash = Cash /\ Booked.earned = rows /\ Booked'.held = pos'
    BY <2>3, <2>4
  <2>6. [Booked EXCEPT !.held[s] = pos'[s], !.cash = @ + net, !.earned[s[1]] = @ + net]
          = [cash |-> Cash + net, earned |-> [rows EXCEPT ![s[1]] = @ + net],
             held |-> [pos EXCEPT ![s] = pos'[s]]]
    <3> DEFINE b == [Booked EXCEPT !.held[s] = pos'[s], !.cash = @ + net,
                                   !.earned[s[1]] = @ + net]
    <3>1. b = [[cash |-> Cash, earned |-> rows, held |-> pos]
                 EXCEPT !.held[s] = pos'[s], !.cash = @ + net, !.earned[s[1]] = @ + net]
      BY <2>3
    <3> HIDE DEF b
    <3>2. b = [cash |-> Cash + net, earned |-> [rows EXCEPT ![s[1]] = @ + net],
               held |-> [pos EXCEPT ![s] = pos'[s]]]
      BY <3>1, AccountEntry
    <3> QED BY <3>2 DEF b
  <2> QED BY <2>1, <2>4, <2>5, <2>6
<1> QED BY <1>1, <1>4, <1>5, <1>6 DEF Promise!Sold, Owner

(* Rings that are applied leave cash and rows as they were to become.       *)
LEMMA EmptyBooked ==
  ASSUME Empty, BooksOK
  PROVE  Booked = [cash |-> books.balance, earned |-> books.node_realized, held |-> pos]
<1>1. SumSeq(RingNets) = 0 /\ \A n \in Node : RingNet(n) = 0
  BY EmptyCash
<1>2. books.balance \in Int /\ books.node_realized \in [Node -> Int]
  BY DEF BooksOK, Book
<1>3. Cash = books.balance /\ \A n \in Node : Settled(n) = books.node_realized[n]
  BY <1>1, <1>2 DEF Cash, Settled
<1>4. [n \in Node |-> Settled(n)] = books.node_realized
  BY <1>2, <1>3
<1> QED BY <1>3, <1>4, BookedIs DEF BookedNow

EmptyBookedAlways ==
  Empty /\ BooksOK =>
    Booked = [cash |-> books.balance, earned |-> books.node_realized, held |-> pos]
LEMMA EmptyBookedHolds == EmptyBookedAlways
BY EmptyBooked DEF EmptyBookedAlways
LEMMA EmptyBookedNext == EmptyBookedAlways'
BY EmptyBookedHolds, PTL

LEMMA PromiseCompose ==
  ASSUME LedgerInv, LedgerInv', Compose
  PROVE  UNCHANGED <<Booked, Saved>>
<1>1. OwnRings /\ books \in Book /\ BooksOK'
  BY DEF LedgerInv, BooksOK
<1>2. Empty' /\ books' = Applied(books) /\ pos' = pos /\ snapshot' = snapshot
  BY DEF Compose, Empty
<1>3. Booked' = [cash |-> books'.balance, earned |-> books'.node_realized, held |-> pos']
  BY <1>1, <1>2, EmptyBookedNext DEF EmptyBookedAlways
<1>4. books'.balance = Cash /\ \A n \in Node : books'.node_realized[n] = Settled(n)
  BY <1>1, <1>2, AppliedTotals DEF Cash, Settled
<1>5. books'.node_realized = [n \in Node |-> Settled(n)]
  <2>1. books'.node_realized \in [Node -> Int]
    BY <1>1 DEF BooksOK, Book
  <2> QED BY <1>4, <2>1
<1>6. Saved' = Saved
  BY <1>2 DEF Saved
<1> QED BY <1>2, <1>3, <1>4, <1>5, <1>6, BookedIs DEF BookedNow

LEMMA PromiseSave ==
  ASSUME LedgerInv, SaveRenames
  PROVE  Promise!Checkpoint
<1>1. Empty /\ BooksOK
  BY DEF LedgerInv, BooksOK, SaveRenames
<1>2. Booked = [cash |-> books.balance, earned |-> books.node_realized, held |-> pos]
  BY <1>1, EmptyBooked
<1>3. Saved' = [cash |-> books.balance, earned |-> books.node_realized, held |-> pos]
  BY DEF SaveRenames, Image, Saved
<1>4. Booked' = Booked
  BY NetsNext DEF SaveRenames, Booked, RingNet, SumSeq, Totals
<1> QED BY <1>2, <1>3, <1>4 DEF Promise!Checkpoint

LEMMA PromiseReset ==
  ASSUME LedgerInv, LedgerInv', PaperReset
  PROVE  Promise!ComeBack
<1>1. Empty' /\ BooksOK'
  BY DEF LedgerInv, BooksOK, PaperReset, Empty
<1>2. Booked' = [cash |-> books'.balance, earned |-> books'.node_realized, held |-> pos']
  BY <1>1, EmptyBookedNext DEF EmptyBookedAlways
<1>3. books'.balance = Start /\ books'.node_realized = Zero(Node) /\ pos' = Zero(Slot)
  BY DEF PaperReset, Seed, EmptyBooks
<1>4. Saved' = Saved
  BY DEF PaperReset, Saved
<1> QED BY <1>2, <1>3, <1>4
        DEF Promise!ComeBack, Promise!Fresh, Promise!Node, Node, Zero

LEMMA PromiseRestart ==
  ASSUME LedgerInv, LedgerInv', Restart
  PROVE  Promise!ComeBack
<1>1. Empty' /\ BooksOK'
  BY DEF LedgerInv, BooksOK, Restart, Empty
<1>2. Booked' = [cash |-> books'.balance, earned |-> books'.node_realized, held |-> pos']
  BY <1>1, EmptyBookedNext DEF EmptyBookedAlways
<1>3. Saved' = Saved
  BY DEF Restart, Saved
<1>4. PICK partial \in BOOLEAN :
        \/ /\ snapshot.taken /\ pos' = snapshot.pos
           /\ books' = Load(snapshot, partial)
        \/ /\ pos' = Zero(Slot)
           /\ books' = [EmptyBooks EXCEPT !.mispaired = books.mispaired]
  BY DEF Restart, Loads
<1>5. CASE snapshot.taken /\ pos' = snapshot.pos /\ books' = Load(snapshot, partial)
  <2>1. /\ books'.balance = snapshot.books.balance
        /\ books'.node_realized = snapshot.books.node_realized
    <3>1. snapshot.books \in Book
      BY <1>5 DEF LedgerInv, FileOK
    <3> QED BY <1>5, <3>1 DEF Load, Seed, Book
  <2>2. Booked' = Saved
    BY <1>2, <1>5, <2>1 DEF Saved
  <2> QED BY <1>3, <2>2 DEF Promise!ComeBack
<1>6. CASE pos' = Zero(Slot) /\ books' = [EmptyBooks EXCEPT !.mispaired = books.mispaired]
  <2>1. books'.balance = Start /\ books'.node_realized = Zero(Node)
    BY <1>6 DEF EmptyBooks
  <2> QED BY <1>2, <1>3, <1>6, <2>1
          DEF Promise!ComeBack, Promise!Fresh, Promise!Node, Node, Zero
<1> QED BY <1>4, <1>5, <1>6

LEMMA PromiseNext ==
  LedgerInv /\ LedgerInv' /\ [LedgerNext]_ledgerVars =>
    [Promise!AccountNext]_<<Booked, Saved>>
<1> SUFFICES ASSUME LedgerInv, LedgerInv', [LedgerNext]_ledgerVars
             PROVE  Promise!AccountNext \/ UNCHANGED <<Booked, Saved>>
  OBVIOUS
<1>1. ASSUME fill_rings' = fill_rings, books' = books, pos' = pos, snapshot' = snapshot
      PROVE  UNCHANGED <<Booked, Saved>>
  BY <1>1, NetsNext DEF Booked, RingNet, SumSeq, Totals, Saved
<1>2. CASE SaveWrites \/ UNCHANGED ledgerVars
  BY <1>1, <1>2 DEF SaveWrites, ledgerVars
<1>3. ASSUME NEW n \in Node, NewTrade(n) PROVE UNCHANGED <<Booked, Saved>>
  BY <1>1, <1>3 DEF NewTrade
<1>4. ASSUME NEW s \in Slot, ExitLeg(s) PROVE UNCHANGED <<Booked, Saved>>
  BY <1>1, <1>4 DEF ExitLeg
<1>5. CASE Compose
  BY <1>5, PromiseCompose
<1>6. CASE SaveRenames
  BY <1>6, PromiseSave DEF Promise!AccountNext
<1>7. CASE PaperReset \/ Restart
  BY <1>7, PromiseReset, PromiseRestart DEF Promise!AccountNext
<1>8. ASSUME NEW s \in Slot, BuyFill(s) PROVE Promise!AccountNext
  BY <1>8, PromiseBuy DEF Promise!AccountNext
<1>9. ASSUME NEW s \in Slot, SellFill(s) PROVE Promise!AccountNext
  BY <1>9, PromiseSell DEF Promise!AccountNext
<1> QED BY <1>2, <1>3, <1>4, <1>5, <1>6, <1>7, <1>8, <1>9 DEF LedgerNext

(* The ledger of engine, composer, rings, resets and snapshots is the       *)
(* account of Account.tla: each fill moves cash and position of one owner   *)
(* once, and a restart is back at the last checkpoint                       *)
(* (EngineCommon_FillRingsApply, EngineCommon_PaperReset, the snapshots).   *)
THEOREM LedgerKeepsItsPromise == LedgerSpec => ImplementsAccount
<1>1. LedgerSpec => []LedgerInv
  BY InitLedgerInv, NextLedgerInv, PTL DEF LedgerSpec
<1> QED BY <1>1, PromiseInit, PromiseNext, PTL DEF LedgerSpec, ImplementsAccount

-----------------------------------------------------------------------------
(* Types, and the zoos of a step that teaches.                              *)

ZooRec ==
  [node : ZooNode, family : Dir, lock : BOOLEAN, bound : BOOLEAN, pending : BOOLEAN,
   learned : SUBSET Nat, freed : BOOLEAN]
Loading == [at : {"flush", "load"}, dir : Dir, old : Nat, had : SUBSET Nat]
Loaded ==
  [at : {"validate", "refuse", "free"}, dir : Dir, old : Nat, had : SUBSET Nat, new : Nat]
Swaps == {NoSwap} \cup Loading \cup Loaded
Sales ==
  {NoSale} \cup [at : {"post"}, node : ZooNode]
           \cup [at : {"calibrate", "reward"}, node : ZooNode, zoo : Nat]

Types ==
  /\ zoos \in Seq(ZooRec) /\ handle \in [ZooNode -> Nat] /\ disk \in [Dir -> SUBSET Nat]
  /\ foreign \subseteq Dir /\ swap \in [ZooNode -> Swaps] /\ sale \in Sales
  /\ rewards \in Nat /\ kept \subseteq [family : Dir, id : Nat]

(* Before the first boot there is nothing to lose.                          *)
DownOK == ~Up => kept = {} /\ sale = NoSale /\ \A n \in ZooNode : At(n, "none")
ServingOK ==
  /\ Up => \A n \in ZooNode : handle[n] \in Zoo /\ zoos[handle[n]].node = n
  /\ sale.at = "reward" => sale.zoo \in Zoo
LocksOK ==
  \A z \in Zoo : /\ zoos[z].lock = zoos[z].bound /\ (zoos[z].freed => ~zoos[z].bound)
                 /\ zoos[z].lock => zoos[z].family \notin foreign
WritersOK ==
  \A y, z \in Zoo : zoos[y].bound /\ zoos[z].bound /\ zoos[y].family = zoos[z].family
                      => zoos[y].node = zoos[z].node
SwapOK(n) ==
  /\ swap[n].at \in {"flush", "load", "validate", "refuse"} => swap[n].old = handle[n]
  /\ swap[n].at \in {"validate", "refuse"} =>
       /\ swap[n].new \in Zoo /\ swap[n].new # handle[n]
       /\ zoos[swap[n].new].node = n /\ zoos[swap[n].new].family = swap[n].dir
  /\ swap[n].at = "free" => /\ swap[n].new = handle[n] /\ swap[n].old \in Zoo
                            /\ swap[n].old # handle[n] /\ zoos[swap[n].old].node = n
SwapsOK == \A n \in ZooNode : SwapOK(n)
ZoosInv == Types /\ DownOK /\ ServingOK /\ LocksOK /\ WritersOK /\ SwapsOK

LEMMA ZooTyped ==
  ASSUME Types
  PROVE  Len(zoos) \in Nat /\ \A z \in Zoo : zoos[z] \in ZooRec /\ z \in Nat
BY DEF Types, Zoo

LEMMA SwapTyped ==
  ASSUME Types, NEW n \in ZooNode
  PROVE  /\ swap[n] \in Swaps
         /\ At(n, "none") => swap[n] = NoSwap
         /\ swap[n].at \in {"flush", "load"} => swap[n] \in Loading
         /\ swap[n].at \in {"validate", "refuse", "free"} => swap[n] \in Loaded
BY DEF Types, Swaps, Loading, Loaded, NoSwap, At

(* A swap that goes on keeps what it is about.                              *)
LEMMA GoesOn ==
  ASSUME Types, NEW n \in ZooNode, NEW place, Goes(n, place),
         \/ At(n, "flush") /\ place = "load"
         \/ At(n, "validate") /\ place \in {"refuse", "free"}
  PROVE  /\ swap' \in [ZooNode -> Swaps] /\ \A m \in ZooNode \ {n} : swap'[m] = swap[m]
         /\ swap'[n].at = place /\ swap'[n].dir = swap[n].dir /\ swap'[n].old = swap[n].old
         /\ swap'[n].had = swap[n].had
         /\ place # "load" => swap'[n].new = swap[n].new
<1>1. swap' = [swap EXCEPT ![n] = [swap[n] EXCEPT !.at = place]] /\ swap \in [ZooNode -> Swaps]
  BY DEF Goes, Types
<1>2. swap'[n] = [swap[n] EXCEPT !.at = place] /\ \A m \in ZooNode \ {n} : swap'[m] = swap[m]
  BY <1>1
<1>3. CASE At(n, "flush") /\ place = "load"
  <2>1. swap[n] \in Loading
    BY <1>3, SwapTyped DEF At
  <2>2. swap'[n] \in Loading
    BY <1>2, <1>3, <2>1 DEF Loading
  <2> QED BY <1>1, <1>2, <1>3, <2>1, <2>2 DEF Loading, Swaps
<1>4. CASE At(n, "validate") /\ place \in {"refuse", "free"}
  <2>1. swap[n] \in Loaded
    BY <1>4, SwapTyped DEF At
  <2>2. swap'[n] \in Loaded
    BY <1>2, <1>4, <2>1 DEF Loaded
  <2> QED BY <1>1, <1>2, <1>4, <2>1, <2>2 DEF Loaded, Swaps
<1> QED BY <1>3, <1>4

(* The zoos of a step that only teaches: the same ones, having learned no   *)
(* less.                                                                    *)
Taught ==
  /\ zoos' \in Seq(ZooRec) /\ Len(zoos') = Len(zoos)
  /\ \A z \in Zoo :
       /\ zoos'[z].node = zoos[z].node /\ zoos'[z].family = zoos[z].family
       /\ zoos'[z].lock = zoos[z].lock /\ zoos'[z].bound = zoos[z].bound
       /\ zoos'[z].freed = zoos[z].freed /\ zoos[z].learned \subseteq zoos'[z].learned

LEMMA SameTaught == ASSUME Types, zoos' = zoos PROVE Taught
BY ZooTyped DEF Taught, Types

LEMMA ZooReplaced ==
  ASSUME Types, NEW z \in Zoo, NEW r \in ZooRec
  PROVE  LET t == [zoos EXCEPT ![z] = r]
         IN /\ t \in Seq(ZooRec) /\ Len(t) = Len(zoos)
            /\ \A y \in Zoo : t[y] = IF y = z THEN r ELSE zoos[y]
<1>1. zoos \in Seq(ZooRec) /\ Len(zoos) \in Nat /\ z \in 1 .. Len(zoos)
  BY ZooTyped DEF Types, Zoo
<1> QED BY <1>1 DEF Zoo

LEMMA CreditTeaches ==
  ASSUME Types, NEW z \in Zoo, NEW pending \in BOOLEAN, Credited(z, pending)
  PROVE  /\ Taught /\ rewards' \in Nat /\ zoos'[z].learned = zoos[z].learned \cup {rewards'}
         /\ kept' \subseteq [family : Dir, id : Nat]
<1>1. zoos[z] \in ZooRec /\ Len(zoos) \in Nat /\ rewards' \in Nat
  BY ZooTyped DEF Credited, Types
<1> DEFINE r == [zoos[z] EXCEPT !.learned = @ \cup {rewards'}, !.pending = pending]
<1>2. /\ r \in ZooRec /\ r.node = zoos[z].node /\ r.family = zoos[z].family
      /\ r.lock = zoos[z].lock /\ r.bound = zoos[z].bound /\ r.freed = zoos[z].freed
      /\ r.learned = zoos[z].learned \cup {rewards'}
  BY <1>1 DEF ZooRec
<1>3. zoos' = [zoos EXCEPT ![z] = r]
  BY <1>1 DEF Credited, Zoo, Types
<1> HIDE DEF r
<1>4. zoos' \in Seq(ZooRec) /\ Len(zoos') = Len(zoos)
      /\ \A y \in Zoo : zoos'[y] = IF y = z THEN r ELSE zoos[y]
  BY <1>2, <1>3, ZooReplaced
<1>5. kept' \subseteq [family : Dir, id : Nat]
  BY <1>1 DEF Credited, Types, ZooRec
<1> QED BY <1>1, <1>2, <1>4, <1>5 DEF Taught

Unmarked(z) == zoos' = [zoos EXCEPT ![z].pending = FALSE]
LEMMA UnmarkedTeaches ==
  ASSUME Types, NEW z \in Zoo, Unmarked(z)
  PROVE  Taught
<1>1. zoos[z] \in ZooRec /\ Len(zoos) \in Nat
  BY ZooTyped
<1> DEFINE r == [zoos[z] EXCEPT !.pending = FALSE]
<1>2. /\ r \in ZooRec /\ r.node = zoos[z].node /\ r.family = zoos[z].family
      /\ r.lock = zoos[z].lock /\ r.bound = zoos[z].bound /\ r.freed = zoos[z].freed
      /\ r.learned = zoos[z].learned
  BY <1>1 DEF ZooRec
<1>3. zoos' = [zoos EXCEPT ![z] = r]
  BY <1>1 DEF Zoo, Types, Unmarked
<1> HIDE DEF r
<1>4. zoos' \in Seq(ZooRec) /\ Len(zoos') = Len(zoos)
      /\ \A y \in Zoo : zoos'[y] = IF y = z THEN r ELSE zoos[y]
  BY <1>2, <1>3, ZooReplaced
<1>5. ASSUME NEW y \in Zoo
      PROVE  /\ zoos'[y].node = zoos[y].node /\ zoos'[y].family = zoos[y].family
             /\ zoos'[y].lock = zoos[y].lock /\ zoos'[y].bound = zoos[y].bound
             /\ zoos'[y].freed = zoos[y].freed /\ zoos'[y].learned = zoos[y].learned
  <2>1. zoos'[y] = IF y = z THEN r ELSE zoos[y]
    BY <1>4
  <2> QED BY <1>2, <2>1
<1> QED BY <1>4, <1>5 DEF Taught

-----------------------------------------------------------------------------
(* The invariant of the zoos, action by action: the steps of a slow path    *)
(* between swaps, of the drainer and of other processes.                    *)

LEMMA UpLong == ASSUME Types PROVE Up <=> Len(zoos) > 0
BY DEF Types, Up

LEMMA TaughtKeeps ==
  ASSUME ZoosInv, Taught, handle' = handle
  PROVE  /\ Zoo' = Zoo /\ (Up' <=> Up) /\ WritersOK'
         /\ Up => \A n \in ZooNode : handle'[n] \in Zoo' /\ zoos'[handle'[n]].node = n
         /\ foreign' = foreign => LocksOK'
         /\ \A n \in ZooNode : swap'[n] = swap[n] => SwapOK(n)'
<1>1. Types /\ zoos \in Seq(ZooRec) /\ zoos' \in Seq(ZooRec) /\ Len(zoos') = Len(zoos)
  BY DEF ZoosInv, Types, Taught
<1>2. Zoo' = Zoo /\ (Up' <=> Up)
  BY <1>1 DEF Zoo, Up
<1>3. WritersOK' /\ (foreign' = foreign => LocksOK')
  BY <1>2 DEF ZoosInv, WritersOK, LocksOK, Taught
<1>4. Up => \A n \in ZooNode : handle'[n] \in Zoo' /\ zoos'[handle'[n]].node = n
  BY <1>2 DEF ZoosInv, ServingOK, Taught
<1>5. ASSUME NEW n \in ZooNode, swap'[n] = swap[n] PROVE SwapOK(n)'
  BY <1>2, <1>5 DEF ZoosInv, SwapsOK, SwapOK, Taught
<1> QED BY <1>2, <1>3, <1>4, <1>5

(* The actions of a slow path and of the drainer that only teach or save.   *)
LEMMA TaughtInv ==
  ASSUME ZoosInv, Taught, handle' = handle, UNCHANGED <<foreign, swap>>,
         disk' \in [Dir -> SUBSET Nat], sale' \in Sales, rewards' \in Nat,
         kept' \subseteq [family : Dir, id : Nat],
         ~Up => kept' = kept /\ sale' = sale, sale'.at = "reward" => sale'.zoo \in Zoo
  PROVE  ZoosInv'
<1>1. /\ Zoo' = Zoo /\ (Up' <=> Up) /\ WritersOK' /\ LocksOK'
      /\ Up => \A n \in ZooNode : handle'[n] \in Zoo' /\ zoos'[handle'[n]].node = n
      /\ \A n \in ZooNode : SwapOK(n)'
  BY TaughtKeeps
<1>2. Types'
  BY DEF ZoosInv, Types, Taught
<1>3. DownOK'
  BY <1>1 DEF ZoosInv, DownOK, At
<1>4. ServingOK'
  BY <1>1 DEF ServingOK
<1> QED BY <1>1, <1>2, <1>3, <1>4 DEF ZoosInv, SwapsOK

(* Those of a swap that leave the zoos alone.                               *)
LEMMA SwapInv ==
  ASSUME ZoosInv, UNCHANGED <<zoos, foreign, sale, rewards, kept>>, Up,
         handle' \in [ZooNode -> Nat], disk' \in [Dir -> SUBSET Nat],
         NEW n \in ZooNode, swap' \in [ZooNode -> Swaps],
         \A m \in ZooNode \ {n} : swap'[m] = swap[m] /\ handle'[m] = handle[m],
         handle'[n] \in Zoo, zoos[handle'[n]].node = n, SwapOK(n)'
  PROVE  ZoosInv'
<1>1. Zoo' = Zoo /\ (Up' <=> Up)
  BY DEF Zoo, Up
<1>2. Types' /\ DownOK'
  BY <1>1 DEF ZoosInv, Types, DownOK
<1>4. ServingOK' /\ LocksOK' /\ WritersOK'
  BY <1>1 DEF ZoosInv, ServingOK, LocksOK, WritersOK
<1>3. ASSUME NEW m \in ZooNode, m # n PROVE SwapOK(m)'
  BY <1>1, <1>3 DEF ZoosInv, SwapsOK, SwapOK
<1> QED BY <1>2, <1>3, <1>4 DEF ZoosInv, SwapsOK

LEMMA SavedTyped ==
  ASSUME Types, NEW store \in [Dir -> SUBSET Nat], NEW z \in Zoo
  PROVE  SavedState(store, z) \in [Dir -> SUBSET Nat]
<1>1. zoos[z] \in ZooRec
  BY ZooTyped
<1>2. zoos[z].family \in Dir /\ zoos[z].learned \in SUBSET Nat
  BY <1>1 DEF ZooRec
<1>3. [store EXCEPT ![zoos[z].family] = zoos[z].learned] \in [Dir -> SUBSET Nat]
  BY <1>2
<1> QED BY <1>3 DEF SavedState

LEMMA Serves ==
  ASSUME ZoosInv, Up, NEW n \in ZooNode
  PROVE  /\ Types /\ handle[n] \in Zoo /\ zoos[handle[n]] \in ZooRec /\ zoos[handle[n]].node = n
         /\ zoos \in Seq(ZooRec) /\ handle \in [ZooNode -> Nat]
         /\ disk \in [Dir -> SUBSET Nat] /\ swap \in [ZooNode -> Swaps] /\ sale \in Sales
         /\ rewards \in Nat /\ kept \subseteq [family : Dir, id : Nat]
BY ZooTyped DEF ZoosInv, Types, ServingOK

LEMMA LooksBackInv == ASSUME ZoosInv, NEW n \in ZooNode, LooksBack(n) PROVE ZoosInv'
<1> DEFINE z == handle[n]
<1>1. Up
  BY DEF LooksBack
<1>2. Types /\ z \in Zoo /\ zoos[z] \in ZooRec /\ sale \in Sales
  BY <1>1, Serves
<1>3. PICK crossed \in BOOLEAN :
        /\ Credited(z, zoos[z].pending /\ ~crossed)
        /\ disk' = IF crossed /\ Bound(z)
                     THEN [disk EXCEPT ![zoos[z].family] = zoos'[z].learned] ELSE disk
  BY DEF LooksBack
<1> HIDE DEF z
<1>4. (zoos[z].pending /\ ~crossed) \in BOOLEAN
  BY <1>2 DEF ZooRec
<1>5. /\ Taught /\ rewards' \in Nat /\ zoos'[z].learned = zoos[z].learned \cup {rewards'}
      /\ kept' \subseteq [family : Dir, id : Nat]
  BY <1>2, <1>3, <1>4, CreditTeaches
<1>6. disk' \in [Dir -> SUBSET Nat]
  BY <1>2, <1>3, <1>5 DEF Types, ZooRec
<1> QED BY <1>1, <1>2, <1>5, <1>6, TaughtInv DEF LooksBack, ZoosInv, ServingOK

LEMMA FlushPendingInv == ASSUME ZoosInv, NEW n \in ZooNode, FlushPending(n) PROVE ZoosInv'
<1>1. Types /\ handle[n] \in Zoo /\ disk \in [Dir -> SUBSET Nat] /\ sale \in Sales
  BY Serves DEF FlushPending
<1>2. Taught /\ disk' \in [Dir -> SUBSET Nat]
  BY <1>1, UnmarkedTeaches, SavedTyped DEF FlushPending, Unmarked
<1> QED BY <1>1, <1>2, TaughtInv DEF FlushPending, ZoosInv, ServingOK, Types

LEMMA DrainerInv ==
  ASSUME ZoosInv, Calibrates \/ LoadsHandle \/ \E n \in ZooNode : Sells(n)
  PROVE  ZoosInv'
<1>1. Types
  BY DEF ZoosInv
<1>2. UNCHANGED <<zoos, handle, disk, foreign, swap, rewards, kept>> /\ Taught
  BY <1>1, SameTaught DEF Calibrates, LoadsHandle, Sells
<1>3. Up
  BY DEF ZoosInv, DownOK, Calibrates, LoadsHandle, Sells, NoSale
<1>4. \A n \in ZooNode : handle[n] \in Zoo /\ n \in Nat /\ handle[n] \in Nat
  BY <1>3 DEF ZoosInv, ServingOK, ZooNode, Types
<1>5. sale' \in Sales /\ (sale'.at = "reward" => sale'.zoo \in Zoo)
  <2>1. CASE Calibrates
    BY <1>1, <2>1 DEF Calibrates, Sales, Types, NoSale
  <2>2. CASE LoadsHandle
    BY <1>1, <1>4, <2>2 DEF LoadsHandle, Sales, Types, NoSale
  <2>3. ASSUME NEW n \in ZooNode, Sells(n)
        PROVE  sale' \in Sales /\ (sale'.at = "reward" => sale'.zoo \in Zoo)
    BY <1>4, <2>3 DEF Sells, Sales
  <2> QED BY <2>1, <2>2, <2>3
<1> QED BY <1>1, <1>2, <1>3, <1>5, TaughtInv DEF Types

LEMMA RewardsInv == ASSUME ZoosInv, Rewards PROVE ZoosInv'
<1>1. Types /\ sale.zoo \in Zoo /\ Up
  BY DEF ZoosInv, DownOK, ServingOK, Rewards, NoSale
<1>2. zoos[sale.zoo] \in ZooRec
  BY <1>1, ZooTyped
<1>3. Taught /\ rewards' \in Nat /\ kept' \subseteq [family : Dir, id : Nat]
  <2>1. CASE UNCHANGED <<zoos, rewards, kept>>
    BY <1>1, <2>1, SameTaught DEF Types
  <2>2. ASSUME NEW crossed \in BOOLEAN,
               Credited(sale.zoo, zoos[sale.zoo].pending \/ (crossed /\ Bound(sale.zoo)))
        PROVE  Taught /\ rewards' \in Nat /\ kept' \subseteq [family : Dir, id : Nat]
    <3>1. (zoos[sale.zoo].pending \/ (crossed /\ Bound(sale.zoo))) \in BOOLEAN
      BY <1>2 DEF ZooRec, Bound
    <3> QED BY <1>1, <2>2, <3>1, CreditTeaches
  <2> QED BY <2>1, <2>2 DEF Rewards
<1>4. sale' = NoSale /\ UNCHANGED <<handle, disk, foreign, swap>>
  BY DEF Rewards
<1> QED BY <1>1, <1>3, <1>4, TaughtInv DEF Types, Sales, NoSale

LEMMA ForeignInv ==
  ASSUME ZoosInv, NEW d \in Dir, ForeignTakes(d) \/ ForeignLeaves(d) PROVE ZoosInv'
<1>1. UNCHANGED <<zoos, handle, disk, swap, sale, rewards, kept>>
  BY DEF ForeignTakes, ForeignLeaves
<1>2. Zoo' = Zoo /\ (Up' <=> Up) /\ foreign' \subseteq Dir
  BY <1>1 DEF Zoo, Up, ForeignTakes, ForeignLeaves, ZoosInv, Types
<1>3. LocksOK'
  BY <1>1, <1>2 DEF ZoosInv, LocksOK, ForeignTakes, ForeignLeaves, LockFree
<1>4. Types' /\ DownOK' /\ ServingOK' /\ WritersOK'
  BY <1>1, <1>2 DEF ZoosInv, Types, DownOK, ServingOK, WritersOK, At
<1>5. SwapsOK'
  BY <1>1, <1>2 DEF ZoosInv, SwapsOK, SwapOK
<1> QED BY <1>3, <1>4, <1>5 DEF ZoosInv

-----------------------------------------------------------------------------
(* The steps of a swap, but for the bind and the release.                   *)

LEMMA PickUpInv == ASSUME ZoosInv, NEW n \in ZooNode, PickUp(n) PROVE ZoosInv'
<1>1. /\ Up /\ Types /\ handle[n] \in Zoo /\ zoos[handle[n]] \in ZooRec /\ zoos[handle[n]].node = n
      /\ handle \in [ZooNode -> Nat] /\ disk \in [Dir -> SUBSET Nat] /\ swap \in [ZooNode -> Swaps]
  BY Serves DEF PickUp
<1>2. PICK d \in Dir :
        swap' = [swap EXCEPT ![n] =
          [at |-> "flush", dir |-> d, old |-> handle[n], had |-> zoos[handle[n]].learned]]
  BY DEF PickUp
<1>3. zoos[handle[n]].learned \in SUBSET Nat /\ handle[n] \in Nat
  BY <1>1 DEF ZooRec
<1>4. /\ swap' \in [ZooNode -> Swaps] /\ \A m \in ZooNode \ {n} : swap'[m] = swap[m]
      /\ swap'[n].at = "flush" /\ swap'[n].old = handle[n]
  BY <1>1, <1>2, <1>3 DEF Swaps, Loading
<1>5. UNCHANGED <<zoos, handle, disk, foreign, sale, rewards, kept>>
  BY DEF PickUp
<1>6. SwapOK(n)'
  BY <1>4, <1>5 DEF SwapOK
<1> QED BY <1>1, <1>4, <1>5, <1>6, SwapInv

LEMMA FlushInv == ASSUME ZoosInv, NEW n \in ZooNode, FlushOutgoing(n) PROVE ZoosInv'
<1>1. Up
  BY DEF FlushOutgoing, ZoosInv, DownOK, At
<1>2. /\ Types /\ handle[n] \in Zoo /\ zoos[handle[n]].node = n
      /\ handle \in [ZooNode -> Nat] /\ disk \in [Dir -> SUBSET Nat]
  BY <1>1, Serves
<1>3. swap[n].old = handle[n] /\ At(n, "flush") /\ Goes(n, "load")
      /\ disk' = SavedState(disk, swap[n].old)
      /\ UNCHANGED <<zoos, handle, foreign, sale, rewards, kept>>
  BY DEF FlushOutgoing, ZoosInv, SwapsOK, SwapOK, At
<1>4. disk' \in [Dir -> SUBSET Nat]
  BY <1>2, <1>3, SavedTyped
<1>5. /\ swap' \in [ZooNode -> Swaps] /\ \A m \in ZooNode \ {n} : swap'[m] = swap[m]
      /\ swap'[n].at = "load" /\ swap'[n].old = swap[n].old
  BY <1>2, <1>3, GoesOn
<1>6. SwapOK(n)'
  BY <1>3, <1>5 DEF SwapOK
<1> QED BY <1>1, <1>2, <1>3, <1>4, <1>5, <1>6, SwapInv

LEMMA NoneTyped ==
  ASSUME Types, NEW n \in ZooNode, swap' = [swap EXCEPT ![n] = NoSwap]
  PROVE  /\ swap' \in [ZooNode -> Swaps] /\ \A m \in ZooNode \ {n} : swap'[m] = swap[m]
         /\ swap'[n].at = "none"
BY DEF Types, Swaps, NoSwap

LEMMA LoadFailsInv == ASSUME ZoosInv, NEW n \in ZooNode, LoadFails(n) PROVE ZoosInv'
<1>1. Up
  BY DEF LoadFails, ZoosInv, DownOK, At
<1>2. /\ Types /\ handle[n] \in Zoo /\ zoos[handle[n]].node = n
      /\ handle \in [ZooNode -> Nat] /\ disk \in [Dir -> SUBSET Nat]
  BY <1>1, Serves
<1>3. UNCHANGED <<zoos, handle, disk, foreign, sale, rewards, kept>>
      /\ swap' = [swap EXCEPT ![n] = NoSwap]
  BY DEF LoadFails
<1>4. /\ swap' \in [ZooNode -> Swaps] /\ \A m \in ZooNode \ {n} : swap'[m] = swap[m]
      /\ swap'[n].at = "none"
  BY <1>2, <1>3, NoneTyped
<1>5. SwapOK(n)'
  BY <1>4 DEF SwapOK
<1> QED BY <1>1, <1>2, <1>3, <1>4, <1>5, SwapInv

LEMMA RefusesInv == ASSUME ZoosInv, NEW n \in ZooNode, Refuses(n) PROVE ZoosInv'
<1>1. Up
  BY DEF Refuses, ZoosInv, DownOK, At
<1>2. /\ Types /\ handle[n] \in Zoo /\ zoos[handle[n]].node = n
      /\ handle \in [ZooNode -> Nat] /\ disk \in [Dir -> SUBSET Nat]
  BY <1>1, Serves
<1>3. At(n, "validate") /\ Goes(n, "refuse") /\ SwapOK(n)
      /\ UNCHANGED <<zoos, handle, disk, foreign, sale, rewards, kept>>
  BY DEF Refuses, ZoosInv, SwapsOK
<1>4. /\ swap' \in [ZooNode -> Swaps] /\ \A m \in ZooNode \ {n} : swap'[m] = swap[m]
      /\ swap'[n].at = "refuse" /\ swap'[n].old = swap[n].old
      /\ swap'[n].new = swap[n].new /\ swap'[n].dir = swap[n].dir
  BY <1>2, <1>3, GoesOn
<1>5. SwapOK(n)'
  BY <1>3, <1>4 DEF SwapOK, Zoo, At
<1> QED BY <1>1, <1>2, <1>3, <1>4, <1>5, SwapInv

LEMMA ExchangeInv == ASSUME ZoosInv, NEW n \in ZooNode, Exchange(n) PROVE ZoosInv'
<1>1. Up
  BY DEF Exchange, ZoosInv, DownOK, At
<1>2. /\ Types /\ handle[n] \in Zoo /\ zoos[handle[n]].node = n
      /\ handle \in [ZooNode -> Nat] /\ disk \in [Dir -> SUBSET Nat]
  BY <1>1, Serves
<1>3. At(n, "validate") /\ Goes(n, "free") /\ SwapOK(n) /\ handle' = [handle EXCEPT ![n] = swap[n].new]
      /\ UNCHANGED <<zoos, disk, foreign, sale, rewards, kept>>
  BY DEF Exchange, ZoosInv, SwapsOK
<1>4. /\ swap' \in [ZooNode -> Swaps] /\ \A m \in ZooNode \ {n} : swap'[m] = swap[m]
      /\ swap'[n].at = "free" /\ swap'[n].old = swap[n].old
      /\ swap'[n].new = swap[n].new /\ swap'[n].dir = swap[n].dir
  BY <1>2, <1>3, GoesOn
<1>5. /\ swap[n].new \in Zoo /\ swap[n].new # handle[n] /\ zoos[swap[n].new].node = n
      /\ swap[n].old = handle[n] /\ swap[n].new \in Nat
  BY <1>2, <1>3, ZooTyped DEF SwapOK, At
<1>6. handle' \in [ZooNode -> Nat] /\ handle'[n] = swap[n].new
      /\ \A m \in ZooNode \ {n} : handle'[m] = handle[m]
  BY <1>2, <1>3, <1>5
<1>7. SwapOK(n)'
  BY <1>2, <1>3, <1>4, <1>5, <1>6 DEF SwapOK, Zoo
<1> QED BY <1>1, <1>2, <1>3, <1>4, <1>5, <1>6, <1>7, SwapInv

-----------------------------------------------------------------------------
(* The bind, the release, and a boot.                                       *)

LEMMA BindInv == ASSUME ZoosInv, NEW n \in ZooNode, Bind(n) PROVE ZoosInv'
<1>1. Up /\ At(n, "load")
  BY DEF Bind, ZoosInv, DownOK, At
<1>2. /\ Types /\ handle[n] \in Zoo /\ zoos[handle[n]].node = n /\ zoos[handle[n]] \in ZooRec
      /\ zoos \in Seq(ZooRec)
      /\ handle \in [ZooNode -> Nat] /\ disk \in [Dir -> SUBSET Nat] /\ swap \in [ZooNode -> Swaps]
  BY <1>1, Serves
<1>3. PICK outcome \in BindOutcomes(n) :
        /\ zoos' = Append(zoos, NewZoo(n, swap[n].dir, outcome = "bound", disk))
        /\ swap' = [swap EXCEPT ![n] =
             [at |-> IF outcome = "contended" THEN "refuse" ELSE "validate", dir |-> @.dir,
              old |-> @.old, had |-> @.had, new |-> Len(zoos) + 1]]
  BY DEF Bind
<1>4. UNCHANGED <<handle, disk, foreign, sale, rewards, kept>>
  BY DEF Bind
<1> DEFINE r == NewZoo(n, swap[n].dir, outcome = "bound", disk)
<1>5. swap[n] \in Loading /\ swap[n].old = handle[n] /\ swap[n].dir \in Dir
  BY <1>1, <1>2, SwapTyped DEF At, ZoosInv, SwapsOK, SwapOK, Loading
<1>6. /\ r \in ZooRec /\ r.node = n /\ r.family = swap[n].dir /\ r.lock = (outcome = "bound")
      /\ r.bound = r.lock /\ ~r.freed
  BY <1>2, <1>5 DEF NewZoo, ZooRec
<1>7. outcome = "bound" => Heir(n) \/ LockFree(swap[n].dir)
  BY DEF BindOutcomes
<1> HIDE DEF r
<1>8. /\ Len(zoos) \in Nat /\ zoos' \in Seq(ZooRec) /\ Len(zoos') = Len(zoos) + 1
      /\ zoos'[Len(zoos) + 1] = r /\ \A z \in Zoo : zoos'[z] = zoos[z] /\ z \in Nat
      /\ Zoo' = Zoo \cup {Len(zoos) + 1} /\ Len(zoos) + 1 \notin Zoo
  <2>1. zoos' = Append(zoos, r)
    BY <1>3 DEF r
  <2> QED BY <1>2, <1>6, <2>1, ZooTyped DEF Zoo
<1>9. /\ swap' \in [ZooNode -> Swaps] /\ \A m \in ZooNode \ {n} : swap'[m] = swap[m]
      /\ swap'[n].at \in {"refuse", "validate"} /\ swap'[n].old = swap[n].old
      /\ swap'[n].dir = swap[n].dir /\ swap'[n].new = Len(zoos) + 1
  <2>1. swap'[n] = [at |-> IF outcome = "contended" THEN "refuse" ELSE "validate",
                    dir |-> swap[n].dir, old |-> swap[n].old, had |-> swap[n].had,
                    new |-> Len(zoos) + 1]
    BY <1>2, <1>3
  <2>2. swap'[n] \in Loaded
    BY <1>5, <1>8, <2>1 DEF Loading, Loaded
  <2> QED BY <1>2, <1>3, <2>1, <2>2 DEF Swaps
<1>10. Types'
  BY <1>2, <1>4, <1>8, <1>9 DEF Types
<1>11. DownOK' /\ ServingOK'
  <2>1. Up'
    BY <1>8 DEF Up
  <2> QED BY <1>1, <1>4, <1>8, <2>1 DEF DownOK, ServingOK, ZoosInv
<1>12. /\ r.lock => /\ r.family \notin foreign
                    /\ \A z \in Zoo : zoos[z].bound /\ zoos[z].family = r.family => zoos[z].node = n
  <2>1. CASE Heir(n)
    BY <1>2, <1>5, <1>6, <2>1 DEF Heir, ZoosInv, LocksOK, WritersOK
  <2>2. CASE LockFree(swap[n].dir)
    BY <1>2, <1>5, <1>6, <2>2 DEF LockFree, ZoosInv, LocksOK
  <2> QED BY <1>6, <1>7, <2>1, <2>2
<1>13. LocksOK'
  BY <1>4, <1>6, <1>8, <1>12 DEF LocksOK, ZoosInv
<1>14. WritersOK'
  <2>1. ASSUME NEW y \in Zoo', NEW z \in Zoo', zoos'[y].bound, zoos'[z].bound,
               zoos'[y].family = zoos'[z].family
        PROVE  zoos'[y].node = zoos'[z].node
    BY <1>6, <1>8, <1>12, <2>1 DEF WritersOK, ZoosInv
  <2> QED BY <2>1 DEF WritersOK
<1>15. ASSUME NEW m \in ZooNode PROVE SwapOK(m)'
  <2>1. CASE m = n
    BY <1>2, <1>4, <1>5, <1>6, <1>8, <1>9, <2>1 DEF SwapOK
  <2>2. CASE m # n
    <3>1. swap'[m] = swap[m] /\ SwapOK(m) /\ handle[m] \in Zoo /\ handle' = handle
      BY <1>1, <1>4, <1>9, <2>2 DEF ZoosInv, SwapsOK, ServingOK
    <3> QED BY <1>8, <3>1 DEF SwapOK
  <2> QED BY <2>1, <2>2
<1> QED BY <1>10, <1>11, <1>13, <1>14, <1>15 DEF ZoosInv, SwapsOK

(* What freeing does to the zoos.                                           *)
Discarded(n) == IF At(n, "free") THEN swap[n].old ELSE swap[n].new
LEMMA FreesIs ==
  ASSUME ZoosInv, NEW n \in ZooNode, Frees(n)
  PROVE  /\ Up /\ Discarded(n) \in Zoo /\ zoos[Discarded(n)].node = n /\ Discarded(n) # handle[n]
         /\ zoos' \in Seq(ZooRec) /\ Len(zoos') = Len(zoos) /\ Zoo' = Zoo
         /\ \A z \in Zoo : z # Discarded(n) => zoos'[z] = zoos[z]
         /\ zoos'[Discarded(n)].node = n /\ zoos'[Discarded(n)].freed
         /\ zoos'[Discarded(n)].bound = FALSE /\ zoos'[Discarded(n)].lock = FALSE
<1> DEFINE z == Discarded(n)
           r == [NewZoo(n, zoos[z].family, FALSE, disk) EXCEPT !.freed = TRUE]
<1>1. Up /\ SwapOK(n) /\ Types /\ (At(n, "free") \/ At(n, "refuse"))
  BY DEF Frees, ZoosInv, DownOK, SwapsOK, At
<1>2. z \in Zoo /\ zoos[z].node = n /\ z # handle[n]
  BY <1>1 DEF SwapOK, At, Discarded
<1>3. zoos' = [zoos EXCEPT ![z] = r]
  BY DEF Frees, Discarded
<1> HIDE DEF z
<1>4. r \in ZooRec /\ r.node = n /\ r.freed /\ r.bound = FALSE /\ r.lock = FALSE
  <2>1. zoos[z] \in ZooRec
    BY <1>1, <1>2, ZooTyped
  <2> QED BY <2>1 DEF NewZoo, ZooRec
<1> HIDE DEF r
<1>5. zoos' \in Seq(ZooRec) /\ Len(zoos') = Len(zoos)
      /\ \A y \in Zoo : zoos'[y] = IF y = z THEN r ELSE zoos[y]
  BY <1>1, <1>2, <1>3, <1>4, ZooReplaced
<1>6. Zoo' = Zoo
  BY <1>5 DEF Zoo
<1> QED BY <1>1, <1>2, <1>4, <1>5, <1>6 DEF z

LEMMA FreesInv == ASSUME ZoosInv, NEW n \in ZooNode, Frees(n) PROVE ZoosInv'
<1> DEFINE z == Discarded(n)
<1>1. /\ Up /\ z \in Zoo /\ zoos[z].node = n /\ z # handle[n]
      /\ zoos' \in Seq(ZooRec) /\ Len(zoos') = Len(zoos) /\ Zoo' = Zoo
      /\ \A y \in Zoo : y # z => zoos'[y] = zoos[y]
      /\ zoos'[z].node = n /\ zoos'[z].freed /\ zoos'[z].bound = FALSE /\ zoos'[z].lock = FALSE
  BY FreesIs
<1>2. UNCHANGED <<handle, disk, foreign, sale, rewards, kept>> /\ Types
      /\ swap' = [swap EXCEPT ![n] = NoSwap]
  BY DEF Frees, ZoosInv
<1>3. /\ swap' \in [ZooNode -> Swaps] /\ \A m \in ZooNode \ {n} : swap'[m] = swap[m]
      /\ swap'[n].at = "none"
  BY <1>2, NoneTyped
<1> HIDE DEF z
<1>4. Types'
  BY <1>1, <1>2, <1>3 DEF Types
<1>5. Up'
  BY <1>1, <1>2, UpLong DEF Up, Types
<1>6. \A m \in ZooNode : handle[m] \in Zoo /\ zoos'[handle[m]].node = m
  BY <1>1 DEF ZoosInv, ServingOK
<1>7. DownOK' /\ ServingOK'
  BY <1>1, <1>2, <1>5, <1>6 DEF DownOK, ServingOK, ZoosInv
<1>8. LocksOK' /\ WritersOK'
  <2>1. LocksOK /\ WritersOK
    BY DEF ZoosInv
  <2>2. LocksOK'
    BY <1>1, <1>2, <2>1 DEF LocksOK
  <2>3. \A y \in Zoo : zoos'[y].bound => zoos'[y] = zoos[y]
    BY <1>1
  <2>4. WritersOK'
    BY <1>1, <2>1, <2>3 DEF WritersOK
  <2> QED BY <2>2, <2>4
<1>9. ASSUME NEW m \in ZooNode PROVE SwapOK(m)'
  <2>1. CASE m = n
    BY <1>3, <2>1 DEF SwapOK
  <2>2. CASE m # n
    <3>1. swap'[m] = swap[m] /\ SwapOK(m) /\ handle'[m] = handle[m]
      BY <1>2, <1>3, <2>2 DEF ZoosInv, SwapsOK
    <3> QED BY <1>1, <2>2, <3>1 DEF SwapOK
  <2> QED BY <2>1, <2>2
<1> QED BY <1>4, <1>7, <1>8, <1>9 DEF ZoosInv, SwapsOK

LEMMA NewZooIs ==
  ASSUME NEW n, NEW d, NEW bound \in BOOLEAN, NEW store
  PROVE  LET r == NewZoo(n, d, bound, store)
         IN /\ r.node = n /\ r.family = d /\ r.lock = bound /\ r.bound = bound
            /\ ~r.freed /\ r.learned = IF bound THEN store[d] ELSE {}
            /\ n \in ZooNode /\ d \in Dir /\ store[d] \in SUBSET Nat => r \in ZooRec
BY DEF NewZoo, ZooRec

FreeAtBoot(dirs, n) == dirs[n] \notin foreign /\ \A m \in 1 .. n - 1 : dirs[m] # dirs[n]

(* A boot.                                                                  *)
LEMMA BootIs ==
  ASSUME NEW dirs \in [ZooNode -> Dir], NEW store \in [Dir -> SUBSET Nat], Boot(dirs, store),
         foreign \subseteq Dir
  PROVE  /\ zoos' \in Seq(ZooRec) /\ Zoo' = ZooNode /\ zoos' # <<>>
         /\ handle' \in [ZooNode -> Nat] /\ \A n \in ZooNode : handle'[n] = n
         /\ disk' = store /\ sale' = NoSale
         /\ swap' \in [ZooNode -> Swaps] /\ \A n \in ZooNode : swap'[n].at = "none"
         /\ \A n \in ZooNode :
              /\ zoos'[n].node = n /\ ~zoos'[n].freed /\ zoos'[n].lock = zoos'[n].bound
              /\ zoos'[n].family \in Dir
              /\ zoos'[n].bound => /\ zoos'[n].learned = store[zoos'[n].family]
                                   /\ zoos'[n].family \notin foreign
                                   /\ \A m \in 1 .. n - 1 : zoos'[m].family # zoos'[n].family
<1>1. ZooNode = 1 .. ZooNodes /\ ZooNodes \in Nat /\ ZooNodes # 0
  BY SwapAssumption DEF ZooNode
<1>2. zoos' = [n \in ZooNode |-> NewZoo(n, dirs[n], FreeAtBoot(dirs, n), store)]
  BY DEF Boot, FreeAtBoot
<1>3. \A n \in ZooNode : zoos'[n] = NewZoo(n, dirs[n], FreeAtBoot(dirs, n), store)
  BY <1>2
<1>4. \A n \in ZooNode : zoos'[n] \in ZooRec
  <2>1. ASSUME NEW n \in ZooNode PROVE zoos'[n] \in ZooRec
    <3>1. dirs[n] \in Dir /\ store[dirs[n]] \in SUBSET Nat /\ FreeAtBoot(dirs, n) \in BOOLEAN
      BY DEF FreeAtBoot
    <3> QED BY <1>3, <3>1, NewZooIs
  <2> QED BY <2>1
<1>5. zoos' \in Seq(ZooRec) /\ Len(zoos') = ZooNodes
  <2>1. zoos' \in [1 .. ZooNodes -> ZooRec]
    BY <1>1, <1>2, <1>4
  <2> QED BY <1>1, <2>1
<1>6. Zoo' = ZooNode /\ zoos' # <<>>
  BY <1>1, <1>5 DEF Zoo
<1>7. /\ handle' \in [ZooNode -> Nat] /\ \A n \in ZooNode : handle'[n] = n
      /\ disk' = store /\ sale' = NoSale
      /\ swap' \in [ZooNode -> Swaps] /\ \A n \in ZooNode : swap'[n].at = "none"
  BY <1>1 DEF Boot, Swaps, NoSwap
<1>9. ASSUME NEW n \in ZooNode
      PROVE  /\ zoos'[n].node = n /\ ~zoos'[n].freed /\ zoos'[n].family = dirs[n]
             /\ zoos'[n].lock = FreeAtBoot(dirs, n) /\ zoos'[n].bound = FreeAtBoot(dirs, n)
             /\ zoos'[n].learned = IF FreeAtBoot(dirs, n) THEN store[dirs[n]] ELSE {}
  <2>1. zoos'[n] = NewZoo(n, dirs[n], FreeAtBoot(dirs, n), store) /\ FreeAtBoot(dirs, n) \in BOOLEAN
    BY <1>3 DEF FreeAtBoot
  <2> QED BY <2>1, NewZooIs
<1>8. ASSUME NEW n \in ZooNode
      PROVE  /\ zoos'[n].node = n /\ ~zoos'[n].freed /\ zoos'[n].lock = zoos'[n].bound
             /\ zoos'[n].family \in Dir
             /\ zoos'[n].bound => /\ zoos'[n].learned = store[zoos'[n].family]
                                  /\ zoos'[n].family \notin foreign
                                  /\ \A m \in 1 .. n - 1 : zoos'[m].family # zoos'[n].family
  <2>1. \A m \in 1 .. n - 1 : m \in ZooNode
    BY <1>1
  <2>3. dirs[n] \in Dir
    OBVIOUS
  <2>2. /\ zoos'[n].node = n /\ ~zoos'[n].freed /\ zoos'[n].family = dirs[n]
        /\ zoos'[n].lock = FreeAtBoot(dirs, n) /\ zoos'[n].bound = FreeAtBoot(dirs, n)
        /\ FreeAtBoot(dirs, n) => zoos'[n].learned = store[dirs[n]]
    BY <1>9
  <2>4. FreeAtBoot(dirs, n) =>
          dirs[n] \notin foreign /\ \A m \in 1 .. n - 1 : zoos'[m].family # dirs[n]
    BY <1>9, <2>1 DEF FreeAtBoot
  <2> QED BY <2>2, <2>3, <2>4
<1> QED BY <1>5, <1>6, <1>7, <1>8

LEMMA BootInv ==
  ASSUME ZoosInv, NEW dirs \in [ZooNode -> Dir], NEW store \in [Dir -> SUBSET Nat],
         Boot(dirs, store), UNCHANGED <<foreign, rewards>>, kept' \subseteq kept
  PROVE  ZoosInv'
<1>1. foreign \subseteq Dir /\ rewards \in Nat /\ kept' \subseteq [family : Dir, id : Nat]
  BY DEF ZoosInv, Types
<1>2. /\ zoos' \in Seq(ZooRec) /\ Zoo' = ZooNode /\ zoos' # <<>>
      /\ handle' \in [ZooNode -> Nat] /\ \A n \in ZooNode : handle'[n] = n
      /\ disk' = store /\ sale' = NoSale
      /\ swap' \in [ZooNode -> Swaps] /\ \A n \in ZooNode : swap'[n].at = "none"
      /\ \A n \in ZooNode :
           /\ zoos'[n].node = n /\ ~zoos'[n].freed /\ zoos'[n].lock = zoos'[n].bound
           /\ zoos'[n].bound => /\ zoos'[n].family \notin foreign
                                /\ \A m \in 1 .. n - 1 : zoos'[m].family # zoos'[n].family
  BY <1>1, BootIs
<1>3. Types'
  BY <1>1, <1>2 DEF Types, Sales
<1>4. DownOK' /\ ServingOK' /\ LocksOK'
  BY <1>2 DEF DownOK, Up, ServingOK, LocksOK, NoSale
<1>5. WritersOK'
  <2>1. ASSUME NEW y \in ZooNode, NEW z \in ZooNode, zoos'[y].bound, zoos'[z].bound,
               zoos'[y].family = zoos'[z].family
        PROVE  y = z
    <3>1. y \in Int /\ z \in Int /\ y >= 1 /\ z >= 1
      BY SwapAssumption DEF ZooNode
    <3>2. ~(y < z)
      BY <1>2, <2>1, <3>1
    <3>3. ~(z < y)
      BY <1>2, <2>1, <3>1
    <3> QED BY <3>1, <3>2, <3>3
  <2> QED BY <1>2, <2>1 DEF WritersOK
<1>6. SwapsOK'
  BY <1>2 DEF SwapsOK, SwapOK
<1> QED BY <1>3, <1>4, <1>5, <1>6 DEF ZoosInv

-----------------------------------------------------------------------------
(* What may not be lost.                                                    *)

(* Where a reward that may not be lost is: in the zoo that serves its       *)
(* directory, or on disk; on disk once its zoo is flushed for a swap, and   *)
(* in the successor that serves the same directory.                         *)
Keeps(z, k) == zoos[z].bound /\ zoos[z].family = k.family
Safe(k) ==
  /\ \A n \in ZooNode : Up /\ Keeps(handle[n], k) => k.id \in zoos[handle[n]].learned
  /\ \A n \in ZooNode : swap[n].at \in {"validate", "refuse"} /\ Keeps(swap[n].new, k)
                          => k.id \in zoos[swap[n].new].learned
  /\ \A n \in ZooNode : swap[n].at \in {"load", "validate", "refuse"} /\ Keeps(handle[n], k)
                          => k.id \in disk[k.family]
  /\ k.id \in disk[k.family] \/ \E n \in ZooNode : Up /\ Keeps(handle[n], k)
MemoryOK == \A k \in kept : Safe(k)

Same(z) ==
  /\ zoos'[z].bound = zoos[z].bound /\ zoos'[z].family = zoos[z].family
  /\ zoos[z].learned \subseteq zoos'[z].learned

LEMMA SafeKept ==
  ASSUME NEW k, Safe(k), Up, Up', handle' = handle, \A n \in ZooNode : Same(handle[n]),
         k.id \in disk[k.family] => k.id \in disk'[k.family],
         \A n \in ZooNode : swap'[n].at \in {"validate", "refuse"} =>
           \/ /\ swap[n].at \in {"validate", "refuse"} /\ swap'[n].new = swap[n].new
              /\ Same(swap[n].new)
           \/ Keeps(swap[n].new, k)' => k.id \in zoos'[swap'[n].new].learned,
         \A n \in ZooNode : swap'[n].at \in {"load", "validate", "refuse"} =>
           \/ swap[n].at \in {"load", "validate", "refuse"}
           \/ Keeps(handle[n], k) => k.id \in disk'[k.family]
  PROVE  Safe(k)'
<1>1. \A n \in ZooNode : Keeps(handle[n], k)' <=> Keeps(handle[n], k)
  BY DEF Keeps, Same
<1>2. \A n \in ZooNode : Keeps(handle[n], k)' => k.id \in zoos'[handle[n]].learned
  BY <1>1 DEF Safe, Same
<1>3. \A n \in ZooNode : swap'[n].at \in {"validate", "refuse"} /\ Keeps(swap[n].new, k)'
                          => k.id \in zoos'[swap'[n].new].learned
  <2>1. ASSUME NEW n \in ZooNode, swap'[n].at \in {"validate", "refuse"}, Keeps(swap[n].new, k)',
               swap[n].at \in {"validate", "refuse"}, swap'[n].new = swap[n].new, Same(swap[n].new)
        PROVE  k.id \in zoos'[swap'[n].new].learned
    <3>1. Keeps(swap[n].new, k)
      BY <2>1 DEF Keeps, Same
    <3>2. k.id \in zoos[swap[n].new].learned
      BY <2>1, <3>1 DEF Safe
    <3> QED BY <2>1, <3>2 DEF Same
  <2> QED BY <2>1
<1>4. \A n \in ZooNode : swap'[n].at \in {"load", "validate", "refuse"} /\ Keeps(handle[n], k)'
                          => k.id \in disk'[k.family]
  <2>1. ASSUME NEW n \in ZooNode, swap'[n].at \in {"load", "validate", "refuse"},
               Keeps(handle[n], k)
        PROVE  k.id \in disk'[k.family]
    <3>1. CASE swap[n].at \in {"load", "validate", "refuse"}
      <4>1. k.id \in disk[k.family]
        BY <2>1, <3>1 DEF Safe
      <4> QED BY <4>1
    <3> QED BY <2>1, <3>1
  <2> QED BY <1>1, <2>1
<1>5. k.id \in disk'[k.family] \/ \E n \in ZooNode : Keeps(handle[n], k)'
  BY <1>1 DEF Safe
<1> QED BY <1>2, <1>3, <1>4, <1>5 DEF Safe

(* Two nodes do not keep the same directory.                                *)
LEMMA OneKeeper ==
  ASSUME ZoosInv, NEW y \in Zoo, NEW z \in Zoo, NEW k, Keeps(y, k), Keeps(z, k)
  PROVE  zoos[y].node = zoos[z].node
BY DEF ZoosInv, WritersOK, Keeps

(* A zoo that serves is saved.                                              *)
Saving(m) ==
  \/ disk' = disk
  \/ /\ zoos[handle[m]].bound
     /\ disk' = [disk EXCEPT ![zoos[handle[m]].family] = zoos'[handle[m]].learned]

LEMMA SavingKeeps ==
  ASSUME ZoosInv, Up, NEW m \in ZooNode, Saving(m), Same(handle[m])
  PROVE  /\ \A k : Safe(k) => /\ k.id \in disk[k.family] => k.id \in disk'[k.family]
                              /\ Keeps(handle[m], k) =>
                                   disk' = disk \/ k.id \in disk'[k.family]
         /\ \A n \in ZooNode \ {m} : zoos[handle[n]].bound =>
              disk'[zoos[handle[n]].family] = disk[zoos[handle[n]].family]
<1>1. /\ Types /\ handle[m] \in Zoo /\ zoos[handle[m]].node = m /\ zoos[handle[m]] \in ZooRec
      /\ disk \in [Dir -> SUBSET Nat]
  BY Serves
<1>2. zoos[handle[m]].family \in Dir
  BY <1>1 DEF ZooRec
<1>3. CASE disk' = disk
  BY <1>3
<1>4. CASE /\ zoos[handle[m]].bound
           /\ disk' = [disk EXCEPT ![zoos[handle[m]].family] = zoos'[handle[m]].learned]
  <2>1. ASSUME NEW k, Safe(k)
        PROVE  /\ k.id \in disk[k.family] => k.id \in disk'[k.family]
               /\ Keeps(handle[m], k) => k.id \in disk'[k.family]
    <3>1. CASE Keeps(handle[m], k)
      <4>1. k.id \in zoos'[handle[m]].learned
        BY <2>1, <3>1 DEF Safe, Same
      <4> QED BY <1>1, <1>2, <1>4, <3>1, <4>1 DEF Keeps
    <3>2. CASE ~Keeps(handle[m], k)
      BY <1>1, <1>4, <3>2 DEF Keeps
    <3> QED BY <3>1, <3>2
  <2>2. ASSUME NEW n \in ZooNode \ {m}, zoos[handle[n]].bound
        PROVE  disk'[zoos[handle[n]].family] = disk[zoos[handle[n]].family]
    <3>1. handle[n] \in Zoo /\ zoos[handle[n]].node = n
      BY Serves
    <3>2. zoos[handle[n]].family # zoos[handle[m]].family
      BY <1>1, <1>4, <2>2, <3>1 DEF ZoosInv, WritersOK
    <3> QED BY <1>1, <1>4, <3>2
  <2> QED BY <2>1, <2>2
<1> QED BY <1>3, <1>4 DEF Saving

LEMMA TaughtSame == ASSUME Taught, NEW z \in Zoo PROVE Same(z)
BY DEF Taught, Same

LEMMA TokensAre ==
  ASSUME ZoosInv, Up, NEW n \in ZooNode
  PROVE  /\ handle[n] \in Zoo /\ zoos[handle[n]].node = n
         /\ swap[n].at \in {"validate", "refuse"} =>
              /\ swap[n].new \in Zoo /\ zoos[swap[n].new].node = n /\ swap[n].new # handle[n]
              /\ zoos[swap[n].new].family = swap[n].dir
         /\ swap[n].at \in {"flush", "load", "validate", "refuse"} => swap[n].old = handle[n]
BY DEF ZoosInv, ServingOK, SwapsOK, SwapOK

(* What was known stays safe through a step that teaches, saves the zoo of  *)
(* m at most, and begins no part of a swap but the end of m's flush.        *)
LEMMA TaughtMemory ==
  ASSUME ZoosInv, Up, Taught, handle' = handle, NEW m \in ZooNode, Saving(m),
         \A n \in ZooNode : swap'[n].at \in {"validate", "refuse"} =>
           swap[n].at \in {"validate", "refuse"} /\ swap'[n].new = swap[n].new,
         \A n \in ZooNode : swap'[n].at = "load" =>
           swap[n].at = "load" \/ (n = m /\ disk' = SavedState(disk, handle[m])),
         NEW k, Safe(k)
  PROVE  Safe(k)'
<1>1. Up'
  BY TaughtKeeps
<1>2. \A n \in ZooNode : Same(handle[n]) /\ handle[n] \in Zoo
  BY TokensAre, TaughtSame
<1>3. \A n \in ZooNode : swap'[n].at \in {"validate", "refuse"} =>
        swap[n].at \in {"validate", "refuse"} /\ swap'[n].new = swap[n].new /\ Same(swap[n].new)
  BY TokensAre, TaughtSame
<1>4. k.id \in disk[k.family] => k.id \in disk'[k.family]
  BY <1>2, SavingKeeps
<1>5. ASSUME NEW n \in ZooNode, swap'[n].at = "load", swap[n].at # "load", Keeps(handle[n], k)
      PROVE  k.id \in disk'[k.family]
  <2>1. n = m /\ disk' = SavedState(disk, handle[m])
    BY <1>5
  <2>2. zoos[handle[m]].bound /\ ~zoos[handle[m]].freed
    BY <1>2, <1>5, <2>1 DEF Keeps, ZoosInv, LocksOK
  <2>3. disk' = [disk EXCEPT ![zoos[handle[m]].family] = zoos[handle[m]].learned]
    BY <2>1, <2>2 DEF SavedState, Bound
  <2>4. k.id \in zoos[handle[m]].learned /\ k.family = zoos[handle[m]].family
    BY <1>5, <2>1 DEF Safe, Keeps
  <2>5. disk \in [Dir -> SUBSET Nat] /\ zoos[handle[m]].family \in Dir
    <3>1. zoos[handle[m]] \in ZooRec /\ disk \in [Dir -> SUBSET Nat]
      BY Serves
    <3> QED BY <3>1 DEF ZooRec
  <2> QED BY <2>3, <2>4, <2>5
<1>6. \A n \in ZooNode : swap'[n].at \in {"load", "validate", "refuse"} =>
        \/ swap[n].at \in {"load", "validate", "refuse"}
        \/ Keeps(handle[n], k) => k.id \in disk'[k.family]
  BY <1>5
<1> QED BY <1>1, <1>2, <1>3, <1>4, <1>6, SafeKept

-----------------------------------------------------------------------------
(* What a swap carries over; the steps that teach or save.                  *)

(* What a swap is to carry over: in the outgoing zoo, then on disk, then in *)
(* the successor.                                                           *)
CarryOK(n) ==
  /\ At(n, "flush") => swap[n].had \subseteq zoos[handle[n]].learned
  /\ At(n, "load") /\ zoos[handle[n]].bound
       => swap[n].had \subseteq disk[zoos[handle[n]].family]
  /\ At(n, "validate") /\ zoos[handle[n]].bound /\ zoos[swap[n].new].bound
       /\ zoos[handle[n]].family = swap[n].dir
       => swap[n].had \subseteq zoos[swap[n].new].learned
CarriesOK == \A n \in ZooNode : CarryOK(n)

LEMMA TaughtCarry ==
  ASSUME ZoosInv, Up, Taught, handle' = handle, NEW m \in ZooNode, Saving(m),
         NEW n \in ZooNode, CarryOK(n), swap'[n] = swap[n],
         n # m \/ disk' = disk \/ swap[n].at \in {"none", "flush"}
  PROVE  CarryOK(n)'
<1>1. handle[n] \in Zoo /\ Same(handle[n]) /\ Same(handle[m])
  BY TokensAre, TaughtSame
<1>2. At(n, "flush")' => swap'[n].had \subseteq zoos'[handle'[n]].learned
  BY <1>1 DEF CarryOK, At, Same
<1>3. At(n, "load")' /\ zoos'[handle'[n]].bound
        => swap'[n].had \subseteq disk'[zoos'[handle'[n]].family]
  <2>1. SUFFICES ASSUME At(n, "load"), zoos[handle[n]].bound
                 PROVE  disk'[zoos[handle[n]].family] = disk[zoos[handle[n]].family]
    BY <1>1 DEF CarryOK, At, Same
  <2> QED BY <1>1, <2>1, SavingKeeps DEF At
<1>4. At(n, "validate")' /\ zoos'[handle'[n]].bound /\ zoos'[swap'[n].new].bound
        /\ zoos'[handle'[n]].family = swap'[n].dir
        => swap'[n].had \subseteq zoos'[swap'[n].new].learned
  <2>1. At(n, "validate") => swap[n].new \in Zoo
    BY TokensAre DEF At
  <2> QED BY <1>1, <2>1, TaughtSame DEF CarryOK, At, Same
<1> QED BY <1>2, <1>3, <1>4 DEF CarryOK

LEMMA CreditMemory ==
  ASSUME ZoosInv, MemoryOK, Up, NEW z \in Zoo, NEW pending \in BOOLEAN, Credited(z, pending),
         handle' = handle, swap' = swap, NEW m \in ZooNode, Saving(m)
  PROVE  MemoryOK'
<1>1. Types /\ Taught /\ zoos'[z].learned = zoos[z].learned \cup {rewards'}
  BY CreditTeaches DEF ZoosInv
<1>2. Up' /\ \A y \in Zoo : Same(y)
  BY <1>1, TaughtKeeps, TaughtSame
<1>3. ASSUME NEW k, Safe(k) PROVE Safe(k)'
  <2>1. /\ \A n \in ZooNode : swap'[n].at \in {"validate", "refuse"} =>
             swap[n].at \in {"validate", "refuse"} /\ swap'[n].new = swap[n].new
        /\ \A n \in ZooNode : swap'[n].at = "load" =>
             swap[n].at = "load" \/ (n = m /\ disk' = SavedState(disk, handle[m]))
    <3>1. \A n \in ZooNode : swap'[n] = swap[n]
      OBVIOUS
    <3> QED BY ONLY <3>1
  <2> HIDE DEF Safe
  <2>2. /\ ZoosInv /\ Up /\ Taught /\ handle' = handle /\ Saving(m)
    BY <1>1
  <2> QED BY ONLY <1>3, <2>1, <2>2, m \in ZooNode, TaughtMemory
<1>4. ASSUME NEW n \in ZooNode, NEW k, n = zoos[z].node, k.family = zoos[z].family,
             k.id = rewards', Bound(z), handle[n] = z, swap[n].at \in {"none", "flush"}
      PROVE  Safe(k)'
  <2>1. Keeps(z, k)
    BY <1>4 DEF Keeps, Bound
  <2>2. \A y \in Zoo : Keeps(y, k)' <=> Keeps(y, k)
    BY <1>2 DEF Keeps, Same
  <2>3. \A y \in Zoo : Keeps(y, k)' => zoos[y].node = n
    BY <1>4, <2>1, <2>2, OneKeeper
  <2>4. ASSUME NEW i \in ZooNode
        PROVE  /\ handle[i] \in Zoo /\ zoos[handle[i]].node = i
               /\ swap[i].at \in {"validate", "refuse"} =>
                    swap[i].new \in Zoo /\ zoos[swap[i].new].node = i
    BY TokensAre
  <2>5. \A i \in ZooNode : Keeps(handle[i], k)' => i = n
    BY <2>3, <2>4
  <2>6. \A i \in ZooNode : Keeps(handle[i], k)' => k.id \in zoos'[handle[i]].learned
    BY <1>1, <1>4, <2>5
  <2>7. \A i \in ZooNode : swap[i].at \in {"validate", "refuse"} => ~Keeps(swap[i].new, k)'
    <3>1. ASSUME NEW i \in ZooNode, swap[i].at \in {"validate", "refuse"}, Keeps(swap[i].new, k)'
          PROVE  FALSE
      <4>1. i = n
        BY <2>3, <2>4, <3>1
      <4> QED BY <1>4, <3>1, <4>1
    <3> QED BY <3>1
  <2>8. \A i \in ZooNode : swap[i].at \in {"load", "validate", "refuse"} => ~Keeps(handle[i], k)'
    BY <1>4, <2>5
  <2>9. Keeps(handle[n], k)'
    BY <1>4, <2>1, <2>2
  <2> QED BY <1>2, <2>6, <2>7, <2>8, <2>9 DEF Safe
<1>5. ASSUME NEW x \in kept' PROVE Safe(x)'
  <2>1. CASE x \in kept
    BY <1>3, <2>1 DEF MemoryOK
  <2>2. CASE x \notin kept
    <3>1. /\ Bound(z) /\ handle[zoos[z].node] = z /\ swap[zoos[z].node].at \in {"none", "flush"}
          /\ x = [family |-> zoos[z].family, id |-> rewards']
      BY <2>2 DEF Credited
    <3>2. zoos[z].node \in ZooNode
      <4>1. zoos[z] \in ZooRec
        BY <1>1, ZooTyped
      <4> QED BY <4>1 DEF ZooRec
    <3>3. x.family = zoos[z].family /\ x.id = rewards'
      BY <3>1
    <3> QED BY <1>4, <3>1, <3>2, <3>3
  <2> QED BY <2>1, <2>2
<1> QED BY <1>5 DEF MemoryOK

LEMMA LooksBackMemory ==
  ASSUME ZoosInv, MemoryOK, CarriesOK, NEW m \in ZooNode, LooksBack(m)
  PROVE  MemoryOK' /\ CarriesOK'
<1> DEFINE z == handle[m]
<1>1. Up /\ swap[m].at = "none" /\ UNCHANGED <<handle, foreign, swap, sale>>
  BY DEF LooksBack, At
<1>2. Types /\ z \in Zoo /\ zoos[z] \in ZooRec
  BY <1>1, Serves
<1>3. PICK crossed \in BOOLEAN :
        /\ Credited(z, zoos[z].pending /\ ~crossed)
        /\ disk' = IF crossed /\ Bound(z)
                     THEN [disk EXCEPT ![zoos[z].family] = zoos'[z].learned] ELSE disk
  BY DEF LooksBack
<1>4. Saving(m)
  BY <1>3 DEF Saving, Bound
<1> HIDE DEF z
<1>5. (zoos[z].pending /\ ~crossed) \in BOOLEAN
  BY <1>2 DEF ZooRec
<1>6. MemoryOK'
  BY <1>1, <1>2, <1>3, <1>4, <1>5, CreditMemory
<1>7. Taught
  BY <1>2, <1>3, <1>5, CreditTeaches
<1> QED BY <1>1, <1>4, <1>6, <1>7, TaughtCarry DEF CarriesOK

LEMMA SavedSaving ==
  ASSUME ZoosInv, Up, NEW m \in ZooNode, disk' = SavedState(disk, handle[m]), Same(handle[m]),
         zoos'[handle[m]].learned = zoos[handle[m]].learned
  PROVE  Saving(m)
BY DEF SavedState, Saving, Bound

LEMMA FlushPendingMemory ==
  ASSUME ZoosInv, MemoryOK, CarriesOK, NEW m \in ZooNode, FlushPending(m)
  PROVE  MemoryOK' /\ CarriesOK'
<1>1. Up /\ swap[m].at = "none" /\ UNCHANGED <<handle, foreign, swap, sale, rewards, kept>>
      /\ disk' = SavedState(disk, handle[m]) /\ Unmarked(handle[m])
  BY DEF FlushPending, At, Unmarked
<1>2. Types /\ handle[m] \in Zoo /\ zoos[handle[m]] \in ZooRec
  BY <1>1, Serves
<1>3. Taught /\ Same(handle[m])
  BY <1>1, <1>2, UnmarkedTeaches, TaughtSame
<1>4. zoos'[handle[m]].learned = zoos[handle[m]].learned
  BY <1>1, <1>2 DEF Unmarked, ZooRec, Types, Zoo
<1>5. Saving(m)
  BY <1>1, <1>3, <1>4, SavedSaving
<1>6. MemoryOK'
  BY <1>1, <1>3, <1>5, TaughtMemory DEF MemoryOK
<1> QED BY <1>1, <1>3, <1>5, <1>6, TaughtCarry DEF CarriesOK

(* Steps that leave zoos, pointers, files and swaps as they are.            *)
LEMMA IdleMemory ==
  ASSUME ZoosInv, MemoryOK, CarriesOK, UNCHANGED <<zoos, handle, disk, swap, kept>>
  PROVE  MemoryOK' /\ CarriesOK'
<1>1. Up' <=> Up
  BY DEF Up
<1>2. MemoryOK'
  BY <1>1 DEF MemoryOK, Safe, Keeps
<1> QED BY <1>2 DEF CarriesOK, CarryOK, At

LEMMA RewardsMemory ==
  ASSUME ZoosInv, MemoryOK, CarriesOK, Rewards
  PROVE  MemoryOK' /\ CarriesOK'
<1>1. Types /\ sale.zoo \in Zoo /\ Up /\ UNCHANGED <<handle, disk, foreign, swap>>
  BY DEF ZoosInv, DownOK, ServingOK, Rewards, NoSale
<1>2. CASE UNCHANGED <<zoos, rewards, kept>>
  BY <1>1, <1>2, IdleMemory
<1>3. ASSUME NEW crossed \in BOOLEAN,
             Credited(sale.zoo, zoos[sale.zoo].pending \/ (crossed /\ Bound(sale.zoo)))
      PROVE  MemoryOK' /\ CarriesOK'
  <2>1. (zoos[sale.zoo].pending \/ (crossed /\ Bound(sale.zoo))) \in BOOLEAN
    <3>1. zoos[sale.zoo] \in ZooRec
      BY <1>1, ZooTyped
    <3> QED BY <3>1 DEF ZooRec, Bound
  <2>2. \A m \in ZooNode : Saving(m)
    BY <1>1 DEF Saving
  <2>3. 1 \in ZooNode
    BY SwapAssumption DEF ZooNode
  <2>4. MemoryOK'
    BY <1>1, <1>3, <2>1, <2>2, <2>3, CreditMemory
  <2>5. Taught
    BY <1>1, <1>3, <2>1, CreditTeaches
  <2> QED BY <1>1, <2>2, <2>4, <2>5, TaughtCarry DEF CarriesOK
<1> QED BY <1>2, <1>3 DEF Rewards

-----------------------------------------------------------------------------
(* The steps of a swap, and what may not be lost.                           *)

(* The steps of a swap that touch neither zoos nor files nor the pointer.   *)
LEMMA QuietMemory ==
  ASSUME ZoosInv, MemoryOK, CarriesOK, Up, UNCHANGED <<zoos, handle, disk, kept>>,
         NEW n \in ZooNode, \A m \in ZooNode \ {n} : swap'[m] = swap[m],
         swap'[n].at \in {"validate", "refuse"} =>
           swap[n].at \in {"validate", "refuse"} /\ swap'[n].new = swap[n].new,
         swap'[n].at # "load", CarryOK(n)'
  PROVE  MemoryOK' /\ CarriesOK'
<1>1. Types /\ Taught /\ Saving(n)
  BY SameTaught DEF ZoosInv, Saving
<1>2. \A m \in ZooNode : swap'[m].at \in {"validate", "refuse"} =>
        swap[m].at \in {"validate", "refuse"} /\ swap'[m].new = swap[m].new
  <2>1. ASSUME NEW m \in ZooNode, swap'[m].at \in {"validate", "refuse"}
        PROVE  swap[m].at \in {"validate", "refuse"} /\ swap'[m].new = swap[m].new
    BY <2>1
  <2> QED BY <2>1
<1>3. \A m \in ZooNode : swap'[m].at = "load" =>
        swap[m].at = "load" \/ (m = n /\ disk' = SavedState(disk, handle[n]))
  <2>1. ASSUME NEW m \in ZooNode, swap'[m].at = "load" PROVE swap[m].at = "load"
    BY <2>1
  <2> QED BY <2>1
<1>4. MemoryOK'
  BY <1>1, <1>2, <1>3, TaughtMemory DEF MemoryOK
<1>5. ASSUME NEW m \in ZooNode, m # n PROVE CarryOK(m)'
  BY <1>1, <1>5, TaughtCarry DEF CarriesOK
<1> QED BY <1>4, <1>5 DEF CarriesOK

LEMMA PickUpMemory ==
  ASSUME ZoosInv, MemoryOK, CarriesOK, NEW n \in ZooNode, PickUp(n)
  PROVE  MemoryOK' /\ CarriesOK'
<1>1. Up /\ UNCHANGED <<zoos, handle, disk, kept>> /\ swap \in [ZooNode -> Swaps]
  BY Serves DEF PickUp
<1>2. PICK d \in Dir :
        swap' = [swap EXCEPT ![n] =
          [at |-> "flush", dir |-> d, old |-> handle[n], had |-> zoos[handle[n]].learned]]
  BY DEF PickUp
<1>3. /\ \A m \in ZooNode \ {n} : swap'[m] = swap[m]
      /\ swap'[n].at = "flush" /\ swap'[n].had = zoos[handle[n]].learned
  BY <1>1, <1>2
<1>4. CarryOK(n)'
  BY <1>1, <1>3 DEF CarryOK, At
<1> QED BY <1>1, <1>3, <1>4, QuietMemory

LEMMA LoadFailsMemory ==
  ASSUME ZoosInv, MemoryOK, CarriesOK, NEW n \in ZooNode, LoadFails(n)
  PROVE  MemoryOK' /\ CarriesOK'
<1>1. Up /\ UNCHANGED <<zoos, handle, disk, kept>> /\ Types
  BY DEF LoadFails, ZoosInv, DownOK, At
<1>2. swap'[n].at = "none" /\ \A m \in ZooNode \ {n} : swap'[m] = swap[m]
  BY <1>1, NoneTyped DEF LoadFails
<1>3. CarryOK(n)'
  BY <1>2 DEF CarryOK, At
<1> QED BY <1>1, <1>2, <1>3, QuietMemory

LEMMA RefusesMemory ==
  ASSUME ZoosInv, MemoryOK, CarriesOK, NEW n \in ZooNode, Refuses(n)
  PROVE  MemoryOK' /\ CarriesOK'
<1>1. Up /\ UNCHANGED <<zoos, handle, disk, kept>> /\ Types
      /\ At(n, "validate") /\ Goes(n, "refuse")
  BY DEF Refuses, ZoosInv, DownOK, At
<1>2. /\ swap'[n].at = "refuse" /\ swap'[n].new = swap[n].new
      /\ \A m \in ZooNode \ {n} : swap'[m] = swap[m]
  BY <1>1, GoesOn
<1>3. CarryOK(n)'
  BY <1>2 DEF CarryOK, At
<1>4. swap[n].at \in {"validate", "refuse"} /\ swap'[n].at # "load"
  BY <1>1, <1>2 DEF At
<1> QED BY <1>1, <1>2, <1>3, <1>4, QuietMemory

LEMMA FlushMemory ==
  ASSUME ZoosInv, MemoryOK, CarriesOK, NEW n \in ZooNode, FlushOutgoing(n)
  PROVE  MemoryOK' /\ CarriesOK'
<1>1. Up /\ Types /\ At(n, "flush") /\ Goes(n, "load") /\ swap[n].old = handle[n]
      /\ UNCHANGED <<zoos, handle, foreign, sale, rewards, kept>>
      /\ disk' = SavedState(disk, handle[n])
  BY DEF FlushOutgoing, ZoosInv, DownOK, SwapsOK, SwapOK, At
<1>2. /\ swap'[n].at = "load" /\ swap'[n].had = swap[n].had
      /\ \A m \in ZooNode \ {n} : swap'[m] = swap[m]
  BY <1>1, GoesOn
<1>3. Taught /\ Same(handle[n])
  BY <1>1, SameTaught, TokensAre, TaughtSame
<1>4. Saving(n)
  BY <1>1, <1>3, SavedSaving
<1>5. \A m \in ZooNode : swap'[m].at \in {"validate", "refuse"} =>
        swap[m].at \in {"validate", "refuse"} /\ swap'[m].new = swap[m].new
  <2>1. ASSUME NEW m \in ZooNode, swap'[m].at \in {"validate", "refuse"}
        PROVE  swap[m].at \in {"validate", "refuse"} /\ swap'[m].new = swap[m].new
    BY <1>2, <2>1
  <2> QED BY <2>1
<1>6. \A m \in ZooNode : swap'[m].at = "load" =>
        swap[m].at = "load" \/ (m = n /\ disk' = SavedState(disk, handle[n]))
  <2>1. ASSUME NEW m \in ZooNode, swap'[m].at = "load", m # n PROVE swap[m].at = "load"
    BY <1>2, <2>1
  <2> QED BY <1>1, <2>1
<1>7. MemoryOK'
  BY <1>1, <1>3, <1>4, <1>5, <1>6, TaughtMemory DEF MemoryOK
<1>8. ASSUME NEW m \in ZooNode, m # n PROVE CarryOK(m)'
  BY <1>1, <1>2, <1>3, <1>4, <1>8, TaughtCarry DEF CarriesOK
<1>9. CarryOK(n)'
  <2>1. swap[n].had \subseteq zoos[handle[n]].learned
    BY <1>1 DEF CarriesOK, CarryOK
  <2>2. zoos[handle[n]].bound => swap[n].had \subseteq disk'[zoos[handle[n]].family]
    <3>1. /\ handle[n] \in Zoo /\ zoos[handle[n]] \in ZooRec /\ disk \in [Dir -> SUBSET Nat]
      BY <1>1, Serves
    <3>2. zoos[handle[n]].family \in Dir
      BY <3>1 DEF ZooRec
    <3>3. zoos[handle[n]].bound => ~zoos[handle[n]].freed
      BY <3>1 DEF ZoosInv, LocksOK
    <3> QED BY <1>1, <2>1, <3>1, <3>2, <3>3 DEF SavedState, Bound
  <2> QED BY <1>1, <1>2, <2>2 DEF CarryOK, At
<1> QED BY <1>7, <1>8, <1>9 DEF CarriesOK

(* The new zoo has read all that may not be lost of its directory.          *)
LEMMA BindMemory ==
  ASSUME ZoosInv, MemoryOK, CarriesOK, NEW n \in ZooNode, Bind(n)
  PROVE  MemoryOK' /\ CarriesOK'
<1>1. Up /\ At(n, "load") /\ UNCHANGED <<handle, disk, foreign, sale, rewards, kept>>
      /\ swap[n].old = handle[n]
  BY DEF Bind, ZoosInv, DownOK, SwapsOK, SwapOK, At
<1>2. /\ Types /\ zoos \in Seq(ZooRec) /\ handle \in [ZooNode -> Nat]
      /\ disk \in [Dir -> SUBSET Nat] /\ swap \in [ZooNode -> Swaps]
  BY <1>1, Serves DEF ZoosInv, Types
<1>3. PICK outcome \in BindOutcomes(n) :
        /\ zoos' = Append(zoos, NewZoo(n, swap[n].dir, outcome = "bound", disk))
        /\ swap' = [swap EXCEPT ![n] =
             [at |-> IF outcome = "contended" THEN "refuse" ELSE "validate", dir |-> @.dir,
              old |-> @.old, had |-> @.had, new |-> Len(zoos) + 1]]
  BY DEF Bind
<1> DEFINE r == NewZoo(n, swap[n].dir, outcome = "bound", disk)
<1>4. /\ r.family = swap[n].dir /\ (r.bound => outcome = "bound")
      /\ r.bound => r.learned = disk[swap[n].dir]
  <2>1. CASE outcome = "bound"
    <3>1. r = NewZoo(n, swap[n].dir, TRUE, disk)
      BY <2>1
    <3> QED BY <2>1, <3>1 DEF NewZoo
  <2>2. CASE outcome # "bound"
    <3>1. r = NewZoo(n, swap[n].dir, FALSE, disk)
      BY <2>2
    <3> QED BY <3>1 DEF NewZoo
  <2> QED BY <2>1, <2>2
<1>5. outcome = "bound" => Heir(n) \/ LockFree(swap[n].dir)
  BY DEF BindOutcomes
<1> HIDE DEF r
<1>6. zoos'[Len(zoos) + 1] = r /\ Len(zoos) + 1 \notin Zoo /\ Up'
      /\ \A z \in Zoo : zoos'[z] = zoos[z]
  <2>1. zoos' = Append(zoos, r)
    BY <1>3 DEF r
  <2> QED BY <1>2, <2>1 DEF Zoo, Up
<1>7. /\ \A m \in ZooNode \ {n} : swap'[m] = swap[m]
      /\ swap'[n].new = Len(zoos) + 1 /\ swap'[n].had = swap[n].had
      /\ swap'[n].dir = swap[n].dir /\ swap'[n].at \in {"validate", "refuse"}
  BY <1>2, <1>3
<1>8. \A z \in Zoo : Same(z)
  BY <1>6 DEF Same
<1>9. ASSUME NEW k, Safe(k) PROVE Safe(k)'
  <2>1. ASSUME Keeps(swap[n].new, k)' PROVE k.id \in zoos'[swap'[n].new].learned
    <3>1. k.family = swap[n].dir /\ outcome = "bound" /\ zoos'[swap'[n].new].learned = disk[k.family]
      BY <1>4, <1>6, <1>7, <2>1 DEF Keeps
    <3>2. CASE Heir(n)
      <4>1. handle[n] \in Zoo
        BY <1>1, TokensAre
      <4>2. Keeps(handle[n], k)
        BY <1>1, <3>1, <3>2, <4>1 DEF Heir, Keeps, ZoosInv, LocksOK
      <4>3. k.id \in disk[k.family]
        BY <1>1, <1>9, <4>2 DEF Safe, At
      <4> QED BY <3>1, <4>3
    <3>3. CASE LockFree(swap[n].dir)
      <4>1. ASSUME NEW i \in ZooNode PROVE ~Keeps(handle[i], k)
        <5>1. handle[i] \in Zoo
          BY <1>1, TokensAre
        <5> QED BY <3>1, <3>3, <5>1 DEF LockFree, Keeps, ZoosInv, LocksOK
      <4>2. k.id \in disk[k.family]
        BY <1>9, <4>1 DEF Safe
      <4> QED BY <3>1, <4>2
    <3> QED BY <1>5, <3>1, <3>2, <3>3
  <2>2. ASSUME NEW i \in ZooNode, swap'[i].at \in {"validate", "refuse"}
        PROVE  \/ /\ swap[i].at \in {"validate", "refuse"} /\ swap'[i].new = swap[i].new
                  /\ Same(swap[i].new)
               \/ Keeps(swap[i].new, k)' => k.id \in zoos'[swap'[i].new].learned
    <3>1. CASE i = n
      BY <2>1, <3>1
    <3>2. CASE i # n
      <4>1. swap'[i] = swap[i] /\ swap[i].at \in {"validate", "refuse"}
        BY <1>7, <2>2, <3>2
      <4>2. swap[i].new \in Zoo
        BY <1>1, <4>1, TokensAre
      <4> QED BY <1>8, <4>1, <4>2
    <3> QED BY <3>1, <3>2
  <2>3. ASSUME NEW i \in ZooNode, swap'[i].at \in {"load", "validate", "refuse"}
        PROVE  swap[i].at \in {"load", "validate", "refuse"}
    BY <1>1, <1>7, <2>3 DEF At
  <2>4. \A i \in ZooNode : Same(handle[i])
    BY <1>1, <1>8, TokensAre
  <2> HIDE DEF Safe
  <2> QED BY <1>1, <1>6, <1>9, <2>2, <2>3, <2>4, SafeKept
<1>10. MemoryOK'
  BY <1>1, <1>9 DEF MemoryOK
<1>11. ASSUME NEW i \in ZooNode PROVE CarryOK(i)'
  <2>1. handle[i] \in Zoo /\ zoos'[handle[i]] = zoos[handle[i]] /\ CarryOK(i)
    BY <1>1, <1>6, TokensAre DEF CarriesOK
  <2>2. CASE i = n
    <3>1. zoos[handle[n]].bound => swap[n].had \subseteq disk[zoos[handle[n]].family]
      BY <1>1, <2>1, <2>2 DEF CarryOK
    <3> QED BY <1>1, <1>4, <1>6, <1>7, <2>1, <2>2, <3>1 DEF CarryOK, At
  <2>3. CASE i # n
    <3>1. swap'[i] = swap[i] /\ handle'[i] = handle[i] /\ disk' = disk
      BY <1>1, <1>7, <2>3
    <3>2. At(i, "validate") => zoos'[swap[i].new] = zoos[swap[i].new]
      BY <1>1, <1>6, TokensAre DEF At
    <3> QED BY <2>1, <3>1, <3>2 DEF CarryOK, At
  <2> QED BY <2>2, <2>3
<1> QED BY <1>10, <1>11 DEF CarriesOK

(* The successor knows what its directory may not lose; what the outgoing   *)
(* zoo alone kept is on disk.                                               *)
LEMMA ExchangeMemory ==
  ASSUME ZoosInv, MemoryOK, CarriesOK, NEW n \in ZooNode, Exchange(n)
  PROVE  MemoryOK' /\ CarriesOK'
<1>1. Up /\ Types /\ At(n, "validate") /\ Goes(n, "free")
      /\ UNCHANGED <<zoos, disk, foreign, sale, rewards, kept>>
      /\ handle' = [handle EXCEPT ![n] = swap[n].new] /\ handle \in [ZooNode -> Nat]
  BY DEF Exchange, ZoosInv, DownOK, At, Types
<1>2. swap'[n].at = "free" /\ \A m \in ZooNode \ {n} : swap'[m] = swap[m]
  BY <1>1, GoesOn
<1>3. handle'[n] = swap[n].new /\ \A m \in ZooNode \ {n} : handle'[m] = handle[m]
  BY <1>1
<1>4. Up'
  BY <1>1 DEF Up
<1>5. ASSUME NEW k, Safe(k) PROVE Safe(k)'
  <2>1. \A y : Keeps(y, k)' <=> Keeps(y, k)
    BY <1>1 DEF Keeps
  <2>2. ASSUME NEW i \in ZooNode, Keeps(handle[i], k)' PROVE k.id \in zoos'[handle'[i]].learned
    <3>1. CASE i = n
      BY <1>1, <1>3, <1>5, <2>2, <3>1 DEF Safe, Keeps, At
    <3>2. CASE i # n
      BY <1>1, <1>3, <1>5, <2>2, <3>2 DEF Safe, Keeps
    <3> QED BY <3>1, <3>2
  <2>3. ASSUME NEW i \in ZooNode, swap'[i].at \in {"validate", "refuse"}, Keeps(swap[i].new, k)'
        PROVE  k.id \in zoos'[swap'[i].new].learned
    <3>1. i # n /\ swap'[i] = swap[i]
      BY <1>2, <2>3
    <3> QED BY <1>1, <1>5, <2>3, <3>1 DEF Safe, Keeps
  <2>4. ASSUME NEW i \in ZooNode, swap'[i].at \in {"load", "validate", "refuse"}, Keeps(handle[i], k)'
        PROVE  k.id \in disk'[k.family]
    <3>1. i # n /\ swap'[i] = swap[i] /\ handle'[i] = handle[i]
      BY <1>2, <1>3, <2>4
    <3> QED BY <1>1, <1>5, <2>4, <3>1 DEF Safe, Keeps
  <2>5. k.id \in disk'[k.family] \/ \E i \in ZooNode : Keeps(handle[i], k)'
    <3>1. CASE k.id \in disk[k.family]
      BY <1>1, <3>1
    <3>2. CASE k.id \notin disk[k.family]
      <4>1. PICK i \in ZooNode : Keeps(handle[i], k)
        BY <1>5, <3>2 DEF Safe
      <4>2. i # n
        BY <1>1, <1>5, <3>2, <4>1 DEF Safe, At
      <4> QED BY <1>1, <1>3, <4>1, <4>2 DEF Keeps
    <3> QED BY <3>1, <3>2
  <2> QED BY <1>4, <2>2, <2>3, <2>4, <2>5 DEF Safe
<1>6. MemoryOK'
  BY <1>1, <1>5 DEF MemoryOK
<1>7. ASSUME NEW i \in ZooNode PROVE CarryOK(i)'
  <2>1. CASE i = n
    BY <1>2, <2>1 DEF CarryOK, At
  <2>2. CASE i # n
    BY <1>1, <1>2, <1>3, <2>2 DEF CarriesOK, CarryOK, At
  <2> QED BY <2>1, <2>2
<1> QED BY <1>6, <1>7 DEF CarriesOK

LEMMA FreesMemory ==
  ASSUME ZoosInv, MemoryOK, CarriesOK, NEW n \in ZooNode, Frees(n)
  PROVE  MemoryOK' /\ CarriesOK'
<1> DEFINE z == Discarded(n)
<1>1. /\ Up /\ z \in Zoo /\ zoos[z].node = n /\ z # handle[n]
      /\ zoos' \in Seq(ZooRec) /\ Len(zoos') = Len(zoos)
      /\ \A y \in Zoo : y # z => zoos'[y] = zoos[y]
  BY FreesIs
<1>2. UNCHANGED <<handle, disk, foreign, sale, rewards, kept>> /\ Types
      /\ swap' = [swap EXCEPT ![n] = NoSwap]
  BY DEF Frees, ZoosInv
<1>3. swap'[n].at = "none" /\ \A m \in ZooNode \ {n} : swap'[m] = swap[m]
  BY <1>2, NoneTyped
<1> HIDE DEF z
<1>4. Up'
  BY <1>1, <1>2, UpLong DEF Up, Types
<1>5. \A i \in ZooNode : handle[i] \in Zoo /\ zoos'[handle[i]] = zoos[handle[i]]
  BY <1>1, TokensAre
<1>6. ASSUME NEW i \in ZooNode \ {n}, swap[i].at \in {"validate", "refuse"}
      PROVE  zoos'[swap[i].new] = zoos[swap[i].new]
  <2>1. swap[i].new \in Zoo /\ zoos[swap[i].new].node = i
    BY <1>1, <1>6, TokensAre
  <2> QED BY <1>1, <2>1
<1>7. ASSUME NEW k, Safe(k) PROVE Safe(k)'
  <2>1. ASSUME NEW i \in ZooNode, swap'[i].at \in {"validate", "refuse"}
        PROVE  swap[i].at \in {"validate", "refuse"} /\ swap'[i].new = swap[i].new
               /\ Same(swap[i].new)
    <3>1. i # n /\ swap'[i] = swap[i]
      BY <1>3, <2>1
    <3> QED BY <1>6, <2>1, <3>1 DEF Same
  <2>2. ASSUME NEW i \in ZooNode, swap'[i].at \in {"load", "validate", "refuse"}
        PROVE  swap[i].at \in {"load", "validate", "refuse"}
    BY <1>3, <2>2
  <2>3. \A i \in ZooNode : Same(handle[i])
    BY <1>5 DEF Same
  <2> HIDE DEF Safe
  <2> QED BY <1>1, <1>2, <1>4, <1>7, <2>1, <2>2, <2>3, SafeKept
<1>8. MemoryOK'
  BY <1>2, <1>7 DEF MemoryOK
<1>9. ASSUME NEW i \in ZooNode PROVE CarryOK(i)'
  <2>1. CASE i = n
    BY <1>3, <2>1 DEF CarryOK, At
  <2>2. CASE i # n
    <3>1. CarryOK(i) /\ swap'[i] = swap[i] /\ handle' = handle /\ disk' = disk
      BY <1>2, <1>3, <2>2 DEF CarriesOK
    <3>2. At(i, "validate") => zoos'[swap[i].new] = zoos[swap[i].new]
      BY <1>6, <2>2 DEF At
    <3> QED BY <1>5, <3>1, <3>2 DEF CarryOK, At
  <2> QED BY <2>1, <2>2
<1> QED BY <1>8, <1>9 DEF CarriesOK

-----------------------------------------------------------------------------
(* Restarts and crashes; the theorems.                                      *)

LEMMA SavesAre ==
  ASSUME NEW store
  PROVE  /\ Saves(store)[0] = store
         /\ \A n \in ZooNode : Saves(store)[n] = SavedState(Saves(store)[n - 1], handle[n])
<1> DEFINE Ok(n, r) ==
             r = [k \in 0 .. n |-> IF k = 0 THEN store ELSE SavedState(r[k - 1], handle[k])]
           P == {n \in 0 .. ZooNodes : \E r : Ok(n, r)}
<1>1. ZooNodes \in Nat
  BY SwapAssumption
<1>2. 0 \in P
  <2>1. Ok(0, [i \in 0 .. 0 |-> store])
    OBVIOUS
  <2>2. 0 \in 0 .. ZooNodes
    BY <1>1
  <2> HIDE DEF Ok
  <2> QED BY <2>1, <2>2
<1>3. ASSUME NEW n \in 0 .. ZooNodes - 1, n \in P PROVE n + 1 \in P
  <2>1. PICK r : Ok(n, r)
    BY <1>3
  <2> DEFINE q == [k \in 0 .. n + 1 |->
                     IF k = n + 1 THEN SavedState(r[n], handle[n + 1]) ELSE r[k]]
  <2>2. Ok(n + 1, q)
    <3>1. ASSUME NEW k \in 0 .. n + 1
          PROVE  q[k] = IF k = 0 THEN store ELSE SavedState(q[k - 1], handle[k])
      <4>1. CASE k = n + 1
        <5>1. k # 0 /\ k - 1 = n /\ n \in 0 .. n + 1 /\ n # n + 1
          BY <4>1
        <5>2. q[n] = r[n] /\ q[k] = SavedState(r[n], handle[k])
          BY <4>1, <5>1
        <5> QED BY <5>1, <5>2
      <4>2. CASE k \in 0 .. n
        <5>1. r[k] = IF k = 0 THEN store ELSE SavedState(r[k - 1], handle[k])
          BY <2>1, <4>2
        <5>2. q[k] = r[k] /\ (k # 0 => q[k - 1] = r[k - 1])
          BY <4>2
        <5> QED BY <5>1, <5>2
      <4> QED BY <4>1, <4>2
    <3> QED BY <3>1
  <2>3. n + 1 \in 0 .. ZooNodes
    BY <1>1
  <2> HIDE DEF Ok, q
  <2> QED BY <2>2, <2>3
<1>4. \E r : Ok(ZooNodes, r)
  <2>1. 0 .. ZooNodes \subseteq P
    <3> HIDE DEF P
    <3> QED BY <1>1, <1>2, <1>3, BoundedInduction
  <2> QED BY <1>1, <2>1
<1> DEFINE after == CHOOSE r : Ok(ZooNodes, r)
<1>5. Ok(ZooNodes, after)
  <2> HIDE DEF Ok
  <2> QED BY <1>4
<1>6. Saves(store) = after
  BY DEF Saves
<1> HIDE DEF after
<1>7. /\ after[0] = store
      /\ \A n \in ZooNode : after[n] = SavedState(after[n - 1], handle[n])
  <2>1. \A k \in 0 .. ZooNodes : after[k] = IF k = 0 THEN store ELSE SavedState(after[k - 1], handle[k])
    BY <1>5
  <2>2. 0 \in 0 .. ZooNodes /\ \A n \in ZooNode : n \in 0 .. ZooNodes /\ n # 0
    BY <1>1 DEF ZooNode
  <2> HIDE DEF Ok
  <2> QED BY <2>1, <2>2
<1> QED BY <1>6, <1>7

LEMMA SavesTyped ==
  ASSUME ZoosInv, Up
  PROVE  \A n \in 0 .. ZooNodes : Saves(disk)[n] \in [Dir -> SUBSET Nat]
<1> DEFINE P == {n \in 0 .. ZooNodes : Saves(disk)[n] \in [Dir -> SUBSET Nat]}
<1>1. ZooNodes \in Nat
  BY SwapAssumption
<1>2. 0 \in P
  <2>1. disk \in [Dir -> SUBSET Nat]
    BY DEF ZoosInv, Types
  <2> QED BY <1>1, <2>1, SavesAre
<1>3. ASSUME NEW n \in 0 .. ZooNodes - 1, n \in P PROVE n + 1 \in P
  <2>1. n + 1 \in ZooNode /\ n + 1 \in 0 .. ZooNodes /\ (n + 1) - 1 = n
    BY <1>1 DEF ZooNode
  <2>2. Saves(disk)[n + 1] = SavedState(Saves(disk)[n], handle[n + 1])
    BY <2>1, SavesAre
  <2>3. Types /\ handle[n + 1] \in Zoo
    BY <2>1, Serves
  <2> QED BY <1>3, <2>1, <2>2, <2>3, SavedTyped
<1>4. 0 .. ZooNodes \subseteq P
  <2> HIDE DEF P
  <2> QED BY <1>1, <1>2, <1>3, BoundedInduction
<1> QED BY <1>4

LEMMA AllSavedTyped ==
  ASSUME ZoosInv, Up
  PROVE  AllSaved(disk) \in [Dir -> SUBSET Nat]
<1>1. ZooNodes \in 0 .. ZooNodes
  BY SwapAssumption
<1> QED BY <1>1, SavesTyped DEF AllSaved

(* When every zoo has been saved, all that may not be lost is on disk.      *)
LEMMA AllSavedKeeps ==
  ASSUME ZoosInv, Up, NEW k, Safe(k)
  PROVE  k.id \in AllSaved(disk)[k.family]
<1> DEFINE Stored(n) == \/ k.id \in disk[k.family]
                        \/ \E i \in 1 .. n : Keeps(handle[i], k)
           P == {n \in 0 .. ZooNodes : Stored(n) => k.id \in Saves(disk)[n][k.family]}
<1>1. ZooNodes \in Nat
  BY SwapAssumption
<1>2. 0 \in P
  BY <1>1, SavesAre
<1>3. ASSUME NEW n \in 0 .. ZooNodes - 1, n \in P PROVE n + 1 \in P
  <2>1. n + 1 \in ZooNode /\ n + 1 \in 0 .. ZooNodes /\ (n + 1) - 1 = n /\ n \in 0 .. ZooNodes
    BY <1>1 DEF ZooNode
  <2>2. Saves(disk)[n + 1] = SavedState(Saves(disk)[n], handle[n + 1])
    BY <2>1, SavesAre
  <2>3. /\ Saves(disk)[n] \in [Dir -> SUBSET Nat] /\ handle[n + 1] \in Zoo
        /\ zoos[handle[n + 1]] \in ZooRec
    BY <2>1, SavesTyped, Serves
  <2>4. zoos[handle[n + 1]].family \in Dir
    BY <2>3 DEF ZooRec
  <2>5. zoos[handle[n + 1]].bound => ~zoos[handle[n + 1]].freed
    BY <2>3 DEF ZoosInv, LocksOK
  <2>6. CASE Keeps(handle[n + 1], k)
    <3>1. k.id \in zoos[handle[n + 1]].learned
      BY <2>1, <2>6 DEF Safe
    <3> QED BY <2>1, <2>2, <2>3, <2>4, <2>5, <2>6, <3>1 DEF SavedState, Bound, Keeps
  <2>7. CASE ~Keeps(handle[n + 1], k)
    <3>1. Saves(disk)[n + 1][k.family] = Saves(disk)[n][k.family]
      BY <2>2, <2>3, <2>7 DEF SavedState, Bound, Keeps
    <3>2. Stored(n + 1) => Stored(n)
      BY <2>7
    <3> QED BY <1>3, <2>1, <3>1, <3>2
  <2> QED BY <2>6, <2>7
<1>4. 0 .. ZooNodes \subseteq P
  <2> HIDE DEF P
  <2> QED BY <1>1, <1>2, <1>3, BoundedInduction
<1>5. Stored(ZooNodes)
  BY DEF Safe, ZooNode
<1>6. ZooNodes \in P
  BY <1>1, <1>4
<1> QED BY <1>5, <1>6 DEF AllSaved

LEMMA BootMemory ==
  ASSUME ZoosInv, NEW dirs \in [ZooNode -> Dir], NEW store \in [Dir -> SUBSET Nat],
         Boot(dirs, store), \A k \in kept' : k.id \in store[k.family]
  PROVE  MemoryOK' /\ CarriesOK'
<1>1. foreign \subseteq Dir
  BY DEF ZoosInv, Types
<1>2. /\ Zoo' = ZooNode /\ \A n \in ZooNode : handle'[n] = n
      /\ disk' = store /\ \A n \in ZooNode : swap'[n].at = "none"
      /\ \A n \in ZooNode : zoos'[n].bound => zoos'[n].learned = store[zoos'[n].family]
  BY <1>1, BootIs
<1>3. ASSUME NEW k \in kept' PROVE Safe(k)'
  BY <1>2 DEF Safe, Keeps
<1> QED BY <1>2, <1>3 DEF MemoryOK, CarriesOK, CarryOK, At

HotSwapInv == ZoosInv /\ MemoryOK /\ CarriesOK

LEMMA FirstBootInv == ASSUME HotSwapInv, FirstBoot PROVE HotSwapInv'
<1>1. PICK dirs \in [ZooNode -> Dir] : Boot(dirs, disk)
  BY DEF FirstBoot
<1>2. ZoosInv /\ ~Up /\ UNCHANGED <<foreign, rewards, kept>>
  BY DEF FirstBoot, HotSwapInv
<1>3. disk \in [Dir -> SUBSET Nat] /\ kept = {}
  BY <1>2 DEF ZoosInv, Types, DownOK
<1> QED BY <1>1, <1>2, <1>3, BootInv, BootMemory DEF HotSwapInv

LEMMA RestartsInv == ASSUME HotSwapInv, Restarts PROVE HotSwapInv'
<1>1. PICK dirs \in [ZooNode -> Dir] : Boot(dirs, AllSaved(disk))
  BY DEF Restarts
<1>2. ZoosInv /\ MemoryOK /\ Up /\ UNCHANGED <<foreign, rewards, kept>>
  BY DEF Restarts, HotSwapInv
<1>3. AllSaved(disk) \in [Dir -> SUBSET Nat]
  BY <1>2, AllSavedTyped
<1>4. \A k \in kept' : k.id \in AllSaved(disk)[k.family]
  BY <1>2, AllSavedKeeps DEF MemoryOK
<1> QED BY <1>1, <1>2, <1>3, <1>4, BootInv, BootMemory DEF HotSwapInv

LEMMA CrashesInv == ASSUME HotSwapInv, Crashes PROVE HotSwapInv'
<1>1. PICK dirs \in [ZooNode -> Dir] : Boot(dirs, disk)
  BY DEF Crashes
<1>2. ZoosInv /\ UNCHANGED <<foreign, rewards>> /\ kept' = {k \in kept : k.id \in disk[k.family]}
  BY DEF Crashes, HotSwapInv
<1>3. disk \in [Dir -> SUBSET Nat]
  BY <1>2 DEF ZoosInv, Types
<1> QED BY <1>1, <1>2, <1>3, BootInv, BootMemory DEF HotSwapInv

LEMMA SwapInitInv == ASSUME SwapInit PROVE HotSwapInv
<1>1. Types
  BY SwapAssumption DEF SwapInit, Types, Swaps, Sales, ZooNode
<1>2. ~Up /\ Zoo = {}
  BY DEF SwapInit, Up, Zoo
<1>3. \A n \in ZooNode : swap[n].at = "none"
  BY DEF SwapInit, NoSwap
<1>4. ZoosInv
  BY <1>1, <1>2, <1>3
     DEF ZoosInv, DownOK, ServingOK, LocksOK, WritersOK, SwapsOK, SwapOK, SwapInit, At, NoSale
<1>5. MemoryOK /\ CarriesOK
  BY <1>3 DEF MemoryOK, CarriesOK, CarryOK, At, SwapInit
<1> QED BY <1>4, <1>5 DEF HotSwapInv

LEMMA SwapNextInv == ASSUME HotSwapInv, [SwapNext]_swapVars PROVE HotSwapInv'
<1>1. ZoosInv /\ MemoryOK /\ CarriesOK
  BY DEF HotSwapInv
<1>2. CASE FirstBoot \/ Restarts \/ Crashes
  BY <1>2, FirstBootInv, RestartsInv, CrashesInv
<1>3. CASE Calibrates \/ LoadsHandle \/ \E n \in ZooNode : Sells(n)
  <2>1. UNCHANGED <<zoos, handle, disk, swap, kept>>
    BY <1>3 DEF Calibrates, LoadsHandle, Sells
  <2> QED BY <1>1, <1>3, <2>1, DrainerInv, IdleMemory DEF HotSwapInv
<1>4. CASE Rewards
  BY <1>1, <1>4, RewardsInv, RewardsMemory DEF HotSwapInv
<1>5. ASSUME NEW n \in ZooNode, SwapStep(n) \/ LooksBack(n) \/ FlushPending(n) PROVE HotSwapInv'
  <2>1. CASE PickUp(n) \/ FlushOutgoing(n) \/ LoadFails(n)
    BY <1>1, <2>1, PickUpInv, FlushInv, LoadFailsInv, PickUpMemory, FlushMemory, LoadFailsMemory
       DEF HotSwapInv
  <2>2. CASE Bind(n) \/ Refuses(n)
    BY <1>1, <2>2, BindInv, RefusesInv, BindMemory, RefusesMemory DEF HotSwapInv
  <2>3. CASE Exchange(n) \/ Frees(n)
    BY <1>1, <2>3, ExchangeInv, FreesInv, ExchangeMemory, FreesMemory DEF HotSwapInv
  <2>4. CASE LooksBack(n) \/ FlushPending(n)
    BY <1>1, <2>4, LooksBackInv, FlushPendingInv, LooksBackMemory, FlushPendingMemory DEF HotSwapInv
  <2> QED BY <1>5, <2>1, <2>2, <2>3, <2>4 DEF SwapStep
<1>6. ASSUME NEW d \in Dir, ForeignTakes(d) \/ ForeignLeaves(d) PROVE HotSwapInv'
  <2>1. UNCHANGED <<zoos, handle, disk, swap, kept>>
    BY <1>6 DEF ForeignTakes, ForeignLeaves
  <2> QED BY <1>1, <1>6, <2>1, ForeignInv, IdleMemory DEF HotSwapInv
<1>7. CASE UNCHANGED swapVars
  <2>1. UNCHANGED <<zoos, handle, disk, foreign, swap, sale, rewards, kept>>
    BY <1>7 DEF swapVars
  <2>2. ZoosInv'
    BY <1>1, <2>1 DEF ZoosInv, Types, DownOK, ServingOK, LocksOK, WritersOK, SwapsOK, SwapOK, Zoo,
                      Up, At
  <2> QED BY <1>1, <2>1, <2>2, IdleMemory DEF HotSwapInv
<1> QED BY <1>2, <1>3, <1>4, <1>5, <1>6, <1>7 DEF SwapNext

(* The inductive invariant holds whatever the slow paths, the drainer and   *)
(* other processes do (HotSwap.hpp, NodeModelZoo.hpp).                      *)
THEOREM SwapInvariant == SwapSpec => []HotSwapInv
BY SwapInitInv, SwapNextInv, PTL DEF SwapSpec

LEMMA BoundIs == ASSUME ZoosInv, NEW z \in Zoo PROVE Bound(z) <=> zoos[z].bound
BY DEF ZoosInv, LocksOK, Bound

(* A zoo that may write a state directory holds its lock, no other process  *)
(* does, and only its own node's successor holds it too: through swaps into *)
(* the same or another directory, refusals, frees and boots                 *)
(* (EnsembleModelZoo_BindStateDir, NodeModelZoo.hpp).                       *)
THEOREM OneWriterEver == SwapSpec => []OneWriterPerDir
<1>1. ASSUME HotSwapInv PROVE OneWriterPerDir
  <2>1. ZoosInv /\ \A z \in Zoo : Bound(z) => zoos[z].bound
    BY <1>1, BoundIs DEF HotSwapInv
  <2> QED BY <2>1 DEF OneWriterPerDir, ZoosInv, LocksOK, WritersOK
<1> QED BY <1>1, SwapInvariant, PTL

(* What a serving zoo with a directory has learned is on disk or in the zoo *)
(* that serves that directory, whatever is swapped, refused or restarted;   *)
(* a crash takes only what no save had reached (HotSwap_ShadowLoad_Ensemble, *)
(* EnsembleModelZoo_SaveAllBanditState).                                    *)
THEOREM NothingIsForgotten == SwapSpec => []NothingForgotten
<1>1. ASSUME HotSwapInv PROVE NothingForgotten
  <2>1. ASSUME NEW k \in kept, k.id \notin disk[k.family]
        PROVE  \E n \in ZooNode : /\ Bound(handle[n]) /\ zoos[handle[n]].family = k.family
                                  /\ k.id \in zoos[handle[n]].learned
    <3>1. Safe(k) /\ ZoosInv
      BY <1>1 DEF HotSwapInv, MemoryOK
    <3>2. PICK n \in ZooNode : Up /\ Keeps(handle[n], k)
      BY <2>1, <3>1 DEF Safe
    <3>3. Bound(handle[n])
      BY <3>1, <3>2, TokensAre, BoundIs DEF Keeps
    <3> QED BY <3>1, <3>2, <3>3 DEF Safe, Keeps
  <2> QED BY <2>1 DEF NothingForgotten
<1> QED BY <1>1, SwapInvariant, PTL

CarriesStep ==
  \A n \in ZooNode :
    At(n, "validate") /\ At(n, "free")' /\ Bound(swap[n].old) /\ Bound(swap[n].new)
      /\ zoos[swap[n].old].family = swap[n].dir
      => swap[n].had \subseteq zoos[handle'[n]].learned

(* Only the exchange goes from the validation to the release.               *)
LEMMA OnlyExchange ==
  ASSUME ZoosInv, [SwapNext]_swapVars, NEW n \in ZooNode, At(n, "validate"), At(n, "free")'
  PROVE  Exchange(n)
<1>1. Types /\ foreign \subseteq Dir /\ Up
  BY DEF ZoosInv, Types, DownOK, At
<1>2. swap'[n].at # swap[n].at
  BY DEF At
<1>3. ~(FirstBoot \/ Restarts \/ Crashes)
  <2>1. ~(FirstBoot \/ Restarts)
    BY <1>1 DEF FirstBoot, Restarts, At
  <2>2. ASSUME Crashes PROVE FALSE
    <3>1. swap' = [i \in ZooNode |-> NoSwap]
      BY <2>2 DEF Crashes, Boot
    <3> QED BY <3>1 DEF At, NoSwap
  <2> QED BY <2>1, <2>2
<1>4. ~(Calibrates \/ LoadsHandle \/ Rewards)
  BY <1>2 DEF Calibrates, LoadsHandle, Rewards
<1>5. ASSUME NEW i \in ZooNode
      PROVE  ~(LooksBack(i) \/ FlushPending(i) \/ Sells(i))
  BY <1>2 DEF LooksBack, FlushPending, Sells
<1>6. ASSUME NEW d \in Dir PROVE ~(ForeignTakes(d) \/ ForeignLeaves(d))
  BY <1>2 DEF ForeignTakes, ForeignLeaves
<1>7. swap' # swap /\ ~UNCHANGED swapVars
  BY <1>2 DEF swapVars
<1>8. PICK i \in ZooNode : SwapStep(i)
  BY <1>3, <1>4, <1>5, <1>6, <1>7 DEF SwapNext
<1>9. swap \in [ZooNode -> Swaps]
  BY <1>1 DEF Types
<1>10. i = n
  BY <1>2, <1>8, <1>9 DEF SwapStep, PickUp, FlushOutgoing, LoadFails, Bind, Refuses, Exchange, Frees, Goes
<1>11. ~(PickUp(n) \/ FlushOutgoing(n) \/ LoadFails(n) \/ Bind(n) \/ Frees(n))
  BY DEF PickUp, FlushOutgoing, LoadFails, Bind, Frees, At
<1>12. ~Refuses(n)
  <2>1. ASSUME Refuses(n) PROVE swap'[n].at = "refuse"
    BY <1>1, <2>1, GoesOn DEF Refuses
  <2> QED BY <2>1 DEF At
<1> QED BY <1>8, <1>10, <1>11, <1>12 DEF SwapStep

(* The exchange of a swap into the outgoing zoo's own directory publishes a *)
(* zoo that has learned all its node had when the swap was picked up: the   *)
(* flush comes before the load (HotSwap.hpp:109-117).                       *)
THEOREM SwapsCarryOver == SwapSpec => CarriesOver
<1>1. ASSUME HotSwapInv, [SwapNext]_swapVars PROVE CarriesStep
  <2>1. ASSUME NEW n \in ZooNode, At(n, "validate"), At(n, "free")', Bound(swap[n].old),
               Bound(swap[n].new), zoos[swap[n].old].family = swap[n].dir
        PROVE  swap[n].had \subseteq zoos[handle'[n]].learned
    <3>1. ZoosInv /\ CarryOK(n) /\ Up
      BY <1>1, <2>1 DEF HotSwapInv, CarriesOK, ZoosInv, DownOK, At
    <3>2. Exchange(n)
      BY <1>1, <2>1, <3>1, OnlyExchange
    <3>3. handle' = [handle EXCEPT ![n] = swap[n].new] /\ handle \in [ZooNode -> Nat]
      BY <3>1, <3>2 DEF Exchange, ZoosInv, Types
    <3>4. swap[n].old = handle[n]
      BY <2>1, <3>1 DEF ZoosInv, SwapsOK, SwapOK, At
    <3> QED BY <2>1, <3>1, <3>3, <3>4 DEF CarryOK, Bound
  <2> QED BY <2>1 DEF CarriesStep
<1> QED BY <1>1, SwapInvariant, PTL DEF SwapSpec, CarriesOver, CarriesStep
=============================================================================
