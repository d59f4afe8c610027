------------------------------- MODULE Ledger -------------------------------
(***************************************************************************)
(* The money of the sharded engine, from a fill to the snapshot on disk.    *)
(* A fill changes the position and leaves a FillEvent on the ring of its    *)
(* node; the composer books the rings into the balance and the node rows    *)
(* (EngineCommon_FillRingsApply), saves, and runs a paper reset.  All of it *)
(* is the drainer's thread, which may crash anywhere.                       *)
(* Kept: which book an event reaches, when and in which order.  Left out:   *)
(* prices (a net result and a notional are chosen) and fees.                *)
(***************************************************************************)
EXTENDS Engine, Sums

CONSTANTS
  RingSize,   \* FILL_EVENT_RING_SIZE, the emit ring's as well
  Lot,        \* units a position is bought in at most
  Results,    \* net results of a SELL leg
  LegRefused, \* the event ring may refuse the ENTRY of leg B
  MaxTrades   \* bound: trades of a node

ASSUME LedgerAssumption ==
  /\ {RingSize, Lot, MaxTrades} \subseteq Nat \ {0}
  /\ Results \subseteq Int /\ LegRefused \in BOOLEAN

VARIABLES
  live, partial_on,     \* how the process was started
  pos,                  \* units held, by slot
  fill_emit_seq, fill_rings, emit_rings,
  books,                \* balance, node rows, slot trackers
  composer,             \* where the drainer is: book, tail (composed), saving
  snapshot,             \* data/sharded_snapshot.dat
  hot, ordered, selling, \* slots whose core flag is set, whose BUY, SELL is under way
  round, trade, orphaned \* history: trades of a node, the one in a slot, a leg refused

ledgerVars == <<live, partial_on, pos, fill_emit_seq, fill_rings, emit_rings,
                books, composer, snapshot, hot, ordered, selling,
                round, trade, orphaned>>
startVars == <<live, partial_on>>
historyVars == <<round, trade, orphaned>>

Slot == Node \X {"A", "B"}
Legs == IF partial_on THEN {"A", "B"} ELSE {"A"}
SlotsOf(n) == {n} \X Legs
Zero(S) == [s \in S |-> 0]
LegSum(f, n) == f[<<n, "A">>] + IF partial_on THEN f[<<n, "B">>] ELSE 0

(* Balance, node rows and trackers after OMS_RESET_AUTOPOPULATE and         *)
(* NODE_CTX_RESET_AUTOPOPULATE, as at a first boot.  parked and mispaired   *)
(* are history: the trade of a parked net, and whether two nets of          *)
(* different trades ever made one result.                                   *)
EmptyBooks ==
  [balance |-> Start, node_realized |-> Zero(Node), node_open_notional |-> Zero(Node),
   gross_wins |-> Zero(Node), gross_losses |-> Zero(Node),
   partner_pending |-> {}, partner_pending_pnl |-> Zero(Node),
   slot_notional |-> Zero(Slot), pending_trade_net |-> Zero(Slot),
   parked |-> Zero(Node), mispaired |-> FALSE]

NoSnapshot == [taken |-> FALSE]

LedgerInit ==
  /\ live \in BOOLEAN /\ partial_on \in BOOLEAN
  /\ pos = Zero(Slot)
  /\ fill_emit_seq = Zero(Node)
  /\ fill_rings = [n \in Node |-> <<>>] /\ emit_rings = [n \in Node |-> <<>>]
  /\ books = EmptyBooks /\ composer = "book"
  /\ snapshot = NoSnapshot
  /\ hot = {} /\ ordered = {} /\ selling = {}
  /\ round = Zero(Node) /\ trade = Zero(Slot) /\ orphaned = FALSE

-----------------------------------------------------------------------------
(* The booking body of one FillEvent: OrderManager_LedgerApplyFill and      *)
(* EngineCommon_NodeRowsBook.                                               *)
Classify(b, n, net, of) ==
  LET won == net > 0
  IN [b EXCEPT !.gross_wins[n] = IF won THEN @ + net ELSE @,
               !.gross_losses[n] = IF won THEN @ ELSE @ - net,
               !.partner_pending = @ \ {n}, !.partner_pending_pnl[n] = 0,
               !.mispaired = @ \/ (n \in b.partner_pending /\ b.parked[n] # of)]

Conclude(b, n, net, of) ==
  IF ~partial_on THEN Classify(b, n, net, of)
  ELSE IF n \in b.partner_pending
    THEN Classify(b, n, net + b.partner_pending_pnl[n], of)
    ELSE [b EXCEPT !.partner_pending = @ \cup {n}, !.partner_pending_pnl[n] = net,
                   !.parked[n] = of]

LegRelief(b, fe) == fe.notional      \* mutation: the last leg leaves its residue
Relief(b, fe) == IF fe.slot_flat THEN b.slot_notional[fe.slot] ELSE fe.notional

BookBuy(b, fe) ==
  [b EXCEPT !.slot_notional[fe.slot] = @ + fe.notional,
            !.node_open_notional[fe.slot[1]] = @ + fe.notional]
BookSell(b, fe) ==
  LET n == fe.slot[1]
      booked == [b EXCEPT !.balance = @ + fe.net,
                          !.node_realized[n] = @ + fe.net,
                          !.node_open_notional[n] = @ - Relief(b, fe),
                          !.slot_notional[fe.slot] = @ - Relief(b, fe),
                          !.pending_trade_net[fe.slot] =
                             IF fe.slot_flat THEN 0 ELSE @ + fe.net]
  IN IF fe.slot_flat
       THEN Conclude(booked, n, b.pending_trade_net[fe.slot] + fe.net, fe.trade)
       ELSE booked
NodeRowsBook(b, fe) == IF fe.is_sell THEN BookSell(b, fe) ELSE BookBuy(b, fe)

(* EngineCommon_FillRingsApply: the rings in the order of their nodes, each *)
(* from its oldest event on; each event takes the trade row of its leaf off *)
(* the paired ring.                                                         *)
RingBooks(b, ring) ==
  LET after[i \in 0 .. Len(ring)] ==
        IF i = 0 THEN b ELSE NodeRowsBook(after[i - 1], ring[i])
  IN after
RingApplied(b, ring) == RingBooks(b, ring)[Len(ring)]
NodeBooks(b) ==
  LET after[k \in 0 .. NumNodes] ==
        IF k = 0 THEN b ELSE RingApplied(after[k - 1], fill_rings[k - 1])
  IN after
Applied(b) == NodeBooks(b)[NumNodes]
RowsLeft(n) ==
  SubSeq(emit_rings[n], Len(fill_rings[n]) + 1, Len(emit_rings[n]))

(* AggregatorState_Seed: the trackers from the positions, at their price.   *)
Worth(units) == 2 * units
Seed(b, held) ==
  [b EXCEPT !.slot_notional = [s \in Slot |-> Worth(held[s])],
            !.pending_trade_net = Zero(Slot)]

-----------------------------------------------------------------------------
NextSeq(n) == (fill_emit_seq[n] + 1) % (2 * RingSize)   \* 64 bits in the code

(* Mutation: a full ring drops its event, as the other rings do.            *)
EmitOrDrop(n, fe) ==
  /\ fill_emit_seq' = [fill_emit_seq EXCEPT ![n] = NextSeq(n)]
  /\ LET pushed == Len(fill_rings[n]) < RingSize
     IN /\ fill_rings' = [fill_rings EXCEPT ![n] = IF pushed THEN Append(@, fe) ELSE @]
        /\ emit_rings' = [emit_rings EXCEPT ![n] = IF pushed THEN Append(@, fe.seq) ELSE @]
  /\ UNCHANGED books /\ composer' = "book"
(* Mutation: the trade row is pushed before the event it belongs to.        *)
EmitRowFirst(n, fe) ==
  LET full  == Len(fill_rings[n]) = RingSize
      row   == [emit_rings EXCEPT ![n] =
                  IF Len(@) < RingSize THEN Append(@, fe.seq) ELSE @]
      fills == [m \in Node |-> IF full THEN <<>> ELSE fill_rings[m]]
  IN /\ fill_emit_seq' = [fill_emit_seq EXCEPT ![n] = fe.seq]
     /\ fill_rings' = [fills EXCEPT ![n] = Append(@, fe)]
     /\ emit_rings' = [m \in Node |->
          IF full THEN SubSeq(row[m], Len(fill_rings[m]) + 1, Len(row[m])) ELSE row[m]]
     /\ books' = IF full THEN Applied(books) ELSE books
     /\ composer' = "book"

(* EngineCommon_FillEmit, then the trade row: a full ring is applied in     *)
(* line, all rings of it, and the event pushed after.                       *)
Emit(n, fe) ==
  LET full  == Len(fill_rings[n]) = RingSize
      fills == [m \in Node |-> IF full THEN <<>> ELSE fill_rings[m]]
      rows  == [m \in Node |-> IF full THEN RowsLeft(m) ELSE emit_rings[m]]
  IN /\ fill_emit_seq' = [fill_emit_seq EXCEPT ![n] = fe.seq]
     /\ fill_rings' = [fills EXCEPT ![n] = Append(@, fe)]
     /\ emit_rings' = [rows EXCEPT ![n] =
                         IF Len(@) < RingSize THEN Append(@, fe.seq) ELSE @]
     /\ books' = IF full THEN Applied(books) ELSE books
     /\ composer' = "book"

(* A venue reports part of an order; a paper fill is whole.  The notional   *)
(* of a part is rounded down.                                               *)
Parts(left) == IF live THEN 1 .. left ELSE {left}
Cost(units) == IF live THEN {Worth(units) - 1, Worth(units)} ELSE {Worth(units)}

(* handle_buy_fill: the first leg opens the slot, later ones accumulate.    *)
(* Commands of one slot keep their order; a paper pass books its closes     *)
(* before its opens.                                                        *)
BuyFill(s) ==
  /\ composer # "saving" /\ s \in ordered
  /\ selling \cap (IF live THEN {s} ELSE SlotsOf(s[1])) = {}
  /\ \E units \in Parts(Lot - pos[s]) : \E notional \in Cost(units) :
       /\ pos' = [pos EXCEPT ![s] = @ + units]
       /\ Emit(s[1], [slot |-> s, is_sell |-> FALSE, slot_flat |-> FALSE, net |-> 0,
                      notional |-> notional, trade |-> round[s[1]],
                      seq |-> NextSeq(s[1])])
       /\ ordered' = IF pos'[s] = Lot THEN ordered \ {s} ELSE ordered
  /\ trade' = [trade EXCEPT ![s] = round[s[1]]]
  /\ UNCHANGED <<startVars, snapshot, hot, selling, round, orphaned>>

(* handle_sell_fill: close by the leg; a leg of nothing, or on a closed     *)
(* slot, is a no-op.                                                        *)
SellFill(s) ==
  /\ composer # "saving" /\ s \in selling
  /\ \E units \in Parts(pos[s]), net \in Results : \E notional \in Cost(units) :
       LET flat == units = pos[s]
       IN /\ pos' = [pos EXCEPT ![s] = @ - units]
          /\ Emit(s[1], [slot |-> s, is_sell |-> TRUE, slot_flat |-> flat, net |-> net,
                         notional |-> notional, trade |-> trade[s],
                         seq |-> NextSeq(s[1])])
          /\ selling' = IF flat THEN selling \ {s} ELSE selling
  /\ UNCHANGED <<startVars, snapshot, hot, ordered, historyVars>>

-----------------------------------------------------------------------------
(* The head of EngineCommon_ComposeAndKillEval.                             *)
Compose ==
  /\ composer = "book"
  /\ books' = Applied(books)
  /\ emit_rings' = [n \in Node |-> RowsLeft(n)]
  /\ fill_rings' = [n \in Node |-> <<>>]
  /\ composer' = "tail"
  /\ UNCHANGED <<live, partial_on, pos, fill_emit_seq, snapshot,
                 hot, ordered, selling, historyVars>>

(* ShardedSnapshot_Save, when the compose was asked to: the file is written *)
(* aside, then renamed.  The trackers and the partner bits are not in it.   *)
Image ==
  [taken |-> TRUE, partial_on |-> partial_on, pos |-> pos,
   books |-> books, round |-> round, trade |-> trade]
SaveWrites ==
  /\ composer = "tail" /\ ~live /\ composer' = "saving"
  /\ UNCHANGED <<startVars, pos, fill_emit_seq, fill_rings, emit_rings, books,
                 snapshot, hot, ordered, selling, historyVars>>
SaveRenames ==
  /\ composer = "saving" /\ composer' = "book" /\ snapshot' = Image
  /\ UNCHANGED <<startVars, pos, fill_emit_seq, fill_rings, emit_rings, books,
                 hot, ordered, selling, historyVars>>

(* EngineSharded_ExecutePaperReset.  Orders under way are wiped with the    *)
(* order table.  The core's flag of leg A is cleared, that of leg B is not. *)
PaperReset ==
  /\ composer = "tail" /\ ~live
  /\ pos' = Zero(Slot)
  /\ books' = Seed([EmptyBooks EXCEPT !.slot_notional = books.slot_notional,
                                      !.pending_trade_net = books.pending_trade_net],
                   Zero(Slot))
  /\ hot' = {s \in hot : s[2] = "B"} /\ ordered' = {} /\ selling' = {}
  /\ composer' = "book"
  /\ UNCHANGED <<startVars, fill_emit_seq, fill_rings, emit_rings, snapshot,
                 historyVars>>

(* A crash, and the boot after it (ShardedSnapshot_Load): a snapshot of the *)
(* other geometry is refused.  The partner bits are derived from which legs *)
(* are open.                                                                *)
NoPartnerBits(held) == {}            \* mutation: the bits start clear
PartnerBits(held) ==
  {n \in Node : (held[<<n, "A">>] > 0) # (held[<<n, "B">>] > 0)}
Load(file, partial) ==
  Seed([file.books EXCEPT !.partner_pending = IF partial THEN PartnerBits(file.pos) ELSE {},
                          !.slot_notional = Zero(Slot), !.pending_trade_net = Zero(Slot),
                          !.parked = [n \in Node |->
                             IF n \in file.books.partner_pending THEN @[n]
                             ELSE IF file.pos[<<n, "A">>] > 0 THEN file.trade[<<n, "A">>]
                                  ELSE file.trade[<<n, "B">>]]],
       file.pos)
Loads(partial) == snapshot.taken /\ snapshot.partial_on = partial
Restart ==
  /\ ~live
  /\ \E partial \in BOOLEAN :
       LET loads == Loads(partial)
       IN /\ partial_on' = partial
          /\ pos' = IF loads THEN snapshot.pos ELSE Zero(Slot)
          /\ books' = IF loads THEN Load(snapshot, partial)
                               ELSE [EmptyBooks EXCEPT !.mispaired = books.mispaired]
          /\ round' = IF loads THEN snapshot.round ELSE Zero(Node)
          /\ trade' = IF loads THEN snapshot.trade ELSE Zero(Slot)
  /\ hot' = {s \in Slot : pos'[s] > 0} /\ ordered' = {} /\ selling' = {}
  /\ fill_emit_seq' = Zero(Node)
  /\ fill_rings' = [n \in Node |-> <<>>] /\ emit_rings' = [n \in Node |-> <<>>]
  /\ composer' = "book"
  /\ UNCHANGED <<live, snapshot, orphaned>>

-----------------------------------------------------------------------------
(* The hot core of n opens a trade when its flags are clear, every leg of   *)
(* it unless the event ring refuses the second; it exits a leg whose entry  *)
(* is complete, in paper (one ring, and fills within the pass) once both    *)
(* are.  An exit of an empty slot is skipped.                               *)
NewTrade(n) ==
  /\ SlotsOf(n) \cap (hot \cup ordered) = {} /\ round[n] < MaxTrades
  /\ \E refused \in BOOLEAN :
       /\ refused => LegRefused /\ partial_on
       /\ LET legs == IF refused THEN {<<n, "A">>} ELSE SlotsOf(n)
          IN hot' = hot \cup legs /\ ordered' = ordered \cup legs
       /\ orphaned' = (orphaned \/ refused)
  /\ round' = [round EXCEPT ![n] = @ + 1]
  /\ UNCHANGED <<startVars, pos, fill_emit_seq, fill_rings, emit_rings, books,
                 composer, snapshot, selling, trade>>
ExitLeg(s) ==
  /\ s \in hot \ ordered /\ (live \/ SlotsOf(s[1]) \cap ordered = {})
  /\ hot' = hot \ {s}
  /\ selling' = IF pos[s] > 0 THEN selling \cup {s} ELSE selling
  /\ UNCHANGED <<startVars, pos, fill_emit_seq, fill_rings, emit_rings, books,
                 composer, snapshot, ordered, historyVars>>

LedgerNext ==
  \/ Compose \/ SaveWrites \/ SaveRenames \/ PaperReset \/ Restart
  \/ \E n \in Node : NewTrade(n)
  \/ \E s \in Slot : BuyFill(s) \/ SellFill(s) \/ ExitLeg(s)

LedgerSpec == LedgerInit /\ [][LedgerNext]_ledgerVars

-----------------------------------------------------------------------------
Nets(ring) == SumSeq([i \in 1 .. Len(ring) |-> ring[i].net])
RingNet(n) == Nets(fill_rings[n])
Parked(n) == IF n \in books.partner_pending THEN books.partner_pending_pnl[n] ELSE 0

(* The open notional of a node is exactly what its slots' trackers hold, so *)
(* that a flat node whose rings are applied carries nothing: the budget gate *)
(* of EventLoop_RebuildOneCore (ControllerEventLoop.hpp:3300) reads it.     *)
NotionalTelescopes ==
  \A n \in Node :
    /\ books.node_open_notional[n] = LegSum(books.slot_notional, n)
    /\ fill_rings[n] = <<>> =>
         \A s \in SlotsOf(n) : pos[s] = 0 => books.slot_notional[s] = 0

(* The win and loss books, what is parked for a partner and what an open    *)
(* trade has made so far are together what the node has realized, across    *)
(* paper resets and restarts.                                               *)
BooksBalance ==
  ~orphaned => \A n \in Node :
    books.node_realized[n] =
      books.gross_wins[n] - books.gross_losses[n] + Parked(n)
        + LegSum(books.pending_trade_net, n)

(* "Occupancy invariant: records push 1:1 with FillEvents on equal-size     *)
(* rings" (OrderManager.hpp:972): the trade row popped beside an event is   *)
(* its own.                                                                 *)
EmitLockstep ==
  \A n \in Node :
    emit_rings[n] = [i \in 1 .. Len(fill_rings[n]) |-> fill_rings[n][i].seq]

(* "legs A+B of one node = ONE logical trade" (EngineCommon.hpp:712), the   *)
(* paper engine's pairs, restarts included.                                 *)
PaperPairsAgree == ~live /\ ~orphaned => ~books.mispaired

(* The ledger is the account: events still in a ring count as booked, and   *)
(* so every sale reaches the balance and its node's row once, in a full     *)
(* ring, a paper reset or a restart as well (EngineCommon.hpp:1082: "a dropped *)
(* FillEvent is a permanent ledger error").                                 *)
Booked ==
  [cash |-> books.balance + SumSeq([k \in 1 .. NumNodes |-> RingNet(k - 1)]),
   earned |-> [n \in Node |-> books.node_realized[n] + RingNet(n)], held |-> pos]
Saved ==
  IF snapshot.taken
    THEN [cash |-> snapshot.books.balance, earned |-> snapshot.books.node_realized,
          held |-> snapshot.pos]
    ELSE [cash |-> Start, earned |-> Zero(Node), held |-> Zero(Slot)]
Owner(s) == s[1]
Promise == INSTANCE Account WITH account <- Booked, checkpoint <- Saved
ImplementsAccount ==
  Promise!AccountInit /\ [][Promise!AccountNext]_<<Booked, Saved>>
=============================================================================
