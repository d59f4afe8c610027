-------------------------- MODULE ReconcilerProofs --------------------------
(***************************************************************************)
(* The audit of live trading, for any prices, fees, amounts and bounds:     *)
(* the venue's free cash is what the books expect it to be, but for the     *)
(* reports under way and the money that moved beside the books; and what an *)
(* audit at rest shows is exactly that money and the reserve.               *)
(***************************************************************************)
EXTENDS Reconciler, SumsProofs

Side == {"BUY", "SELL"}
Cmd == [kind : {"LEG", "END", "FAIL", "ALERT"}, id : Nat, side : Side, qty : Nat, price : Nat,
        commission : Int, complete : BOOLEAN]
OpenOrder == [side : Side, left : Nat, untouched : BOOLEAN]
TableOrder == [side : Side, requested : Nat, filled : Nat, event_price : Int]
(* A book of orders among the first n that were placed.                     *)
Book(n, S, f) == DOMAIN f \subseteq 1 .. n /\ f \in [DOMAIN f -> S]

(* What may be reported of the orders placed so far: a leg of an order that *)
(* the table knows is of that order's side; nothing else moves money.       *)
Tells(n, tb, cmd) ==
  /\ cmd.id \in 1 .. n
  /\ cmd.kind = "LEG" => cmd.qty > 0 /\ (cmd.id \in DOMAIN tb => tb[cmd.id].side = cmd.side)
  /\ cmd.kind # "LEG" => cmd.qty = 0 /\ cmd.price = 0 /\ cmd.commission = 0
Heard(n, tb) == {cmd \in Cmd : Tells(n, tb, cmd)}
Refusals(n, tb) == {cmd \in Heard(n, tb) : cmd.kind = "FAIL"}
Alert == Notice("ALERT", 0, "BUY")

(* Orders are numbered as they are placed, and one that is open has         *)
(* something left to execute.                                               *)
VenueOK ==
  /\ exchange \in [usdt : Int, coins : Int, open : {exchange.open}, in_quote : BOOLEAN]
  /\ Book(placed, OpenOrder, exchange.open)
  /\ \A id \in DOMAIN exchange.open : exchange.open[id].left > 0
  /\ awaiting \subseteq 1 .. placed
TableOK ==
  /\ Book(placed, TableOrder, table)
  /\ \A id \in DOMAIN table \cap DOMAIN exchange.open : exchange.open[id].side = table[id].side
QueuesOK ==
  /\ rest_ring \in Seq(Refusals(placed, table)) /\ ws_queue \in Seq(Heard(placed, table))
  /\ reconcile_queue \in Seq({Alert})
  /\ taken \in Seq(Heard(placed, table) \cup {Alert})
(* An empty slot owes no entry fee.                                         *)
HoldingOK ==
  /\ holding \in [quantity : Nat, entry_price : Int, entry_fee : Int]
  /\ holding.quantity = 0 => holding.entry_fee = 0
MoneyOK ==
  /\ HoldingOK
  /\ cash \in Int /\ emitted \in Int /\ astray \in Int /\ placed \in Nat
  /\ pack \in [generation : {0, 1}, expected_free : Int]
  /\ poll \in [at : {"sleep", "sampled"}, exchange_usdt : Int]
(* Commands are under way in the pass only while it books, and a process    *)
(* that is down knows nothing.                                              *)
StageOK ==
  /\ stage \in {"book", "submit", "down"}
  /\ stage # "book" => taken = << >>
  /\ stage = "down" => /\ ws_queue = << >> /\ rest_ring = << >> /\ DOMAIN table = {}
                       /\ holding = NoHolding /\ emitted = 0 /\ reconcile_queue = << >>
                       /\ pack = NoPack /\ poll = Waiting /\ awaiting = {}
AuditTypeOK == VenueOK /\ TableOK /\ QueuesOK /\ MoneyOK /\ StageOK

(* Until something moves, the pack says what is expected, and the sample    *)
(* what the venue has.                                                      *)
PackCurrent ==
  pack.generation # 0 /\ "pack" \notin moved =>
    pack.expected_free = ExpectedFreeCash(cash + emitted)
SampleCurrent ==
  poll.at = "sampled" /\ "sample" \notin moved => poll.exchange_usdt = exchange.usdt
AuditInv == AuditTypeOK /\ CashAccounted /\ PackCurrent /\ SampleCurrent

(* What handle_sell_fill takes is at most what is held.                     *)
LEMMA MinOfTwo ==
  ASSUME NEW a \in Nat, NEW b \in Nat
  PROVE  Min({a, b}) \in {a, b} /\ Min({a, b}) \in Nat /\ Min({a, b}) <= a /\ Min({a, b}) <= b
<1>1. CASE a <= b
  <2>1. \A y \in {a, b} : a =< y
    BY <1>1
  <2>2. \E x \in {a, b} : \A y \in {a, b} : x =< y
    BY <2>1
  <2>3. Min({a, b}) \in {a, b} /\ \A y \in {a, b} : Min({a, b}) =< y
    BY <2>2, Zenon DEF Min
  <2> QED BY <2>3
<1>2. CASE ~(a <= b)
  <2>1. \A y \in {a, b} : b =< y
    BY <1>2
  <2>2. \E x \in {a, b} : \A y \in {a, b} : x =< y
    BY <2>1
  <2>3. Min({a, b}) \in {a, b} /\ \A y \in {a, b} : Min({a, b}) =< y
    BY <2>2, Zenon DEF Min
  <2> QED BY <2>3
<1> QED BY <1>1, <1>2

-----------------------------------------------------------------------------
(* A book that loses or replaces an order is still one.                     *)
LEMMA OneLess ==
  ASSUME NEW f, NEW id
  PROVE  /\ DOMAIN Without(f, id) = DOMAIN f \ {id}
         /\ \A i \in DOMAIN f \ {id} : Without(f, id)[i] = f[i]
BY DEF Without

LEMMA BookLoses ==
  ASSUME NEW n, NEW S, NEW f, Book(n, S, f), NEW id
  PROVE  Book(n, S, Without(f, id))
BY DEF Book, Without

LEMMA BookChanges ==
  ASSUME NEW n, NEW S, NEW f, Book(n, S, f), NEW id \in DOMAIN f, NEW v \in S
  PROVE  /\ Book(n, S, With(f, id, v)) /\ DOMAIN With(f, id, v) = DOMAIN f
         /\ With(f, id, v)[id] = v
         /\ \A i \in DOMAIN f \ {id} : With(f, id, v)[i] = f[i]
BY DEF Book, With

LEMMA SeqGrows ==
  ASSUME NEW S, NEW T, S \subseteq T, NEW q \in Seq(S)
  PROVE  q \in Seq(T)
OBVIOUS

-----------------------------------------------------------------------------
LEMMA EffectIsInt == ASSUME NEW cmd \in Cmd PROVE Effect(cmd) \in Int
<1>1. cmd.price * cmd.qty \in Int /\ cmd.commission \in Int
  BY DEF Cmd
<1> QED BY <1>1 DEF Effect

LEMMA EffectsOf ==
  ASSUME NEW q \in Seq(Cmd)
  PROVE  /\ Effects(q) \in Seq(Int) /\ Len(Effects(q)) = Len(q)
         /\ \A i \in 1 .. Len(q) : Effects(q)[i] = Effect(q[i])
<1>1. Len(q) \in Nat /\ \A i \in 1 .. Len(q) : Effect(q[i]) \in Int
  BY EffectIsInt
<1> QED BY <1>1 DEF Effects

LEMMA SumEffectIsInt == ASSUME NEW q \in Seq(Cmd) PROVE SumEffect(q) \in Int
BY EffectsOf, SumType DEF SumEffect

LEMMA SumEffectEmpty == SumEffect(<< >>) = 0
<1>1. Effects(<< >>) = << >>
  BY DEF Effects
<1> QED BY <1>1, SumEmpty DEF SumEffect

LEMMA SumEffectAppend ==
  ASSUME NEW q \in Seq(Cmd), NEW cmd \in Cmd
  PROVE  SumEffect(Append(q, cmd)) = SumEffect(q) + Effect(cmd)
<1>1. Append(q, cmd) \in Seq(Cmd) /\ Len(Append(q, cmd)) = Len(q) + 1 /\ Len(q) \in Nat
  OBVIOUS
<1> DEFINE e == Effects(q)
           a == Effects(Append(q, cmd))
<1>2. /\ e \in Seq(Int) /\ Len(e) = Len(q) /\ Effect(cmd) \in Int
      /\ \A i \in 1 .. Len(q) : e[i] = Effect(q[i])
  BY EffectsOf, EffectIsInt
<1>3. /\ a \in Seq(Int) /\ Len(a) = Len(q) + 1
      /\ \A i \in 1 .. Len(q) + 1 : a[i] = Effect(Append(q, cmd)[i])
  BY <1>1, EffectsOf
<1> HIDE DEF e, a
<1>4. ASSUME NEW i \in 1 .. Len(q) + 1 PROVE a[i] = Append(e, Effect(cmd))[i]
  <2>1. CASE i = Len(q) + 1
    <3>1. Append(q, cmd)[i] = cmd /\ Append(e, Effect(cmd))[i] = Effect(cmd)
      BY <1>2, <2>1
    <3> QED BY <1>3, <3>1
  <2>2. CASE i \in 1 .. Len(q)
    <3>1. Append(q, cmd)[i] = q[i] /\ Append(e, Effect(cmd))[i] = e[i]
      BY <1>2, <2>2
    <3> QED BY <1>2, <1>3, <2>2, <3>1
  <2>3. i = Len(q) + 1 \/ i \in 1 .. Len(q)
    BY <1>1
  <2> QED BY <2>1, <2>2, <2>3
<1>5. a = Append(e, Effect(cmd))
  BY <1>2, <1>3, <1>4
<1>6. SumSeq(Append(e, Effect(cmd))) = SumSeq(e) + Effect(cmd)
  BY <1>2, SumAppend
<1> QED BY <1>5, <1>6 DEF SumEffect, e, a

LEMMA SumEffectConcat ==
  ASSUME NEW p \in Seq(Cmd), NEW q \in Seq(Cmd)
  PROVE  SumEffect(p \o q) = SumEffect(p) + SumEffect(q)
<1>1. p \o q \in Seq(Cmd) /\ Len(p \o q) = Len(p) + Len(q)
  OBVIOUS
<1> DEFINE e == Effects(p)
           f == Effects(q)
           a == Effects(p \o q)
<1>2. /\ e \in Seq(Int) /\ Len(e) = Len(p) /\ f \in Seq(Int) /\ Len(f) = Len(q)
      /\ \A i \in 1 .. Len(p) : e[i] = Effect(p[i])
      /\ \A i \in 1 .. Len(q) : f[i] = Effect(q[i])
  BY EffectsOf
<1>3. /\ a \in Seq(Int) /\ Len(a) = Len(p) + Len(q)
      /\ \A i \in 1 .. Len(p) + Len(q) : a[i] = Effect((p \o q)[i])
  BY <1>1, EffectsOf
<1> HIDE DEF e, f, a
<1>4. ASSUME NEW i \in 1 .. Len(p) + Len(q) PROVE a[i] = (e \o f)[i]
  <2>1. a[i] = Effect((p \o q)[i])
    BY <1>3
  <2>2. CASE i \in 1 .. Len(p)
    <3>1. (p \o q)[i] = p[i] /\ (e \o f)[i] = e[i]
      BY <1>2, <2>2
    <3> QED BY <1>2, <2>1, <2>2, <3>1
  <2>3. CASE ~(i \in 1 .. Len(p))
    <3>1. i - Len(p) \in 1 .. Len(q)
      BY <2>3
    <3>2. (p \o q)[i] = q[i - Len(p)] /\ f[i - Len(p)] = Effect(q[i - Len(p)])
      BY SMTT(30), <1>2, <2>3, <3>1
    <3>3. (e \o f)[i] = f[i - Len(p)]
      BY <1>2, <2>3, <3>1
    <3> QED BY <2>1, <3>2, <3>3
  <2> QED BY <2>2, <2>3
<1>5. a = e \o f
  <2>1. e \o f \in Seq(Int) /\ Len(e \o f) = Len(p) + Len(q)
    <3>1. e \o f \in Seq(Int) /\ Len(e \o f) = Len(e) + Len(f)
      BY <1>2, ConcatProperties
    <3> QED BY <1>2, <3>1
  <2> QED BY <1>3, <1>4, <2>1, SameSeq
<1>6. SumSeq(e \o f) = SumSeq(e) + SumSeq(f)
  BY <1>2, SumConcat
<1> QED BY <1>5, <1>6 DEF SumEffect, e, f, a

LEMMA SumEffectTail ==
  ASSUME NEW q \in Seq(Cmd), q # << >>
  PROVE  SumEffect(q) = Effect(Head(q)) + SumEffect(Tail(q))
<1>1. Tail(q) \in Seq(Cmd) /\ Len(Tail(q)) = Len(q) - 1 /\ Len(q) > 0 /\ Head(q) = q[1]
  OBVIOUS
<1> DEFINE e == Effects(q)
           a == Effects(Tail(q))
<1>2. /\ e \in Seq(Int) /\ Len(e) = Len(q)
      /\ \A i \in 1 .. Len(q) : e[i] = Effect(q[i])
  BY EffectsOf
<1>3. /\ a \in Seq(Int) /\ Len(a) = Len(q) - 1
      /\ \A i \in 1 .. Len(q) - 1 : a[i] = Effect(Tail(q)[i])
  BY <1>1, EffectsOf
<1> HIDE DEF e, a
<1>4. ASSUME NEW i \in 1 .. Len(q) - 1 PROVE a[i] = Tail(e)[i]
  <2>1. a[i] = Effect(Tail(q)[i])
    BY <1>3
  <2>2. i + 1 \in 1 .. Len(q) /\ Tail(q)[i] = q[i + 1]
    BY <1>1
  <2>3. e[i + 1] = Effect(q[i + 1])
    BY <1>2, <2>2
  <2>4. Tail(e)[i] = e[i + 1]
    BY <1>1, <1>2
  <2> QED BY <2>1, <2>2, <2>3, <2>4
<1>5. e # << >> /\ Head(e) = e[1] /\ e[1] = Effect(q[1])
  BY <1>1, <1>2
<1>6. a = Tail(e)
  <2>1. Tail(e) \in Seq(Int) /\ Len(Tail(e)) = Len(q) - 1
    BY <1>1, <1>2, <1>5
  <2> QED BY <1>3, <1>4, <2>1, SameSeq
<1>7. SumSeq(e) = Head(e) + SumSeq(Tail(e))
  BY <1>2, <1>5, SumTail
<1> QED BY <1>1, <1>2, <1>5, <1>6, <1>7 DEF SumEffect, e, a

LEMMA SumEffectNone ==
  ASSUME NEW q \in Seq(Cmd), \A i \in 1 .. Len(q) : Effect(q[i]) = 0
  PROVE  SumEffect(q) = 0
<1>1. Effects(q) \in Seq(Int) /\ \A i \in 1 .. Len(Effects(q)) : Effects(q)[i] = 0
  BY EffectsOf
<1> QED BY <1>1, SumZero DEF SumEffect

-----------------------------------------------------------------------------
(* handle_drain_bucket_cmd: what is sorted into the buckets is what was     *)
(* drained, in another order.                                               *)
LEMMA PicksExist ==
  ASSUME NEW q \in Seq(Cmd), NEW ids
  PROVE  \E r : r = [i \in 0 .. Len(q) |->
                       IF i = 0 THEN << >>
                       ELSE IF q[i].id \in ids THEN Append(r[i - 1], q[i]) ELSE r[i - 1]]
<1> DEFINE Ok(n, r) == r = [i \in 0 .. n |->
                              IF i = 0 THEN << >>
                              ELSE IF q[i].id \in ids THEN Append(r[i - 1], q[i]) ELSE r[i - 1]]
           P == {n \in 0 .. Len(q) : \E r : Ok(n, r)}
<1>1. Len(q) \in Nat
  OBVIOUS
<1>2. 0 \in P
  <2>1. Ok(0, [i \in 0 .. 0 |-> << >>])
    OBVIOUS
  <2>2. 0 \in 0 .. Len(q)
    BY <1>1
  <2> HIDE DEF Ok
  <2> QED BY <2>1, <2>2
<1>3. ASSUME NEW n \in 0 .. Len(q) - 1, n \in P PROVE n + 1 \in P
  <2>1. PICK r : Ok(n, r)
    BY <1>3
  <2> DEFINE last == IF q[n + 1].id \in ids THEN Append(r[n], q[n + 1]) ELSE r[n]
             s == [i \in 0 .. n + 1 |-> IF i = n + 1 THEN last ELSE r[i]]
  <2>2. Ok(n + 1, s)
    <3>1. ASSUME NEW i \in 0 .. n + 1
          PROVE  s[i] = IF i = 0 THEN << >>
                        ELSE IF q[i].id \in ids THEN Append(s[i - 1], q[i]) ELSE s[i - 1]
      <4>1. CASE i = n + 1
        <5>1. s[i] = last /\ i # 0 /\ i - 1 = n /\ s[i - 1] = r[n]
          BY <4>1
        <5> QED BY <4>1, <5>1
      <4>2. CASE i \in 0 .. n
        <5>1. r[i] = IF i = 0 THEN << >>
                     ELSE IF q[i].id \in ids THEN Append(r[i - 1], q[i]) ELSE r[i - 1]
          BY <2>1, <4>2
        <5>2. s[i] = r[i] /\ (i # 0 => s[i - 1] = r[i - 1])
          BY <4>2
        <5> QED BY <5>1, <5>2
      <4> QED BY <4>1, <4>2
    <3> QED BY <3>1
  <2>3. n + 1 \in 0 .. Len(q)
    BY <1>1
  <2> HIDE DEF Ok, s
  <2> QED BY <2>2, <2>3
<1>4. Len(q) \in P
  <2> HIDE DEF P
  <2>1. 0 .. Len(q) \subseteq P
    BY <1>1, <1>2, <1>3, BoundedInduction
  <2> QED BY <1>1, <2>1
<1> QED BY <1>4

LEMMA PicksAre ==
  ASSUME NEW q \in Seq(Cmd), NEW ids
  PROVE  /\ PickedUpTo(q, ids)[0] = << >>
         /\ \A i \in 1 .. Len(q) :
              PickedUpTo(q, ids)[i] =
                IF q[i].id \in ids THEN Append(PickedUpTo(q, ids)[i - 1], q[i])
                                   ELSE PickedUpTo(q, ids)[i - 1]
<1> DEFINE f == PickedUpTo(q, ids)
           G(r) == r = [i \in 0 .. Len(q) |->
                          IF i = 0 THEN << >>
                          ELSE IF q[i].id \in ids THEN Append(r[i - 1], q[i]) ELSE r[i - 1]]
<1>1. G(f)
  <2>1. \E r : G(r)
    BY PicksExist
  <2>2. f = CHOOSE r : G(r)
    BY Zenon DEF PickedUpTo
  <2> HIDE DEF G, f
  <2> QED BY <2>1, <2>2
<1>2. Len(q) \in Nat
  OBVIOUS
<1> HIDE DEF f
<1>3. \A i \in 0 .. Len(q) :
        f[i] = IF i = 0 THEN << >>
               ELSE IF q[i].id \in ids THEN Append(f[i - 1], q[i]) ELSE f[i - 1]
  BY <1>1
<1>4. f[0] = << >>
  BY <1>2, <1>3
<1>5. \A i \in 1 .. Len(q) :
        f[i] = IF q[i].id \in ids THEN Append(f[i - 1], q[i]) ELSE f[i - 1]
  BY <1>2, <1>3
<1> QED BY <1>4, <1>5 DEF f

LEMMA PicksTyped ==
  ASSUME NEW S \in SUBSET Cmd, NEW q \in Seq(S), NEW ids, NEW n \in 0 .. Len(q)
  PROVE  PickedUpTo(q, ids)[n] \in Seq(S)
<1> DEFINE f == PickedUpTo(q, ids)
           P == {k \in 0 .. Len(q) : f[k] \in Seq(S)}
<1>1. q \in Seq(Cmd) /\ Len(q) \in Nat
  BY SeqGrows
<1>2. f[0] = << >> /\ \A i \in 1 .. Len(q) : f[i] = IF q[i].id \in ids THEN Append(f[i - 1], q[i])
                                                                      ELSE f[i - 1]
  BY <1>1, PicksAre
<1> HIDE DEF f
<1>3. 0 \in P
  <2>1. << >> \in Seq(S) /\ 0 \in 0 .. Len(q)
    BY <1>1
  <2> QED BY <1>2, <2>1
<1>4. ASSUME NEW k \in 0 .. Len(q) - 1, k \in P PROVE k + 1 \in P
  <2>1. k + 1 \in 1 .. Len(q) /\ k + 1 - 1 = k /\ q[k + 1] \in S /\ f[k] \in Seq(S)
    BY <1>1, <1>4
  <2>2. f[k + 1] = IF q[k + 1].id \in ids THEN Append(f[k], q[k + 1]) ELSE f[k]
    BY <1>2, <2>1
  <2>3. f[k + 1] \in Seq(S)
    BY <2>1, <2>2
  <2> QED BY <1>1, <2>1, <2>3
<1>5. 0 .. Len(q) \subseteq P
  <2> HIDE DEF P
  <2> QED BY <1>1, <1>3, <1>4, BoundedInduction
<1> QED BY <1>5 DEF f

LEMMA PickedTyped ==
  ASSUME NEW S \in SUBSET Cmd, NEW q \in Seq(S), NEW ids
  PROVE  Picked(q, ids) \in Seq(S)
<1>1. Len(q) \in 0 .. Len(q)
  OBVIOUS
<1> QED BY <1>1, PicksTyped DEF Picked

(* Two picks that share nothing and leave nothing out move as much money as *)
(* what they were picked from.                                              *)
LEMMA PickedSums ==
  ASSUME NEW q \in Seq(Cmd), NEW A, NEW B,
         \A i \in 1 .. Len(q) : (q[i].id \in A) # (q[i].id \in B)
  PROVE  SumEffect(Picked(q, A)) + SumEffect(Picked(q, B)) = SumEffect(q)
<1> DEFINE a == PickedUpTo(q, A)
           b == PickedUpTo(q, B)
           t == Totals(Effects(q))
           P == {k \in 0 .. Len(q) : SumEffect(a[k]) + SumEffect(b[k]) = t[k]}
<1>1. /\ a[0] = << >>
      /\ \A i \in 1 .. Len(q) : a[i] = IF q[i].id \in A THEN Append(a[i - 1], q[i]) ELSE a[i - 1]
  BY PicksAre
<1>2. /\ b[0] = << >>
      /\ \A i \in 1 .. Len(q) : b[i] = IF q[i].id \in B THEN Append(b[i - 1], q[i]) ELSE b[i - 1]
  BY PicksAre
<1>3. /\ Effects(q) \in Seq(Int) /\ Len(Effects(q)) = Len(q) /\ Len(q) \in Nat
      /\ \A i \in 1 .. Len(q) : Effects(q)[i] = Effect(q[i])
  BY EffectsOf
<1>4. t[0] = 0 /\ \A i \in 1 .. Len(q) : t[i] = t[i - 1] + Effect(q[i])
  BY <1>3, TotalsAre
<1>5. \A k \in 0 .. Len(q) : a[k] \in Seq(Cmd) /\ b[k] \in Seq(Cmd)
  BY PicksTyped
<1> HIDE DEF a, b, t
<1>6. 0 \in P
  BY <1>1, <1>2, <1>3, <1>4, SumEffectEmpty
<1>7. ASSUME NEW k \in 0 .. Len(q) - 1, k \in P PROVE k + 1 \in P
  <2>1. k + 1 \in 1 .. Len(q) /\ k + 1 - 1 = k /\ q[k + 1] \in Cmd /\ k \in 0 .. Len(q)
    BY <1>3
  <2>2. /\ SumEffect(a[k]) \in Int /\ SumEffect(b[k]) \in Int /\ Effect(q[k + 1]) \in Int
        /\ SumEffect(Append(a[k], q[k + 1])) = SumEffect(a[k]) + Effect(q[k + 1])
        /\ SumEffect(Append(b[k], q[k + 1])) = SumEffect(b[k]) + Effect(q[k + 1])
    BY <1>5, <2>1, SumEffectIsInt, SumEffectAppend, EffectIsInt
  <2>3. t[k + 1] = t[k] + Effect(q[k + 1]) /\ SumEffect(a[k]) + SumEffect(b[k]) = t[k]
    BY <1>4, <1>7, <2>1
  <2>4. /\ a[k + 1] = IF q[k + 1].id \in A THEN Append(a[k], q[k + 1]) ELSE a[k]
        /\ b[k + 1] = IF q[k + 1].id \in B THEN Append(b[k], q[k + 1]) ELSE b[k]
    BY <1>1, <1>2, <2>1
  <2>5. CASE q[k + 1].id \in A
    <3>1. q[k + 1].id \notin B
      BY <2>1, <2>5
    <3>2. a[k + 1] = Append(a[k], q[k + 1]) /\ b[k + 1] = b[k]
      BY <2>5, <2>4, <3>1
    <3>3. SumEffect(a[k + 1]) + SumEffect(b[k + 1]) = t[k + 1]
      BY <2>2, <2>3, <3>2
    <3> QED BY <2>1, <3>3
  <2>6. CASE q[k + 1].id \notin A
    <3>1. q[k + 1].id \in B
      BY <2>1, <2>6
    <3>2. b[k + 1] = Append(b[k], q[k + 1]) /\ a[k + 1] = a[k]
      BY <2>6, <2>4, <3>1
    <3>3. SumEffect(a[k + 1]) + SumEffect(b[k + 1]) = t[k + 1]
      BY <2>2, <2>3, <3>2
    <3> QED BY <2>1, <3>3
  <2> QED BY <2>5, <2>6
<1>8. 0 .. Len(q) \subseteq P
  <2> HIDE DEF P
  <2> QED BY <1>3, <1>6, <1>7, BoundedInduction
<1>9. Len(q) \in P
  BY <1>3, <1>8
<1> QED BY <1>3, <1>9 DEF SumEffect, SumSeq, Picked, a, b, t

-----------------------------------------------------------------------------
(* Later in the same process: more orders are placed, no order gets its     *)
(* place in the table back, and none changes sides.                         *)
Later(n, tb, m, after) ==
  /\ n \in Nat /\ m \in Nat /\ n <= m
  /\ \A id \in DOMAIN after \cap (1 .. n) : id \in DOMAIN tb /\ after[id].side = tb[id].side

LEMMA HeardStays ==
  ASSUME NEW n, NEW tb, NEW m, NEW after, Later(n, tb, m, after)
  PROVE  /\ Heard(n, tb) \subseteq Heard(m, after)
         /\ Refusals(n, tb) \subseteq Refusals(m, after)
<1>1. ASSUME NEW cmd \in Heard(n, tb) PROVE cmd \in Heard(m, after)
  <2>1. cmd \in Cmd /\ Tells(n, tb, cmd)
    BY DEF Heard
  <2>2. cmd.id \in 1 .. n /\ cmd.id \in 1 .. m
    BY <2>1 DEF Tells, Later
  <2>3. Tells(m, after, cmd)
    BY <2>1, <2>2 DEF Tells, Later
  <2> QED BY <2>1, <2>3 DEF Heard
<1> QED BY <1>1 DEF Refusals

LEMMA QueuesStay ==
  ASSUME NEW n, NEW tb, NEW m, NEW after, Later(n, tb, m, after)
  PROVE  /\ \A q \in Seq(Heard(n, tb)) : q \in Seq(Heard(m, after))
         /\ \A q \in Seq(Refusals(n, tb)) : q \in Seq(Refusals(m, after))
         /\ \A q \in Seq(Heard(n, tb) \cup {Alert}) : q \in Seq(Heard(m, after) \cup {Alert})
<1>1. Heard(n, tb) \subseteq Heard(m, after) /\ Refusals(n, tb) \subseteq Refusals(m, after)
  BY HeardStays
<1>2. Heard(n, tb) \cup {Alert} \subseteq Heard(m, after) \cup {Alert}
  BY <1>1
<1> QED BY <1>1, <1>2, SeqGrows

LEMMA AlertTyped == Alert \in Cmd /\ Alert.kind = "ALERT" /\ Effect(Alert) = 0
<1>1. Alert \in Cmd /\ Alert.kind = "ALERT"
  BY DEF Alert, Notice, Cmd, Side
<1>2. Alert.price = 0 /\ Alert.qty = 0 /\ Alert.commission = 0 /\ Alert.side = "BUY"
  BY DEF Alert, Notice
<1> QED BY <1>1, <1>2 DEF Effect

LEMMA HeardTyped ==
  ASSUME NEW n \in Nat, NEW tb
  PROVE  /\ Heard(n, tb) \subseteq Cmd /\ Refusals(n, tb) \subseteq Cmd
         /\ Refusals(n, tb) \subseteq Heard(n, tb)
         /\ Heard(n, tb) \cup {Alert} \subseteq Cmd
         /\ \A q \in Seq(Heard(n, tb)) : q \in Seq(Cmd)
         /\ \A q \in Seq(Refusals(n, tb)) : q \in Seq(Cmd) /\ q \in Seq(Heard(n, tb))
         /\ \A q \in Seq(Heard(n, tb) \cup {Alert}) : q \in Seq(Cmd)
<1>1. Heard(n, tb) \subseteq Cmd /\ Refusals(n, tb) \subseteq Cmd
  BY DEF Heard, Refusals
<1>2. Heard(n, tb) \cup {Alert} \subseteq Cmd /\ Refusals(n, tb) \subseteq Heard(n, tb)
  BY <1>1, AlertTyped DEF Refusals
<1> QED BY <1>1, <1>2, SeqGrows

(* Only a leg moves money.                                                  *)
LEMMA NoLegNoEffect ==
  ASSUME NEW n, NEW tb, NEW cmd \in Heard(n, tb), cmd.kind # "LEG"
  PROVE  Effect(cmd) = 0
BY DEF Heard, Tells, Effect

LEMMA FeeIsInt == ASSUME NEW x \in Int PROVE FeeOf(x) \in Int
BY AuditAssumption DEF FeeOf

LEMMA ReservedIsInt ==
  ASSUME placed \in Nat, Book(placed, TableOrder, table)
  PROVE  Reserved \in Int
<1>1. ASSUME NEW id \in 1 .. placed PROVE ReservedFor(id) \in Int
  <2>1. CASE id \in DOMAIN table
    <3> DEFINE u == Unfilled(table[id])
               p == table[id].event_price
    <3>1. u \in Int /\ p \in Int
      BY <2>1 DEF Book, TableOrder, Unfilled
    <3> HIDE DEF u, p
    <3>2. u * p \in Int
      BY <3>1
    <3>3. ReserveOf(u, p) \in Int
      BY <3>2, FeeIsInt DEF ReserveOf
    <3> QED BY <3>3 DEF ReservedFor, u, p
  <2> QED BY <2>1 DEF ReservedFor
<1> DEFINE s == [id \in 1 .. placed |-> ReservedFor(id)]
<1>2. s \in Seq(Int)
  BY <1>1
<1> QED BY <1>2, SumType DEF Reserved

(* The amounts of the identity are numbers.                                 *)
LEMMA Amounts ==
  ASSUME AuditTypeOK
  PROVE  /\ cash \in Int /\ emitted \in Int /\ astray \in Int /\ exchange.usdt \in Int
         /\ OpenPositionCost \in Int /\ Reserved \in Int
         /\ SumEffect(ws_queue) \in Int /\ SumEffect(taken) \in Int
         /\ ws_queue \in Seq(Cmd) /\ taken \in Seq(Cmd) /\ rest_ring \in Seq(Cmd)
<1>1. cash \in Int /\ emitted \in Int /\ astray \in Int /\ exchange.usdt \in Int /\ placed \in Nat
  BY DEF AuditTypeOK, MoneyOK, VenueOK
<1>2. OpenPositionCost \in Int
  <2>1. holding.entry_price \in Int /\ holding.quantity \in Int /\ holding.entry_fee \in Int
    BY DEF AuditTypeOK, MoneyOK, HoldingOK
  <2>2. holding.entry_price * holding.quantity \in Int
    BY <2>1
  <2> QED BY <2>1, <2>2 DEF OpenPositionCost
<1>3. Reserved \in Int
  BY <1>1, ReservedIsInt DEF AuditTypeOK, TableOK
<1>4. ws_queue \in Seq(Cmd) /\ taken \in Seq(Cmd) /\ rest_ring \in Seq(Cmd)
  BY <1>1, HeardTyped DEF AuditTypeOK, QueuesOK
<1> QED BY <1>1, <1>2, <1>3, <1>4, SumEffectIsInt

(* OrderManager_Submit: a new order is the next number, and is known to the *)
(* table and the venue alike.  The table may have just lost a dead order.   *)
LEMMA PlaceKeeps ==
  ASSUME VenueOK, TableOK, placed \in Nat,
         NEW rest, Book(placed, TableOrder, rest), Later(placed, table, placed, rest),
         NEW side \in Side, NEW qty \in Nat, qty > 0, NEW price \in Int,
         Place(rest, side, qty, price)
  PROVE  /\ VenueOK' /\ TableOK' /\ placed' = placed + 1 /\ exchange'.usdt = exchange.usdt
         /\ Later(placed, table, placed', table')
<1> DEFINE id == placed + 1
           new == [side |-> side, requested |-> qty, filled |-> 0, event_price |-> price]
           ord == [side |-> side, left |-> qty, untouched |-> TRUE]
           op == exchange.open
<1>1. /\ placed' = id /\ table' = With(rest, id, new)
      /\ exchange' = [exchange EXCEPT !.open = With(op, id, ord)]
      /\ awaiting' = awaiting \cup {id}
  BY DEF Place
<1>2. new \in TableOrder /\ new.side = side /\ ord \in OpenOrder /\ ord.side = side /\ ord.left > 0
  BY DEF TableOrder, OpenOrder
<1>3. /\ exchange \in [usdt : Int, coins : Int, open : {op}, in_quote : BOOLEAN]
      /\ Book(placed, OpenOrder, op) /\ \A i \in DOMAIN op : op[i].left > 0
      /\ awaiting \subseteq 1 .. placed
      /\ \A i \in DOMAIN table \cap DOMAIN op : op[i].side = table[i].side
  BY DEF VenueOK, TableOK
<1> HIDE DEF new, ord, op
<1> DEFINE o2 == With(op, id, ord)
           t2 == With(rest, id, new)
<1>4. /\ Book(id, OpenOrder, o2) /\ DOMAIN o2 = DOMAIN op \cup {id} /\ o2[id] = ord
      /\ \A i \in DOMAIN op : o2[i] = op[i] /\ i # id
  <2>1. Book(placed, OpenOrder, op) /\ ord \in OpenOrder
    BY <1>2, <1>3
  <2> QED BY <2>1 DEF Book, With
<1>5. /\ Book(id, TableOrder, t2) /\ DOMAIN t2 = DOMAIN rest \cup {id} /\ t2[id] = new
      /\ \A i \in DOMAIN rest : t2[i] = rest[i] /\ i # id
  BY <1>2 DEF Book, With
<1> HIDE DEF o2, t2
<1>6. exchange'.open = o2 /\ exchange'.usdt = exchange.usdt
      /\ exchange' \in [usdt : Int, coins : Int, open : {o2}, in_quote : BOOLEAN]
  BY <1>1, <1>3 DEF o2
<1>7. table' = t2
  BY <1>1 DEF t2
<1>8. \A i \in DOMAIN rest : i \in 1 .. placed /\ i \in DOMAIN table /\ rest[i].side = table[i].side
  BY DEF Book, Later
<1>9. Later(placed, table, placed', table')
  BY <1>1, <1>5, <1>7, <1>8 DEF Later
<1>10. \A i \in DOMAIN o2 : o2[i].left > 0
  BY <1>2, <1>3, <1>4
<1>11. awaiting' \subseteq 1 .. id
  BY <1>1, <1>3
<1>12. VenueOK'
  BY <1>1, <1>4, <1>6, <1>10, <1>11 DEF VenueOK
<1>13. \A i \in DOMAIN t2 \cap DOMAIN o2 : o2[i].side = t2[i].side
  <2> SUFFICES ASSUME NEW i \in DOMAIN t2 \cap DOMAIN o2 PROVE o2[i].side = t2[i].side
    OBVIOUS
  <2>1. CASE i = id
    BY <1>2, <1>4, <1>5, <2>1
  <2>2. CASE i # id
    <3>1. i \in DOMAIN rest /\ i \in DOMAIN op
      BY <1>4, <1>5, <2>2
    <3>2. t2[i] = rest[i] /\ o2[i] = op[i] /\ i \in DOMAIN table
      BY <1>4, <1>5, <1>8, <3>1
    <3> QED BY <1>3, <1>8, <3>1, <3>2
  <2> QED BY <2>1, <2>2
<1>14. TableOK'
  BY <1>1, <1>5, <1>6, <1>7, <1>13 DEF TableOK
<1> QED BY <1>1, <1>6, <1>9, <1>12, <1>14

-----------------------------------------------------------------------------
(* Steps that leave the table alone, and steps that leave the venue alone.  *)
LEMMA VenueMoves ==
  ASSUME VenueOK, TableOK, UNCHANGED <<table, placed>>, awaiting' \subseteq awaiting,
         NEW op, Book(placed, OpenOrder, op),
         exchange' \in [usdt : Int, coins : Int, open : {op}, in_quote : BOOLEAN],
         \A i \in DOMAIN op : /\ i \in DOMAIN exchange.open /\ op[i].left > 0
                              /\ op[i].side = exchange.open[i].side
  PROVE  VenueOK' /\ TableOK'
<1>1. exchange'.open = op
  OBVIOUS
<1>2. VenueOK'
  BY <1>1 DEF VenueOK
<1> QED BY <1>1, <1>2 DEF TableOK

LEMMA TableMoves ==
  ASSUME VenueOK, TableOK, placed \in Nat, UNCHANGED <<exchange, awaiting, placed>>,
         Book(placed, TableOrder, table'),
         \A i \in DOMAIN table' : i \in DOMAIN table /\ table'[i].side = table[i].side
  PROVE  VenueOK' /\ TableOK' /\ Later(placed, table, placed', table')
<1>1. VenueOK'
  BY DEF VenueOK
<1>2. TableOK'
  BY DEF TableOK
<1> QED BY <1>1, <1>2 DEF Later

(* A table that is as it was, or later, fits the queues that stay.          *)
LEMMA QueuesKept ==
  ASSUME QueuesOK, Later(placed, table, placed', table'),
         UNCHANGED <<rest_ring, ws_queue, reconcile_queue, taken>>
  PROVE  QueuesOK'
BY QueuesStay DEF QueuesOK

LEMMA SameIsLater ==
  ASSUME placed \in Nat, UNCHANGED <<placed, table>>
  PROVE  Later(placed, table, placed', table')
BY DEF Later

(* What the pack says goes stale only by a move that is noted.              *)
LEMMA PackStays ==
  ASSUME PackCurrent, UNCHANGED <<pack, moved, cash, emitted, table, holding, placed>>
  PROVE  PackCurrent'
<1>1. ExpectedFreeCash(cash + emitted)' = ExpectedFreeCash(cash + emitted)
  BY DEF ExpectedFreeCash, OpenPositionCost, Reserved, ReservedFor
<1> QED BY <1>1 DEF PackCurrent

LEMMA MovedIsNoted == ASSUME moved' = Both PROVE PackCurrent' /\ SampleCurrent'
BY DEF PackCurrent, SampleCurrent, Both

(* Nothing of the identity is touched.                                      *)
LEMMA AccountStays ==
  ASSUME CashAccounted, stage' # "down" => stage # "down", exchange'.usdt = exchange.usdt,
         UNCHANGED <<cash, emitted, astray, holding, ws_queue, taken>>
  PROVE  CashAccounted'
BY DEF CashAccounted, UnderWay, OpenPositionCost

-----------------------------------------------------------------------------
LEMMA PlacesStep == AuditInv /\ Places => AuditInv'
<1> SUFFICES ASSUME AuditInv, Places PROVE AuditInv'
  OBVIOUS
<1> USE DEF AuditInv, AuditTypeOK
<1>1. /\ stage = "submit" /\ moved' = Both
      /\ UNCHANGED <<rest_ring, ws_queue, reconcile_queue, stage, taken, holding, cash,
                     emitted, pack, poll, cuts, astray>>
  BY DEF Places
<1>2. placed \in Nat /\ Book(placed, TableOrder, table) /\ Later(placed, table, placed, table)
  BY DEF MoneyOK, TableOK, Later
<1>3. /\ VenueOK' /\ TableOK' /\ placed' = placed + 1 /\ exchange'.usdt = exchange.usdt
      /\ Later(placed, table, placed', table')
  <2>1. CASE \E q \in 1 .. MaxUnits : Place(table, "BUY", q, GatePrice)
    <3>1. PICK q \in 1 .. MaxUnits : Place(table, "BUY", q, GatePrice)
      BY <2>1
    <3>2. q \in Nat /\ q > 0 /\ GatePrice \in Int /\ "BUY" \in Side
      BY AuditAssumption DEF Side
    <3> QED BY <1>2, <3>1, <3>2, PlaceKeeps
  <2>2. CASE holding.quantity > 0 /\ Place(table, "SELL", holding.quantity, holding.entry_price)
    <3>1. holding.quantity \in Nat /\ holding.entry_price \in Int /\ "SELL" \in Side
      BY DEF MoneyOK, HoldingOK, Side
    <3> QED BY <1>2, <2>2, <3>1, PlaceKeeps
  <2> QED BY <2>1, <2>2 DEF Places
<1>4. QueuesOK'
  BY <1>1, <1>3, QueuesKept
<1>5. MoneyOK' /\ StageOK'
  BY <1>1, <1>2, <1>3 DEF MoneyOK, HoldingOK, StageOK
<1>6. CashAccounted'
  BY <1>1, <1>3, AccountStays
<1>7. PackCurrent' /\ SampleCurrent'
  BY <1>1, MovedIsNoted
<1> QED BY <1>3, <1>4, <1>5, <1>6, <1>7

-----------------------------------------------------------------------------
(* The venue.                                                               *)
LEMMA NoticeTyped ==
  ASSUME NEW kind \in {"LEG", "END", "FAIL", "ALERT"}, NEW id \in Nat, NEW side \in Side
  PROVE  /\ Notice(kind, id, side) \in Cmd
         /\ Notice(kind, id, side).kind = kind /\ Notice(kind, id, side).id = id
         /\ Notice(kind, id, side).side = side /\ Notice(kind, id, side).qty = 0
         /\ Notice(kind, id, side).price = 0 /\ Notice(kind, id, side).commission = 0
BY DEF Notice, Cmd

LEMMA SilentTyped ==
  ASSUME NEW kind \in {"END", "FAIL"}, placed \in Nat, NEW id \in 1 .. placed, NEW side \in Side
  PROVE  /\ Notice(kind, id, side) \in Heard(placed, table)
         /\ Effect(Notice(kind, id, side)) = 0
         /\ kind = "FAIL" => Notice(kind, id, side) \in Refusals(placed, table)
<1>1. id \in Nat
  OBVIOUS
<1> DEFINE c == Notice(kind, id, side)
<1>2. /\ c \in Cmd /\ c.kind = kind /\ c.id = id /\ c.qty = 0 /\ c.price = 0
      /\ c.commission = 0
  BY <1>1, NoticeTyped
<1> HIDE DEF c
<1>3. c \in Heard(placed, table)
  BY <1>2 DEF Heard, Tells
<1>4. Effect(c) = 0
  BY <1>2, <1>3, NoLegNoEffect
<1>5. kind = "FAIL" => c \in Refusals(placed, table)
  BY <1>2, <1>3 DEF Refusals
<1> QED BY <1>3, <1>4, <1>5 DEF c

(* A report is heard, or missed and noted, or told to a dead process.       *)
LEMMA RelayKeeps ==
  ASSUME AuditTypeOK, CashAccounted, NEW cmd \in Heard(placed, table), Relays(cmd),
         exchange'.usdt = exchange.usdt + Effect(cmd),
         UNCHANGED <<processVars, placed>>
  PROVE  QueuesOK' /\ MoneyOK' /\ StageOK' /\ CashAccounted'
<1> USE DEF AuditTypeOK
<1>1. cmd \in Cmd /\ Effect(cmd) \in Int
  BY EffectIsInt DEF Heard
<1>2. /\ UNCHANGED <<awaiting, rest_ring, reconcile_queue, table, stage, taken, holding, cash,
                     emitted, pack, poll, placed>>
  BY DEF processVars
<1>3. OpenPositionCost' = OpenPositionCost
  BY <1>2 DEF OpenPositionCost
<1>4. /\ cash \in Int /\ emitted \in Int /\ astray \in Int /\ exchange.usdt \in Int
      /\ OpenPositionCost \in Int
      /\ SumEffect(ws_queue) \in Int /\ SumEffect(taken) \in Int /\ ws_queue \in Seq(Cmd)
  BY Amounts
<1>5. CASE stage = "down"
  <2>1. UNCHANGED <<ws_queue, astray>>
    BY <1>5 DEF Relays
  <2> QED BY <1>2, <1>5, <2>1 DEF QueuesOK, MoneyOK, HoldingOK, StageOK, CashAccounted
<1>6. CASE stage # "down" /\ Hears(cmd)
  <2>1. ws_queue' = Append(ws_queue, cmd) /\ UNCHANGED astray
    BY <1>6 DEF Hears
  <2>2. ws_queue' \in Seq(Heard(placed, table))
    BY <2>1 DEF QueuesOK
  <2>3. SumEffect(ws_queue') = SumEffect(ws_queue) + Effect(cmd)
    BY <1>1, <1>4, <2>1, SumEffectAppend
  <2>4. UnderWay' = UnderWay + Effect(cmd)
    BY <1>1, <1>2, <1>4, <2>3 DEF UnderWay
  <2>5. QueuesOK' /\ MoneyOK' /\ StageOK'
    BY <1>2, <1>6, <2>1, <2>2 DEF QueuesOK, MoneyOK, HoldingOK, StageOK
  <2>6. UnderWay \in Int /\ astray' = astray /\ cash' = cash /\ emitted' = emitted
    BY <1>2, <1>4, <2>1 DEF UnderWay
  <2>7. CashAccounted'
    BY <1>1, <1>2, <1>3, <1>4, <1>6, <2>4, <2>6 DEF CashAccounted
  <2> QED BY <2>5, <2>7
<1>7. CASE stage # "down" /\ Misses(cmd)
  <2>1. astray' = astray + Effect(cmd) /\ UNCHANGED ws_queue
    BY <1>7 DEF Misses
  <2>2. QueuesOK' /\ MoneyOK' /\ StageOK'
    BY SMTT(30), <1>1, <1>2, <1>4, <2>1 DEF QueuesOK, MoneyOK, HoldingOK, StageOK
  <2>3. UnderWay' = UnderWay /\ UnderWay \in Int /\ cash' = cash /\ emitted' = emitted
    BY <1>2, <1>4, <2>1 DEF UnderWay
  <2>4. CashAccounted'
    BY <1>1, <1>2, <1>3, <1>4, <1>7, <2>1, <2>3 DEF CashAccounted
  <2> QED BY <2>2, <2>4
<1> QED BY <1>5, <1>6, <1>7 DEF Relays

LEMMA ExecutesStep ==
  ASSUME AuditInv, NEW id \in DOMAIN exchange.open, Executes(id), moved' = Both
  PROVE  AuditInv'
<1> USE DEF AuditInv, AuditTypeOK
<1> DEFINE op == exchange.open
           o == exchange.open[id]
<1>1. /\ exchange \in [usdt : Int, coins : Int, open : {op}, in_quote : BOOLEAN]
      /\ Book(placed, OpenOrder, op) /\ placed \in Nat
      /\ \A i \in DOMAIN op : op[i].left > 0
      /\ \A i \in DOMAIN table \cap DOMAIN op : op[i].side = table[i].side
  BY DEF VenueOK, TableOK, MoneyOK
<1>2. o \in OpenOrder /\ id \in 1 .. placed /\ id \in Nat /\ o.side \in Side /\ o.left \in Nat
  BY <1>1 DEF Book, OpenOrder
<1> DEFINE Leg(q, p) == [Notice("LEG", id, o.side) EXCEPT
                           !.qty = q, !.price = p, !.complete = (q = o.left),
                           !.commission = IF exchange.in_quote THEN FeeOf(p * q) - Discount
                                                               ELSE 0]
<1>3. PICK q \in 1 .. o.left, p \in Prices :
        /\ exchange' = [exchange EXCEPT
                          !.usdt  = @ + Effect(Leg(q, p)),
                          !.coins = @ + (IF o.side = "BUY" THEN q ELSE -q),
                          !.open  = IF q = o.left THEN Without(@, id)
                                    ELSE With(@, id, [o EXCEPT !.left = @ - q,
                                                               !.untouched = FALSE])]
        /\ Relays(Leg(q, p)) /\ UNCHANGED <<processVars, placed>>
  BY DEF Executes
<1> DEFINE cmd == Leg(q, p)
           o2 == [o EXCEPT !.left = @ - q, !.untouched = FALSE]
           after == IF q = o.left THEN Without(op, id) ELSE With(op, id, o2)
<1>4. q \in Nat /\ q > 0 /\ p \in Nat
  BY <1>2, <1>3, AuditAssumption
<1>5. (IF exchange.in_quote THEN FeeOf(p * q) - Discount ELSE 0) \in Int
  <2>1. p * q \in Int
    BY <1>4
  <2>2. Discount \in Int
    BY <1>3, AuditAssumption
  <2> QED BY <2>1, <2>2, FeeIsInt
<1>6. /\ cmd \in Cmd /\ cmd.kind = "LEG" /\ cmd.id = id /\ cmd.side = o.side /\ cmd.qty = q
  <2> DEFINE told == Notice("LEG", id, o.side)
             com == IF exchange.in_quote THEN FeeOf(p * q) - Discount ELSE 0
  <2>1. told \in Cmd /\ told.kind = "LEG" /\ told.id = id /\ told.side = o.side
    BY <1>2, NoticeTyped
  <2>2. com \in Int
    BY <1>5
  <2> HIDE DEF told, com
  <2>3. ASSUME NEW b \in BOOLEAN
        PROVE  LET c == [told EXCEPT !.qty = q, !.price = p, !.complete = b, !.commission = com]
               IN  c \in Cmd /\ c.kind = "LEG" /\ c.id = id /\ c.side = told.side /\ c.qty = q
    BY <1>4, <2>1, <2>2 DEF Cmd
  <2>4. (q = o.left) \in BOOLEAN
    OBVIOUS
  <2> QED BY <2>1, <2>3, <2>4 DEF told, com
<1> HIDE DEF cmd
<1>7. cmd \in Heard(placed, table)
  BY <1>1, <1>2, <1>4, <1>6 DEF Heard, Tells
<1>8. Effect(cmd) \in Int
  BY <1>6, EffectIsInt
<1>9. /\ Book(placed, OpenOrder, after)
      /\ \A i \in DOMAIN after : i \in DOMAIN op /\ after[i].left > 0 /\ after[i].side = op[i].side
  <2>1. CASE q = o.left
    <3>1. Book(placed, OpenOrder, Without(op, id))
      BY <1>1, BookLoses
    <3>2. after = Without(op, id)
      BY <2>1
    <3> HIDE DEF after, op, o
    <3>3. /\ DOMAIN after = DOMAIN op \ {id} /\ \A i \in DOMAIN op \ {id} : after[i] = op[i]
      BY <3>2, OneLess
    <3> QED BY <1>1, <3>1, <3>2, <3>3
  <2>2. CASE q # o.left
    <3>1. o2 \in OpenOrder /\ o2.left > 0 /\ o2.side = o.side
      <4>1. o \in OpenOrder /\ q \in 1 .. o.left /\ q # o.left
        BY <1>2, <1>3, <2>2
      <4> HIDE DEF o
      <4>2. o.left - q \in Nat /\ o.left - q > 0
        BY <4>1 DEF OpenOrder
      <4> QED BY <4>1, <4>2 DEF OpenOrder
    <3> HIDE DEF o2
    <3>2. /\ Book(placed, OpenOrder, With(op, id, o2))
          /\ DOMAIN With(op, id, o2) = DOMAIN op
          /\ With(op, id, o2)[id] = o2
          /\ \A i \in DOMAIN op \ {id} : With(op, id, o2)[i] = op[i]
      BY <1>1, <3>1, BookChanges
    <3>3. after = With(op, id, o2)
      BY <2>2
    <3> HIDE DEF after, o
    <3>4. ASSUME NEW i \in DOMAIN op PROVE after[i].left > 0 /\ after[i].side = op[i].side
      <4>1. CASE i = id
        BY <3>1, <3>2, <3>3, <4>1 DEF o
      <4>2. CASE i # id
        BY <1>1, <3>2, <3>3, <4>2
      <4> QED BY <4>1, <4>2
    <3> QED BY <3>2, <3>3, <3>4
  <2> QED BY <2>1, <2>2
<1>10. /\ exchange'.usdt = exchange.usdt + Effect(cmd)
       /\ exchange' \in [usdt : Int, coins : Int, open : {after}, in_quote : BOOLEAN]
  <2>1. exchange' = [exchange EXCEPT
                       !.usdt = @ + Effect(cmd),
                       !.coins = @ + (IF o.side = "BUY" THEN q ELSE -q), !.open = after]
    BY <1>3 DEF cmd
  <2> DEFINE d == IF o.side = "BUY" THEN q ELSE -q
  <2>2. d \in Int /\ Effect(cmd) \in Int
    BY <1>4, <1>8
  <2>3. /\ exchange \in [usdt : Int, coins : Int, open : {op}, in_quote : BOOLEAN]
        /\ exchange' = [exchange EXCEPT !.usdt = @ + Effect(cmd), !.coins = @ + d, !.open = after]
    BY <1>1, <2>1
  <2> HIDE DEF after, d, op
  <2>4. /\ DOMAIN exchange = {"usdt", "coins", "open", "in_quote"}
        /\ exchange.usdt \in Int /\ exchange.coins \in Int /\ exchange.in_quote \in BOOLEAN
    BY <2>3
  <2>5. exchange' = [usdt |-> exchange.usdt + Effect(cmd), coins |-> exchange.coins + d,
                     open |-> after, in_quote |-> exchange.in_quote]
    BY <2>3, <2>4
  <2> QED BY <2>2, <2>4, <2>5
<1>11. UNCHANGED <<table, placed>> /\ awaiting' \subseteq awaiting
  BY <1>3 DEF processVars
<1>12. VenueOK' /\ TableOK'
  <2> HIDE DEF after
  <2> QED BY <1>9, <1>10, <1>11, VenueMoves
<1>13. QueuesOK' /\ MoneyOK' /\ StageOK' /\ CashAccounted'
  BY <1>3, <1>7, <1>10, RelayKeeps DEF cmd
<1> QED BY <1>12, <1>13, MovedIsNoted

(* An order that leaves the venue's book leaves both books as they were.    *)
LEMMA OrderGone ==
  ASSUME AuditTypeOK, NEW id, exchange' = [exchange EXCEPT !.open = Without(@, id)],
         UNCHANGED <<table, placed>>, awaiting' \subseteq awaiting
  PROVE  VenueOK' /\ TableOK' /\ exchange'.usdt = exchange.usdt
<1> DEFINE op == exchange.open
           after == Without(op, id)
<1>1. /\ exchange \in [usdt : Int, coins : Int, open : {op}, in_quote : BOOLEAN]
      /\ Book(placed, OpenOrder, op) /\ \A i \in DOMAIN op : op[i].left > 0
      /\ VenueOK /\ TableOK
  BY DEF AuditTypeOK, VenueOK
<1>2. Book(placed, OpenOrder, after)
  BY <1>1, BookLoses
<1>3. exchange' = [exchange EXCEPT !.open = after]
  OBVIOUS
<1>4. DOMAIN after = DOMAIN op \ {id} /\ \A i \in DOMAIN op \ {id} : after[i] = op[i]
  BY OneLess
<1> HIDE DEF after
<1>5. /\ exchange'.usdt = exchange.usdt
      /\ exchange' \in [usdt : Int, coins : Int, open : {after}, in_quote : BOOLEAN]
  BY <1>1, <1>3
<1>6. \A i \in DOMAIN after : /\ i \in DOMAIN exchange.open /\ after[i].left > 0
                              /\ after[i].side = exchange.open[i].side
  BY <1>1, <1>4
<1> HIDE DEF op
<1> QED BY <1>1, <1>2, <1>5, <1>6, VenueMoves

LEMMA EndsShortStep ==
  ASSUME AuditInv, NEW id \in DOMAIN exchange.open, EndsShort(id), moved' = Both
  PROVE  AuditInv'
<1> USE DEF AuditInv, AuditTypeOK
<1> DEFINE cmd == Notice("END", id, exchange.open[id].side)
<1>1. placed \in Nat /\ id \in 1 .. placed /\ exchange.open[id].side \in Side
  BY DEF MoneyOK, VenueOK, Book, OpenOrder
<1>2. cmd \in Heard(placed, table) /\ Effect(cmd) = 0
  BY <1>1, SilentTyped
<1>3. /\ exchange' = [exchange EXCEPT !.open = Without(@, id)]
      /\ (stage # "down" /\ ws_queue' = Append(ws_queue, cmd)) \/ UNCHANGED ws_queue
      /\ UNCHANGED <<astray, placed, awaiting, rest_ring, reconcile_queue, table, stage, taken,
                     holding, cash, emitted, pack, poll>>
  BY DEF EndsShort, processVars
<1> HIDE DEF cmd
<1>4. VenueOK' /\ TableOK' /\ exchange'.usdt = exchange.usdt
  BY <1>3, OrderGone
<1>5. SumEffect(ws_queue') = SumEffect(ws_queue) /\ ws_queue' \in Seq(Heard(placed, table))
  <2>1. ws_queue \in Seq(Cmd) /\ ws_queue \in Seq(Heard(placed, table)) /\ cmd \in Cmd
    BY <1>2, Amounts DEF Heard, QueuesOK
  <2>2. SumEffect(Append(ws_queue, cmd)) = SumEffect(ws_queue) + 0 /\ SumEffect(ws_queue) \in Int
    BY <1>2, <2>1, SumEffectAppend, SumEffectIsInt
  <2>3. CASE ws_queue' = Append(ws_queue, cmd)
    <3>1. Append(ws_queue, cmd) \in Seq(Heard(placed, table))
      BY <1>2, <2>1
    <3> QED BY <2>2, <2>3, <3>1
  <2>4. CASE UNCHANGED ws_queue
    BY <2>1, <2>4
  <2> QED BY <1>3, <2>3, <2>4
<1>6. QueuesOK'
  BY <1>3, <1>5 DEF QueuesOK
<1>7. MoneyOK' /\ StageOK'
  BY <1>3 DEF MoneyOK, HoldingOK, StageOK
<1>8. UnderWay' = UnderWay
  BY <1>3, <1>5 DEF UnderWay
<1>9. CashAccounted'
  BY <1>3, <1>4, <1>8 DEF CashAccounted, OpenPositionCost
<1> QED BY <1>4, <1>6, <1>7, <1>9, MovedIsNoted

LEMMA FailsStep ==
  ASSUME AuditInv, NEW id \in awaiting, Fails(id), moved' = Both
  PROVE  AuditInv'
<1> USE DEF AuditInv, AuditTypeOK
<1> DEFINE cmd == Notice("FAIL", id, "BUY")
<1>1. placed \in Nat /\ id \in 1 .. placed /\ "BUY" \in Side
  BY DEF MoneyOK, VenueOK, Side
<1>2. cmd \in Refusals(placed, table)
  BY <1>1, SilentTyped
<1>3. /\ stage # "down" /\ awaiting' = awaiting \ {id} /\ rest_ring' = Append(rest_ring, cmd)
      /\ UNCHANGED <<ws_queue, reconcile_queue, table, stage, taken, holding, cash, emitted,
                     pack, poll, placed, astray>>
  BY DEF Fails
<1> HIDE DEF cmd
<1>4. VenueOK' /\ TableOK' /\ exchange'.usdt = exchange.usdt
  <2>1. CASE UNCHANGED exchange
    BY <1>3, <2>1 DEF VenueOK, TableOK
  <2>2. CASE exchange' = [exchange EXCEPT !.open = Without(@, id)]
    <3>1. UNCHANGED <<table, placed>> /\ awaiting' \subseteq awaiting
      BY <1>3
    <3> QED BY <2>2, <3>1, OrderGone
  <2> QED BY <2>1, <2>2 DEF Fails
<1>5. QueuesOK'
  BY <1>2, <1>3 DEF QueuesOK
<1>6. MoneyOK' /\ StageOK'
  BY <1>3 DEF MoneyOK, HoldingOK, StageOK
<1>7. CashAccounted'
  BY <1>3, <1>4, AccountStays
<1> QED BY <1>4, <1>5, <1>6, <1>7, MovedIsNoted

LEMMA VenueStep == AuditInv /\ Venue => AuditInv'
BY ExecutesStep, EndsShortStep, FailsStep DEF Venue

-----------------------------------------------------------------------------
(* The drain: what was under way is under way still.                        *)
LEMMA DrainsStep == AuditInv /\ DrainsAll => AuditInv'
<1> SUFFICES ASSUME AuditInv, DrainsAll PROVE AuditInv'
  OBVIOUS
<1> USE DEF AuditInv, AuditTypeOK
<1> DEFINE q == rest_ring \o ws_queue
           H == Heard(placed, table)
<1>1. /\ stage = "submit" /\ stage' = "book"
      /\ taken' = Closes(q) \o Opens(q) \o reconcile_queue
      /\ rest_ring' = << >> /\ ws_queue' = << >> /\ reconcile_queue' = << >>
      /\ UNCHANGED <<exchange, awaiting, table, holding, emitted, cash, pack, poll, placed,
                     cuts, astray, moved>>
  BY DEF DrainsAll, bookVars
<1>2. /\ rest_ring \in Seq(Refusals(placed, table)) /\ ws_queue \in Seq(H)
      /\ reconcile_queue \in Seq({Alert}) /\ placed \in Nat /\ taken = << >>
  BY <1>1 DEF QueuesOK, MoneyOK, StageOK
<1>3. /\ H \subseteq Cmd /\ H \cup {Alert} \subseteq Cmd /\ rest_ring \in Seq(H)
      /\ rest_ring \in Seq(Cmd) /\ ws_queue \in Seq(Cmd)
  BY <1>2, HeardTyped
<1>4. reconcile_queue \in Seq(Cmd) /\ reconcile_queue \in Seq(H \cup {Alert})
  <2>1. {Alert} \subseteq Cmd /\ {Alert} \subseteq H \cup {Alert}
    BY <1>3
  <2> HIDE DEF H
  <2> QED BY <1>2, <2>1, SeqGrows
<1>5. \A c \in H : c.id \in 1 .. placed
  BY DEF Heard, Tells
<1> HIDE DEF H
<1>6. q \in Seq(H) /\ q \in Seq(Cmd)
  BY <1>2, <1>3
<1>7. SumEffect(q) = SumEffect(ws_queue)
  <2>1. \A i \in 1 .. Len(rest_ring) : Effect(rest_ring[i]) = 0
    <3> SUFFICES ASSUME NEW i \in 1 .. Len(rest_ring) PROVE Effect(rest_ring[i]) = 0
      OBVIOUS
    <3>1. rest_ring[i] \in Refusals(placed, table)
      BY <1>2
    <3>2. rest_ring[i] \in Heard(placed, table) /\ rest_ring[i].kind # "LEG"
      BY <3>1 DEF Refusals
    <3> QED BY <3>2, NoLegNoEffect
  <2>2. SumEffect(rest_ring) = 0 /\ SumEffect(ws_queue) \in Int
    BY <1>3, <2>1, SumEffectNone, SumEffectIsInt
  <2>3. SumEffect(q) = SumEffect(rest_ring) + SumEffect(ws_queue)
    BY <1>3, SumEffectConcat
  <2> QED BY <2>2, <2>3
<1>8. SumEffect(reconcile_queue) = 0
  <2>1. \A i \in 1 .. Len(reconcile_queue) : Effect(reconcile_queue[i]) = 0
    BY <1>2, AlertTyped
  <2> QED BY <1>4, <2>1, SumEffectNone
<1> HIDE DEF q
<1>9. Closes(q) \in Seq(H) /\ Opens(q) \in Seq(H)
  BY <1>3, <1>6, PickedTyped DEF Closes, Opens
<1>10. SumEffect(Closes(q)) + SumEffect(Opens(q)) = SumEffect(q)
  <2>1. ASSUME NEW i \in 1 .. Len(q)
        PROVE  (q[i].id \in SellIds) # (q[i].id \in 1 .. placed \ SellIds)
    <3>1. q[i].id \in 1 .. placed
      BY <1>5, <1>6
    <3> QED BY <3>1
  <2> QED BY <1>6, <2>1, PickedSums DEF Closes, Opens
<1>11. /\ Closes(q) \in Seq(Cmd) /\ Opens(q) \in Seq(Cmd) /\ Closes(q) \o Opens(q) \in Seq(Cmd)
       /\ taken' \in Seq(H \cup {Alert})
  <2>1. Closes(q) \in Seq(Cmd) /\ Opens(q) \in Seq(Cmd)
    BY <1>3, <1>9, SeqGrows
  <2>2. H \subseteq H \cup {Alert}
    OBVIOUS
  <2>3. Closes(q) \in Seq(H \cup {Alert}) /\ Opens(q) \in Seq(H \cup {Alert})
    BY <1>9, <2>2, SeqGrows
  <2>4. /\ Closes(q) \o Opens(q) \in Seq(Cmd)
        /\ Closes(q) \o Opens(q) \in Seq(H \cup {Alert})
    BY <2>1, <2>3, ConcatProperties
  <2> QED BY <1>1, <1>4, <2>1, <2>4, ConcatProperties
<1>12. SumEffect(taken') = SumEffect(ws_queue)
  <2>1. SumEffect(Closes(q) \o Opens(q)) = SumEffect(Closes(q)) + SumEffect(Opens(q))
    BY <1>11, SumEffectConcat
  <2>2. SumEffect(taken') = SumEffect(Closes(q) \o Opens(q)) + SumEffect(reconcile_queue)
    BY <1>1, <1>4, <1>11, SumEffectConcat
  <2>3. SumEffect(ws_queue) \in Int
    BY <1>3, SumEffectIsInt
  <2> QED BY <1>7, <1>8, <1>10, <2>1, <2>2, <2>3
<1>13. UnderWay' = UnderWay
  <2>1. SumEffect(ws_queue') = 0 /\ SumEffect(taken) = 0 /\ SumEffect(ws_queue) \in Int
    BY <1>1, <1>2, <1>3, SumEffectEmpty, SumEffectIsInt
  <2> QED BY <1>12, <2>1 DEF UnderWay
<1>14. VenueOK' /\ TableOK'
  BY <1>1 DEF VenueOK, TableOK
<1>15. QueuesOK'
  <2>1. Heard(placed', table') = H
    BY <1>1 DEF H
  <2>2. /\ << >> \in Seq(Refusals(placed', table')) /\ << >> \in Seq(H) /\ << >> \in Seq({Alert})
    OBVIOUS
  <2> QED BY <1>1, <1>11, <2>1, <2>2 DEF QueuesOK
<1>16. MoneyOK' /\ StageOK'
  BY <1>1 DEF MoneyOK, HoldingOK, StageOK
<1>17. CashAccounted'
  BY <1>1, <1>13 DEF CashAccounted, OpenPositionCost
<1>18. PackCurrent'
  BY <1>1, PackStays
<1>19. SampleCurrent'
  BY <1>1 DEF SampleCurrent
<1> QED BY <1>14, <1>15, <1>16, <1>17, <1>18, <1>19

-----------------------------------------------------------------------------
(* Booking one command moves the books by what the execution moved, and     *)
(* what it moves beside them is noted (OrderManager_ProcessFillCommand).    *)
Booked(cmd) ==
  /\ VenueOK' /\ TableOK' /\ HoldingOK' /\ Later(placed, table, placed', table')
  /\ emitted' \in Int /\ astray' \in Int /\ exchange'.usdt = exchange.usdt
  /\ emitted' - OpenPositionCost' + astray' = emitted - OpenPositionCost + astray + Effect(cmd)

LEMMA IgnoresBooked ==
  ASSUME AuditInv, NEW cmd \in Heard(placed, table), Ignores(cmd)
  PROVE  Booked(cmd)
<1>1. Effect(cmd) \in Int /\ UNCHANGED <<exchange, awaiting, table, holding, emitted, placed>>
  BY EffectIsInt DEF Heard, Ignores, bookVars
<1>2. /\ VenueOK /\ TableOK /\ HoldingOK /\ placed \in Nat
      /\ emitted \in Int /\ astray \in Int /\ OpenPositionCost \in Int
  BY Amounts DEF AuditInv, AuditTypeOK, MoneyOK
<1>3. OpenPositionCost' = OpenPositionCost /\ astray' = astray + Effect(cmd)
  BY <1>1 DEF OpenPositionCost, Ignores
<1>4. VenueOK' /\ TableOK' /\ HoldingOK'
  BY <1>1, <1>2 DEF VenueOK, TableOK, HoldingOK
<1>5. Later(placed, table, placed', table')
  BY <1>1, <1>2, SameIsLater
<1> QED BY <1>1, <1>2, <1>3, <1>4, <1>5 DEF Booked

LEMMA FreesSlot ==
  ASSUME AuditInv, NEW id, table' = Without(table, id), UNCHANGED <<exchange, awaiting, placed>>
  PROVE  VenueOK' /\ TableOK' /\ Later(placed, table, placed', table')
<1>1. VenueOK /\ TableOK /\ placed \in Nat /\ Book(placed, TableOrder, table)
  BY DEF AuditInv, AuditTypeOK, MoneyOK, TableOK
<1>2. Book(placed, TableOrder, table')
  BY <1>1, BookLoses
<1>3. \A i \in DOMAIN table' : i \in DOMAIN table /\ table'[i].side = table[i].side
  <2> DEFINE w == Without(table, id)
  <2>1. DOMAIN w = DOMAIN table \ {id} /\ \A i \in DOMAIN table \ {id} : w[i] = table[i]
    BY OneLess
  <2>2. table' = w
    OBVIOUS
  <2> HIDE DEF w
  <2> QED BY <2>1, <2>2
<1> QED BY <1>1, <1>2, <1>3, TableMoves

LEMMA RejectsBooked ==
  ASSUME AuditInv, NEW cmd \in Heard(placed, table), Rejects(cmd)
  PROVE  Booked(cmd)
<1>1. /\ Effect(cmd) = 0 /\ table' = Without(table, cmd.id)
      /\ UNCHANGED <<exchange, awaiting, holding, emitted, placed, astray>>
  BY NoLegNoEffect DEF Rejects
<1>2. /\ HoldingOK /\ emitted \in Int /\ astray \in Int /\ OpenPositionCost \in Int
  BY Amounts DEF AuditInv, AuditTypeOK, MoneyOK
<1>3. OpenPositionCost' = OpenPositionCost /\ HoldingOK'
  BY <1>1, <1>2 DEF OpenPositionCost, HoldingOK
<1>4. VenueOK' /\ TableOK' /\ Later(placed, table, placed', table')
  BY <1>1, FreesSlot
<1> QED BY <1>1, <1>2, <1>3, <1>4 DEF Booked

LEMMA EndedBooked ==
  ASSUME AuditInv, NEW cmd \in Heard(placed, table), EndedEarly(cmd)
  PROVE  Booked(cmd)
<1> DEFINE rest == Without(table, cmd.id)
<1>1. Effect(cmd) = 0 /\ UNCHANGED <<holding, emitted, astray>>
  BY NoLegNoEffect DEF EndedEarly
<1>2. /\ VenueOK /\ TableOK /\ placed \in Nat /\ Book(placed, TableOrder, table)
      /\ HoldingOK /\ emitted \in Int /\ astray \in Int /\ OpenPositionCost \in Int
  BY Amounts DEF AuditInv, AuditTypeOK, MoneyOK, TableOK
<1>3. OpenPositionCost' = OpenPositionCost /\ HoldingOK'
  BY <1>1, <1>2 DEF OpenPositionCost, HoldingOK
<1>4. /\ VenueOK' /\ TableOK' /\ exchange'.usdt = exchange.usdt
      /\ Later(placed, table, placed', table')
  <2>1. CASE holding.quantity > 0 /\ Place(rest, "SELL", holding.quantity, holding.entry_price)
    <3>1. Book(placed, TableOrder, rest)
      BY <1>2, BookLoses
    <3>2. Later(placed, table, placed, rest)
      <4>1. /\ DOMAIN rest = DOMAIN table \ {cmd.id}
            /\ \A i \in DOMAIN table \ {cmd.id} : rest[i] = table[i]
        BY OneLess
      <4> HIDE DEF rest
      <4> QED BY <1>2, <4>1 DEF Later
    <3>3. holding.quantity \in Nat /\ holding.entry_price \in Int /\ "SELL" \in Side
      BY <1>2 DEF HoldingOK, Side
    <3> HIDE DEF rest
    <3> QED BY <1>2, <2>1, <3>1, <3>2, <3>3, PlaceKeeps
  <2>2. CASE table' = rest /\ UNCHANGED <<exchange, awaiting, placed>>
    BY <2>2, FreesSlot
  <2> QED BY <2>1, <2>2 DEF EndedEarly
<1> QED BY <1>1, <1>2, <1>3, <1>4 DEF Booked

(* A leg leaves its order in the table, or frees the slot with the last.    *)
LEMMA LegTaken ==
  ASSUME AuditInv, NEW cmd \in Heard(placed, table), cmd.id \in DOMAIN table,
         table' = AfterLeg(cmd), UNCHANGED <<exchange, awaiting, placed>>
  PROVE  VenueOK' /\ TableOK' /\ Later(placed, table, placed', table')
<1>1. CASE cmd.complete
  <2>1. table' = Without(table, cmd.id)
    BY <1>1 DEF AfterLeg
  <2> QED BY <2>1, FreesSlot
<1>2. CASE ~cmd.complete
  <2>1. table' = [table EXCEPT ![cmd.id].filled = @ + cmd.qty]
    BY <1>2 DEF AfterLeg
  <2>2. VenueOK /\ TableOK /\ placed \in Nat /\ Book(placed, TableOrder, table) /\ cmd.qty \in Nat
    BY DEF AuditInv, AuditTypeOK, MoneyOK, TableOK, Heard, Cmd
  <2>3. DOMAIN table' = DOMAIN table /\ DOMAIN table \subseteq 1 .. placed
    BY <2>1, <2>2 DEF Book
  <2>4. ASSUME NEW i \in DOMAIN table
        PROVE  table'[i] \in TableOrder /\ table'[i].side = table[i].side
    <3>1. table[i] \in TableOrder
      BY <2>2 DEF Book
    <3>2. CASE i = cmd.id
      <4>1. table'[i] = [table[i] EXCEPT !.filled = @ + cmd.qty]
        BY <2>1, <3>2
      <4> QED BY <2>2, <3>1, <4>1 DEF TableOrder
    <3>3. CASE i # cmd.id
      <4>1. table'[i] = table[i]
        BY <2>1, <3>3
      <4> QED BY <3>1, <4>1
    <3> QED BY <3>2, <3>3
  <2>5. table' \in [DOMAIN table' -> TableOrder]
    <3>1. table' = [i \in DOMAIN table |-> table'[i]]
      BY <2>1
    <3> QED BY <2>3, <2>4, <3>1
  <2>6. Book(placed, TableOrder, table')
    BY <2>3, <2>5 DEF Book
  <2> QED BY <2>2, <2>3, <2>4, <2>6, TableMoves
<1> QED BY <1>1, <1>2

LEMMA Quotient ==
  ASSUME NEW x \in Int, NEW n \in Nat, n > 0
  PROVE  x \div n \in Int /\ x % n \in Int /\ x = (x \div n) * n + (x % n)
BY SMT

(* What the leg costs is what the position is worth more, but for what the  *)
(* average rounds away.                                                     *)
LEMMA BuyBooked ==
  ASSUME AuditInv, NEW cmd \in Heard(placed, table), cmd.id \in DOMAIN table, BuyLeg(cmd)
  PROVE  Booked(cmd)
<1> DEFINE Q == holding.quantity
           E == holding.entry_price
           F == holding.entry_fee
           q == cmd.qty
           p == cmd.price
           fee == BookedFee(cmd)
           c == cmd.commission
<1>1. /\ cmd \in Cmd /\ cmd.kind = "LEG" /\ cmd.side = table[cmd.id].side
      /\ table[cmd.id].side = "BUY" /\ q > 0
  BY DEF Heard, Tells, BuyLeg
<1>2. q \in Nat /\ p \in Nat /\ c \in Int
  BY <1>1 DEF Cmd
<1>3. fee \in Int
  <2>1. cmd.price * cmd.qty \in Int
    BY <1>2
  <2> QED BY <1>2, <2>1, FeeIsInt DEF BookedFee
<1>4. Q \in Nat /\ E \in Int /\ F \in Int /\ (Q = 0 => F = 0)
  BY DEF AuditInv, AuditTypeOK, MoneyOK, HoldingOK
<1>5. /\ table' = AfterLeg(cmd) /\ UNCHANGED <<exchange, awaiting, emitted, placed>>
      /\ holding' = (IF Q = 0 THEN Opened(cmd) ELSE Accumulated(cmd))
      /\ astray' = astray + fee - c - RoundedAway(cmd)
  BY DEF BuyLeg
<1>6. VenueOK' /\ TableOK' /\ Later(placed, table, placed', table')
  BY <1>5, LegTaken
<1>7. emitted \in Int /\ astray \in Int
  BY Amounts DEF AuditInv
<1>8. Effect(cmd) = -(p * q) - c
  BY <1>1 DEF Effect
<1>9. OpenPositionCost = E * Q + F
  BY DEF OpenPositionCost
<1>10. /\ HoldingOK' /\ astray' \in Int
       /\ OpenPositionCost' = OpenPositionCost + p * q + fee - RoundedAway(cmd)
       /\ RoundedAway(cmd) \in Int
  <2>1. CASE Q = 0
    <3>1. holding' = [quantity |-> q, entry_price |-> p, entry_fee |-> fee]
      BY <1>5, <2>1 DEF Opened
    <3>2. RoundedAway(cmd) = 0
      BY <2>1 DEF RoundedAway
    <3>3. OpenPositionCost' = p * q + fee
      BY <3>1 DEF OpenPositionCost
    <3>4. E * Q = 0
      BY <1>4, <2>1
    <3> HIDE DEF q, p, fee, c, Q, E, F
    <3>5. p * q \in Int
      BY <1>2
    <3>6. HoldingOK'
      BY <1>1, <1>2, <1>3, <3>1 DEF HoldingOK
    <3> QED BY <1>2, <1>3, <1>4, <1>5, <1>7, <1>9, <2>1, <3>2, <3>3, <3>4, <3>5, <3>6
  <2>2. CASE Q # 0
    <3> DEFINE N == NotionalWith(cmd)
               n == Q + q
    <3>1. N = E * Q + p * q
      BY DEF NotionalWith
    <3>2. /\ holding' = [quantity |-> n, entry_price |-> N \div n, entry_fee |-> F + fee]
          /\ RoundedAway(cmd) = N % n
      BY <1>5, <2>2 DEF Accumulated, RoundedAway
    <3>3. OpenPositionCost' = (N \div n) * n + (F + fee)
      BY <3>2 DEF OpenPositionCost
    <3> HIDE DEF q, p, fee, c, Q, E, F
    <3>4. E * Q \in Int /\ p * q \in Int /\ n \in Nat /\ n > 0
      BY <1>1, <1>2, <1>4
    <3> HIDE DEF n, N
    <3>5. N \in Int
      BY <3>1, <3>4
    <3>6. N \div n \in Int /\ N % n \in Int /\ N = (N \div n) * n + (N % n)
      BY <3>4, <3>5, Quotient
    <3>7. HoldingOK'
      BY <1>3, <1>4, <3>2, <3>4, <3>6 DEF HoldingOK
    <3> DEFINE P == (N \div n) * n
               R == N % n
               EQ == E * Q
               PQ == p * q
    <3>8. /\ P \in Int /\ R \in Int /\ EQ \in Int /\ PQ \in Int /\ P + R = EQ + PQ
          /\ OpenPositionCost' = P + (F + fee) /\ OpenPositionCost = EQ + F /\ RoundedAway(cmd) = R
          /\ astray' = astray + fee - c - R
      BY <1>5, <1>9, <3>1, <3>2, <3>3, <3>4, <3>5, <3>6
    <3> HIDE DEF P, R, EQ, PQ
    <3>9. OpenPositionCost' = OpenPositionCost + PQ + fee - R
      BY <1>3, <1>4, <3>8
    <3> QED BY <1>2, <1>3, <1>7, <3>7, <3>8, <3>9 DEF PQ
  <2> QED BY <2>1, <2>2
<1> DEFINE PQ == p * q
           R == RoundedAway(cmd)
<1>11. PQ \in Int /\ R \in Int
  BY <1>2, <1>10
<1>12. /\ Effect(cmd) = -PQ - c /\ OpenPositionCost' = OpenPositionCost + PQ + fee - R
       /\ astray' = astray + fee - c - R /\ OpenPositionCost \in Int
  BY <1>5, <1>8, <1>10, Amounts DEF AuditInv
<1> HIDE DEF PQ, R, fee, c, Q, E, F, q, p
<1>13. emitted - OpenPositionCost' + astray' = emitted - OpenPositionCost + astray + Effect(cmd)
  BY <1>2, <1>3, <1>7, <1>11, <1>12
<1> QED BY <1>5, <1>6, <1>7, <1>10, <1>13 DEF Booked

LEMMA EntryFeeIsInt ==
  ASSUME NEW q \in Nat, q <= holding.quantity, HoldingOK
  PROVE  EntryFeeLeg(q) \in Int /\ (q = holding.quantity => EntryFeeLeg(q) = holding.entry_fee)
<1>1. holding.quantity \in Nat /\ holding.entry_fee \in Int
  BY DEF HoldingOK
<1>2. CASE q = holding.quantity
  BY <1>1, <1>2 DEF EntryFeeLeg
<1>3. CASE q # holding.quantity
  <2>1. holding.entry_fee * q \in Int
    BY <1>1
  <2>2. holding.quantity > 0
    BY <1>1, <1>3
  <2>3. (holding.entry_fee * q) \div holding.quantity \in Int
    BY <1>1, <2>1, <2>2, Quotient
  <2> QED BY <1>3, <2>3 DEF EntryFeeLeg
<1> QED BY <1>2, <1>3

(* Cost and proceeds of what is sold meet in the net; what the leg sold     *)
(* beyond the position is noted.                                            *)
LEMMA SellBooked ==
  ASSUME AuditInv, NEW cmd \in Heard(placed, table), cmd.id \in DOMAIN table, SellLeg(cmd)
  PROVE  Booked(cmd)
<1> DEFINE Q == holding.quantity
           E == holding.entry_price
           F == holding.entry_fee
           k == cmd.qty
           p == cmd.price
           q == Min({cmd.qty, holding.quantity})
           fee == BookedFee(cmd)
           c == cmd.commission
           share == EntryFeeLeg(q)
<1>1. /\ cmd \in Cmd /\ cmd.kind = "LEG" /\ cmd.side = table[cmd.id].side
      /\ table[cmd.id].side = "SELL" /\ k > 0
  BY DEF Heard, Tells, SellLeg
<1>2. k \in Nat /\ p \in Nat /\ c \in Int
  BY <1>1 DEF Cmd
<1>3. fee \in Int
  <2>1. cmd.price * cmd.qty \in Int
    BY <1>2
  <2> QED BY <1>2, <2>1, FeeIsInt DEF BookedFee
<1>4. HoldingOK /\ Q \in Nat /\ E \in Int /\ F \in Int /\ (Q = 0 => F = 0)
  BY DEF AuditInv, AuditTypeOK, MoneyOK, HoldingOK
<1>5. q \in Nat /\ q <= k /\ q <= Q /\ (q = 0 => Q = 0)
  <2>1. q \in Nat /\ q <= k /\ q <= Q /\ q \in {k, Q}
    BY <1>2, <1>4, MinOfTwo
  <2> HIDE DEF q
  <2> QED BY <1>1, <1>2, <1>4, <2>1
<1>6. share \in Int /\ (q = Q => share = F)
  <2> HIDE DEF q
  <2> QED BY <1>4, <1>5, EntryFeeIsInt
<1>7. /\ table' = AfterLeg(cmd) /\ UNCHANGED <<exchange, awaiting, placed>>
      /\ holding' = [holding EXCEPT !.quantity = @ - q, !.entry_fee = @ - share]
      /\ \/ q = 0 /\ astray' = astray + Effect(cmd) /\ UNCHANGED emitted
         \/ /\ q > 0 /\ emitted' = emitted + (p - E) * q - (share + fee)
            /\ astray' = astray + p * (k - q) + fee - c
  BY DEF SellLeg
<1>8. VenueOK' /\ TableOK' /\ Later(placed, table, placed', table')
  BY <1>7, LegTaken
<1>9. emitted \in Int /\ astray \in Int
  BY Amounts DEF AuditInv
<1>10. Effect(cmd) = p * k - c
  BY <1>1 DEF Effect
<1>11. holding \in [quantity : Nat, entry_price : Int, entry_fee : Int]
  BY <1>4 DEF HoldingOK
<1> HIDE DEF q, share
<1>12. holding' = [quantity |-> Q - q, entry_price |-> E, entry_fee |-> F - share]
  BY <1>7, <1>11
<1>13. OpenPositionCost = E * Q + F /\ OpenPositionCost' = E * (Q - q) + (F - share)
  BY <1>12 DEF OpenPositionCost
<1> HIDE DEF Q, E, F, k, p, fee, c
<1>14. HoldingOK'
  <2>1. Q - q \in Nat /\ F - share \in Int /\ (Q - q = 0 => F - share = 0)
    BY <1>4, <1>5, <1>6
  <2> QED BY <1>4, <1>12, <2>1 DEF HoldingOK
<1> DEFINE EQ == E * Q
           Eq == E * q
           PK == p * k
           Pq == p * q
<1>15. /\ EQ \in Int /\ Eq \in Int /\ PK \in Int /\ Pq \in Int
       /\ E * (Q - q) = EQ - Eq /\ (p - E) * q = Pq - Eq /\ p * (k - q) = PK - Pq
  BY <1>2, <1>4, <1>5
<1>16. /\ OpenPositionCost = EQ + F /\ OpenPositionCost' = EQ - Eq + (F - share)
       /\ Effect(cmd) = PK - c
  BY <1>10, <1>13, <1>15
<1>17. q = 0 => EQ = 0 /\ Eq = 0 /\ F = 0 /\ share = 0
  BY <1>4, <1>5, <1>6
<1>18. \/ q = 0 /\ astray' = astray + (PK - c) /\ emitted' = emitted
       \/ /\ emitted' = emitted + (Pq - Eq) - (share + fee)
          /\ astray' = astray + (PK - Pq) + fee - c
  BY <1>7, <1>15, <1>16
<1> HIDE DEF EQ, Eq, PK, Pq
<1>19. /\ emitted' \in Int /\ astray' \in Int
       /\ emitted' - OpenPositionCost' + astray' = emitted - OpenPositionCost + astray + Effect(cmd)
  <2>1. CASE q = 0 /\ astray' = astray + (PK - c) /\ emitted' = emitted
    BY <1>2, <1>3, <1>4, <1>6, <1>9, <1>15, <1>16, <1>17, <2>1
  <2>2. CASE /\ emitted' = emitted + (Pq - Eq) - (share + fee)
             /\ astray' = astray + (PK - Pq) + fee - c
    BY <1>2, <1>3, <1>4, <1>6, <1>9, <1>15, <1>16, <2>2
  <2> QED BY <1>18, <2>1, <2>2
<1> QED BY <1>7, <1>8, <1>14, <1>19 DEF Booked

LEMMA Balance ==
  ASSUME NEW e, NEW c \in Int, NEW m \in Int, NEW n \in Int, NEW k \in Int, NEW l \in Int,
         NEW u \in Int, NEW v \in Int, NEW a \in Int, NEW b \in Int, NEW f \in Int,
         e = c + m - k + u + a, n - l + b = m - k + a + f, v = u - f
  PROVE  e = c + n - l + v + b
OBVIOUS

LEMMA ProcessesStep == AuditInv /\ Processes => AuditInv'
<1> SUFFICES ASSUME AuditInv, Processes PROVE AuditInv'
  OBVIOUS
<1> USE DEF AuditInv, AuditTypeOK
<1> DEFINE h == Head(taken)
           H == Heard(placed, table)
<1>1. /\ stage = "book" /\ taken # << >> /\ taken' = Tail(taken)
      /\ UNCHANGED <<rest_ring, ws_queue, reconcile_queue, stage, cash, pack, poll, cuts>>
      /\ Alerts(h) \/ Books(h)
  BY DEF Processes
<1>2. taken \in Seq(H \cup {Alert}) /\ placed \in Nat
  BY DEF QueuesOK, MoneyOK
<1>3. /\ h \in H \cup {Alert} /\ Tail(taken) \in Seq(H \cup {Alert})
      /\ taken \in Seq(Cmd) /\ Tail(taken) \in Seq(Cmd) /\ h \in Cmd
  <2>1. H \cup {Alert} \subseteq Cmd
    BY <1>2, HeardTyped
  <2> HIDE DEF H
  <2>2. h \in H \cup {Alert} /\ Tail(taken) \in Seq(H \cup {Alert})
    BY <1>1, <1>2
  <2> QED BY <1>2, <2>1, <2>2, SeqGrows
<1>4. /\ SumEffect(taken) = Effect(h) + SumEffect(taken') /\ Effect(h) \in Int
      /\ SumEffect(taken') \in Int
  BY <1>1, <1>3, SumEffectTail, SumEffectIsInt, EffectIsInt
<1>5. SumEffect(ws_queue) \in Int /\ cash \in Int /\ emitted \in Int /\ astray \in Int
      /\ OpenPositionCost \in Int /\ exchange.usdt \in Int
  BY Amounts
<1>6. UnderWay' = UnderWay - Effect(h) /\ UnderWay \in Int
  BY <1>1, <1>4, <1>5 DEF UnderWay
<1> HIDE DEF h
<1>7. CASE Alerts(h)
  <2>1. h.kind = "ALERT" /\ UNCHANGED <<exchange, awaiting, table, holding, emitted, placed,
                                        astray, moved>>
    BY <1>7 DEF Alerts, bookVars
  <2>2. Effect(h) = 0
    BY <1>3, <2>1, NoLegNoEffect, AlertTyped
  <2>3. VenueOK' /\ TableOK'
    BY <2>1 DEF VenueOK, TableOK
  <2>4. QueuesOK'
    BY <1>1, <1>3, <2>1 DEF QueuesOK
  <2>5. MoneyOK' /\ StageOK'
    BY <1>1, <2>1 DEF MoneyOK, HoldingOK, StageOK
  <2>6. UnderWay' = UnderWay
    BY <1>6, <2>2
  <2>7. CashAccounted'
    BY <1>1, <2>1, <2>6 DEF CashAccounted, OpenPositionCost
  <2>8. PackCurrent' /\ SampleCurrent'
    BY <1>1, <2>1, PackStays DEF SampleCurrent
  <2> QED BY <2>3, <2>4, <2>5, <2>7, <2>8
<1>8. CASE Books(h)
  <2>1. h.kind # "ALERT" /\ moved' = Both
    BY <1>8 DEF Books
  <2>2. h \in Heard(placed, table)
    BY <1>3, <2>1, AlertTyped
  <2>3. Booked(h)
    <3>1. CASE Ignores(h)
      BY <2>2, <3>1, IgnoresBooked
    <3>2. CASE h.id \in DOMAIN table /\ (Rejects(h) \/ BuyLeg(h) \/ SellLeg(h) \/ EndedEarly(h))
      BY <2>2, <3>2, RejectsBooked, BuyBooked, SellBooked, EndedBooked
    <3> QED BY <1>8, <3>1, <3>2 DEF Books
  <2>4. /\ VenueOK' /\ TableOK' /\ HoldingOK' /\ Later(placed, table, placed', table')
        /\ emitted' \in Int /\ astray' \in Int /\ exchange'.usdt = exchange.usdt
        /\ emitted' - OpenPositionCost' + astray'
             = emitted - OpenPositionCost + astray + Effect(h)
    BY <2>3 DEF Booked
  <2>5. QueuesOK'
    <3>1. /\ rest_ring \in Seq(Refusals(placed, table)) /\ ws_queue \in Seq(Heard(placed, table))
          /\ reconcile_queue \in Seq({Alert}) /\ taken' \in Seq(Heard(placed, table) \cup {Alert})
      BY <1>1, <1>3 DEF QueuesOK
    <3>2. /\ rest_ring \in Seq(Refusals(placed', table'))
          /\ ws_queue \in Seq(Heard(placed', table'))
          /\ taken' \in Seq(Heard(placed', table') \cup {Alert})
      BY <2>4, <3>1, QueuesStay
    <3> QED BY <1>1, <3>1, <3>2 DEF QueuesOK
  <2>6. placed' \in Nat
    BY <2>4 DEF Later
  <2>7. MoneyOK' /\ StageOK'
    BY <1>1, <2>4, <2>6 DEF MoneyOK, StageOK
  <2>8. OpenPositionCost' \in Int
    <3>1. holding'.entry_price \in Int /\ holding'.quantity \in Int /\ holding'.entry_fee \in Int
      BY <2>4 DEF HoldingOK
    <3>2. holding'.entry_price * holding'.quantity \in Int
      BY <3>1
    <3> QED BY <3>1, <3>2 DEF OpenPositionCost
  <2>9. CashAccounted'
    <3>1. exchange.usdt = cash + emitted - OpenPositionCost + UnderWay + astray
      BY <1>1 DEF CashAccounted
    <3> DEFINE e == exchange'.usdt
               f == Effect(h)
               l == OpenPositionCost'
               v == UnderWay'
               n == emitted'
               b == astray'
    <3>2. /\ e = cash + emitted - OpenPositionCost + UnderWay + astray
          /\ n - l + b = emitted - OpenPositionCost + astray + f
          /\ v = UnderWay - f /\ l \in Int /\ f \in Int /\ n \in Int /\ b \in Int /\ v \in Int
      BY <1>4, <1>6, <2>4, <2>8, <3>1
    <3> HIDE DEF e, f, l, v, n, b
    <3>3. e = cash + n - l + v + b
      BY <1>5, <1>6, <3>2, Balance
    <3> QED BY <1>1, <3>3 DEF CashAccounted, e, l, v, n, b
  <2> QED BY <2>1, <2>4, <2>5, <2>7, <2>9, MovedIsNoted
<1> QED BY <1>1, <1>7, <1>8

-----------------------------------------------------------------------------
LEMMA ComposesStep == AuditInv /\ Composes => AuditInv'
<1> SUFFICES ASSUME AuditInv, Composes PROVE AuditInv'
  OBVIOUS
<1> USE DEF AuditInv, AuditTypeOK
<1>1. /\ stage = "book" /\ taken = << >> /\ stage' = "submit"
      /\ cash' = cash + emitted /\ emitted' = 0
      /\ pack' = [generation |-> 1, expected_free |-> ExpectedFreeCash(cash + emitted)]
      /\ moved' = moved \ {"pack"}
      /\ UNCHANGED <<exchange, awaiting, rest_ring, ws_queue, reconcile_queue, table, taken,
                     holding, poll, placed, cuts, astray>>
  BY DEF Composes
<1>2. /\ cash \in Int /\ emitted \in Int /\ astray \in Int /\ exchange.usdt \in Int
      /\ OpenPositionCost \in Int /\ Reserved \in Int
      /\ SumEffect(ws_queue) \in Int /\ SumEffect(taken) \in Int
  BY Amounts
<1>3. cash' + emitted' = cash + emitted /\ cash' \in Int
  BY <1>1, <1>2
<1>4. ExpectedFreeCash(cash + emitted) \in Int
  BY <1>2 DEF ExpectedFreeCash
<1>5. ExpectedFreeCash(cash + emitted)' = ExpectedFreeCash(cash + emitted)
  BY <1>1, <1>3 DEF ExpectedFreeCash, OpenPositionCost, Reserved, ReservedFor
<1>6. VenueOK' /\ TableOK' /\ QueuesOK'
  BY <1>1 DEF VenueOK, TableOK, QueuesOK
<1>7. MoneyOK' /\ StageOK'
  BY <1>1, <1>3, <1>4 DEF MoneyOK, HoldingOK, StageOK
<1>8. CashAccounted'
  <2>1. UnderWay' = UnderWay /\ OpenPositionCost' = OpenPositionCost /\ UnderWay \in Int
    BY <1>1, <1>2 DEF UnderWay, OpenPositionCost
  <2> QED BY <1>1, <1>2, <1>3, <2>1 DEF CashAccounted
<1>9. PackCurrent'
  BY <1>1, <1>5 DEF PackCurrent
<1>10. SampleCurrent'
  BY <1>1 DEF SampleCurrent
<1> QED BY <1>6, <1>7, <1>8, <1>9, <1>10

LEMMA PollStep == AuditInv /\ (Samples \/ Judges) => AuditInv'
<1> SUFFICES ASSUME AuditInv, Samples \/ Judges PROVE AuditInv'
  OBVIOUS
<1> USE DEF AuditInv, AuditTypeOK
<1>1. CASE Samples
  <2>1. /\ stage # "down" /\ moved' = moved \ {"sample"}
        /\ poll' = [poll EXCEPT !.at = "sampled", !.exchange_usdt = exchange.usdt]
        /\ UNCHANGED <<exchange, awaiting, rest_ring, ws_queue, reconcile_queue, table, holding,
                       emitted, stage, taken, cash, pack, placed, cuts, astray>>
    BY <1>1 DEF Samples, bookVars
  <2>2. poll' \in [at : {"sleep", "sampled"}, exchange_usdt : Int] /\ poll'.exchange_usdt = exchange.usdt
    BY <2>1, Amounts DEF MoneyOK
  <2>3. VenueOK' /\ TableOK' /\ QueuesOK'
    BY <2>1 DEF VenueOK, TableOK, QueuesOK
  <2>4. MoneyOK' /\ StageOK'
    BY <2>1, <2>2 DEF MoneyOK, HoldingOK, StageOK
  <2>5. CashAccounted'
    BY <2>1, AccountStays
  <2>6. ExpectedFreeCash(cash + emitted)' = ExpectedFreeCash(cash + emitted)
    BY <2>1 DEF ExpectedFreeCash, OpenPositionCost, Reserved, ReservedFor
  <2>7. PackCurrent' /\ SampleCurrent'
    BY <2>1, <2>2, <2>6 DEF PackCurrent, SampleCurrent
  <2> QED BY <2>3, <2>4, <2>5, <2>7
<1>2. CASE Judges
  <2>1. /\ poll.at = "sampled" /\ poll' = Waiting
        /\ reconcile_queue' = reconcile_queue \/ reconcile_queue' = Append(reconcile_queue, Alert)
        /\ UNCHANGED <<exchange, awaiting, rest_ring, ws_queue, table, holding, emitted, stage,
                       taken, cash, pack, placed, cuts, astray, moved>>
    BY <1>2 DEF Judges, bookVars, Alert
  <2>2. reconcile_queue' \in Seq({Alert})
    BY SMTT(30), <2>1 DEF QueuesOK
  <2>3. VenueOK' /\ TableOK' /\ QueuesOK'
    BY <2>1, <2>2 DEF VenueOK, TableOK, QueuesOK
  <2>4. stage # "down"
    BY <2>1 DEF StageOK, Waiting
  <2>5. MoneyOK' /\ StageOK'
    BY <2>1, <2>4 DEF MoneyOK, HoldingOK, StageOK, Waiting
  <2>6. CashAccounted'
    BY <2>1, AccountStays
  <2>7. PackCurrent' /\ SampleCurrent'
    BY <2>1, PackStays DEF SampleCurrent, Waiting
  <2> QED BY <2>3, <2>5, <2>6, <2>7
<1> QED BY <1>1, <1>2

LEMMA EmptyBook == ASSUME NEW n, NEW S, NEW f, f = << >> PROVE Book(n, S, f) /\ DOMAIN f = {}
<1>1. DOMAIN f = {} /\ f = [i \in {} |-> f[i]]
  OBVIOUS
<1> QED BY <1>1 DEF Book

LEMMA DiesStep == AuditInv /\ Dies => AuditInv'
<1> SUFFICES ASSUME AuditInv, Dies PROVE AuditInv'
  OBVIOUS
<1> USE DEF AuditInv, AuditTypeOK
<1>1. /\ stage' = "down" /\ awaiting' = {} /\ rest_ring' = << >> /\ ws_queue' = << >>
      /\ reconcile_queue' = << >> /\ table' = << >> /\ taken' = << >> /\ holding' = NoHolding
      /\ cash' = 0 /\ emitted' = 0 /\ pack' = NoPack /\ poll' = Waiting /\ astray' = 0
      /\ moved' = Both /\ UNCHANGED <<exchange, placed>>
  BY DEF Dies
<1>2. Book(placed, TableOrder, table') /\ DOMAIN table' = {}
  BY <1>1, EmptyBook
<1>3. VenueOK' /\ TableOK'
  BY <1>1, <1>2 DEF VenueOK, TableOK
<1>4. \A S : << >> \in Seq(S)
  OBVIOUS
<1>5. QueuesOK'
  BY <1>1, <1>4 DEF QueuesOK
<1>6. MoneyOK'
  BY <1>1 DEF MoneyOK, HoldingOK, NoHolding, NoPack, Waiting
<1>7. StageOK'
  BY <1>1, <1>2 DEF StageOK
<1>8. CashAccounted'
  BY <1>1 DEF CashAccounted
<1> QED BY <1>1, <1>3, <1>5, <1>6, <1>7, <1>8, MovedIsNoted

LEMMA BootsStep == AuditInv /\ Boots => AuditInv'
<1> SUFFICES ASSUME AuditInv, Boots PROVE AuditInv'
  OBVIOUS
<1> USE DEF AuditInv, AuditTypeOK
<1>1. PICK q \in 0 .. exchange.coins, p \in Prices :
        LET proceeds == q * p - FeeOf(q * p)
        IN /\ exchange' = [exchange EXCEPT !.usdt = @ + proceeds, !.coins = @ - q]
           /\ \/ /\ stage' = "book" /\ astray' \in {0, proceeds}
                 /\ cash' = exchange'.usdt - astray'
              \/ /\ stage' = "down" /\ exchange.coins > q /\ UNCHANGED <<cash, astray>>
  BY DEF Boots
<1>2. /\ stage = "down"
      /\ UNCHANGED <<awaiting, rest_ring, ws_queue, reconcile_queue, table, holding, emitted, taken,
                     pack, poll, placed, cuts, moved>>
  BY DEF Boots, bookVars
<1> DEFINE proceeds == q * p - FeeOf(q * p)
<1>3. proceeds \in Int /\ q \in Int
  <2>1. p \in Int /\ q \in Int
    BY <1>1, AuditAssumption
  <2>2. q * p \in Int
    BY <2>1
  <2> QED BY <2>1, <2>2, FeeIsInt
<1>4. /\ exchange' = [exchange EXCEPT !.usdt = @ + proceeds, !.coins = @ - q]
      /\ \/ stage' = "book" /\ astray' \in {0, proceeds} /\ cash' = exchange'.usdt - astray'
         \/ stage' = "down" /\ UNCHANGED <<cash, astray>>
  BY <1>1
<1> HIDE DEF proceeds
<1>5. /\ exchange \in [usdt : Int, coins : Int, open : {exchange.open}, in_quote : BOOLEAN]
      /\ cash \in Int /\ astray \in Int
  BY DEF VenueOK, MoneyOK
<1>6. /\ exchange' \in [usdt : Int, coins : Int, open : {exchange.open}, in_quote : BOOLEAN]
      /\ exchange'.open = exchange.open /\ exchange'.usdt \in Int
  <2>1. /\ DOMAIN exchange = {"usdt", "coins", "open", "in_quote"}
        /\ exchange.usdt \in Int /\ exchange.coins \in Int /\ exchange.in_quote \in BOOLEAN
    BY <1>5
  <2>2. exchange' = [usdt |-> exchange.usdt + proceeds, coins |-> exchange.coins - q,
                     open |-> exchange.open, in_quote |-> exchange.in_quote]
    BY <1>4, <1>5, <2>1
  <2> QED BY <1>3, <2>1, <2>2
<1>7. VenueOK' /\ TableOK' /\ QueuesOK'
  BY <1>2, <1>6 DEF VenueOK, TableOK, QueuesOK
<1>8. cash' \in Int /\ astray' \in Int
  BY <1>3, <1>4, <1>5, <1>6
<1>9. MoneyOK' /\ StageOK'
  BY <1>2, <1>4, <1>8 DEF MoneyOK, HoldingOK, StageOK
<1>10. CashAccounted'
  <2>1. /\ holding = NoHolding /\ emitted = 0 /\ ws_queue = << >> /\ taken = << >>
    BY <1>2 DEF StageOK
  <2>2. UnderWay' = 0 /\ OpenPositionCost' = 0
    BY <1>2, <2>1, SumEffectEmpty DEF UnderWay, OpenPositionCost, NoHolding
  <2>3. CASE stage' = "book" /\ cash' = exchange'.usdt - astray'
    BY <1>2, <1>6, <1>8, <2>1, <2>2, <2>3 DEF CashAccounted
  <2>4. CASE stage' = "down"
    BY <2>4 DEF CashAccounted
  <2> QED BY <1>4, <2>3, <2>4
<1>11. pack.generation = 0 /\ poll.at = "sleep"
  BY <1>2 DEF StageOK, NoPack, Waiting
<1>12. PackCurrent' /\ SampleCurrent'
  BY <1>2, <1>11 DEF PackCurrent, SampleCurrent
<1> QED BY <1>7, <1>9, <1>10, <1>12

LEMMA AuditStutters == AuditInv /\ UNCHANGED auditVars => AuditInv'
<1> SUFFICES ASSUME AuditInv, UNCHANGED auditVars PROVE AuditInv'
  OBVIOUS
<1> USE DEF AuditInv, AuditTypeOK, auditVars
<1>1. VenueOK' /\ TableOK' /\ QueuesOK' /\ MoneyOK' /\ StageOK'
  BY DEF VenueOK, TableOK, QueuesOK, MoneyOK, HoldingOK, StageOK
<1>2. CashAccounted' /\ SampleCurrent' /\ PackCurrent'
  BY AccountStays, PackStays DEF SampleCurrent
<1> QED BY <1>1, <1>2

LEMMA AuditStarts == AuditInit => AuditInv
<1> SUFFICES ASSUME AuditInit PROVE AuditInv
  OBVIOUS
<1>1. /\ exchange \in [usdt : {Opening}, coins : {0}, open : {<< >>}, in_quote : BOOLEAN]
      /\ awaiting = {} /\ rest_ring = << >> /\ ws_queue = << >> /\ reconcile_queue = << >>
      /\ table = << >> /\ stage = "book" /\ taken = << >>
      /\ holding = NoHolding /\ cash = Opening /\ emitted = 0
      /\ pack = NoPack /\ poll = Waiting
      /\ placed = 0 /\ cuts = 0 /\ astray = 0 /\ moved = Both
  BY DEF AuditInit
<1>2. /\ exchange \in [usdt : Int, coins : Int, open : {exchange.open}, in_quote : BOOLEAN]
      /\ exchange.usdt = Opening /\ exchange.open = << >> /\ Opening \in Int
  BY <1>1, AuditAssumption
<1>3. /\ Book(placed, OpenOrder, exchange.open) /\ DOMAIN exchange.open = {}
      /\ Book(placed, TableOrder, table) /\ DOMAIN table = {}
  BY <1>1, <1>2, EmptyBook
<1>4. VenueOK /\ TableOK
  BY <1>1, <1>2, <1>3 DEF VenueOK, TableOK
<1>5. \A S : << >> \in Seq(S)
  OBVIOUS
<1>6. QueuesOK
  BY <1>1, <1>5 DEF QueuesOK
<1>7. MoneyOK /\ StageOK
  BY <1>1, <1>2 DEF MoneyOK, HoldingOK, StageOK, NoHolding, NoPack, Waiting
<1>8. CashAccounted
  <2>1. UnderWay = 0 /\ OpenPositionCost = 0
    BY <1>1, SumEffectEmpty DEF UnderWay, OpenPositionCost, NoHolding
  <2> QED BY <1>1, <1>2, <2>1 DEF CashAccounted
<1>9. PackCurrent /\ SampleCurrent
  BY <1>1 DEF PackCurrent, SampleCurrent, NoPack, Waiting
<1> QED BY <1>4, <1>6, <1>7, <1>8, <1>9 DEF AuditInv, AuditTypeOK

LEMMA AuditInvariant == AuditSpec => []AuditInv
<1>1. AuditInv /\ [AuditNext]_auditVars => AuditInv'
  BY PlacesStep, VenueStep, DrainsStep, ProcessesStep, ComposesStep, PollStep, DiesStep,
     BootsStep, AuditStutters DEF AuditNext
<1> QED BY <1>1, AuditStarts, PTL DEF AuditSpec

-----------------------------------------------------------------------------
(* The state of the audit stays well typed: what is reported is of orders   *)
(* that were placed, a leg is of its order's side, and a process that is    *)
(* down knows nothing.                                                      *)
THEOREM AuditTypeCorrect == AuditSpec => []AuditTypeOK
<1>1. AuditInv => AuditTypeOK
  BY DEF AuditInv
<1> QED BY <1>1, AuditInvariant, PTL

(* The identity OMS_ExpectedFreeCash rests on, for any prices, fees and     *)
(* amounts: through legs, partial sales, orders cut short, lost reports,    *)
(* crashes and boots the books account for the venue's free cash.           *)
THEOREM CashIsAccounted == AuditSpec => []CashAccounted
<1>1. AuditInv => CashAccounted
  BY DEF AuditInv
<1> QED BY <1>1, AuditInvariant, PTL

(* ReconciliationLoop_Pass at rest shows exactly the money that moved       *)
(* beside the books, and what is reserved for orders nobody will answer.    *)
THEOREM AuditIsExact == AuditSpec => []AuditExact
<1>1. ASSUME AuditInv PROVE AuditExact
  <2> SUFFICES ASSUME poll.at = "sampled", pack.generation # 0, AtRest, moved = {}
               PROVE  Drift = astray + Reserved
    BY DEF AuditExact
  <2>1. poll.exchange_usdt = exchange.usdt /\ pack.expected_free = ExpectedFreeCash(cash + emitted)
    BY <1>1 DEF AuditInv, PackCurrent, SampleCurrent
  <2>2. /\ cash \in Int /\ emitted \in Int /\ astray \in Int /\ OpenPositionCost \in Int
        /\ Reserved \in Int /\ taken \in Seq(Cmd)
    BY <1>1, Amounts DEF AuditInv
  <2>3. ASSUME NEW i \in 1 .. Len(taken) PROVE Effect(taken[i]) = 0
    <3>1. taken[i].kind = "ALERT" /\ taken[i] \in Heard(placed, table) \cup {Alert}
      BY <1>1 DEF AtRest, AuditInv, AuditTypeOK, QueuesOK
    <3> QED BY <3>1, NoLegNoEffect, AlertTyped
  <2>4. SumEffect(taken) = 0 /\ SumEffect(ws_queue) = 0
    BY <2>2, <2>3, SumEffectNone, SumEffectEmpty DEF AtRest
  <2>5. exchange.usdt = cash + emitted - OpenPositionCost + 0 + astray
    BY <1>1, <2>4 DEF AuditInv, CashAccounted, UnderWay, AtRest
  <2> QED BY <2>1, <2>2, <2>5 DEF Drift, ExpectedFreeCash
<1> QED BY <1>1, AuditInvariant, PTL

=============================================================================
