------------------------------- MODULE Money -------------------------------
(***************************************************************************)
(* The arithmetic of amounts and thresholds (FixedPoint/FixedPointN.hpp):   *)
(* money is a decimal of eight places in a 128-bit word, kept within        *)
(* +-(2^63-1); a feature or a threshold is a binary of 64 fractional bits.  *)
(* Products are put together from 64-bit limbs, a quotient by 10^8 is a     *)
(* product with a magic constant and a shift, any other one a long division *)
(* of 128 trips; what does not fit saturates, and for money raises a flag.  *)
(* Words wrap as in C; masks that select are conditions here.               *)
(***************************************************************************)
EXTENDS Integers

CONSTANTS
  Half,     \* half a limb, 2^63
  Bits,     \* bits of a word, 128
  Pow2,     \* the powers of two up to a word
  Scale,    \* MONEY_SCALE, 10^8
  Magic,    \* M of divmul_pow10
  Drop,     \* 2^25, the last shift of divmul_pow10
  Binaries  \* the binary operands

Limb == 2 * Half
Word == Limb * Limb
Top == 2 * Half * Half               \* 2^127
Lim == Half - 1                      \* MONEY_MAX
Closed == -Lim .. Lim                \* the money domain

(* The last line is what the record of the magic constant shows: its excess *)
(* over Word * Drop / Scale is small enough below 2^127.                    *)
ASSUME MoneyAssumption ==
  /\ {Half, Scale, Magic, Drop} \subseteq Nat \ {0} /\ Half > 1 /\ Bits \in Nat \ {0}
  /\ Pow2 \in [0 .. Bits -> 1 .. Word] /\ Pow2[0] = 1 /\ Pow2[Bits] = Word
  /\ \A i \in 0 .. Bits - 1 : Pow2[i + 1] = 2 * Pow2[i]
  /\ Binaries \subseteq 1 - Top .. Top - 1
  /\ Scale < Limb /\ Magic < Top /\ 0 <= Magic * Scale - Word * Drop
  /\ Magic * Scale - Word * Drop <= 2 * Drop

VARIABLES
  call,    \* the operation under way and its operands
  trip, rem_hi, rem_lo, quo,   \* the long division
  value,   \* what the operation returns
  flags    \* money_op_flags

moneyVars == <<call, trip, rem_hi, rem_lo, quo, value, flags>>

Mag(v) == IF v < 0 THEN -v ELSE v
Signed(mag, neg) == IF neg THEN -mag ELSE mag

-----------------------------------------------------------------------------
(* umul_128x128_256, as a pair of words.                                    *)
UmulNoCarry(a, b) ==                 \* mutation: the carry out of ll is dropped
  LET ll == (a % Limb) * (b % Limb)
      mid == ((a % Limb) * (b \div Limb) + (a \div Limb) * (b % Limb)) % Word
  IN [hi |-> ((a \div Limb) * (b \div Limb) + mid \div Limb) % Word,
      lo |-> ((mid % Limb) * Limb) + (ll % Limb)]
Umul(a, b) ==
  LET ll == (a % Limb) * (b % Limb)
      mid == ((a % Limb) * (b \div Limb) + (a \div Limb) * (b % Limb) + ll \div Limb) % Word
  IN [hi |-> ((a \div Limb) * (b \div Limb) + mid \div Limb) % Word,
      lo |-> ((mid % Limb) * Limb) + (ll % Limb)]

(* divmul_pow10: quotient and remainder of p by Scale.                      *)
DivPow10(p) == Umul(p, Magic).hi \div Drop

(* money_round_half_even                                                    *)
RoundHalfUp(q, r, d) ==              \* mutation: ties go up
  (q + IF 2 * r >= d THEN 1 ELSE 0) % Word
RoundHalfEven(q, r, d) ==
  LET up == r > d \div 2 \/ (r = d \div 2 /\ d % 2 = 0 /\ q % 2 = 1)
  IN (q + IF up THEN 1 ELSE 0) % Word

Pow10Rounded(p) ==
  LET q == DivPow10(p)
  IN RoundHalfEven(q, (p - q * Scale) % Word, Scale)

(* An amount, saturated to the closure.                                     *)
Result(mag, neg, over) ==
  [value |-> Signed(IF over THEN Lim ELSE mag, neg),
   flags |-> IF over THEN {"OVERFLOW"} ELSE {}]

-----------------------------------------------------------------------------
(* What needs no division loop.                                             *)
Money_Mul(a, b) ==
  LET p == Umul(Mag(a), Mag(b))
      mag == Pow10Rounded(p.lo)
  IN Result(mag, (a < 0) # (b < 0), p.hi # 0 \/ mag > Lim)

Money_Add(a, b) ==
  LET s == a + b IN Result(Mag(s), s < 0, s > Lim \/ s < -Lim)

Money_ToBinary(m) ==
  [value |-> Signed(Pow10Rounded((Mag(m) * Limb) % Word), m < 0), flags |-> {}]

Money_FromBinaryCut(b) ==            \* mutation: the remainder is cut off
  LET p == Umul(Mag(b), Scale)
      q == ((p.hi * Limb) % Word) + p.lo \div Limb
  IN Result(q, b < 0, p.hi \div Limb # 0 \/ q > Lim)
Money_FromBinary(b) ==
  LET p == Umul(Mag(b), Scale)
      q == RoundHalfEven(((p.hi * Limb) % Word) + p.lo \div Limb, p.lo % Limb, Limb)
  IN Result(q, b < 0, p.hi \div Limb # 0 \/ q > Lim)

(* A binary saturates without a flag.                                       *)
Saturated(mag, neg, over) ==
  [value |-> Signed(IF over THEN Top - 1 ELSE mag, neg), flags |-> {}]

fp2_mul(a, b) ==
  LET p == Umul(Mag(a), Mag(b))
      mag == ((p.hi * Limb) % Word) + p.lo \div Limb
  IN Saturated(mag, (a < 0) # (b < 0), p.hi \div Limb # 0 \/ mag \div Top # 0)

(* Two's complement: a sum out of range has wrapped.                        *)
Wrapped(s) == IF s >= Top THEN s - Word ELSE IF s < -Top THEN s + Word ELSE s
fp2_addsat(a, b) ==
  LET s == Wrapped(a + b)
  IN IF (a < 0) = (b < 0) /\ (a < 0) # (s < 0)
       THEN Saturated(0, a < 0, TRUE) ELSE [value |-> s, flags |-> {}]
fp2_sub(a, b) ==
  LET s == Wrapped(a - b)
  IN IF (a < 0) # (b < 0) /\ (a < 0) # (s < 0)
       THEN Saturated(0, a < 0, TRUE) ELSE [value |-> s, flags |-> {}]

Direct(op, a, b) ==
  CASE op = "Money_Mul" -> Money_Mul(a, b)
    [] op = "Money_Add" -> Money_Add(a, b)
    [] op = "Money_Sub" -> Money_Add(a, -b)
    [] op = "Money_QuantizeToStep" -> [value |-> a, flags |-> {}]
    [] op = "Money_ToBinary" -> Money_ToBinary(a)
    [] op = "Money_FromBinary" -> Money_FromBinary(a)
    [] op = "fp2_mul" -> fp2_mul(a, b)
    [] op = "fp2_addsat" -> fp2_addsat(a, b)
    [] op = "fp2_sub" -> fp2_sub(a, b)

-----------------------------------------------------------------------------
(* The dividends of the three operations that divide, and what they make of *)
(* quotient and remainder.                                                  *)
Dividend(op, a) ==
  CASE op = "Money_Div" -> Umul(Mag(a), Scale)
    [] op = "Money_QuantizeToStep" -> [hi |-> 0, lo |-> Mag(a)]
    [] op = "fp2_div" -> [hi |-> Mag(a) \div Limb, lo |-> (Mag(a) * Limb) % Word]

Money_Div(a, b, q, r) ==
  LET mag == RoundHalfEven(q, r, Mag(b))
  IN [value |-> Signed(IF mag > Lim \/ b = 0 THEN Lim ELSE mag, (a < 0) # (b < 0)),
      flags |-> IF b = 0 THEN {"DIVZERO"} ELSE IF mag > Lim THEN {"OVERFLOW"} ELSE {}]

Divided(op, a, b, q, r) ==
  CASE op = "Money_Div" -> Money_Div(a, b, q, r)
    [] op = "Money_QuantizeToStep" ->
         [value |-> Signed((q * b) % Word, a < 0), flags |-> {}]
    [] op = "fp2_div" -> Saturated(q, (a < 0) # (b < 0), q \div Top # 0)

-----------------------------------------------------------------------------
(* One call.  What comes in is what the domains of the code allow: closed   *)
(* amounts, and any binary but the least word.                              *)
Idle == [op |-> "none", a |-> 0, b |-> 0, at |-> "idle"]

MoneyInit ==
  /\ call = Idle /\ trip = 0 /\ rem_hi = 0 /\ rem_lo = 0 /\ quo = 0
  /\ value = 0 /\ flags = {}

Returns(result) ==
  /\ value' = result.value /\ flags' = flags \cup result.flags

CallDirect(op, a, b) ==
  /\ call.at = "idle"
  /\ call' = [op |-> op, a |-> a, b |-> b, at |-> "done"]
  /\ Returns(Direct(op, a, b))
  /\ UNCHANGED <<trip, rem_hi, rem_lo, quo>>

(* udiv256_qr, the 256-bit dividend in rem_hi and rem_lo.                   *)
CallDividing(op, a, b) ==
  /\ call.at = "idle"
  /\ call' = [op |-> op, a |-> a, b |-> b, at |-> "divides"]
  /\ trip' = 0 /\ quo' = 0
  /\ rem_hi' = Dividend(op, a).hi /\ rem_lo' = Dividend(op, a).lo
  /\ UNCHANGED <<value, flags>>

Trip ==
  /\ call.at = "divides" /\ trip < Bits
  /\ LET shifted == (2 * rem_hi + rem_lo \div Top) % Word
         ge == shifted >= Mag(call.b)
     IN /\ rem_hi' = IF ge THEN shifted - Mag(call.b) ELSE shifted
        /\ quo' = (2 * quo + IF ge THEN 1 ELSE 0) % Word
  /\ rem_lo' = (2 * rem_lo) % Word /\ trip' = trip + 1
  /\ UNCHANGED <<call, value, flags>>

FinishDivision ==
  /\ call.at = "divides" /\ trip = Bits
  /\ call' = [call EXCEPT !.at = "done"]
  /\ Returns(Divided(call.op, call.a, call.b, quo, rem_hi))
  /\ UNCHANGED <<trip, rem_hi, rem_lo, quo>>

(* The thread goes on; at the end of its cycle it reports the flags.        *)
Drain ==
  /\ call.at = "done" /\ call' = Idle
  /\ value' = 0 /\ flags' = {}
  /\ trip' = 0 /\ rem_hi' = 0 /\ rem_lo' = 0 /\ quo' = 0

MoneyNext ==
  \/ \E a, b \in Closed :
       \/ \E op \in {"Money_Mul", "Money_Add", "Money_Sub"} : CallDirect(op, a, b)
       \/ CallDividing("Money_Div", a, b)
       \/ IF b > 0 THEN CallDividing("Money_QuantizeToStep", a, b)
                   ELSE CallDirect("Money_QuantizeToStep", a, b)
  \/ \E a, b \in Binaries :
       \/ \E op \in {"fp2_mul", "fp2_addsat", "fp2_sub"} : CallDirect(op, a, b)
       \/ CallDividing("fp2_div", a, b)
  \/ \E a \in Closed : CallDirect("Money_ToBinary", a, 0)
  \/ \E a \in Binaries : CallDirect("Money_FromBinary", a, 0)
  \/ Trip \/ FinishDivision \/ Drain
MoneySpec == MoneyInit /\ [][MoneyNext]_moneyVars

-----------------------------------------------------------------------------
(* v is n / d to the nearest, ties to even.                                 *)
Nearest(v, n, d) ==
  LET off == Mag(v * d - n) IN 2 * off <= d /\ (2 * off = d => v % 2 = 0)
(* v is n / d, cut towards zero.                                            *)
Cut(v, n, d) ==
  /\ Mag(v) * d <= Mag(n) /\ Mag(n) < (Mag(v) + 1) * d
  /\ v # 0 => (v < 0) = (n < 0)

(* An amount is the exact one to the nearest, or the limit of its sign and  *)
(* a flag, and that only if the exact one would round beyond the limit.     *)
ExactAmount(result, n, d) ==
  \/ Nearest(result.value, n, d) /\ result.value \in Closed /\ result.flags = {}
  \/ /\ 2 * Mag(n) >= (2 * Lim + 1) * d
     /\ result = [value |-> Signed(Lim, n < 0), flags |-> {"OVERFLOW"}]
(* A binary is the exact one cut off, or the limit of its sign.             *)
ExactBinary(v, n, d) ==
  \/ Cut(v, n, d) /\ Mag(v) < Top
  \/ Mag(n) >= Top * d /\ v = Signed(Top - 1, n < 0)

(* n / d with the sign of d moved to n.                                     *)
Towards(n, d) == IF d < 0 THEN -n ELSE n

MoneyPromise(op, a, b, result) ==
  /\ op = "Money_Mul" => ExactAmount(result, a * b, Scale)
  /\ op = "Money_Add" => ExactAmount(result, a + b, 1)
  /\ op = "Money_Sub" => ExactAmount(result, a - b, 1)
  /\ op = "Money_Div" =>
       IF b = 0 THEN result = [value |-> Signed(Lim, a < 0), flags |-> {"DIVZERO"}]
                ELSE ExactAmount(result, Towards(a * Scale, b), Mag(b))
  /\ op = "Money_FromBinary" => ExactAmount(result, a * Scale, Limb)
  /\ op = "Money_ToBinary" => Nearest(result.value, a * Limb, Scale) /\ result.flags = {}
  /\ op = "Money_QuantizeToStep" =>
       IF b <= 0 THEN result.value = a
                 ELSE \E n \in Closed : result.value = n * b /\ Cut(n, a, b)

BinaryPromise(op, a, b, v) ==
  /\ op = "fp2_mul" => ExactBinary(v, a * b, Limb)
  /\ op = "fp2_addsat" => ExactBinary(v, a + b, 1) \/ (v = -Top /\ v = a + b)
  /\ op = "fp2_sub" => ExactBinary(v, a - b, 1) \/ (v = -Top /\ v = a - b)
  /\ op = "fp2_div" =>
       IF b = 0 THEN v = Signed(Top - 1, a < 0)
                ELSE ExactBinary(v, Towards(a * Limb, b), Mag(b))

Returned == [value |-> value, flags |-> flags]

(* Money is exact: every product, quotient, sum and conversion of amounts   *)
(* is the true one rounded half to even, or saturated and flagged; nothing  *)
(* wraps, and a division by zero is told apart.  A quantity is cut to a     *)
(* multiple of the venue's step (FixedPointN.hpp, Money_Mul to              *)
(* Money_QuantizeToStep).                                                   *)
MoneyExact ==
  call.at = "done" => MoneyPromise(call.op, call.a, call.b, Returned)

(* The binary core: every result is the true one cut off, or saturated by   *)
(* its sign, a division by zero included (FixedPointN.hpp, fp2_mul to       *)
(* fp2_div); only a sum can be the one word without a counterpart.          *)
BinaryExact ==
  call.at = "done" => BinaryPromise(call.op, call.a, call.b, value)

(* An amount that crosses the seam to the binary side and back is the same  *)
(* amount, with no flag (Money_ToBinary, Money_FromBinary).                 *)
SeamRoundTrips ==
  call.at = "done" /\ call.op = "Money_ToBinary" =>
    Money_FromBinary(value) = [value |-> call.a, flags |-> {}]
=============================================================================
