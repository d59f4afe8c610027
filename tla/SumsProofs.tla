----------------------------- MODULE SumsProofs -----------------------------
(***************************************************************************)
(* What the sums compute, over sequences of any length and functions with   *)
(* any finite domain.  The induction is the least-number principle: the set *)
(* of lengths, or of cardinalities, for which a fact fails has no least     *)
(* element.                                                                 *)
(***************************************************************************)
EXTENDS Sums, WellFoundedInduction, SequenceTheorems, FiniteSetTheorems, TLAPS

Below == {p \in Nat \X Nat : p[1] < p[2]}

LEMMA BelowWellFounded == IsWellFoundedOn(Below, Nat)
BY NatLessThanWellFounded, Zenon DEF OpToRel, Below

LEMMA LeastNumber ==
  ASSUME NEW T, T \subseteq Nat, T # {}
  PROVE  \E x \in T : \A y \in T : x <= y
<1>1. \E x \in T : \A y \in T : ~ (<<y, x>> \in Below)
  BY BelowWellFounded, WFMin, Zenon
<1>2. PICK x \in T : \A y \in T : ~ (<<y, x>> \in Below)
  BY <1>1
<1>3. ASSUME NEW y \in T PROVE x <= y
  <2>1. x \in Nat /\ y \in Nat /\ <<y, x>> \notin Below
    BY <1>2
  <2>2. y < x => <<y, x>> \in Below
    BY <2>1 DEF Below
  <2> QED BY <2>1, <2>2
<1> QED BY <1>3

(* What holds of nothing, and of one more whenever it holds, holds of all.  *)
LEMMA Induction ==
  ASSUME NEW P, 0 \in P, \A n \in Nat : n \in P => n + 1 \in P
  PROVE  Nat \subseteq P
<1> SUFFICES ASSUME Nat \ P # {} PROVE FALSE
  OBVIOUS
<1>1. PICK x \in Nat \ P : \A y \in Nat \ P : x <= y
  BY LeastNumber
<1>2. x # 0 /\ x - 1 \in Nat
  BY <1>1
<1>3. x - 1 \in P
  BY <1>1, <1>2
<1> QED BY <1>1, <1>2, <1>3

(* The same up to a bound.                                                  *)
LEMMA BoundedInduction ==
  ASSUME NEW m \in Nat, NEW P, 0 \in P, \A n \in 0 .. m - 1 : n \in P => n + 1 \in P
  PROVE  0 .. m \subseteq P
<1> DEFINE Q == {n \in Nat : n <= m => n \in P}
<1>1. 0 \in Q
  OBVIOUS
<1>2. ASSUME NEW n \in Nat, n \in Q PROVE n + 1 \in Q
  <2>1. CASE n + 1 <= m
    <3>1. n \in 0 .. m - 1 /\ n \in P
      BY <1>2, <2>1
    <3> QED BY <3>1
  <2>2. CASE ~(n + 1 <= m)
    BY <2>2
  <2> QED BY <2>1, <2>2
<1>3. Nat \subseteq Q
  <2> HIDE DEF Q
  <2> QED BY <1>1, <1>2, Induction
<1> QED BY <1>3

-----------------------------------------------------------------------------
LEMMA TotalsExist ==
  ASSUME NEW s \in Seq(Int)
  PROVE  \E r : r = [i \in 0 .. Len(s) |-> IF i = 0 THEN 0 ELSE r[i - 1] + s[i]]
<1> DEFINE Ok(n, r) == r = [i \in 0 .. n |-> IF i = 0 THEN 0 ELSE r[i - 1] + s[i]]
           P == {n \in 0 .. Len(s) : \E r : Ok(n, r)}
<1>1. Len(s) \in Nat
  OBVIOUS
<1>2. 0 \in P
  <2>1. Ok(0, [i \in 0 .. 0 |-> 0])
    OBVIOUS
  <2>2. 0 \in 0 .. Len(s)
    BY <1>1
  <2> HIDE DEF Ok
  <2> QED BY <2>1, <2>2
<1>3. ASSUME NEW n \in 0 .. Len(s) - 1, n \in P PROVE n + 1 \in P
  <2>1. PICK r : Ok(n, r)
    BY <1>3
  <2> DEFINE q == [i \in 0 .. n + 1 |-> IF i = n + 1 THEN r[n] + s[n + 1] ELSE r[i]]
  <2>2. Ok(n + 1, q)
    <3>1. ASSUME NEW i \in 0 .. n + 1
          PROVE  q[i] = IF i = 0 THEN 0 ELSE q[i - 1] + s[i]
      <4>1. CASE i = n + 1
        BY <4>1
      <4>2. CASE i \in 0 .. n
        <5>1. r[i] = IF i = 0 THEN 0 ELSE r[i - 1] + s[i]
          BY <2>1, <4>2
        <5>2. q[i] = r[i] /\ (i # 0 => q[i - 1] = r[i - 1])
          BY <4>2
        <5> QED BY <5>1, <5>2
      <4> QED BY <4>1, <4>2
    <3> QED BY <3>1
  <2>3. n + 1 \in 0 .. Len(s)
    BY <1>1
  <2> HIDE DEF Ok, q
  <2> QED BY <2>2, <2>3
<1>4. Len(s) \in P
  <2> HIDE DEF P
  <2>1. 0 .. Len(s) \subseteq P
    BY <1>1, <1>2, <1>3, BoundedInduction
  <2> QED BY <1>1, <2>1
<1> QED BY <1>4

LEMMA TotalsAre ==
  ASSUME NEW s \in Seq(Int)
  PROVE  /\ DOMAIN Totals(s) = 0 .. Len(s)
         /\ Totals(s)[0] = 0
         /\ \A i \in 1 .. Len(s) : Totals(s)[i] = Totals(s)[i - 1] + s[i]
<1>1. Totals(s) = [i \in 0 .. Len(s) |-> IF i = 0 THEN 0 ELSE Totals(s)[i - 1] + s[i]]
  BY TotalsExist DEF Totals
<1>2. Len(s) \in Nat
  OBVIOUS
<1> DEFINE f == Totals(s)
<1>3. f = [i \in 0 .. Len(s) |-> IF i = 0 THEN 0 ELSE f[i - 1] + s[i]]
  BY <1>1
<1> HIDE DEF f
<1>4. DOMAIN f = 0 .. Len(s) /\ \A i \in 0 .. Len(s) : f[i] = IF i = 0 THEN 0 ELSE f[i - 1] + s[i]
  BY <1>3
<1>5. f[0] = 0
  BY <1>2, <1>4
<1>6. \A i \in 1 .. Len(s) : f[i] = f[i - 1] + s[i]
  BY <1>2, <1>4
<1> QED BY <1>4, <1>5, <1>6 DEF f

LEMMA TotalsType ==
  ASSUME NEW s \in Seq(Int), NEW n \in 0 .. Len(s)
  PROVE  Totals(s)[n] \in Int
<1> DEFINE P == {k \in Int : Totals(s)[k] \in Int}
<1>1. 0 \in P
  BY TotalsAre
<1>2. ASSUME NEW k \in 0 .. Len(s) - 1, k \in P PROVE k + 1 \in P
  <2>1. k + 1 \in 1 .. Len(s) /\ s[k + 1] \in Int
    OBVIOUS
  <2>2. Totals(s)[k + 1] = Totals(s)[k] + s[k + 1]
    BY <2>1, TotalsAre
  <2> QED BY <1>2, <2>1, <2>2
<1>3. 0 .. Len(s) \subseteq P
  <2>1. Len(s) \in Nat
    OBVIOUS
  <2> HIDE DEF P
  <2> QED BY <1>1, <1>2, <2>1, BoundedInduction
<1> QED BY <1>3

LEMMA SumType == ASSUME NEW s \in Seq(Int) PROVE SumSeq(s) \in Int
BY TotalsType DEF SumSeq

LEMMA SumEmpty == SumSeq(<< >>) = 0
<1>1. << >> \in Seq(Int) /\ Len(<< >>) = 0
  OBVIOUS
<1> QED BY <1>1, TotalsAre DEF SumSeq

(* Equal beginnings have equal totals.                                      *)
LEMMA TotalsPrefix ==
  ASSUME NEW s \in Seq(Int), NEW t \in Seq(Int), NEW m \in Nat,
         m <= Len(s), m <= Len(t), \A i \in 1 .. m : s[i] = t[i]
  PROVE  Totals(s)[m] = Totals(t)[m]
<1> DEFINE P == {k \in Int : Totals(s)[k] = Totals(t)[k]}
<1>1. 0 \in P
  BY TotalsAre
<1>2. ASSUME NEW k \in 0 .. m - 1, k \in P PROVE k + 1 \in P
  <2>1. k + 1 \in 1 .. m /\ Len(s) \in Nat /\ Len(t) \in Nat
    OBVIOUS
  <2>a. k + 1 \in 1 .. Len(s) /\ k + 1 \in 1 .. Len(t) /\ s[k + 1] = t[k + 1]
    BY <2>1
  <2>2. /\ Totals(s)[k + 1] = Totals(s)[k] + s[k + 1]
        /\ Totals(t)[k + 1] = Totals(t)[k] + t[k + 1]
    BY <2>a, TotalsAre
  <2> QED BY <1>2, <2>a, <2>2
<1>3. 0 .. m \subseteq P
  <2> HIDE DEF P
  <2> QED BY <1>1, <1>2, BoundedInduction
<1>4. m \in 0 .. m
  OBVIOUS
<1> QED BY <1>3, <1>4

LEMMA SumAppend ==
  ASSUME NEW s \in Seq(Int), NEW x \in Int
  PROVE  SumSeq(Append(s, x)) = SumSeq(s) + x
<1> DEFINE t == Append(s, x)
<1>1. /\ t \in Seq(Int) /\ Len(t) = Len(s) + 1 /\ Len(s) \in Nat
      /\ \A i \in 1 .. Len(s) : t[i] = s[i]
      /\ t[Len(s) + 1] = x
  OBVIOUS
<1> HIDE DEF t
<1>2. Totals(t)[Len(t)] = Totals(t)[Len(s)] + x
  BY <1>1, TotalsAre
<1>3. Totals(s)[Len(s)] = Totals(t)[Len(s)]
  <2>1. Len(s) <= Len(s) /\ Len(s) <= Len(t) /\ \A i \in 1 .. Len(s) : s[i] = t[i]
    BY <1>1
  <2> QED BY <1>1, <2>1, TotalsPrefix
<1> QED BY <1>2, <1>3 DEF SumSeq, t

LEMMA SumConcat ==
  ASSUME NEW s \in Seq(Int), NEW t \in Seq(Int)
  PROVE  SumSeq(s \o t) = SumSeq(s) + SumSeq(t)
<1> DEFINE u == s \o t
           m == Len(s)
           P == {k \in Int : Totals(u)[m + k] = Totals(s)[m] + Totals(t)[k]}
<1>1. /\ u \in Seq(Int) /\ Len(u) = m + Len(t) /\ m \in Nat /\ Len(t) \in Nat
      /\ \A i \in 1 .. m : u[i] = s[i]
      /\ \A i \in 1 .. Len(t) : u[m + i] = t[i]
  OBVIOUS
<1> HIDE DEF u
<1>2. 0 \in P
  <2>1. Totals(u)[m] = Totals(s)[m]
    <3>1. m <= Len(s) /\ m <= Len(u)
      BY <1>1
    <3> QED BY <1>1, <3>1, TotalsPrefix
  <2>2. Totals(t)[0] = 0 /\ Totals(s)[m] \in Int
    BY TotalsAre, TotalsType
  <2> QED BY <1>1, <2>1, <2>2
<1>3. ASSUME NEW k \in 0 .. Len(t) - 1, k \in P PROVE k + 1 \in P
  <2>0. k + 1 \in 1 .. Len(t)
    BY <1>1
  <2>1. k + 1 \in 1 .. Len(t) /\ m + (k + 1) \in 1 .. Len(u) /\ u[m + (k + 1)] = t[k + 1]
    <3> HIDE DEF m
    <3> QED BY <1>1, <2>0
  <2>2. Totals(u)[m + (k + 1)] = Totals(u)[(m + (k + 1)) - 1] + u[m + (k + 1)]
    BY <1>1, <2>1, TotalsAre
  <2>3. Totals(t)[k + 1] = Totals(t)[k] + t[k + 1]
    BY <2>1, TotalsAre
  <2>4. (m + (k + 1)) - 1 = m + k
    BY <1>1
  <2>5. Totals(s)[m] \in Int /\ Totals(t)[k] \in Int /\ t[k + 1] \in Int
    BY <2>1, TotalsType
  <2> QED BY <1>3, <2>1, <2>2, <2>3, <2>4, <2>5
<1>4. 0 .. Len(t) \subseteq P
  <2> HIDE DEF P
  <2> QED BY <1>1, <1>2, <1>3, BoundedInduction
<1> QED BY SMTT(30), <1>1, <1>4 DEF SumSeq, u

LEMMA SumOne == ASSUME NEW x \in Int PROVE SumSeq(<<x>>) = x
<1>1. <<x>> = Append(<< >>, x) /\ << >> \in Seq(Int)
  OBVIOUS
<1>2. SumSeq(Append(<< >>, x)) = SumSeq(<< >>) + x
  BY <1>1, SumAppend
<1> QED BY <1>1, <1>2, SumEmpty

LEMMA SumTail ==
  ASSUME NEW s \in Seq(Int), s # << >>
  PROVE  SumSeq(s) = Head(s) + SumSeq(Tail(s))
<1>1. s = <<Head(s)>> \o Tail(s) /\ <<Head(s)>> \in Seq(Int) /\ Tail(s) \in Seq(Int)
      /\ Head(s) \in Int
  OBVIOUS
<1> QED BY <1>1, SumConcat, SumOne

(* Two sequences that differ in one place.                                  *)
LEMMA SumChanged ==
  ASSUME NEW s \in Seq(Int), NEW t \in Seq(Int), Len(t) = Len(s), NEW k \in 1 .. Len(s),
         \A i \in 1 .. Len(s) : i # k => t[i] = s[i]
  PROVE  SumSeq(t) = SumSeq(s) + (t[k] - s[k])
<1> DEFINE P == {i \in Int : Totals(t)[i] = IF i < k THEN Totals(s)[i]
                                             ELSE Totals(s)[i] + (t[k] - s[k])}
<1>1. Len(s) \in Nat /\ k \in Nat /\ k >= 1 /\ k <= Len(s) /\ t[k] \in Int /\ s[k] \in Int
  OBVIOUS
<1>2. 0 \in P
  <2>1. Totals(s)[0] = 0 /\ Totals(t)[0] = 0
    BY TotalsAre
  <2> QED BY <1>1, <2>1
<1>3. ASSUME NEW i \in 0 .. Len(s) - 1, i \in P PROVE i + 1 \in P
  <2>1. i + 1 \in 1 .. Len(s) /\ (i + 1) - 1 = i /\ i + 1 \in 1 .. Len(t) /\ i \in 0 .. Len(s)
    BY <1>1
  <2>2. /\ Totals(s)[i + 1] = Totals(s)[i] + s[i + 1]
        /\ Totals(t)[i + 1] = Totals(t)[i] + t[i + 1]
    BY <2>1, TotalsAre
  <2>3. Totals(s)[i] \in Int /\ s[i + 1] \in Int /\ t[i + 1] \in Int
    BY <2>1, TotalsType
  <2>4. CASE i + 1 < k
    <3>1. i < k /\ i + 1 # k
      BY <1>1, <2>4
    <3>2. t[i + 1] = s[i + 1] /\ Totals(t)[i] = Totals(s)[i]
      BY <1>3, <2>1, <3>1
    <3> QED BY <2>1, <2>2, <2>4, <3>2
  <2>5. CASE i + 1 = k
    <3>1. Totals(t)[i] = Totals(s)[i]
      BY <1>1, <1>3, <2>5
    <3>2. Totals(t)[k] = Totals(s)[k] + (t[k] - s[k])
      BY <1>1, <2>2, <2>3, <2>5, <3>1
    <3> QED BY <2>1, <2>5, <3>2
  <2>6. CASE i + 1 > k
    <3>1. ~(i < k) /\ i + 1 # k /\ ~(i + 1 < k)
      BY <1>1, <2>6
    <3>2. t[i + 1] = s[i + 1] /\ Totals(t)[i] = Totals(s)[i] + (t[k] - s[k])
      BY <1>3, <2>1, <3>1
    <3>3. Totals(t)[i + 1] = Totals(s)[i + 1] + (t[k] - s[k])
      BY <1>1, <2>2, <2>3, <3>2
    <3> QED BY <2>1, <3>1, <3>3
  <2> QED BY <1>1, <2>1, <2>4, <2>5, <2>6
<1>4. 0 .. Len(s) \subseteq P
  <2> HIDE DEF P
  <2> QED BY <1>1, <1>2, <1>3, BoundedInduction
<1>5. Len(s) \in P /\ ~(Len(s) < k)
  BY <1>1, <1>4
<1> QED BY <1>1, <1>5 DEF SumSeq

LEMMA SumZero ==
  ASSUME NEW s \in Seq(Int), \A i \in 1 .. Len(s) : s[i] = 0
  PROVE  SumSeq(s) = 0
<1> DEFINE P == {i \in Int : Totals(s)[i] = 0}
<1>1. 0 \in P
  BY TotalsAre
<1>2. ASSUME NEW i \in 0 .. Len(s) - 1, i \in P PROVE i + 1 \in P
  <2>1. i + 1 \in 1 .. Len(s) /\ (i + 1) - 1 = i
    OBVIOUS
  <2>2. Totals(s)[i + 1] = Totals(s)[i] + s[i + 1]
    BY <2>1, TotalsAre
  <2> QED BY <1>2, <2>1, <2>2
<1>3. Len(s) \in Nat
  OBVIOUS
<1>4. 0 .. Len(s) \subseteq P
  <2> HIDE DEF P
  <2> QED BY <1>1, <1>2, <1>3, BoundedInduction
<1> QED BY <1>3, <1>4 DEF SumSeq

(* Two sequences with the same members in the same places are equal.        *)
LEMMA SameSeq ==
  ASSUME NEW S, NEW s \in Seq(S), NEW t \in Seq(S), Len(s) = Len(t),
         \A i \in 1 .. Len(s) : s[i] = t[i]
  PROVE  s = t
OBVIOUS

LEMMA SumNat ==
  ASSUME NEW s \in Seq(Nat)
  PROVE  SumSeq(s) \in Nat
<1> DEFINE P == {i \in Int : Totals(s)[i] \in Nat}
<1>0. s \in Seq(Int)
  OBVIOUS
<1>1. 0 \in P
  BY <1>0, TotalsAre
<1>2. ASSUME NEW i \in 0 .. Len(s) - 1, i \in P PROVE i + 1 \in P
  <2>1. i + 1 \in 1 .. Len(s) /\ (i + 1) - 1 = i
    OBVIOUS
  <2>2. Totals(s)[i + 1] = Totals(s)[i] + s[i + 1]
    BY <1>0, <2>1, TotalsAre
  <2>3. Totals(s)[i] \in Nat /\ s[i + 1] \in Nat
    BY <1>2, <2>1
  <2> QED BY <2>2, <2>3
<1>3. Len(s) \in Nat
  OBVIOUS
<1>4. 0 .. Len(s) \subseteq P
  <2> HIDE DEF P
  <2> QED BY <1>1, <1>2, <1>3, BoundedInduction
<1> QED BY <1>3, <1>4 DEF SumSeq

-----------------------------------------------------------------------------
(* Sums of functions.  What holds of the empty set, and of a set whenever   *)
(* it holds of the set without any one of its elements, holds of every      *)
(* subset of a finite set.                                                  *)
LEMMA SubsetInduction ==
  ASSUME NEW D, IsFiniteSet(D), NEW P, {} \in P,
         \A T \in SUBSET D : T # {} /\ (\A x \in T : T \ {x} \in P) => T \in P
  PROVE  SUBSET D \subseteq P
<1> DEFINE Q == {n \in Nat : \A T \in SUBSET D : Cardinality(T) = n => T \in P}
<1>1. \A T \in SUBSET D : IsFiniteSet(T) /\ Cardinality(T) \in Nat
  BY FS_Subset, FS_CardinalityType
<1>2. 0 \in Q
  <2>1. \A T \in SUBSET D : Cardinality(T) = 0 => T = {}
    BY <1>1, FS_EmptySet
  <2> QED BY <2>1
<1>3. ASSUME NEW n \in Nat, n \in Q PROVE n + 1 \in Q
  <2> SUFFICES ASSUME NEW T \in SUBSET D, Cardinality(T) = n + 1 PROVE T \in P
    OBVIOUS
  <2>1. T # {}
    <3>1. Cardinality({}) = 0 /\ n + 1 # 0
      BY FS_EmptySet
    <3> QED BY <3>1
  <2>2. \A x \in T : T \ {x} \in P
    <3> SUFFICES ASSUME NEW x \in T PROVE T \ {x} \in P
      OBVIOUS
    <3>1. Cardinality(T \ {x}) = n /\ T \ {x} \in SUBSET D
      BY <1>1, FS_RemoveElement
    <3> QED BY <1>3, <3>1
  <2> QED BY <2>1, <2>2
<1>4. Nat \subseteq Q
  <2> HIDE DEF Q
  <2> QED BY <1>2, <1>3, Induction
<1> QED BY <1>1, <1>4

LEMMA SumsOverAre ==
  ASSUME NEW D, IsFiniteSet(D), NEW f \in [D -> Int]
  PROVE  /\ SumsOver(f)[{}] = 0
         /\ \A T \in SUBSET D : T # {} =>
              \E x \in T : /\ x = CHOOSE y \in T : TRUE
                          /\ SumsOver(f)[T] = f[x] + SumsOver(f)[T \ {x}]
<1> DEFINE Small(n) == {T \in SUBSET D : Cardinality(T) <= n}
           One(T) == CHOOSE x \in T : TRUE
           Ok(n, r) == r = [T \in Small(n) |->
                              IF T = {} THEN 0 ELSE f[One(T)] + r[T \ {One(T)}]]
           P == {n \in 0 .. Cardinality(D) : \E r : Ok(n, r)}
<1>1. /\ Cardinality(D) \in Nat
      /\ \A T \in SUBSET D : /\ IsFiniteSet(T) /\ Cardinality(T) \in Nat
                            /\ Cardinality(T) <= Cardinality(D)
  BY FS_Subset, FS_CardinalityType
<1>2. \A T \in SUBSET D : T # {} =>
        /\ One(T) \in T /\ T \ {One(T)} \in SUBSET D
        /\ Cardinality(T \ {One(T)}) = Cardinality(T) - 1
  BY <1>1, FS_RemoveElement
<1>3. 0 \in P
  <2>1. \A T \in Small(0) : T = {}
    BY <1>1, FS_EmptySet
  <2>2. Ok(0, [T \in Small(0) |-> 0])
    BY <2>1
  <2>3. 0 \in 0 .. Cardinality(D)
    BY <1>1
  <2> HIDE DEF Ok
  <2> QED BY <2>2, <2>3
<1> HIDE DEF One
<1>4. ASSUME NEW n \in 0 .. Cardinality(D) - 1, n \in P PROVE n + 1 \in P
  <2>1. PICK r : Ok(n, r)
    BY <1>4
  <2> DEFINE q == [T \in Small(n + 1) |->
                     IF T = {} THEN 0 ELSE f[One(T)] + r[T \ {One(T)}]]
  <2>2. Ok(n + 1, q)
    <3> SUFFICES ASSUME NEW T \in Small(n + 1), T # {}
                 PROVE  r[T \ {One(T)}] = q[T \ {One(T)}]
      OBVIOUS
    <3> DEFINE U == T \ {One(T)}
    <3>1. U \in Small(n) /\ U \in Small(n + 1)
      BY <1>1, <1>2
    <3> HIDE DEF U
    <3>2. r[U] = IF U = {} THEN 0 ELSE f[One(U)] + r[U \ {One(U)}]
      <4> HIDE DEF Small
      <4> QED BY <2>1, <3>1
    <3>3. q[U] = IF U = {} THEN 0 ELSE f[One(U)] + r[U \ {One(U)}]
      <4> HIDE DEF Small
      <4> QED BY <3>1
    <3> QED BY <3>2, <3>3 DEF U
  <2>3. n + 1 \in 0 .. Cardinality(D)
    BY <1>1
  <2> HIDE DEF Ok, q
  <2> QED BY <2>2, <2>3
<1>5. Cardinality(D) \in P
  <2> HIDE DEF P
  <2>1. 0 .. Cardinality(D) \subseteq P
    BY <1>1, <1>3, <1>4, BoundedInduction
  <2> QED BY <1>1, <2>1
<1>6. Small(Cardinality(D)) = SUBSET D
  BY <1>1
<1>7. PICK r : Ok(Cardinality(D), r)
  BY <1>5
<1>8. DOMAIN f = D
  OBVIOUS
<1>9. r = [T \in SUBSET DOMAIN f |-> IF T = {} THEN 0 ELSE f[One(T)] + r[T \ {One(T)}]]
  BY <1>6, <1>7, <1>8
<1> HIDE DEF Small, Ok, P
<1>10. SumsOver(f) = [T \in SUBSET DOMAIN f |->
         IF T = {} THEN 0 ELSE LET x == CHOOSE x \in T : TRUE IN f[x] + SumsOver(f)[T \ {x}]]
  <2>1. \E q : q = [T \in SUBSET DOMAIN f |->
          IF T = {} THEN 0 ELSE LET x == CHOOSE x \in T : TRUE IN f[x] + q[T \ {x}]]
    BY <1>9, Zenon DEF One
  <2> QED BY <2>1, Zenon DEF SumsOver
<1> DEFINE s == SumsOver(f)
<1>11. s = [T \in SUBSET D |->
         IF T = {} THEN 0 ELSE LET x == CHOOSE x \in T : TRUE IN f[x] + s[T \ {x}]]
  BY <1>8, <1>10
<1> HIDE DEF s
<1>12. \A T \in SUBSET D :
        s[T] = IF T = {} THEN 0 ELSE LET x == CHOOSE x \in T : TRUE IN f[x] + s[T \ {x}]
  BY <1>11
<1>13. s[{}] = 0
  BY <1>12
<1>14. ASSUME NEW T \in SUBSET D, T # {}
      PROVE  \E x \in T : x = (CHOOSE y \in T : TRUE) /\ s[T] = f[x] + s[T \ {x}]
  <2>1. (CHOOSE y \in T : TRUE) \in T
    BY <1>14
  <2>2. s[T] = LET x == CHOOSE x \in T : TRUE IN f[x] + s[T \ {x}]
    BY <1>12, <1>14
  <2> QED BY <2>1, <2>2
<1> QED BY <1>13, <1>14 DEF s

LEMMA SumsOverTyped ==
  ASSUME NEW D, IsFiniteSet(D), NEW f \in [D -> Int]
  PROVE  \A T \in SUBSET D : SumsOver(f)[T] \in Int
<1> DEFINE P == {T \in SUBSET D : SumsOver(f)[T] \in Int}
<1>1. {} \in P
  BY SumsOverAre
<1>2. ASSUME NEW T \in SUBSET D, T # {}, \A x \in T : T \ {x} \in P PROVE T \in P
  <2>1. PICK x \in T : SumsOver(f)[T] = f[x] + SumsOver(f)[T \ {x}]
    BY <1>2, SumsOverAre
  <2>2. f[x] \in Int /\ SumsOver(f)[T \ {x}] \in Int
    BY <1>2
  <2> QED BY <2>1, <2>2
<1>3. SUBSET D \subseteq P
  <2> HIDE DEF P
  <2> QED BY <1>1, <1>2, SubsetInduction
<1> QED BY <1>3

(* The same values have the same sum, whatever else the functions map.      *)
LEMMA SumsOverSame ==
  ASSUME NEW D, IsFiniteSet(D), NEW f \in [D -> Int], NEW E, IsFiniteSet(E), NEW g \in [E -> Int],
         NEW S, S \subseteq D, S \subseteq E, \A x \in S : f[x] = g[x]
  PROVE  \A T \in SUBSET S : SumsOver(f)[T] = SumsOver(g)[T]
<1> DEFINE P == {T \in SUBSET S : SumsOver(f)[T] = SumsOver(g)[T]}
<1>1. {} \in P
  BY SumsOverAre
<1>2. ASSUME NEW T \in SUBSET S, T # {}, \A x \in T : T \ {x} \in P PROVE T \in P
  <2>1. T \in SUBSET D /\ T \in SUBSET E
    OBVIOUS
  <2>2. PICK x \in T : x = (CHOOSE y \in T : TRUE)
                      /\ SumsOver(f)[T] = f[x] + SumsOver(f)[T \ {x}]
    BY <1>2, <2>1, SumsOverAre
  <2>3. PICK z \in T : z = (CHOOSE y \in T : TRUE)
                      /\ SumsOver(g)[T] = g[z] + SumsOver(g)[T \ {z}]
    BY <1>2, <2>1, SumsOverAre
  <2>4. SumsOver(f)[T \ {x}] = SumsOver(g)[T \ {x}] /\ x = z /\ f[x] = g[x]
    BY <1>2, <2>2, <2>3
  <2> QED BY <2>2, <2>3, <2>4
<1>3. IsFiniteSet(S)
  BY FS_Subset
<1>4. SUBSET S \subseteq P
  <2> HIDE DEF P
  <2> QED BY <1>1, <1>2, <1>3, SubsetInduction
<1> QED BY <1>4


(* Any one element may be taken out first.                                  *)
Splits(f, D) == \A T \in SUBSET D : \A x \in T : SumsOver(f)[T] = f[x] + SumsOver(f)[T \ {x}]

LEMMA SumsOverSplit ==
  ASSUME NEW D, IsFiniteSet(D), NEW f \in [D -> Int]
  PROVE  Splits(f, D)
<1> DEFINE P == {T \in SUBSET D : \A x \in T : SumsOver(f)[T] = f[x] + SumsOver(f)[T \ {x}]}
<1>1. {} \in P
  OBVIOUS
<1>2. ASSUME NEW T \in SUBSET D, T # {}, \A x \in T : T \ {x} \in P PROVE T \in P
  <2> SUFFICES ASSUME NEW x \in T PROVE SumsOver(f)[T] = f[x] + SumsOver(f)[T \ {x}]
    OBVIOUS
  <2>1. PICK c \in T : SumsOver(f)[T] = f[c] + SumsOver(f)[T \ {c}]
    BY <1>2, SumsOverAre
  <2>2. CASE x = c
    BY <2>1, <2>2
  <2>3. CASE x # c
    <3> DEFINE U == (T \ {c}) \ {x}
    <3>1. x \in T \ {c} /\ c \in T \ {x} /\ (T \ {x}) \ {c} = U
      BY <2>3
    <3>2. SumsOver(f)[T \ {c}] = f[x] + SumsOver(f)[U]
      BY <1>2, <3>1
    <3>3. SumsOver(f)[T \ {x}] = f[c] + SumsOver(f)[U]
      BY <1>2, <3>1
    <3>4. f[x] \in Int /\ f[c] \in Int /\ SumsOver(f)[U] \in Int
      BY SumsOverTyped
    <3> QED BY <2>1, <3>2, <3>3, <3>4
  <2> QED BY <2>2, <2>3
<1>3. SUBSET D \subseteq P
  <2> HIDE DEF P
  <2> QED BY <1>1, <1>2, SubsetInduction
<1> QED BY <1>3 DEF Splits

LEMMA SumOverType ==
  ASSUME NEW D, IsFiniteSet(D), NEW f \in [D -> Int]
  PROVE  SumOver(f) \in Int
BY SumsOverTyped DEF SumOver

LEMMA SumOverEmpty == ASSUME NEW f \in [{} -> Int] PROVE SumOver(f) = 0
<1>1. IsFiniteSet({}) /\ DOMAIN f = {}
  BY FS_EmptySet
<1> QED BY <1>1, SumsOverAre DEF SumOver

(* One more element adds its value.                                         *)
LEMMA SumOverGrown ==
  ASSUME NEW D, IsFiniteSet(D), NEW f \in [D -> Int], NEW x, x \notin D,
         NEW g \in [D \cup {x} -> Int], \A y \in D : g[y] = f[y]
  PROVE  SumOver(g) = SumOver(f) + g[x]
<1> DEFINE E == D \cup {x}
<1>1. IsFiniteSet(E) /\ DOMAIN g = E /\ DOMAIN f = D /\ E \ {x} = D /\ x \in E
  BY FS_AddElement
<1>2. SumsOver(g)[E] = g[x] + SumsOver(g)[D]
  <2>1. Splits(g, E)
    BY <1>1, SumsOverSplit
  <2> QED BY <1>1, <2>1 DEF Splits
<1>3. SumsOver(f)[D] = SumsOver(g)[D]
  <2>1. \A T \in SUBSET D : SumsOver(f)[T] = SumsOver(g)[T]
    BY <1>1, SumsOverSame
  <2> QED BY <2>1
<1>4. g[x] \in Int /\ SumsOver(f)[D] \in Int
  BY SumsOverTyped
<1> QED BY <1>1, <1>2, <1>3, <1>4 DEF SumOver

(* Where the value of one element changes, the sum changes by as much.      *)
LEMMA SumOverChanged ==
  ASSUME NEW D, IsFiniteSet(D), NEW f \in [D -> Int], NEW g \in [D -> Int], NEW x \in D,
         \A y \in D : y # x => g[y] = f[y]
  PROVE  SumOver(g) = SumOver(f) + (g[x] - f[x])
<1>1. /\ SumsOver(f)[D] = f[x] + SumsOver(f)[D \ {x}]
      /\ SumsOver(g)[D] = g[x] + SumsOver(g)[D \ {x}]
  <2>1. Splits(f, D) /\ Splits(g, D)
    BY SumsOverSplit
  <2> QED BY <2>1 DEF Splits
<1>2. SumsOver(f)[D \ {x}] = SumsOver(g)[D \ {x}]
  <2>1. \A T \in SUBSET (D \ {x}) : SumsOver(f)[T] = SumsOver(g)[T]
    BY SumsOverSame
  <2> QED BY <2>1
<1>3. f[x] \in Int /\ g[x] \in Int /\ SumsOver(f)[D \ {x}] \in Int
  BY SumsOverTyped
<1>4. DOMAIN f = D /\ DOMAIN g = D
  OBVIOUS
<1> QED BY <1>1, <1>2, <1>3, <1>4 DEF SumOver

(* The sum of a difference is the difference of the sums.                   *)
LEMMA SumOverDiff ==
  ASSUME NEW D, IsFiniteSet(D), NEW f \in [D -> Int], NEW g \in [D -> Int], NEW h \in [D -> Int]
  PROVE  (\A x \in D : h[x] = f[x] - g[x]) => SumOver(h) = SumOver(f) - SumOver(g)
<1>0. Splits(f, D) /\ Splits(g, D) /\ Splits(h, D)
  BY SumsOverSplit
<1> SUFFICES ASSUME \A x \in D : h[x] = f[x] - g[x]
             PROVE  SumOver(h) = SumOver(f) - SumOver(g)
  OBVIOUS
<1> DEFINE P == {T \in SUBSET D : SumsOver(h)[T] = SumsOver(f)[T] - SumsOver(g)[T]}
<1>1. {} \in P
  <2>1. SumsOver(f)[{}] = 0 /\ SumsOver(g)[{}] = 0 /\ SumsOver(h)[{}] = 0
    BY SumsOverAre
  <2> QED BY <2>1
<1>2. ASSUME NEW T \in SUBSET D, T # {}, \A x \in T : T \ {x} \in P PROVE T \in P
  <2>1. PICK x \in T : TRUE
    BY <1>2
  <2> DEFINE U == T \ {x}
  <2>2. /\ SumsOver(f)[T] = f[x] + SumsOver(f)[U]
        /\ SumsOver(g)[T] = g[x] + SumsOver(g)[U]
        /\ SumsOver(h)[T] = h[x] + SumsOver(h)[U]
    BY <1>0 DEF Splits
  <2>3. /\ f[x] \in Int /\ g[x] \in Int /\ h[x] = f[x] - g[x]
        /\ SumsOver(f)[U] \in Int /\ SumsOver(g)[U] \in Int
    BY SumsOverTyped
  <2>4. SumsOver(h)[U] = SumsOver(f)[U] - SumsOver(g)[U]
    BY <1>2
  <2> QED BY <2>2, <2>3, <2>4
<1>3. SUBSET D \subseteq P
  <2> HIDE DEF P
  <2> QED BY <1>1, <1>2, SubsetInduction
<1>4. D \in P /\ DOMAIN f = D /\ DOMAIN g = D /\ DOMAIN h = D
  BY <1>3
<1> QED BY <1>4 DEF SumOver

LEMMA SumOverNat ==
  ASSUME NEW D, IsFiniteSet(D), NEW f \in [D -> Nat]
  PROVE  SumOver(f) \in Nat
<1> DEFINE P == {T \in SUBSET D : SumsOver(f)[T] \in Nat}
<1>0. f \in [D -> Int] /\ DOMAIN f = D
  OBVIOUS
<1>1. {} \in P
  BY <1>0, SumsOverAre
<1>2. ASSUME NEW T \in SUBSET D, T # {}, \A x \in T : T \ {x} \in P PROVE T \in P
  <2>1. PICK x \in T : SumsOver(f)[T] = f[x] + SumsOver(f)[T \ {x}]
    BY <1>0, <1>2, SumsOverAre
  <2>2. f[x] \in Nat /\ SumsOver(f)[T \ {x}] \in Nat
    BY <1>2
  <2> QED BY <2>1, <2>2
<1>3. SUBSET D \subseteq P
  <2> HIDE DEF P
  <2> QED BY <1>1, <1>2, SubsetInduction
<1> QED BY <1>0, <1>3 DEF SumOver

=============================================================================
