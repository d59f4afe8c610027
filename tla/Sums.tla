-------------------------------- MODULE Sums --------------------------------
(* Sums of integers, by recursive functions: of a sequence, and of a        *)
(* function with a finite domain.                                           *)
EXTENDS Integers, Sequences

(* The running totals of s, from the empty one on.                          *)
Totals(s) ==
  LET total[i \in 0 .. Len(s)] == IF i = 0 THEN 0 ELSE total[i - 1] + s[i]
  IN total
SumSeq(s) == Totals(s)[Len(s)]

SumsOver(f) ==
  LET sum[T \in SUBSET DOMAIN f] ==
        IF T = {} THEN 0 ELSE LET x == CHOOSE x \in T : TRUE IN f[x] + sum[T \ {x}]
  IN sum
SumOver(f) == SumsOver(f)[DOMAIN f]
=============================================================================
