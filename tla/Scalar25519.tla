---------------------------- MODULE Scalar25519 ----------------------------
(***************************************************************************)
(* The scalars of sc.c, modulo the order l = 2^(Limbs * LimbBits) + c of   *)
(* the base point (2^252 + c in twelve limbs of 21 bits).  A number is cut *)
(* into limbs; a limb beyond the last is folded into the limbs below by    *)
(* the multiples of -c, and carries keep the limbs small in between.  The  *)
(* limbs, the order of the folds and the carries are those of the code, as *)
(* the result is reduced only because of them.                             *)
(***************************************************************************)
EXTENDS Integers, Sequences, Loops

CONSTANTS
  WordBits,   \* the bits of a scalar on the wire: 256
  LimbBits,   \* 21
  Limbs,      \* 12
  Folding     \* -c in limbs, half as many as a scalar has

ASSUME ScalarAssumption ==
  /\ WordBits \in Nat /\ LimbBits \in Nat \ {0}
  /\ Limbs \in Nat /\ Limbs % 2 = 0 /\ Limbs * LimbBits < WordBits
  /\ Folding \in Seq(Int) /\ Len(Folding) = Limbs \div 2

Radix == 2^LimbBits
Half  == Limbs \div 2

\* The number that the first n limbs stand for.
Weight(i) == 2^(LimbBits * i)
Number(s, n) == Loop(LAMBDA sum, k : sum + s[k - 1] * Weight(k - 1), 0, n)

\* The bits first..last of a string of scalars, lowest bits first.
Bits(words, first, last) ==
  LET Bit(k) == (words[k \div WordBits + 1] \div 2^(k % WordBits)) % 2
  IN  Loop(LAMBDA n, k : 2 * n + Bit(last + 1 - k), 0, last + 1 - first)

\* n limbs of a string; the last limb takes all the bits that are left.
Loaded(words, n) ==
  [i \in 0..(n - 1) |-> Bits(words, i * LimbBits,
     IF i = n - 1 THEN Len(words) * WordBits - 1 ELSE (i + 1) * LimbBits - 1)]

\* Limb j, of the weight of l - c, goes into the limbs below.
Fold(s, j) ==
  [i \in DOMAIN s |-> IF i = j THEN 0
                      ELSE IF i - j + Limbs \in 0..(Half - 1)
                      THEN s[i] + s[j] * Folding[i - j + Limbs + 1] ELSE s[i]]
FoldDown(s, first, last) ==
  Loop(LAMBDA t, k : Fold(t, first + 1 - k), s, first + 1 - last)

\* Limb i carries into the next: to the nearest, which leaves it signed, or down.
Carry(s, i, by)   == [s EXCEPT ![i] = @ - by * Radix, ![i + 1] = @ + by]
CarryNear(s, i)   == Carry(s, i, (s[i] + Radix \div 2) \div Radix)
CarryDown(s, i)   == Carry(s, i, s[i] \div Radix)

\* Every other limb from first, then the ones between them.
CarryPass(s, first, last) ==
  Loop(LAMBDA u, k : CarryNear(u, first + 2 * k - 2), s, (last - first + 2) \div 2)
CarryAlternately(s, first, last) == CarryPass(CarryPass(s, first, last), first + 1, last)
CarryAll(s, last) == Loop(LAMBDA t, k : CarryDown(t, k - 1), s, last + 1)

\* The limbs from Limbs on are folded, from the top down.
Lowered(s) ==
  LET upper  == FoldDown(s, 2 * Limbs - 1, Limbs + Half)
      middle == FoldDown(CarryAlternately(upper, Half, Limbs + Half - 2), Limbs + Half - 1, Limbs)
  IN  Fold(CarryAlternately(middle, 0, Limbs - 1), Limbs)

Stored(s) == Number(s, Limbs) % 2^WordBits

\* Fault: what the signed limbs borrow stays in the last one.
BorrowLeft(s) == Stored(CarryAll(Lowered(s), Limbs - 2))
Reduced(s) == Stored(CarryAll(Fold(CarryAll(Lowered(s), Limbs - 1), Limbs), Limbs - 2))

\* A digest, a string of two scalars, modulo l.
sc_reduce(words) == Reduced(Loaded(words, 2 * Limbs))

\* (a * b + c) modulo l.
sc_muladd(a, b, c) ==
  LET al == Loaded(<<a>>, Limbs)
      bl == Loaded(<<b>>, Limbs)
      cl == Loaded(<<c>>, Limbs)
      \* Limb i - 1 of a times b, added to what the limbs before it have left.
      Row(t, i) == [k \in DOMAIN t |-> IF k - i + 1 \in 0..(Limbs - 1)
                                      THEN t[k] + al[i - 1] * bl[k - i + 1] ELSE t[k]]
      sums == Loop(Row, [k \in 0..(2 * Limbs - 1) |-> IF k < Limbs THEN cl[k] ELSE 0], Limbs)
  IN  Reduced(CarryAlternately(sums, 0, 2 * Limbs - 2))
=============================================================================
