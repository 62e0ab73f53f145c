----------------------------- MODULE Field25519 -----------------------------
(***************************************************************************)
(* The field of fe.c.  A field element is ten signed 32-bit limbs, and the *)
(* same element has many representations.  The model keeps the two things  *)
(* the callers can tell apart: the value, modulo the prime, and how large  *)
(* the limbs have become since they were last carried, in hundredths of    *)
(* 2^25 (2^24 for the limbs of odd index).  fe_add and fe_sub do not carry *)
(* and let the limbs grow; fe_mul and fe_sq carry, but are right only for  *)
(* limbs up to 1.65 * 2^26.  Beyond that bound a product of 19 with a limb *)
(* leaves its 32 bits, and the result stands for nothing (Garbage).        *)
(***************************************************************************)
EXTENDS Integers, Loops

CONSTANTS
  FieldBits,   \* the width of the prime: 255
  Prime,       \* 2^FieldBits - 19, congruent to 5 modulo 8
  A24          \* 121666: (A+2)/4 of the Montgomery curve

ASSUME PrimeAssumption ==
  /\ FieldBits \in Nat /\ Prime \in Nat /\ A24 \in Nat
  /\ Prime < 2^FieldBits /\ 2^FieldBits < 2 * Prime
  /\ Prime % 8 = 5

Carried  == 101          \* limbs after a full chain of carries: 1.01 * 2^25
MulBound == 330          \* what fe_mul and fe_sq take: 1.65 * 2^26
OutBound == 220          \* what fe_tobytes and fe_mul121666 take: 1.1 * 2^26
Limit    == 6400         \* 2^31: a sum of this size has left its limb

\* The limbs of a result nothing is known of.
Garbage == [v |-> 0, m |-> Limit]

Sized(value, size) == IF size < Limit THEN [v |-> value % Prime, m |-> size] ELSE Garbage
Multiplied(value, f, g) ==
  IF f.m <= MulBound /\ g.m <= MulBound THEN [v |-> value % Prime, m |-> Carried]
                                        ELSE Garbage

fe_0 == [v |-> 0, m |-> 0]
fe_1 == [v |-> 1, m |-> 1]

fe_add(f, g) == Sized(f.v + g.v, f.m + g.m)
fe_sub(f, g) == Sized(f.v - g.v, f.m + g.m)
fe_neg(f) == Sized(-f.v, f.m)
fe_copy(f) == f

fe_cmov(f, g, b) == IF b = 1 THEN g ELSE f
\* Fault: the mask is not extended to all the bits of a limb.
SwapNone(f, g, b) == <<f, g>>
fe_cswap(f, g, b) == IF b = 1 THEN <<g, f>> ELSE <<f, g>>

fe_mul(f, g) == Multiplied(f.v * g.v, f, g)
fe_sq(f) == Multiplied(f.v * f.v, f, f)
\* Fault: the sums are doubled after they were carried.
SqTwiceUncarried(f) == fe_add(fe_sq(f), fe_sq(f))
\* The sums are doubled before they are carried.
fe_sq2(f) == Multiplied(2 * ((f.v * f.v) % Prime), f, f)
fe_mul121666(f) ==
  IF f.m <= OutBound THEN [v |-> (f.v * A24) % Prime, m |-> 110] ELSE Garbage

-----------------------------------------------------------------------------
\* z^n by the squarings and products of an addition chain.
Power(z, n) ==
  LET pow[k \in 0..n] ==
        IF k = 0 THEN 1
        ELSE LET half == pow[k \div 2]
                 sq   == (half * half) % Prime
             IN  IF k % 2 = 0 THEN sq ELSE (sq * z.v) % Prime
  IN  Multiplied(pow[n], z, z)

\* The chain for p-2 (2^255 - 21) and the one for (p-5)/8 (2^252 - 3).
fe_invert(z)   == Power(z, Prime - 2)
fe_pow22523(z) == Power(z, (Prime - 5) \div 8)

\* Bytes are numbers below 2^(FieldBits + 1); the top bit is ignored.
fe_frombytes(s) == [v |-> (s % 2^FieldBits) % Prime, m |-> Carried]

\* The one representation below p, if the limbs are small enough for the
\* estimate of the quotient to be right, and a value that is none otherwise.
NoBytes == -1
fe_tobytes(f) == IF f.m <= OutBound THEN f.v ELSE NoBytes

fe_isnegative(f) == fe_tobytes(f) % 2
fe_isnonzero(f)  == fe_tobytes(f) # 0
=============================================================================
