--------------------------- MODULE Ed25519Proofs ----------------------------
(***************************************************************************)
(* Proofs about Ed25519: no chain of additions between two carries         *)
(* outgrows what the next product takes, whatever the scalars, keys and    *)
(* messages; no two private scalars share a prefix; and the limbs of sc.c  *)
(* compute exactly what the numbers they stand for do modulo the order.    *)
(* The loops and recursions are instances of LoopTheorems.                 *)
(***************************************************************************)
EXTENDS Ed25519, FiniteSetTheorems, FunctionTheorems, TLAPS

(* A value of the field, and a field element whose limbs have grown to at  *)
(* most k hundredths of 2^25.                                              *)
Value == 0 .. Prime - 1
Fe(k) == [v : Value, m : 0 .. k]

(* What the proofs use of the prime, and remainders by it.                 *)
LEMMA Primes ==
  /\ Prime \in Nat /\ Prime >= 5 /\ Prime - 2 \in Nat /\ (Prime - 5) \div 8 \in Nat
  /\ 2^FieldBits \in Nat /\ 2^FieldBits > 0
  /\ \A x \in Int : x % Prime \in Value
BY PrimeAssumption DEF Value

(* The values of the field are integers, and integers are closed under     *)
(* what fe.c does with them.                                               *)
LEMMA Values ==
  /\ \A x \in Value : x \in Nat
  /\ \A x, y \in Int : x + y \in Int /\ x - y \in Int /\ x * y \in Int /\ -x \in Int
BY Primes DEF Value

(* fe_0 and fe_1.                                                          *)
LEMMA Constants == fe_0 \in Fe(0) /\ fe_1 \in Fe(1)
BY Primes DEF fe_0, fe_1, Fe, Value

(* fe_add and fe_sub do not carry: the sizes add up.                       *)
LEMMA Sums ==
  ASSUME NEW i \in Nat, NEW k \in Nat, i + k < 6400, NEW f \in Fe(i), NEW g \in Fe(k)
  PROVE  fe_add(f, g) \in Fe(i + k) /\ fe_sub(f, g) \in Fe(i + k)
<1>1. f.v \in Int /\ g.v \in Int /\ f.m \in 0 .. i /\ g.m \in 0 .. k
  BY Values DEF Fe
<1>2. (f.v + g.v) % Prime \in Value /\ (f.v - g.v) % Prime \in Value
  BY <1>1, Primes
<1>3. f.m + g.m \in 0 .. i + k /\ f.m + g.m < 6400
  BY <1>1
<1> QED BY <1>2, <1>3 DEF fe_add, fe_sub, Sized, Limit, Fe

(* fe_neg keeps the size.                                                  *)
LEMMA Negations ==
  ASSUME NEW k \in Nat, k < 6400, NEW f \in Fe(k)
  PROVE  fe_neg(f) \in Fe(k)
<1>1. f.v \in Int /\ f.m \in 0 .. k
  BY Values DEF Fe
<1>2. (-f.v) % Prime \in Value
  BY <1>1, Primes
<1> QED BY <1>1, <1>2 DEF fe_neg, Sized, Limit, Fe

(* fe_mul, fe_sq and fe_sq2 carry, if what they take is not too large.     *)
LEMMA Products ==
  ASSUME NEW f \in Fe(330), NEW g \in Fe(330)
  PROVE  fe_mul(f, g) \in Fe(101) /\ fe_sq(f) \in Fe(101) /\ fe_sq2(f) \in Fe(101)
<1>1. f.v \in Int /\ g.v \in Int /\ f.m <= 330 /\ g.m <= 330
  BY Values DEF Fe
<1>2. (f.v * g.v) % Prime \in Value /\ (f.v * f.v) % Prime \in Value
  BY <1>1, Primes, Values
<1>3. (2 * ((f.v * f.v) % Prime)) % Prime \in Value
  BY <1>2, Primes, Values
<1>4. 101 \in 0 .. 101
  OBVIOUS
<1>5. fe_mul(f, g) \in Fe(101)
  BY <1>1, <1>2, <1>4 DEF fe_mul, Multiplied, MulBound, Carried, Fe
<1>6. fe_sq(f) \in Fe(101)
  BY <1>1, <1>2, <1>4 DEF fe_sq, Multiplied, MulBound, Carried, Fe
<1>7. fe_sq2(f) \in Fe(101)
  BY <1>1, <1>3, <1>4 DEF fe_sq2, Multiplied, MulBound, Carried, Fe
<1> QED BY <1>5, <1>6, <1>7

(* fe_mul121666 takes less.                                                *)
LEMMA Scaled ==
  ASSUME NEW f \in Fe(220)
  PROVE  fe_mul121666(f) \in Fe(110)
<1>1. f.v \in Int /\ f.m <= 220 /\ A24 \in Int
  BY Values, PrimeAssumption DEF Fe
<1>2. (f.v * A24) % Prime \in Value
  BY <1>1, Primes, Values
<1> QED BY <1>1, <1>2 DEF fe_mul121666, OutBound, Fe

(* The turns of an addition chain: squarings and products.                 *)
PowerStep(v, y, k) ==
    LET sq == (y * y) % Prime IN IF k % 2 = 0 THEN sq ELSE (sq * v) % Prime
PowerTurns == INSTANCE LoopTheorems WITH
    Kept <- LAMBDA v, n, c, turn : Value, First <- LAMBDA v, n, c : 1, Turns <- LAMBDA v, n, c : n,
    Before <- LAMBDA k : k \div 2, Turn <- LAMBDA v, n, c, y, k : PowerStep(v, y, k)

(* The exponent's bits from the top (fe_invert, fe_pow22523): every value  *)
(* on the way is one of the field, and the result has been carried.        *)
LEMMA Powers ==
    ASSUME NEW f \in Fe(330), NEW n \in Nat
    PROVE  Power(f, n) \in Fe(101)
<1> DEFINE v == f.v
<1>1. v \in Int /\ f.m <= 330 /\ 1 \in Value
    BY Values, Primes DEF Fe, Value
<1>2. Power(f, n) = Multiplied(PowerTurns!Recursion(v, n, 0)[n], f, f)
    BY Zenon DEF Power, PowerTurns!Recursion, PowerStep
<1> HIDE DEF v
<1>3. \A k \in 1 .. n : \A y \in Value : PowerStep(v, y, k) \in Value
    BY <1>1, Primes, Values DEF PowerStep
<1>4. \A k \in 1 .. n : k \div 2 \in 0 .. k - 1
    OBVIOUS
<1>5. \A k \in 0 .. n : PowerTurns!Recursion(v, n, 0)[k] \in Value
    BY <1>1, <1>3, <1>4, PowerTurns!Recursed, Zenon
<1>6. PowerTurns!Recursion(v, n, 0)[n] \in Int
    BY <1>5, Values
<1>7. PowerTurns!Recursion(v, n, 0)[n] % Prime \in Value
    BY <1>6, Primes
<1>8. 101 \in 0 .. 101
    OBVIOUS
<1> QED BY <1>1, <1>2, <1>7, <1>8 DEF Multiplied, MulBound, Carried, Fe

(* Bytes, and the constants of ge.c: d, 2d and a root of -1.               *)
LEMMA Elements ==
    /\ \A n \in Int : Element(n) \in Fe(101)
    /\ \A n \in Nat : fe_frombytes(n) \in Fe(101)
    /\ \A f \in Fe(220) : fe_tobytes(f) \in Value
<1>1. ASSUME NEW n \in Int PROVE Element(n) \in Fe(101)
    BY Primes DEF Element, Carried, Fe
<1>2. ASSUME NEW n \in Nat PROVE fe_frombytes(n) \in Fe(101)
  <2>1. n % 2^FieldBits \in Int
    <3> DEFINE w == 2^FieldBits
    <3>1. w \in Nat /\ w > 0
        BY Primes
    <3> HIDE DEF w
    <3>2. n % w \in Int
        BY <3>1
    <3> QED BY <3>2 DEF w
  <2>2. (n % 2^FieldBits) % Prime \in Value
      BY <2>1, Primes
  <2> QED BY <2>2 DEF fe_frombytes, Carried, Fe
<1>3. ASSUME NEW f \in Fe(220) PROVE fe_tobytes(f) \in Value
    BY DEF fe_tobytes, OutBound, Fe
<1> QED BY <1>1, <1>2, <1>3

(* Limbs that may be small may be large.                                   *)
LEMMA Wider ==
    /\ Fe(0) \subseteq Fe(101) /\ Fe(1) \subseteq Fe(101)
    /\ Fe(101) \subseteq Fe(330) /\ Fe(102) \subseteq Fe(330) /\ Fe(202) \subseteq Fe(330)
    /\ Fe(211) \subseteq Fe(330) /\ Fe(303) \subseteq Fe(330)
    /\ Fe(101) \subseteq Fe(220) /\ Fe(202) \subseteq Fe(220) /\ Fe(203) \subseteq Fe(220)
    /\ Fe(101) \subseteq Fe(202)
BY DEF Fe

(* A sum or two that are not carried.                                      *)
LEMMA Uncarried ==
    /\ \A f, g \in Fe(101) : fe_add(f, g) \in Fe(202) /\ fe_sub(f, g) \in Fe(202)
    /\ \A f \in Fe(202), g \in Fe(101) : fe_add(f, g) \in Fe(303) /\ fe_sub(f, g) \in Fe(303)
    /\ \A f \in Fe(101), g \in Fe(202) : fe_add(f, g) \in Fe(303) /\ fe_sub(f, g) \in Fe(303)
<1>1. 101 + 101 = 202 /\ 202 + 101 = 303 /\ 101 + 202 = 303
    OBVIOUS
<1>2. ASSUME NEW f \in Fe(101), NEW g \in Fe(101)
      PROVE  fe_add(f, g) \in Fe(101 + 101) /\ fe_sub(f, g) \in Fe(101 + 101)
    BY Sums
<1>3. ASSUME NEW f \in Fe(202), NEW g \in Fe(101)
      PROVE  fe_add(f, g) \in Fe(202 + 101) /\ fe_sub(f, g) \in Fe(202 + 101)
    BY Sums
<1>4. ASSUME NEW f \in Fe(101), NEW g \in Fe(202)
      PROVE  fe_add(f, g) \in Fe(101 + 202) /\ fe_sub(f, g) \in Fe(101 + 202)
    BY Sums
<1> QED BY <1>1, <1>2, <1>3, <1>4

(* What fe_invert and fe_pow22523 return has been carried.                 *)
LEMMA Inverses ==
    ASSUME NEW f \in Fe(330)
    PROVE  fe_invert(f) \in Fe(101) /\ fe_pow22523(f) \in Fe(101)
BY Powers, Primes DEF fe_invert, fe_pow22523

(* d, 2d and sqrtm1 of ge.c are reduced elements.                          *)
LEMMA CurveConstants == d \in Fe(101) /\ d2 \in Fe(101) /\ sqrtm1 \in Fe(101)
<1>1. A24 \in Int /\ 1 - A24 \in Int
    BY PrimeAssumption
<1>2. fe_invert(Element(A24)) \in Fe(330) /\ Element(1 - A24) \in Fe(330)
    BY <1>1, Elements, Inverses, Wider
<1>3. d \in Fe(101)
    BY <1>2, Products DEF d
<1>4. 2 * d.v \in Int
    BY <1>3, Values DEF Fe
<1>5. d2 \in Fe(101)
    BY <1>4, Elements DEF d2
<1>6. (CHOOSE s \in 0 .. Prime - 1 : (s * s + 1) % Prime = 0) \in Int
  <2>1. (CHOOSE s \in 0 .. Prime - 1 : (s * s + 1) % Prime = 0) \in Value
      BY GroupAssumption, Zenon DEF Value
  <2> QED BY <2>1, Values
<1>7. sqrtm1 \in Fe(101)
    BY <1>6, Elements DEF sqrtm1
<1> QED BY <1>3, <1>5, <1>7

(* The points of the tables, by the affine law.                            *)
Affine == Value \X Value

(* A quotient is a value of the field.                                     *)
LEMMA Quotients == ASSUME NEW a \in Int, NEW b \in Int PROVE Quotient(a, b) \in Value
<1>1. fe_invert(Element(b)) \in Fe(101)
    BY Elements, Inverses, Wider
<1>2. fe_invert(Element(b)).v \in Int
    BY <1>1, Values DEF Fe
<1> DEFINE e == fe_invert(Element(b)).v
<1> HIDE DEF e
<1>3. e \in Int => (a * e) % Prime \in Value
    BY Primes, Values
<1> QED BY <1>2, <1>3 DEF Quotient, e

(* The sum of two points by the affine law is a pair of values.            *)
LEMMA AffinePlus == ASSUME NEW p \in Affine, NEW q \in Affine PROVE Plus(p, q) \in Affine
<1> DEFINE xx == (p[1] * q[1]) % Prime
           yy == (p[2] * q[2]) % Prime
           xy == (p[1] * q[2] + p[2] * q[1]) % Prime
           t  == (d.v * ((xx * yy) % Prime)) % Prime
<1>1. p[1] \in Int /\ p[2] \in Int /\ q[1] \in Int /\ q[2] \in Int /\ d.v \in Int
    BY CurveConstants, Values DEF Affine, Fe
<1>2. p[1] * q[1] \in Int /\ p[2] * q[2] \in Int /\ p[1] * q[2] \in Int /\ p[2] * q[1] \in Int
    BY <1>1, Values
<1>3. p[1] * q[2] + p[2] * q[1] \in Int
    BY <1>2, Values
<1>4. xx \in Int /\ yy \in Int /\ xy \in Int
    BY <1>2, <1>3, Primes, Values
<1> HIDE DEF xx, yy, xy
<1>5. (xx * yy) % Prime \in Int
    BY <1>4, Primes, Values
<1>6. t \in Int
    BY <1>1, <1>5, Primes, Values
<1> HIDE DEF t
<1>7. 1 + t \in Int /\ 1 - t \in Int /\ (yy + xx) % Prime \in Int
    BY <1>4, <1>6, Primes, Values
<1>8. Quotient(xy, 1 + t) \in Value /\ Quotient((yy + xx) % Prime, 1 - t) \in Value
    BY <1>4, <1>7, Quotients
<1>9. Plus(p, q) = << Quotient(xy, 1 + t), Quotient((yy + xx) % Prime, 1 - t) >>
    BY Zenon DEF Plus, xx, yy, xy, t
<1> QED BY <1>8, <1>9 DEF Affine

TimesStep(p, y, k) ==
    Eagerly(LAMBDA half : IF k % 2 = 0 THEN Plus(half, half) ELSE Plus(Plus(half, half), p), y)
TimesTurns == INSTANCE LoopTheorems WITH
    Kept <- LAMBDA p, n, c, turn : Affine, First <- LAMBDA p, n, c : <<0, 1>>,
    Turns <- LAMBDA p, n, c : n,
    Before <- LAMBDA k : k \div 2, Turn <- LAMBDA p, n, c, y, k : TimesStep(p, y, k)

(* So is every multiple, by doublings and additions.                       *)
LEMMA AffineTimes ==
    ASSUME NEW p \in Affine, NEW n \in Nat
    PROVE  Times(n, p) \in Affine
<1>1. <<0, 1>> \in Affine
    BY Primes DEF Affine, Value
<1>2. \A k \in 1 .. n : \A y \in Affine : TimesStep(p, y, k) \in Affine
  <2>1. ASSUME NEW k, NEW y
        PROVE  TimesStep(p, y, k) = IF k % 2 = 0 THEN Plus(y, y) ELSE Plus(Plus(y, y), p)
      BY DEF TimesStep, Eagerly
  <2> QED BY <2>1, AffinePlus
<1>3. \A k \in 1 .. n : k \div 2 \in 0 .. k - 1
    OBVIOUS
<1>4. \A k \in 0 .. n : TimesTurns!Recursion(p, n, 0)[k] \in Affine
    BY <1>1, <1>2, <1>3, TimesTurns!Recursed, Zenon
<1>5. Times(n, p) = TimesTurns!Recursion(p, n, 0)[n]
    BY Zenon DEF Times, TimesTurns!Recursion, TimesStep
<1> QED BY <1>4, <1>5

RaisedTurns == INSTANCE LoopTheorems WITH
    Kept <- LAMBDA a, b, c, turn : Affine, First <- LAMBDA a, b, c : Base,
    Turns <- LAMBDA a, b, c : ScalarBits \div 8 - 1,
    Before <- LAMBDA k : k - 1, Turn <- LAMBDA a, b, c, y, k : Times(256, y)

(* The first entries of the rows of precomp_data.h: 256^i times the base   *)
(* point.                                                                  *)
LEMMA RaisedAffine == \A i \in 0 .. (ScalarBits \div 8 - 1) : Raised[i] \in Affine
<1>1. Base \in Affine /\ ScalarBits \div 8 - 1 \in Nat
    BY GroupAssumption, PrimeAssumption DEF Affine, Value
<1>2. \A y \in Affine : Times(256, y) \in Affine
    BY AffineTimes
<1>3. \A k \in 1 .. ScalarBits \div 8 - 1 : k - 1 \in 0 .. k - 1
    OBVIOUS
<1>4. \A k \in 0 .. ScalarBits \div 8 - 1 : RaisedTurns!Recursion(0, 0, 0)[k] \in Affine
    BY <1>1, <1>2, <1>3, RaisedTurns!Recursed, Zenon
<1>5. Raised = RaisedTurns!Recursion(0, 0, 0)
    BY Zenon DEF Raised, RaisedTurns!Recursion
<1> QED BY <1>4, <1>5

(* The points of ge.h, with the growth their limbs have when ge.c hands    *)
(* them on.                                                                *)
ge_p2      == [X : Fe(101), Y : Fe(101), Z : Fe(101)]
ge_p3      == [X : Fe(101), Y : Fe(101), Z : Fe(101), T : Fe(101)]
ge_p1p1    == [X : Fe(303), Y : Fe(303), Z : Fe(303), T : Fe(303)]
ge_precomp == [yplusx : Fe(101), yminusx : Fe(101), xy2d : Fe(101)]
ge_cached  == [YplusX : Fe(202), YminusX : Fe(202), Z : Fe(101), T2d : Fe(101)]

(* A point as a table holds it is reduced.                                 *)
LEMMA Precomps == ASSUME NEW p \in Affine PROVE Precomp(p) \in ge_precomp
<1>1. p[1] \in Int /\ p[2] \in Int /\ d2.v \in Int
    BY CurveConstants, Values DEF Affine, Fe
<1>2. p[2] + p[1] \in Int /\ p[2] - p[1] \in Int /\ p[1] * p[2] \in Int
    BY <1>1, Values
<1>3. (p[1] * p[2]) % Prime \in Int
    BY <1>2, Primes, Values
<1>4. d2.v * ((p[1] * p[2]) % Prime) \in Int
    BY <1>1, <1>3, Values
<1> QED BY <1>2, <1>4, Elements DEF Precomp, ge_precomp

(* What precomp_data.h holds.                                              *)
LEMMA Tables ==
    /\ \A i \in 0 .. (ScalarBits \div 8 - 1), j \in 0 .. 7 : base[i][j] \in ge_precomp
    /\ \A j \in 0 .. 7 : Bi[j] \in ge_precomp
<1>1. ASSUME NEW i \in 0 .. (ScalarBits \div 8 - 1), NEW j \in 0 .. 7
      PROVE  base[i][j] \in ge_precomp
  <2>1. j + 1 \in Nat
      OBVIOUS
  <2>2. Times(j + 1, Raised[i]) \in Affine
      BY <2>1, RaisedAffine, AffineTimes
  <2>3. base[i][j] = Precomp(Times(j + 1, Raised[i]))
      BY Zenon DEF base
  <2> QED BY <2>2, <2>3, Precomps
<1>2. ASSUME NEW j \in 0 .. 7 PROVE Bi[j] \in ge_precomp
  <2>1. 2 * j + 1 \in Nat /\ Base \in Affine
      BY GroupAssumption DEF Affine, Value
  <2>2. Times(2 * j + 1, Base) \in Affine
      BY <2>1, AffineTimes
  <2>3. Bi[j] = Precomp(Times(2 * j + 1, Base))
      BY Zenon DEF Bi
  <2> QED BY <2>2, <2>3, Precomps
<1> QED BY <1>1, <1>2

(* The common part of the four additions.                                  *)
LEMMA Additions ==
    ASSUME NEW p \in ge_p3, NEW a \in Fe(202), NEW b \in Fe(202), NEW zz \in Fe(101),
           NEW t \in Fe(101)
    PROVE  Added(p, a, b, zz, t) \in ge_p1p1
<1>1. p.X \in Fe(101) /\ p.Y \in Fe(101)
    BY DEF ge_p3
<1>2. fe_add(p.Y, p.X) \in Fe(330) /\ fe_sub(p.Y, p.X) \in Fe(330)
    BY <1>1, Uncarried, Wider
<1> DEFINE u == fe_mul(fe_add(p.Y, p.X), a)
           w == fe_mul(fe_sub(p.Y, p.X), b)
           t0 == fe_add(zz, zz)
<1>3. u \in Fe(101) /\ w \in Fe(101)
    BY <1>2, Products, Wider
<1>4. t0 \in Fe(202)
    BY Uncarried
<1>5. Added(p, a, b, zz, t) =
        [X |-> fe_sub(u, w), Y |-> fe_add(u, w), Z |-> fe_add(t0, t), T |-> fe_sub(t0, t)]
    BY DEF Added
<1> HIDE DEF u, w, t0
<1>6. fe_sub(u, w) \in Fe(202) /\ fe_add(u, w) \in Fe(202)
    BY <1>3, Uncarried
<1>7. fe_add(t0, t) \in Fe(303) /\ fe_sub(t0, t) \in Fe(303)
    BY <1>4, Uncarried
<1>8. Fe(202) \subseteq Fe(303)
    BY DEF Fe
<1> QED BY <1>5, <1>6, <1>7, <1>8 DEF ge_p1p1

(* ge_add, ge_sub, ge_madd and ge_msub: three sums stand between one       *)
(* carry and the next.                                                     *)
LEMMA PointSums ==
    ASSUME NEW p \in ge_p3
    PROVE  /\ \A q \in ge_cached : ge_add(p, q) \in ge_p1p1 /\ ge_sub(p, q) \in ge_p1p1
           /\ \A q \in ge_precomp : ge_madd(p, q) \in ge_p1p1 /\ ge_msub(p, q) \in ge_p1p1
<1>1. p.Z \in Fe(101) /\ p.T \in Fe(101) /\ p.Z \in Fe(330) /\ p.T \in Fe(330)
    BY Wider DEF ge_p3
<1>2. ASSUME NEW q \in ge_cached PROVE ge_add(p, q) \in ge_p1p1 /\ ge_sub(p, q) \in ge_p1p1
  <2>1. q.YplusX \in Fe(202) /\ q.YminusX \in Fe(202) /\ q.Z \in Fe(330) /\ q.T2d \in Fe(330)
      BY <1>2, Wider DEF ge_cached
  <2>2. fe_mul(p.Z, q.Z) \in Fe(101) /\ fe_mul(q.T2d, p.T) \in Fe(101)
      BY <1>1, <2>1, Products
  <2>3. fe_neg(fe_mul(q.T2d, p.T)) \in Fe(101)
      BY <2>2, Negations
  <2> QED BY <2>1, <2>2, <2>3, Additions DEF ge_add, ge_sub
<1>3. ASSUME NEW q \in ge_precomp PROVE ge_madd(p, q) \in ge_p1p1 /\ ge_msub(p, q) \in ge_p1p1
  <2>1. q.yplusx \in Fe(202) /\ q.yminusx \in Fe(202) /\ q.xy2d \in Fe(330)
      BY <1>3, Wider DEF ge_precomp
  <2>2. fe_mul(q.xy2d, p.T) \in Fe(101)
      BY <1>1, <2>1, Products
  <2>3. fe_neg(fe_mul(q.xy2d, p.T)) \in Fe(101)
      BY <2>2, Negations
  <2> QED BY <1>1, <2>1, <2>2, <2>3, Additions DEF ge_madd, ge_msub
<1> QED BY <1>2, <1>3

(* The conversions between representations, which carry, and the doubling. *)
LEMMA Conversions ==
    /\ \A p \in ge_p1p1 : ge_p1p1_to_p2(p) \in ge_p2 /\ ge_p1p1_to_p3(p) \in ge_p3
    /\ \A p \in ge_p3 : ge_p3_to_p2(p) \in ge_p2 /\ ge_p3_to_cached(p) \in ge_cached
    /\ \A p \in ge_p2 : ge_p2_dbl(p) \in ge_p1p1
    /\ ge_p2_0 \in ge_p2 /\ ge_p3_0 \in ge_p3
<1>1. ASSUME NEW p \in ge_p1p1
      PROVE  ge_p1p1_to_p2(p) \in ge_p2 /\ ge_p1p1_to_p3(p) \in ge_p3
  <2>1. p.X \in Fe(330) /\ p.Y \in Fe(330) /\ p.Z \in Fe(330) /\ p.T \in Fe(330)
      BY <1>1, Wider DEF ge_p1p1
  <2>2. /\ fe_mul(p.X, p.T) \in Fe(101) /\ fe_mul(p.Y, p.Z) \in Fe(101)
        /\ fe_mul(p.Z, p.T) \in Fe(101) /\ fe_mul(p.X, p.Y) \in Fe(101)
      BY <2>1, Products
  <2>3. ge_p1p1_to_p2(p) \in ge_p2
      BY <2>2 DEF ge_p1p1_to_p2, ge_p2
  <2>4. ge_p1p1_to_p3(p) \in ge_p3
      BY <2>2 DEF ge_p1p1_to_p3, ge_p3
  <2> QED BY <2>3, <2>4
<1>2. ASSUME NEW p \in ge_p3
      PROVE  ge_p3_to_p2(p) \in ge_p2 /\ ge_p3_to_cached(p) \in ge_cached
  <2>1. p.X \in Fe(101) /\ p.Y \in Fe(101) /\ p.Z \in Fe(101) /\ p.T \in Fe(330)
      BY <1>2, Wider DEF ge_p3
  <2>2. ge_p3_to_p2(p) \in ge_p2
      BY <2>1 DEF ge_p3_to_p2, ge_p2, fe_copy
  <2>3. fe_add(p.Y, p.X) \in Fe(202) /\ fe_sub(p.Y, p.X) \in Fe(202)
      BY <2>1, Uncarried
  <2>4. d2 \in Fe(330)
      BY CurveConstants, Wider
  <2>5. fe_mul(p.T, d2) \in Fe(101)
      BY <2>1, <2>4, Products
  <2> QED BY <2>1, <2>2, <2>3, <2>5 DEF ge_p3_to_cached, ge_cached, fe_copy
<1>3. ASSUME NEW p \in ge_p2 PROVE ge_p2_dbl(p) \in ge_p1p1
  <2> DEFINE xx == fe_sq(p.X)
             yy == fe_sq(p.Y)
             y  == fe_add(yy, xx)
             z  == fe_sub(yy, xx)
             s  == fe_sq(fe_add(p.X, p.Y))
             tt == fe_sq2(p.Z)
  <2>1. /\ p.X \in Fe(101) /\ p.Y \in Fe(101)
        /\ p.X \in Fe(330) /\ p.Y \in Fe(330) /\ p.Z \in Fe(330)
      BY <1>3, Wider DEF ge_p2
  <2>2. xx \in Fe(101) /\ yy \in Fe(101) /\ tt \in Fe(101)
      BY <2>1, Products
  <2>3. fe_add(p.X, p.Y) \in Fe(330)
      BY <2>1, Uncarried, Wider
  <2>4. s \in Fe(101)
      BY <2>3, Products
  <2>5. ge_p2_dbl(p) = [X |-> fe_sub(s, y), Y |-> y, Z |-> z, T |-> fe_sub(tt, z)]
      BY ZenonT(60) DEF ge_p2_dbl
  <2> HIDE DEF s, tt
  <2>6. y \in Fe(202) /\ z \in Fe(202)
    <3> HIDE DEF xx, yy
    <3> QED BY <2>2, Uncarried
  <2> HIDE DEF y, z
  <2>7. fe_sub(s, y) \in Fe(303) /\ fe_sub(tt, z) \in Fe(303)
      BY <2>2, <2>4, <2>6, Uncarried
  <2>8. Fe(202) \subseteq Fe(303)
      BY DEF Fe
  <2> QED BY <2>5, <2>6, <2>7, <2>8 DEF ge_p1p1
<1>4. ge_p2_0 \in ge_p2 /\ ge_p3_0 \in ge_p3
    BY Constants, Wider DEF ge_p2_0, ge_p3_0, ge_p2, ge_p3
<1> QED BY <1>1, <1>2, <1>3, <1>4
(* The digits of a scalar pick entries of the tables (select, ge.c:356),   *)
(* whatever they are.                                                      *)
NoPoint == [yplusx |-> fe_1, yminusx |-> fe_1, xy2d |-> fe_0]
SelectTurns == INSTANCE LoopTheorems WITH
    Kept <- LAMBDA pos, babs, c, turn : ge_precomp, First <- LAMBDA pos, babs, c : NoPoint,
    Turns <- LAMBDA pos, babs, c : 8, Before <- LAMBDA k : k - 1,
    Turn <- LAMBDA pos, babs, c, u, j : cmov(u, base[pos][j - 1], equal(babs, j))

(* cmov copies one of two entries.                                         *)
LEMMA Moves ==
    ASSUME NEW t \in ge_precomp, NEW u \in ge_precomp, NEW b
    PROVE  cmov(t, u, b) \in ge_precomp
BY DEF cmov, fe_cmov, ge_precomp

(* What select returns is reduced, for any digit: the digits are not       *)
(* bounded by the code that reads them.                                    *)
LEMMA Selects ==
    ASSUME NEW pos \in 0 .. (ScalarBits \div 8 - 1), NEW b
    PROVE  select(pos, b) \in ge_precomp
<1> DEFINE babs == IF negative(b) = 1 THEN -b ELSE b
           t == Loop(LAMBDA u, j : cmov(u, base[pos][j - 1], equal(babs, j)),
                     [yplusx |-> fe_1, yminusx |-> fe_1, xy2d |-> fe_0], 8)
           m == [yplusx |-> t.yminusx, yminusx |-> t.yplusx, xy2d |-> fe_neg(t.xy2d)]
<1>1. select(pos, b) = cmov(t, m, negative(b))
    BY Zenon DEF select
<1>2. t \in ge_precomp
  <2> HIDE DEF babs
  <2>1. NoPoint \in ge_precomp
      BY Constants, Wider DEF NoPoint, ge_precomp
  <2>2. ASSUME NEW k \in 1 .. 8, NEW u \in ge_precomp
        PROVE  cmov(u, base[pos][k - 1], equal(babs, k)) \in ge_precomp
    <3>1. k - 1 \in 0 .. 7
        OBVIOUS
    <3> QED BY <3>1, Tables, Moves
  <2>3. 8 \in Nat /\ \A k \in 1 .. 8 : k - 1 = k - 1
      OBVIOUS
  <2>4. SelectTurns!Run(pos, babs, 0) \in ge_precomp
      BY <2>1, <2>2, <2>3, SelectTurns!Looped, Zenon
  <2>5. t = SelectTurns!Run(pos, babs, 0)
      BY Zenon DEF SelectTurns!Run, SelectTurns!Loop, SelectTurns!Eagerly, Loop, Eagerly, NoPoint
  <2> QED BY <2>4, <2>5
<1> HIDE DEF t
<1>3. /\ t.yplusx \in Fe(101) /\ t.yminusx \in Fe(101) /\ t.xy2d \in Fe(101)
    BY <1>2 DEF ge_precomp
<1>4. m \in ge_precomp
    BY <1>3, Negations DEF ge_precomp
<1> QED BY <1>1, <1>2, <1>4, Moves

(* ge_scalarmult_base: the odd digits, four doublings, the even ones.      *)
AddDigit(e, h, i) == ge_p1p1_to_p3(ge_madd(h, select(i \div 2, e[i])))
OddTurns == INSTANCE LoopTheorems WITH
    Kept <- LAMBDA e, h0, c, turn : ge_p3, First <- LAMBDA e, h0, c : h0,
    Turns <- LAMBDA e, h0, c : Digits \div 2, Before <- LAMBDA k : k - 1,
    Turn <- LAMBDA e, h0, c, h, k : AddDigit(e, h, 2 * k - 1)
EvenTurns == INSTANCE LoopTheorems WITH
    Kept <- LAMBDA e, h0, c, turn : ge_p3, First <- LAMBDA e, h0, c : h0,
    Turns <- LAMBDA e, h0, c : Digits \div 2, Before <- LAMBDA k : k - 1,
    Turn <- LAMBDA e, h0, c, h, k : AddDigit(e, h, 2 * k - 2)

(* One turn of either loop of ge_scalarmult_base.                          *)
LEMMA DigitAdded ==
    ASSUME NEW e, NEW h \in ge_p3, NEW k \in 1 .. Digits \div 2
    PROVE  AddDigit(e, h, 2 * k - 1) \in ge_p3 /\ AddDigit(e, h, 2 * k - 2) \in ge_p3
<1>1. /\ (2 * k - 1) \div 2 \in 0 .. (ScalarBits \div 8 - 1)
      /\ (2 * k - 2) \div 2 \in 0 .. (ScalarBits \div 8 - 1)
    BY GroupAssumption DEF Digits
<1>2. /\ select((2 * k - 1) \div 2, e[2 * k - 1]) \in ge_precomp
      /\ select((2 * k - 2) \div 2, e[2 * k - 2]) \in ge_precomp
    BY <1>1, Selects
<1>3. \A q \in ge_precomp : ge_p1p1_to_p3(ge_madd(h, q)) \in ge_p3
    BY PointSums, Conversions
<1> QED BY <1>2, <1>3 DEF AddDigit

(* ge_scalarmult_base, for every scalar.                                   *)
LEMMA BaseMultiples == \A a : ge_scalarmult_base(a) \in ge_p3
<1> SUFFICES ASSUME NEW a PROVE ge_scalarmult_base(a) \in ge_p3
    OBVIOUS
<1> DEFINE e == Radix16(a)
           odd == Loop(LAMBDA h, k : AddDigit(e, h, 2 * k - 1), ge_p3_0, Digits \div 2)
           twice(p) == ge_p1p1_to_p2(ge_p2_dbl(p))
           by16 == ge_p1p1_to_p3(ge_p2_dbl(twice(twice(twice(ge_p3_to_p2(odd))))))
<1>1. ge_scalarmult_base(a) = Loop(LAMBDA h, k : AddDigit(e, h, 2 * k - 2), by16, Digits \div 2)
    BY Zenon DEF ge_scalarmult_base, AddDigit
<1> HIDE DEF e
<1>2. Digits \div 2 \in Nat
    BY GroupAssumption DEF Digits
<1>3. odd \in ge_p3
  <2>1. OddTurns!Run(e, ge_p3_0, 0) \in ge_p3
      BY <1>2, DigitAdded, Conversions, OddTurns!Looped, Zenon
  <2>2. odd = OddTurns!Run(e, ge_p3_0, 0)
      BY Zenon DEF OddTurns!Run, OddTurns!Loop, OddTurns!Eagerly, Loop, Eagerly
  <2> QED BY <2>1, <2>2
<1> HIDE DEF odd
<1>4. \A p \in ge_p2 : twice(p) \in ge_p2
    BY Conversions
<1>5. by16 \in ge_p3
  <2> HIDE DEF twice
  <2>1. twice(twice(twice(ge_p3_to_p2(odd)))) \in ge_p2
      BY <1>3, <1>4, Conversions
  <2> QED BY <2>1, Conversions
<1> HIDE DEF by16
<1>6. EvenTurns!Run(e, by16, 0) \in ge_p3
    BY <1>2, <1>5, DigitAdded, EvenTurns!Looped, Zenon
<1>7. ge_scalarmult_base(a) = EvenTurns!Run(e, by16, 0)
    BY <1>1, Zenon DEF EvenTurns!Run, EvenTurns!Loop, EvenTurns!Eagerly, Loop, Eagerly
<1> QED BY <1>6, <1>7

(* The sign of a field element is a bit.                                   *)
LEMMA Parities == \A x \in Int : x % 2 \in Nat
OBVIOUS

(* What leaves the library as bytes is a number, never NoBytes.            *)
LEMMA PointBytes ==
    /\ \A h \in ge_p2 : ge_tobytes(h) \in Nat
    /\ \A h \in ge_p3 : ge_p3_tobytes(h) \in Nat
<1>1. ASSUME NEW h \in ge_p2 PROVE ge_tobytes(h) \in Nat
  <2> DEFINE x == fe_mul(h.X, fe_invert(h.Z))
             y == fe_mul(h.Y, fe_invert(h.Z))
  <2>1. h.X \in Fe(330) /\ h.Y \in Fe(330) /\ h.Z \in Fe(330)
      BY <1>1, Wider DEF ge_p2
  <2>2. fe_invert(h.Z) \in Fe(330)
      BY <2>1, Inverses, Wider
  <2>3. x \in Fe(101) /\ y \in Fe(101)
      BY <2>1, <2>2, Products
  <2>4. ge_tobytes(h) = IF NoBytes \in {fe_tobytes(x), fe_tobytes(y)} THEN NoBytes
                        ELSE fe_tobytes(y) + fe_isnegative(x) * 2^FieldBits
      BY Zenon DEF ge_tobytes
  <2> HIDE DEF x, y
  <2>5. fe_tobytes(x) \in Nat /\ fe_tobytes(y) \in Nat
      BY <2>3, Wider, Elements, Values
  <2>6. fe_isnegative(x) \in Nat
      BY <2>5, Parities DEF fe_isnegative
  <2>7. fe_tobytes(y) + fe_isnegative(x) * 2^FieldBits \in Nat
    <3> DEFINE w == 2^FieldBits
               i == fe_isnegative(x)
    <3>1. w \in Nat /\ i \in Nat
        BY <2>6, Primes
    <3> HIDE DEF w, i
    <3>2. i * w \in Nat
        BY <3>1
    <3>3. fe_tobytes(y) + i * w \in Nat
        BY <2>5, <3>2
    <3> QED BY <3>3 DEF w, i
  <2>8. NoBytes \notin {fe_tobytes(x), fe_tobytes(y)}
      BY <2>5 DEF NoBytes
  <2> QED BY <2>4, <2>7, <2>8
<1>2. ASSUME NEW h \in ge_p3 PROVE ge_p3_tobytes(h) \in Nat
  <2>1. ge_p3_to_p2(h) \in ge_p2
      BY <1>2, Conversions
  <2>2. ge_p3_tobytes(h) = ge_tobytes(ge_p3_to_p2(h))
      BY DEF ge_p3_tobytes, Eagerly
  <2> QED BY <1>1, <2>1, <2>2
<1> QED BY <1>1, <1>2

(* The root ge_frombytes_negate_vartime takes (ge.c:141-170) fits for any  *)
(* two sums u and v.                                                       *)
LEMMA Roots ==
    ASSUME NEW u \in Fe(102), NEW v \in Fe(102)
    PROVE  RootOf(u, v) \in Fe(101)
<1> DEFINE v3 == fe_mul(fe_sq(v), v)
           uv7 == fe_mul(fe_mul(fe_sq(v3), v), u)
<1>1. u \in Fe(330) /\ v \in Fe(330)
    BY Wider
<1>2. fe_sq(v) \in Fe(330)
    BY <1>1, Products, Wider
<1>3. v3 \in Fe(330)
    BY <1>1, <1>2, Products, Wider
<1>4. fe_sq(v3) \in Fe(330)
    BY <1>3, Products, Wider
<1>5. fe_mul(fe_sq(v3), v) \in Fe(330)
    BY <1>1, <1>4, Products, Wider
<1>6. uv7 \in Fe(330)
    BY <1>1, <1>5, Products, Wider
<1>7. RootOf(u, v) = fe_mul(fe_mul(fe_pow22523(uv7), v3), u)
    BY DEF RootOf, Eagerly
<1> HIDE DEF v3, uv7
<1>8. fe_pow22523(uv7) \in Fe(330)
    BY <1>6, Inverses, Wider
<1>9. fe_mul(fe_pow22523(uv7), v3) \in Fe(330)
    BY <1>3, <1>8, Products, Wider
<1> QED BY <1>1, <1>7, <1>9, Products

(* ge_frombytes_negate_vartime leaves coordinates that have been carried,  *)
(* whether or not the bytes are a point's.                                 *)
LEMMA Decoded == \A s \in Nat : ge_frombytes_negate_vartime(s).h \in ge_p3
<1> SUFFICES ASSUME NEW s \in Nat PROVE ge_frombytes_negate_vartime(s).h \in ge_p3
    OBVIOUS
<1> DEFINE y == fe_frombytes(s)
           u == fe_sub(fe_sq(y), fe_1)
           v == fe_add(fe_mul(fe_sq(y), d), fe_1)
           Opposed(x) == IF fe_isnegative(x) = s \div 2^FieldBits THEN fe_neg(x) ELSE x
           root == RootOf(u, v)
           vxx == fe_mul(fe_sq(root), v)
           ok == ~fe_isnonzero(fe_add(vxx, u))
<1>1. y \in Fe(101) /\ d \in Fe(101) /\ sqrtm1 \in Fe(101) /\ fe_1 \in Fe(1)
    BY Elements, CurveConstants, Constants
<1>2. ge_frombytes_negate_vartime(s)
        = IF ~fe_isnonzero(fe_sub(vxx, u)) THEN PointAt(Opposed(root), y, TRUE)
          ELSE PointAt(Opposed(fe_mul(root, sqrtm1)), y, ok)
    BY Zenon DEF ge_frombytes_negate_vartime
<1> HIDE DEF y
<1>3. u \in Fe(102) /\ v \in Fe(102)
  <2>1. fe_sq(y) \in Fe(101)
      BY <1>1, Products, Wider
  <2>2. fe_mul(fe_sq(y), d) \in Fe(101)
      BY <1>1, <2>1, Products, Wider
  <2>3. \A f \in Fe(101), g \in Fe(1) : fe_add(f, g) \in Fe(102) /\ fe_sub(f, g) \in Fe(102)
    <3>1. ASSUME NEW f \in Fe(101), NEW g \in Fe(1)
          PROVE  fe_add(f, g) \in Fe(101 + 1) /\ fe_sub(f, g) \in Fe(101 + 1)
        BY Sums
    <3>2. 101 + 1 = 102
        OBVIOUS
    <3> QED BY <3>1, <3>2
  <2> QED BY <1>1, <2>1, <2>2, <2>3
<1> HIDE DEF u, v
<1>4. root \in Fe(101)
    BY <1>3, Roots
<1> HIDE DEF root
<1>5. fe_mul(root, sqrtm1) \in Fe(101)
    BY <1>1, <1>4, Products, Wider
<1>6. \A x \in Fe(101) : Opposed(x) \in Fe(101)
    BY Negations
<1> HIDE DEF Opposed, vxx, ok
<1>7. \A x \in Fe(101) : \A b : PointAt(x, y, b).h \in ge_p3
  <2>1. fe_1 \in Fe(101)
      BY Constants, Wider
  <2>2. \A x \in Fe(101) : fe_mul(x, y) \in Fe(101)
      BY <1>1, Products, Wider
  <2> QED BY <1>1, <2>1, <2>2 DEF PointAt, ge_p3
<1> QED BY <1>2, <1>4, <1>5, <1>6, <1>7

(* The public half tweaked without the private one (add_scalar.c).         *)
LEMMA PointsPlus == \A key \in Nat : \A n : PointPlus(key, n) \in Nat
<1> SUFFICES ASSUME NEW key \in Nat, NEW n PROVE PointPlus(key, n) \in Nat
    OBVIOUS
<1> DEFINE A == ge_frombytes_negate_vartime(key)
           Undone(T) == [T EXCEPT !.X = fe_neg(@), !.T = fe_neg(@)]
           T == ge_p3_to_cached(Undone(A.h))
           B == ge_scalarmult_base(Unsigned(n))
<1>1. PointPlus(key, n) = ge_p3_tobytes(ge_p1p1_to_p3(ge_add(B, T)))
    BY DEF PointPlus, Eagerly
<1>2. A.h \in ge_p3
    BY Decoded
<1>3. ASSUME NEW h \in ge_p3 PROVE Undone(h) \in ge_p3
  <2>1. fe_neg(h.X) \in Fe(101) /\ fe_neg(h.T) \in Fe(101)
      BY Negations DEF ge_p3
  <2> QED BY <2>1 DEF ge_p3
<1> HIDE DEF A, Undone
<1>4. T \in ge_cached
    BY <1>2, <1>3, Conversions
<1> HIDE DEF T
<1>5. B \in ge_p3
    BY BaseMultiples
<1> HIDE DEF B
<1>6. ge_add(B, T) \in ge_p1p1
    BY <1>4, <1>5, PointSums
<1> QED BY <1>1, <1>6, Conversions, PointBytes

(* The key exchange: the state of the Montgomery ladder after each bit of  *)
(* the scalar (key_exchange.c:38-71).                                      *)
ScalarBit(e, k) == (e \div 2^(FieldBits - k)) % 2
Rungs(e) == [bit : {0} \cup {ScalarBit(e, k) : k \in 1 .. FieldBits},
             x2 : Fe(101), z2 : Fe(101), x3 : Fe(101), z3 : Fe(101)]
LadderTurns == INSTANCE LoopTheorems WITH
    Kept <- LAMBDA x1, e, c, turn : Rungs(e),
    First <- LAMBDA x1, e, c : [bit |-> 0, x2 |-> fe_1, z2 |-> fe_0, x3 |-> x1, z3 |-> fe_1],
    Turns <- LAMBDA x1, e, c : FieldBits, Before <- LAMBDA k : k - 1,
    Turn <- LAMBDA x1, e, c, w, k : LadderStep(x1, w, (e \div 2^(FieldBits - k)) % 2)

(* fe_cswap exchanges elements or leaves them.                             *)
LEMMA Swaps ==
    \A f, g \in Fe(101) : \A b : /\ fe_cswap(f, g, b)[1] \in Fe(101)
                                 /\ fe_cswap(f, g, b)[2] \in Fe(101)
BY DEF fe_cswap

(* One turn of the ladder (key_exchange.c:44-70): the largest sum is that  *)
(* of bb and 121666 e.                                                     *)
LEMMA LadderSteps ==
    ASSUME NEW x1 \in Fe(101), NEW e, NEW w \in Rungs(e), NEW k \in 1 .. FieldBits
    PROVE  LadderStep(x1, w, ScalarBit(e, k)) \in Rungs(e)
<1> DEFINE b == ScalarBit(e, k)
           swap == IF w.bit = b THEN 0 ELSE 1
           xs == fe_cswap(w.x2, w.x3, swap)
           zs == fe_cswap(w.z2, w.z3, swap)
           minus3 == fe_sub(xs[2], zs[2])
           minus2 == fe_sub(xs[1], zs[1])
           plus2  == fe_add(xs[1], zs[1])
           plus3  == fe_add(xs[2], zs[2])
           z3 == fe_mul(minus3, plus2)
           z2 == fe_mul(plus3, minus2)
           bb == fe_sq(minus2)
           aa == fe_sq(plus2)
           f  == fe_sub(aa, bb)
           s  == fe_mul121666(f)
<1>1. LadderStep(x1, w, b) =
        [ bit |-> b, x2 |-> fe_mul(aa, bb), z2 |-> fe_mul(f, fe_add(bb, s)),
          x3 |-> fe_sq(fe_add(z3, z2)), z3 |-> fe_mul(x1, fe_sq(fe_sub(z3, z2))) ]
    BY Zenon DEF LadderStep, Laddered
<1>2. b \in {0} \cup {ScalarBit(e, j) : j \in 1 .. FieldBits}
    OBVIOUS
<1> HIDE DEF b, swap
<1>3. /\ xs[1] \in Fe(101) /\ xs[2] \in Fe(101) /\ zs[1] \in Fe(101) /\ zs[2] \in Fe(101)
    BY Swaps DEF Rungs
<1> HIDE DEF xs, zs
<1>4. /\ minus3 \in Fe(330) /\ minus2 \in Fe(330) /\ plus2 \in Fe(330) /\ plus3 \in Fe(330)
    BY <1>3, Uncarried, Wider
<1> HIDE DEF minus3, minus2, plus2, plus3
<1>5. z3 \in Fe(101) /\ z2 \in Fe(101) /\ bb \in Fe(101) /\ aa \in Fe(101)
    BY <1>4, Products
<1> HIDE DEF z3, z2, bb, aa
<1>6. f \in Fe(202)
    BY <1>5, Uncarried
<1>7. f \in Fe(330) /\ f \in Fe(220)
    BY <1>6, Wider
<1> HIDE DEF f
<1>8. s \in Fe(110)
    BY <1>7, Scaled
<1> HIDE DEF s
<1>9. fe_add(bb, s) \in Fe(330)
  <2>1. fe_add(bb, s) \in Fe(101 + 110)
      BY <1>5, <1>8, Sums
  <2>2. 101 + 110 = 211
      OBVIOUS
  <2> QED BY <2>1, <2>2, Wider
<1>10. fe_add(z3, z2) \in Fe(330) /\ fe_sub(z3, z2) \in Fe(330)
    BY <1>5, Uncarried, Wider
<1>11. fe_sq(fe_sub(z3, z2)) \in Fe(330)
    BY <1>10, Products, Wider
<1>12. aa \in Fe(330) /\ bb \in Fe(330) /\ x1 \in Fe(330)
    BY <1>5, Wider
<1>13. fe_mul(aa, bb) \in Fe(101) /\ fe_mul(f, fe_add(bb, s)) \in Fe(101)
    BY <1>7, <1>9, <1>12, Products
<1>14. fe_sq(fe_add(z3, z2)) \in Fe(101) /\ fe_mul(x1, fe_sq(fe_sub(z3, z2))) \in Fe(101)
    BY <1>10, <1>11, <1>12, Products
<1>15. LadderStep(x1, w, b) \in Rungs(e)
    BY <1>1, <1>2, <1>13, <1>14 DEF Rungs
<1> QED BY <1>15 DEF b

(* The shared secret is bytes, whatever the public key and the scalar.     *)
LEMMA Secrets == \A key \in Nat : \A a : Secret(key, a) \in Nat
<1> SUFFICES ASSUME NEW key \in Nat, NEW a PROVE Secret(key, a) \in Nat
    OBVIOUS
<1> DEFINE e == Clamped(a)
           y == fe_frombytes(key)
           x1 == fe_mul(fe_add(y, fe_1), fe_invert(fe_sub(fe_1, y)))
           w == Loop(LAMBDA v, k : LadderStep(x1, v, (e \div 2^(FieldBits - k)) % 2),
                     [bit |-> 0, x2 |-> fe_1, z2 |-> fe_0, x3 |-> x1, z3 |-> fe_1], FieldBits)
<1>1. Secret(key, a) = fe_tobytes(fe_mul(fe_cswap(w.x2, w.x3, w.bit)[1],
                                         fe_invert(fe_cswap(w.z2, w.z3, w.bit)[1])))
    BY Zenon DEF Secret
<1> HIDE DEF e
<1>2. y \in Fe(101) /\ fe_1 \in Fe(101) /\ fe_0 \in Fe(101)
    BY Elements, Constants, Wider
<1> HIDE DEF y
<1>3. x1 \in Fe(101)
  <2>1. fe_add(y, fe_1) \in Fe(330) /\ fe_sub(fe_1, y) \in Fe(330)
      BY <1>2, Uncarried, Wider
  <2>2. fe_invert(fe_sub(fe_1, y)) \in Fe(330)
      BY <2>1, Inverses, Wider
  <2> QED BY <2>1, <2>2, Products
<1> HIDE DEF x1
<1>4. w \in Rungs(e)
  <2>1. FieldBits \in Nat
      BY PrimeAssumption
  <2>2. [bit |-> 0, x2 |-> fe_1, z2 |-> fe_0, x3 |-> x1, z3 |-> fe_1] \in Rungs(e)
      BY <1>2, <1>3 DEF Rungs
  <2>3. \A k \in 1 .. FieldBits : \A v \in Rungs(e) :
          LadderStep(x1, v, (e \div 2^(FieldBits - k)) % 2) \in Rungs(e)
      BY <1>3, LadderSteps DEF ScalarBit
  <2>4. LadderTurns!Run(x1, e, 0) \in Rungs(e)
      BY <2>1, <2>2, <2>3, LadderTurns!Looped, Zenon
  <2>5. w = LadderTurns!Run(x1, e, 0)
      BY Zenon DEF LadderTurns!Run, LadderTurns!Loop, LadderTurns!Eagerly, Loop, Eagerly
  <2> QED BY <2>4, <2>5
<1> HIDE DEF w
<1> DEFINE x == fe_cswap(w.x2, w.x3, w.bit)[1]
           z == fe_cswap(w.z2, w.z3, w.bit)[1]
<1>5. x \in Fe(101) /\ z \in Fe(101)
    BY <1>4, Swaps DEF Rungs
<1> HIDE DEF x, z
<1>6. x \in Fe(330) /\ fe_invert(z) \in Fe(330)
    BY <1>5, Inverses, Wider
<1>7. fe_mul(x, fe_invert(z)) \in Fe(220)
  <2>1. fe_mul(x, fe_invert(z)) \in Fe(101)
      BY <1>6, Products
  <2> QED BY <2>1, Wider
<1>8. fe_tobytes(fe_mul(x, fe_invert(z))) \in Nat
    BY <1>7, Elements, Values
<1> QED BY <1>1, <1>8 DEF x, z

(* The sliding windows (ge.c:25-65): every digit is none or odd, as only   *)
(* the odd multiples are in the tables, and below sixteen.                 *)
Window == {n \in -15 .. 15 : n = 0 \/ n % 2 = 1}
Sliding == [0 .. ScalarBits - 1 -> Window]
Windows == INSTANCE LoopTheorems WITH
    Kept <- LAMBDA i, r, c, turn : Sliding, First <- LAMBDA i, r, c : r,
    Turns <- LAMBDA i, r, c : 6,
    Before <- LAMBDA k : k - 1, Turn <- LAMBDA i, r, c, s, b : Absorb(s, i - 1, b)
Slides == INSTANCE LoopTheorems WITH
    Kept <- LAMBDA a, b, c, turn : Sliding,
    First <- LAMBDA a, b, c : [i \in 0 .. (ScalarBits - 1) |-> (a \div 2^i) % 2],
    Turns <- LAMBDA a, b, c : ScalarBits, Before <- LAMBDA k : k - 1,
    Turn <- LAMBDA a, b, c, r, i : Loop(LAMBDA s, w : Absorb(s, i - 1, w), r, 6)

(* A power of two is the number of the subsets of a set: the provers know  *)
(* nothing else of it.                                                     *)
LEMMA TwoPowers == \A n \in Nat : 2^n \in Nat /\ 2^n > 0
<1> SUFFICES ASSUME NEW n \in Nat PROVE 2^n \in Nat /\ 2^n > 0
    OBVIOUS
<1>1. IsFiniteSet(1 .. n) /\ Cardinality(1 .. n) = n
  <2>1. Cardinality(1 .. n) = IF 1 > n THEN 0 ELSE n - 1 + 1
      BY FS_Interval
  <2> QED BY <2>1, FS_Interval
<1>2. IsFiniteSet(SUBSET (1 .. n)) /\ Cardinality(SUBSET (1 .. n)) = 2^n
    BY <1>1, FS_SUBSET
<1>3. SUBSET (1 .. n) # {}
    OBVIOUS
<1> QED BY <1>2, <1>3, FS_CardinalityType, FS_EmptySet

(* Taking in a bit or taking it away changes a digit by an even number.    *)
LEMMA Absorbed ==
    ASSUME NEW r \in Sliding, NEW i \in 0 .. ScalarBits - 1, NEW b \in 1 .. 6
    PROVE  Absorb(r, i, b) \in Sliding
<1> DEFINE w == 2^b
           q == r[i]
           Stops(k) == k = ScalarBits \/ r[k] = 0
           k0 == CHOOSE k \in (i + b) .. ScalarBits :
                   Stops(k) /\ \A j \in (i + b) .. (k - 1) : ~Stops(j)
           up == [r EXCEPT ![i] = @ + w, ![i + b] = 0]
           down == [k \in DOMAIN r |-> IF k = i THEN r[i] - w
                                      ELSE IF k = k0 THEN 1
                                      ELSE IF k \in (i + b) .. k0 THEN 0 ELSE r[k]]
<1>1. w \in {2, 4, 8, 16, 32, 64}
  <2>1. b = 1 \/ b = 2 \/ b = 3 \/ b = 4 \/ b = 5 \/ b = 6
      OBVIOUS
  <2>2. 2^1 = 2 /\ 2^2 = 4 /\ 2^3 = 8 /\ 2^4 = 16 /\ 2^5 = 32 /\ 2^6 = 64
      OBVIOUS
  <2> QED BY <2>1, <2>2
<1>2. r[i] = 0 \/ Absorb(r, i, b) = IF i + b >= ScalarBits THEN r
                                   ELSE IF r[i + b] = 0 THEN r
                                   ELSE IF q + w <= 15 THEN up
                                   ELSE IF q - w >= -15 THEN down ELSE r
    BY Zenon DEF Absorb
<1>3. r[i] = 0 => Absorb(r, i, b) = r
    BY DEF Absorb
<1> HIDE DEF w, k0
<1>4. DOMAIN r = 0 .. ScalarBits - 1 /\ \A k \in 0 .. ScalarBits - 1 : r[k] \in Window
    BY DEF Sliding
<1>5. 0 \in Window /\ 1 \in Window /\ q \in Window
    BY <1>4 DEF Window
<1>6. ASSUME q # 0, q + w <= 15 PROVE up \in Sliding
  <2>1. q + w \in Window
    <3> HIDE DEF q
    <3> QED BY <1>1, <1>5, <1>6 DEF Window
  <2> DEFINE one == [r EXCEPT ![i] = @ + w]
  <2>2. one \in Sliding
      BY <2>1 DEF Sliding
  <2>3. up = [one EXCEPT ![i + b] = 0]
      OBVIOUS
  <2> HIDE DEF one
  <2>4. [one EXCEPT ![i + b] = 0] \in Sliding
      BY <1>5, <2>2 DEF Sliding
  <2> HIDE DEF up
  <2> QED BY <2>3, <2>4
<1>7. ASSUME q # 0, q - w >= -15 PROVE down \in Sliding
  <2>1. q - w \in Window
    <3> HIDE DEF q
    <3> QED BY <1>1, <1>5, <1>7 DEF Window
  <2> DEFINE kept == (i + b) .. k0
  <2>2. down = [k \in 0 .. ScalarBits - 1 |-> IF k = i THEN r[i] - w
                  ELSE IF k = k0 THEN 1 ELSE IF k \in kept THEN 0 ELSE r[k]]
      BY <1>4
  <2> HIDE DEF kept, down
  <2> QED BY <1>4, <1>5, <2>1, <2>2 DEF Sliding
<1> HIDE DEF up, down
<1> QED BY <1>2, <1>3, <1>6, <1>7

(* slide returns windows, for every scalar.                                *)
LEMMA Slid == \A a \in Nat : slide(a) \in Sliding
<1> SUFFICES ASSUME NEW a \in Nat PROVE slide(a) \in Sliding
    OBVIOUS
<1>1. ScalarBits \in Nat
    BY GroupAssumption
<1>2. [i \in 0 .. (ScalarBits - 1) |-> (a \div 2^i) % 2] \in Sliding
  <2>1. ASSUME NEW i \in 0 .. (ScalarBits - 1) PROVE (a \div 2^i) % 2 \in Window
    <3> DEFINE q == a \div 2^i
    <3>1. q \in Int
      <4>1. i \in Nat
          BY <1>1
      <4> QED BY <4>1, TwoPowers
    <3> HIDE DEF q
    <3>2. q % 2 \in Window
        BY <3>1 DEF Window
    <3> QED BY <3>2 DEF q
  <2> QED BY <2>1 DEF Sliding
<1>3. ASSUME NEW i \in 1 .. ScalarBits, NEW r \in Sliding
      PROVE  Loop(LAMBDA s, w : Absorb(s, i - 1, w), r, 6) \in Sliding
  <2>1. \A k \in 1 .. 6 : \A s \in Sliding : Absorb(s, i - 1, k) \in Sliding
    <3>1. i - 1 \in 0 .. ScalarBits - 1
        BY <1>1
    <3> QED BY <3>1, Absorbed
  <2>2. 6 \in Nat /\ \A k \in 1 .. 6 : k - 1 = k - 1
      OBVIOUS
  <2>3. Windows!Run(i, r, 0) \in Sliding
      BY <2>1, <2>2, Windows!Looped, Zenon
  <2>4. Loop(LAMBDA s, w : Absorb(s, i - 1, w), r, 6) = Windows!Run(i, r, 0)
      BY Zenon DEF Windows!Run, Windows!Loop, Windows!Eagerly, Loop, Eagerly
  <2> QED BY <2>3, <2>4
<1>4. Slides!Run(a, 0, 0) \in Sliding
    BY <1>1, <1>2, <1>3, Slides!Looped, Zenon
<1>5. slide(a) = Slides!Run(a, 0, 0)
    BY Zenon DEF slide, Slides!Run, Slides!Loop, Slides!Eagerly, Loop, Eagerly
<1> QED BY <1>4, <1>5

(* The doublings and additions of the verification (ge.c:67-125): the odd  *)
(* multiples of A, then a turn per digit from the highest that is used.    *)
Multiples == INSTANCE LoopTheorems WITH
    Kept <- LAMBDA A, A2, c, turn : {s \in Seq(ge_cached) : Len(s) = turn + 1},
    First <- LAMBDA A, A2, c : << ge_p3_to_cached(A) >>,
    Turns <- LAMBDA A, A2, c : 7, Before <- LAMBDA k : k - 1,
    Turn <- LAMBDA A, A2, c, ai, k :
              Append(ai, ge_p3_to_cached(ge_p1p1_to_p3(ge_add(A2, ai[k]))))

WithA(Ai, t, n) ==
    IF n > 0 THEN ge_add(ge_p1p1_to_p3(t), Ai[n \div 2 + 1])
    ELSE IF n < 0 THEN ge_sub(ge_p1p1_to_p3(t), Ai[(-n) \div 2 + 1]) ELSE t
WithB(t, n) ==
    IF n > 0 THEN ge_madd(ge_p1p1_to_p3(t), Bi[n \div 2])
    ELSE IF n < 0 THEN ge_msub(ge_p1p1_to_p3(t), Bi[(-n) \div 2]) ELSE t
Top(as, bs) ==
    LET used == {i \in 0 .. (ScalarBits - 1) : as[i] # 0 \/ bs[i] # 0}
    IN  IF used = {} THEN 0 ELSE 1 + CHOOSE i \in used : \A j \in used : j <= i
Descent == INSTANCE LoopTheorems WITH
    Kept <- LAMBDA as, bs, Ai, turn : ge_p2, First <- LAMBDA as, bs, Ai : ge_p2_0,
    Turns <- LAMBDA as, bs, Ai : Top(as, bs), Before <- LAMBDA k : k - 1,
    Turn <- LAMBDA as, bs, Ai, r, k :
              ge_p1p1_to_p2(WithB(WithA(Ai, ge_p2_dbl(r), as[Top(as, bs) - k]),
                                  bs[Top(as, bs) - k]))

(* The loop starts at the highest digit that is not zero in both, or not   *)
(* at all.                                                                 *)
LEMMA HighestDigit == \A as, bs \in Sliding : Top(as, bs) \in 0 .. ScalarBits
<1> SUFFICES ASSUME NEW as \in Sliding, NEW bs \in Sliding
             PROVE  Top(as, bs) \in 0 .. ScalarBits
    OBVIOUS
<1> DEFINE used == {i \in 0 .. (ScalarBits - 1) : as[i] # 0 \/ bs[i] # 0}
           left == {ScalarBits - 1 - i : i \in used}
<1>1. ScalarBits \in Nat
    BY GroupAssumption
<1>2. Top(as, bs) = IF used = {} THEN 0 ELSE 1 + CHOOSE i \in used : \A j \in used : j <= i
    BY Zenon DEF Top
<1>3. used \subseteq 0 .. (ScalarBits - 1)
    OBVIOUS
<1> HIDE DEF used
<1>4. ASSUME used # {} PROVE \E i \in used : \A j \in used : j <= i
  <2>1. left \in SUBSET Nat /\ left # {}
    <3>1. \A i \in used : ScalarBits - 1 - i \in Nat
        BY <1>1, <1>3
    <3> QED BY <1>4, <3>1
  <2>2. PICK x \in left : \A y \in left : x <= y
    <3> HIDE DEF left
    <3> QED BY <2>1, Descent!Least
  <2>3. PICK i \in used : x = ScalarBits - 1 - i
      BY <2>2
  <2>4. ASSUME NEW j \in used PROVE j <= i
    <3>1. x <= ScalarBits - 1 - j
        BY <2>2
    <3> QED BY <1>1, <1>3, <2>3, <3>1
  <2> QED BY <2>4
<1>5. ASSUME used # {} PROVE (CHOOSE i \in used : \A j \in used : j <= i) \in used
    BY <1>4, <1>5, Zenon
<1> HIDE DEF left
<1>6. \A i \in used : 1 + i \in 0 .. ScalarBits
    BY <1>1, <1>3
<1>7. 0 \in 0 .. ScalarBits
    BY <1>1
<1> QED BY <1>2, <1>5, <1>6, <1>7, Zenon

(* The eight cached multiples of A.                                        *)
LEMMA OddMultiples ==
    ASSUME NEW A \in ge_p3, NEW A2 \in ge_p3
    PROVE  Multiples!Run(A, A2, 0) \in {s \in Seq(ge_cached) : Len(s) = 7 + 1}
<1>1. << ge_p3_to_cached(A) >> \in {s \in Seq(ge_cached) : Len(s) = 0 + 1}
    BY Conversions
<1>2. ASSUME NEW k \in 1 .. 7, NEW ai \in {s \in Seq(ge_cached) : Len(s) = k - 1 + 1}
      PROVE  Append(ai, ge_p3_to_cached(ge_p1p1_to_p3(ge_add(A2, ai[k]))))
               \in {s \in Seq(ge_cached) : Len(s) = k + 1}
  <2>1. ai \in Seq(ge_cached) /\ Len(ai) = k /\ ai[k] \in ge_cached
      OBVIOUS
  <2>2. ge_p3_to_cached(ge_p1p1_to_p3(ge_add(A2, ai[k]))) \in ge_cached
      BY <2>1, PointSums, Conversions
  <2> DEFINE e == ge_p3_to_cached(ge_p1p1_to_p3(ge_add(A2, ai[k])))
  <2> HIDE DEF e
  <2>3. Append(ai, e) \in Seq(ge_cached) /\ Len(Append(ai, e)) = k + 1
      BY <2>1, <2>2 DEF e
  <2> QED BY <2>3 DEF e
<1>3. 7 \in Nat /\ \A k \in 1 .. 7 : k - 1 = k - 1
    OBVIOUS
<1> QED BY <1>1, <1>2, <1>3, Multiples!Looped, Zenon

(* ge_double_scalarmult_vartime reads within its tables, and its result    *)
(* is carried.                                                             *)
LEMMA DoubleMultiples ==
    ASSUME NEW a \in Nat, NEW A \in ge_p3, NEW b \in Nat
    PROVE  ge_double_scalarmult_vartime(a, A, b) \in ge_p2
<1> DEFINE as == slide(a)
           bs == slide(b)
           A2 == ge_p1p1_to_p3(ge_p3_dbl(A))
           Ai == Loop(LAMBDA ai, k :
                        Append(ai, ge_p3_to_cached(ge_p1p1_to_p3(ge_add(A2, ai[k])))),
                      << ge_p3_to_cached(A) >>, 7)
           top == Top(as, bs)
           Turned(r, n, m) == ge_p1p1_to_p2(WithB(WithA(Ai, ge_p2_dbl(r), n), m))
<1>1. ge_double_scalarmult_vartime(a, A, b)
        = Loop(LAMBDA r, k : Turned(r, as[top - k], bs[top - k]), ge_p2_0, top)
    BY Zenon DEF ge_double_scalarmult_vartime, WithA, WithB, Top
<1>2. as \in Sliding /\ bs \in Sliding
    BY Slid
<1> HIDE DEF as, bs
<1>3. top \in 0 .. ScalarBits /\ ScalarBits \in Nat
    BY <1>2, HighestDigit, GroupAssumption
<1> HIDE DEF top
<1>4. A2 \in ge_p3
    BY Conversions DEF ge_p3_dbl
<1> HIDE DEF A2
<1>5. Ai \in Seq(ge_cached) /\ Len(Ai) = 8
  <2>1. Ai = Multiples!Run(A, A2, 0)
      BY Zenon DEF Multiples!Run, Multiples!Loop, Multiples!Eagerly, Loop, Eagerly
  <2> HIDE DEF Ai
  <2> QED BY <1>4, <2>1, OddMultiples
<1> HIDE DEF Ai
<1>6. \A n \in Window : /\ n > 0 => n \div 2 \in 0 .. 7
                        /\ n < 0 => (-n) \div 2 \in 0 .. 7
    BY DEF Window
<1>7. ASSUME NEW t \in ge_p1p1, NEW n \in Window
      PROVE  WithA(Ai, t, n) \in ge_p1p1 /\ WithB(t, n) \in ge_p1p1
  <2>1. ge_p1p1_to_p3(t) \in ge_p3
      BY Conversions
  <2>2. ASSUME NEW i \in 0 .. 7 PROVE Ai[i + 1] \in ge_cached /\ Bi[i] \in ge_precomp
    <3>1. i + 1 \in 1 .. Len(Ai)
        BY <1>5
    <3>2. ASSUME NEW S, NEW s \in Seq(S), NEW j \in 1 .. Len(s) PROVE s[j] \in S
        OBVIOUS
    <3>3. Ai[i + 1] \in ge_cached
        BY <1>5, <3>1, <3>2, Zenon
    <3> QED BY <3>3, Tables
  <2>3. \A i \in 0 .. 7 : /\ ge_add(ge_p1p1_to_p3(t), Ai[i + 1]) \in ge_p1p1
                          /\ ge_sub(ge_p1p1_to_p3(t), Ai[i + 1]) \in ge_p1p1
                          /\ ge_madd(ge_p1p1_to_p3(t), Bi[i]) \in ge_p1p1
                          /\ ge_msub(ge_p1p1_to_p3(t), Bi[i]) \in ge_p1p1
      BY <2>1, <2>2, PointSums
  <2> QED BY <1>6, <2>3 DEF WithA, WithB
<1>8. ASSUME NEW k \in 1 .. top, NEW r \in ge_p2
      PROVE  Turned(r, as[top - k], bs[top - k]) \in ge_p2
  <2>1. as[top - k] \in Window /\ bs[top - k] \in Window
    <3>1. top - k \in 0 .. ScalarBits - 1
        BY <1>3
    <3> QED BY <1>2, <3>1 DEF Sliding
  <2>2. ge_p2_dbl(r) \in ge_p1p1
      BY Conversions
  <2>3. WithB(WithA(Ai, ge_p2_dbl(r), as[top - k]), bs[top - k]) \in ge_p1p1
      BY <1>7, <2>1, <2>2
  <2> QED BY <2>3, Conversions
<1>9. Descent!Run(as, bs, Ai) \in ge_p2
  <2>1. top \in Nat /\ ge_p2_0 \in ge_p2
      BY <1>3, Conversions
  <2> QED BY <1>8, <2>1, Descent!Looped, Zenon DEF top
<1>10. Loop(LAMBDA r, k : Turned(r, as[top - k], bs[top - k]), ge_p2_0, top)
         = Descent!Run(as, bs, Ai)
    BY Zenon DEF top, Descent!Run, Descent!Loop, Descent!Eagerly, Loop, Eagerly
<1> QED BY <1>1, <1>9, <1>10

(* What ed25519_verify compares with R (verify.c:68-70) is a point as      *)
(* bytes, for every key, S and hash: its answer is about the point.        *)
THEOREM VerificationFits ==
    \A h, key, S \in Nat :
      ge_tobytes(ge_double_scalarmult_vartime(h, ge_frombytes_negate_vartime(key).h, S)) \in Nat
BY Decoded, DoubleMultiples, PointBytes

(* Bytes that leave the library are a number: whatever the seeds, scalars  *)
(* and messages, no call is handed limbs it cannot take.                   *)
LimbsInv ==
    /\ DOMAIN public = Party /\ DOMAIN private = Party /\ DOMAIN shared = Party
    /\ \A p \in Party : Created(p) => public[p] \in Nat
    /\ sig # None => sig.R \in Nat
    /\ \A p \in Party : shared[p] # None => shared[p].secret \in Nat

(* The three results that are a multiple of the base point.                *)
LEMMA Published ==
    /\ \A a : ge_p3_tobytes(ge_scalarmult_base(a)) \in Nat
    /\ \A m, key, priv : Signature(m, key, priv).R \in Nat
<1>1. \A a : ge_p3_tobytes(ge_scalarmult_base(a)) \in Nat
    BY BaseMultiples, PointBytes
<1>2. ASSUME NEW m, NEW key, NEW priv PROVE Signature(m, key, priv).R \in Nat
  <2> DEFINE r == sc_reduce(Hash(<< Bytes(priv.prefix), m >>))
             R == ge_p3_tobytes(ge_scalarmult_base(r))
             S == sc_muladd(sc_reduce(Hash(<< Bytes(R), Bytes(key), m >>)), priv.a, r)
  <2>1. Signature(m, key, priv) = [R |-> R, S |-> S]
      BY Zenon DEF Signature
  <2>2. R \in Nat
    <3> HIDE DEF r
    <3> QED BY <1>1
  <2> HIDE DEF R, S
  <2> QED BY <2>1, <2>2
<1> QED BY <1>1, <1>2

(* Each call keeps it: a tweaked or exchanged public half was made by one  *)
(* of them.                                                                *)
THEOREM LimbsInductive == Spec => []LimbsInv
<1>1. Init => LimbsInv
    BY DEF Init, LimbsInv, Created
<1>2. ASSUME LimbsInv, [Next]_vars PROVE LimbsInv'
  <2>1. ASSUME NEW p \in Party, NEW seed \in Seeds, ed25519_create_keypair(p, seed)
        PROVE  LimbsInv'
    <3> DEFINE pair == Pair(seed)
               key == ge_p3_tobytes(ge_scalarmult_base(pair.a))
    <3>1. private' = [private EXCEPT ![p] = pair] /\ public' = [public EXCEPT ![p] = key]
        BY <2>1, Zenon DEF ed25519_create_keypair
    <3> HIDE DEF pair
    <3>2. key \in Nat
        BY Published
    <3>3. UNCHANGED << shared, sig >>
        BY <2>1 DEF ed25519_create_keypair
    <3> HIDE DEF key
    <3> QED BY <1>2, <3>1, <3>2, <3>3 DEF LimbsInv, Created
  <2>2. ASSUME NEW p \in Party, NEW m \in Messages, ed25519_sign(p, m)
        PROVE  LimbsInv'
    <3>1. PICK s \in {Signature(m, public[p], private[p])} :
            sig' = [R |-> s.R, S |-> s.S, m |-> m, key |-> public[p],
                    whole |-> lag[p] = 0, behind |-> Behind(p)]
        BY <2>2 DEF ed25519_sign
    <3>2. s.R \in Nat
        BY Published
    <3>3. sig'.R \in Nat
        BY <3>1, <3>2
    <3>4. UNCHANGED << public, private, shared >>
        BY <2>2 DEF ed25519_sign
    <3> QED BY <1>2, <3>3, <3>4 DEF LimbsInv, Created
  <2>3. ASSUME ed25519_verify PROVE LimbsInv'
      BY <1>2, <2>3 DEF ed25519_verify, LimbsInv, Created
  <2>4. ASSUME NEW p \in Party, NEW n \in Scalars, NEW onPublic \in BOOLEAN,
               NEW onPrivate \in BOOLEAN, ed25519_add_scalar(p, n, onPublic, onPrivate)
        PROVE  LimbsInv'
    <3>1. Created(p) /\ public[p] \in Nat
        BY <1>2, <2>4 DEF ed25519_add_scalar, LimbsInv
    <3>2. DOMAIN private' = Party /\ \A q \in Party : private'[q] # None => Created(q)
        BY <1>2, <2>4, <3>1 DEF ed25519_add_scalar, LimbsInv, Created
    <3>3. DOMAIN public' = Party /\ \A q \in Party : public'[q] # public[q] => public'[q] \in Nat
      <4>1. public' = public \/ \E k \in Nat : public' = [public EXCEPT ![p] = k]
        <5>1. ge_p3_tobytes(ge_scalarmult_base(private'[p].a)) \in Nat
            BY Published
        <5>2. PointPlus(public[p], n) \in Nat
            BY <3>1, PointsPlus
        <5> QED BY <2>4, <5>1, <5>2 DEF ed25519_add_scalar
      <4> QED BY <1>2, <4>1 DEF LimbsInv
    <3>4. UNCHANGED << shared, sig >>
        BY <2>4 DEF ed25519_add_scalar
    <3> QED BY <1>2, <3>2, <3>3, <3>4 DEF LimbsInv, Created
  <2>5. ASSUME NEW p \in Party, NEW q \in Party, p # q, ed25519_key_exchange(p, q)
        PROVE  LimbsInv'
    <3>1. Secret(public[q], private[p].a) \in Nat
        BY <1>2, <2>5, Secrets DEF ed25519_key_exchange, LimbsInv
    <3>2. PICK x : x.secret \in Nat /\ shared' = [shared EXCEPT ![p] = x]
        BY <2>5, <3>1 DEF ed25519_key_exchange
    <3>3. UNCHANGED << public, private, sig >>
        BY <2>5 DEF ed25519_key_exchange
    <3> QED BY <1>2, <3>2, <3>3 DEF LimbsInv, Created
  <2>6. CASE UNCHANGED vars
      BY <1>2, <2>6 DEF vars, LimbsInv, Created
  <2> QED BY <1>2, <2>1, <2>2, <2>3, <2>4, <2>5, <2>6 DEF Next
<1> QED BY <1>1, <1>2, PTL DEF Spec

(* No chain of additions between two carries outgrows what comes next, for *)
(* every prime, order, seed and sequence of calls.                         *)
THEOREM LimbsCorrect == Spec => []LimbsFit
<1>1. LimbsInv => LimbsFit
    BY DEF LimbsInv, LimbsFit, NoBytes
<1> QED BY <1>1, LimbsInductive, PTL

(* The pairs that are held come from each other by tweaks.                 *)
Tweaks == INSTANCE LoopTheorems WITH
    Kept <- LAMBDA a, b, c, turn : {}, First <- LAMBDA a, b, c : {Pair(s) : s \in Seeds},
    Turns <- LAMBDA a, b, c : MaxCalls, Before <- LAMBDA k : k - 1,
    Turn <- LAMBDA a, b, c, pairs, k : Tweaked(pairs)

(* The pairs of ed25519_create_keypair, and those a tweak more.            *)
LEMMA HeldPairs ==
    /\ Held[0] = {Pair(s) : s \in Seeds}
    /\ \A k \in 1 .. MaxCalls : Held[k] = Tweaked(Held[k - 1])
<1> USE CallsAssumption
<1>1. \A k \in 1 .. MaxCalls : k - 1 \in 0 .. k - 1
    OBVIOUS
<1>2. /\ Tweaks!Recursion(0, 0, 0)[0] = {Pair(s) : s \in Seeds}
      /\ \A k \in 1 .. MaxCalls :
           Tweaks!Recursion(0, 0, 0)[k] = Tweaked(Tweaks!Recursion(0, 0, 0)[k - 1])
  <2>1. Tweaks!Recursion(0, 0, 0)[0] = {Pair(s) : s \in Seeds}
      BY <1>1, Tweaks!Unfolded, Zenon
  <2>2. ASSUME NEW k \in 1 .. MaxCalls
        PROVE  Tweaks!Recursion(0, 0, 0)[k] = Tweaked(Tweaks!Recursion(0, 0, 0)[k - 1])
      BY <1>1, Tweaks!Unfolded
  <2> QED BY <2>1, <2>2
<1>3. Held = Tweaks!Recursion(0, 0, 0)
    BY Zenon DEF Held, Tweaks!Recursion
<1> QED BY <1>2, <1>3, Zenon

(* Without a collision a prefix belongs to one scalar: the seeds and the   *)
(* scalars that led to it are the same.                                    *)
LEMMA PrefixDecides ==
    ASSUME NoCollision,
           NEW i \in 0 .. MaxCalls, NEW j \in 0 .. MaxCalls,
           NEW x \in Held[i], NEW y \in Held[j], x.prefix = y.prefix
    PROVE  x = y
<1> USE CallsAssumption
<1> DEFINE Apart(k) == \E l \in 0 .. MaxCalls : \E u \in Held[k], v \in Held[l] :
                          u.prefix = v.prefix /\ u # v
           S == {k \in 0 .. MaxCalls : Apart(k)}
<1>1. S = {}
  <2> SUFFICES ASSUME S # {} PROVE FALSE
      OBVIOUS
  <2>1. PICK k \in S : \A l \in S : k <= l
    <3>1. S \in SUBSET Nat
        OBVIOUS
    <3> HIDE DEF S
    <3> QED BY <3>1, Tweaks!Least
  <2>2. k \in 0 .. MaxCalls /\ Apart(k)
      OBVIOUS
  <2>13. PICK l \in 0 .. MaxCalls : \E u \in Held[k], v \in Held[l] : u.prefix = v.prefix /\ u # v
      BY <2>2
  <2>3. PICK u \in Held[k], v \in Held[l] : u.prefix = v.prefix /\ u # v
      BY <2>13
  <2>4. \A w \in 0 .. MaxCalls : w < k => ~Apart(w)
    <3>1. \A w \in 0 .. MaxCalls : Apart(w) => k <= w
        BY <2>1
    <3> HIDE DEF Apart
    <3> QED BY <2>2, <3>1
  <2> HIDE DEF S, Apart
  <2>5. /\ k # 0 => k \in 1 .. MaxCalls /\ k - 1 \in 0 .. MaxCalls /\ k - 1 < k
        /\ l # 0 => l \in 1 .. MaxCalls /\ l - 1 \in 0 .. MaxCalls
      BY <2>2
  <2> DEFINE held == UNION {Held[w] : w \in 0 .. MaxCalls}
  <2>6. /\ \A s, t \in Seeds : Pair(s).prefix = Pair(t).prefix => s = t
        /\ \A p, q \in held, m, n \in Scalars :
             Renewed(p.prefix, m) = Renewed(q.prefix, n) => p.prefix = q.prefix /\ m = n
        /\ \A p \in held, m \in Scalars, s \in Seeds : Renewed(p.prefix, m) # Pair(s).prefix
      BY Zenon DEF NoCollision
  <2>7. \A p, n : NextScalar(p, n).prefix = Renewed(p.prefix, n)
      BY DEF NextScalar
  <2>8. \A w \in 0 .. MaxCalls : Held[w] \subseteq held
      OBVIOUS
  <2> HIDE DEF held
  <2>9. CASE k = 0 /\ l = 0
    <3>1. PICK s \in Seeds, t \in Seeds : u = Pair(s) /\ v = Pair(t)
        BY <2>9, HeldPairs
    <3> QED BY <2>3, <2>6, <3>1
  <2>10. CASE k = 0 /\ l # 0
    <3>1. PICK s \in Seeds : u = Pair(s)
        BY <2>10, HeldPairs
    <3>2. PICK q \in Held[l - 1], n \in Scalars : v = NextScalar(q, n)
        BY <2>5, <2>10, HeldPairs DEF Tweaked
    <3>3. q \in held
        BY <2>5, <2>8, <2>10
    <3> QED BY <2>3, <2>6, <2>7, <3>1, <3>2, <3>3
  <2>11. CASE k # 0 /\ l = 0
    <3>1. PICK s \in Seeds : v = Pair(s)
        BY <2>11, HeldPairs
    <3>2. PICK p \in Held[k - 1], m \in Scalars : u = NextScalar(p, m)
        BY <2>5, <2>11, HeldPairs DEF Tweaked
    <3>3. p \in held
        BY <2>5, <2>8, <2>11
    <3> QED BY <2>3, <2>6, <2>7, <3>1, <3>2, <3>3
  <2>12. CASE k # 0 /\ l # 0
    <3>1. PICK p \in Held[k - 1], m \in Scalars : u = NextScalar(p, m)
        BY <2>5, <2>12, HeldPairs DEF Tweaked
    <3>2. PICK q \in Held[l - 1], n \in Scalars : v = NextScalar(q, n)
        BY <2>5, <2>12, HeldPairs DEF Tweaked
    <3>3. p \in held /\ q \in held
        BY <2>5, <2>8, <2>12
    <3>4. p.prefix = q.prefix /\ m = n
        BY <2>3, <2>6, <2>7, <3>1, <3>2, <3>3
    <3>5. p = q
        BY <2>4, <2>5, <2>12, <3>4 DEF Apart
    <3> QED BY <2>3, <3>1, <3>2, <3>4, <3>5
  <2> QED BY <2>9, <2>10, <2>11, <2>12
<1> QED BY <1>1

(* Every pair that is held or that a signature was made with came from a   *)
(* seed by fewer tweaks than there were calls.                             *)
HeldInv ==
    /\ calls \in Nat /\ DOMAIN private = Party
    /\ \A p \in Party : Created(p) => \E k \in 0 .. MaxCalls : k < calls /\ private[p] \in Held[k]
    /\ \A x \in signed : \E k \in 0 .. MaxCalls : x \in Held[k]

(* ed25519_create_keypair, ed25519_sign and ed25519_add_scalar are the     *)
(* calls that make, use and change a pair.                                 *)
THEOREM PairsInductive == Spec => []HeldInv
<1> USE CallsAssumption
<1>1. Init => HeldInv
    BY DEF Init, HeldInv, Created
<1>2. ASSUME HeldInv, [Next]_vars PROVE HeldInv'
  <2>1. ASSUME NEW p \in Party, NEW seed \in Seeds, ed25519_create_keypair(p, seed)
        PROVE  HeldInv'
    <3>1. private' = [private EXCEPT ![p] = Pair(seed)]
        BY <2>1, Zenon DEF ed25519_create_keypair
    <3>2. calls' = calls + 1 /\ signed' = signed
        BY <2>1, Zenon DEF ed25519_create_keypair, Call
    <3>3. Pair(seed) \in Held[0] /\ 0 \in 0 .. MaxCalls
        BY HeldPairs
    <3> QED BY <1>2, <3>1, <3>2, <3>3 DEF HeldInv, Created
  <2>2. ASSUME NEW p \in Party, NEW m \in Messages, ed25519_sign(p, m)
        PROVE  HeldInv'
    <3>1. /\ Created(p) /\ calls' = calls + 1 /\ private' = private
          /\ signed' = signed \cup {private[p]}
        BY <2>2, Zenon DEF ed25519_sign, Call
    <3> QED BY <1>2, <3>1 DEF HeldInv, Created
  <2>3. ASSUME ed25519_verify PROVE HeldInv'
      BY <1>2, <2>3 DEF ed25519_verify, HeldInv, Created
  <2>4. ASSUME NEW p \in Party, NEW n \in Scalars, NEW onPublic \in BOOLEAN,
               NEW onPrivate \in BOOLEAN, ed25519_add_scalar(p, n, onPublic, onPrivate)
        PROVE  HeldInv'
    <3>1. /\ Created(p) /\ calls < MaxCalls /\ calls' = calls + 1 /\ signed' = signed
          /\ private' = IF onPrivate THEN [private EXCEPT ![p] = NextScalar(private[p], n)]
                        ELSE private
        BY <2>4 DEF ed25519_add_scalar, Call
    <3>2. PICK k \in 0 .. MaxCalls : k < calls /\ private[p] \in Held[k]
        BY <1>2, <3>1 DEF HeldInv
    <3>3. k + 1 \in 1 .. MaxCalls /\ k + 1 \in 0 .. MaxCalls /\ k + 1 < calls' /\ k + 1 - 1 = k
        BY <1>2, <3>1, <3>2 DEF HeldInv
    <3>4. NextScalar(private[p], n) \in Held[k + 1]
        BY <3>2, <3>3, HeldPairs DEF Tweaked
    <3> HIDE DEF Held
    <3>5. \A q \in Party : private'[q] # None =>
            \E l \in 0 .. MaxCalls : l < calls' /\ private'[q] \in Held[l]
      <4>1. ASSUME NEW q \in Party, private'[q] # None
            PROVE  \E l \in 0 .. MaxCalls : l < calls' /\ private'[q] \in Held[l]
        <5>1. CASE q = p /\ onPrivate
            BY <1>2, <3>1, <3>3, <3>4, <5>1 DEF HeldInv
        <5>2. CASE ~(q = p /\ onPrivate)
          <6>1. private'[q] = private[q] /\ Created(q)
              BY <1>2, <3>1, <4>1, <5>2 DEF HeldInv, Created
          <6>2. PICK l \in 0 .. MaxCalls : l < calls /\ private[q] \in Held[l]
              BY <1>2, <6>1 DEF HeldInv
          <6>3. l < calls'
              BY <1>2, <3>1, <6>2 DEF HeldInv
          <6> QED BY <6>1, <6>2, <6>3
        <5> QED BY <5>1, <5>2
      <4> QED BY <4>1
    <3> QED BY <1>2, <3>1, <3>5 DEF HeldInv, Created
  <2>5. ASSUME NEW p \in Party, NEW q \in Party, p # q, ed25519_key_exchange(p, q)
        PROVE  HeldInv'
      BY <1>2, <2>5 DEF ed25519_key_exchange, HeldInv, Created
  <2>6. CASE UNCHANGED vars
      BY <1>2, <2>6 DEF vars, HeldInv, Created
  <2> QED BY <1>2, <2>1, <2>2, <2>3, <2>4, <2>5, <2>6 DEF Next
<1> QED BY <1>1, <1>2, PTL DEF Spec

(* One secret prefix, one scalar: as long as the hash has no collision     *)
(* among the digests that become prefixes, no two signatures share a nonce *)
(* under different scalars (add_scalar.c:32-39).                           *)
THEOREM NoncesApart ==
    ASSUME NoCollision PROVE Spec => []NonceNeverShared
<1>1. HeldInv => NonceNeverShared
  <2> SUFFICES ASSUME HeldInv, NEW x \in signed, NEW y \in signed, x.prefix = y.prefix
               PROVE  x.a = y.a
      BY DEF NonceNeverShared
  <2>1. PICK i \in 0 .. MaxCalls, j \in 0 .. MaxCalls : x \in Held[i] /\ y \in Held[j]
      BY DEF HeldInv
  <2>2. x = y
      BY <2>1, PrefixDecides
  <2> QED BY <2>2
<1> QED BY <1>1, PairsInductive, PTL

(* The bits below the last of sc.c's shifts: powers of two multiply, as    *)
(* the subsets of two disjoint sets are the pairs of a subset of each.     *)
LEMMA Exponents ==
    ASSUME NEW m \in Nat, NEW n \in Nat
    PROVE  2^(m + n) = 2^m * 2^n
<1> DEFINE A == 1 .. m
           B == m + 1 .. m + n
           C == 1 .. m + n
           f == [p \in (SUBSET A) \X (SUBSET B) |-> p[1] \cup p[2]]
<1>1. /\ IsFiniteSet(A) /\ Cardinality(A) = m
      /\ IsFiniteSet(B) /\ Cardinality(B) = n
      /\ IsFiniteSet(C) /\ Cardinality(C) = m + n
  <2>1. ASSUME NEW x \in Nat, NEW y \in Nat, x <= y
        PROVE  IsFiniteSet(x + 1 .. y) /\ Cardinality(x + 1 .. y) = y - x
    <3>1. x + 1 \in Int /\ y \in Int
        OBVIOUS
    <3>2. /\ IsFiniteSet(x + 1 .. y)
          /\ Cardinality(x + 1 .. y) = IF x + 1 > y THEN 0 ELSE y - (x + 1) + 1
        BY <3>1, FS_Interval, Zenon
    <3> QED BY <2>1, <3>2
  <2>2. A = 0 + 1 .. m /\ C = 0 + 1 .. m + n
      OBVIOUS
  <2>3. m - 0 = m /\ m + n - 0 = m + n /\ m + n - m = n /\ m + n \in Nat /\ 0 <= m
        /\ 0 <= m + n /\ m <= m + n
      OBVIOUS
  <2> HIDE DEF A, C
  <2> QED BY <2>1, <2>2, <2>3
<1>2. /\ C = A \cup B /\ A \cap B = {}
    OBVIOUS
<1> HIDE DEF A, B, C
<1>3. f \in Bijection((SUBSET A) \X (SUBSET B), SUBSET C)
  <2>1. f \in [(SUBSET A) \X (SUBSET B) -> SUBSET C]
      BY <1>2
  <2>2. ASSUME NEW p \in (SUBSET A) \X (SUBSET B), NEW q \in (SUBSET A) \X (SUBSET B), f[p] = f[q]
        PROVE  p = q
    <3>1. p[1] \cup p[2] = q[1] \cup q[2]
        BY <2>2
    <3>2. /\ p[1] \subseteq A /\ p[2] \subseteq B /\ q[1] \subseteq A /\ q[2] \subseteq B
          /\ p = <<p[1], p[2]>> /\ q = <<q[1], q[2]>>
        OBVIOUS
    <3>3. p[1] = q[1] /\ p[2] = q[2]
      <4> HIDE DEF f
      <4>1. \A x : x \in p[1] <=> x \in q[1]
          BY <1>2, <3>1, <3>2
      <4>2. \A x : x \in p[2] <=> x \in q[2]
          BY <1>2, <3>1, <3>2
      <4> QED BY <4>1, <4>2
    <3> QED BY <3>2, <3>3
  <2>3. ASSUME NEW T \in SUBSET C PROVE \E p \in (SUBSET A) \X (SUBSET B) : f[p] = T
    <3> DEFINE w == <<T \cap A, T \cap B>>
    <3>1. w \in (SUBSET A) \X (SUBSET B) /\ (T \cap A) \cup (T \cap B) = T
        BY <1>2
    <3>2. f[w] = w[1] \cup w[2]
        BY <3>1, Zenon
    <3>3. w[1] = T \cap A /\ w[2] = T \cap B
        OBVIOUS
    <3>4. f[w] = T
        BY <3>1, <3>2, <3>3
    <3> HIDE DEF w, f
    <3> QED BY <3>1, <3>4
  <2> HIDE DEF f
  <2> QED BY <2>1, <2>2, <2>3 DEF Bijection, Injection, Surjection, IsInjective
<1>4. /\ IsFiniteSet(SUBSET A) /\ Cardinality(SUBSET A) = 2^m
      /\ IsFiniteSet(SUBSET B) /\ Cardinality(SUBSET B) = 2^n
      /\ IsFiniteSet(SUBSET C) /\ Cardinality(SUBSET C) = 2^(m + n)
    BY <1>1, FS_SUBSET
<1>5. /\ IsFiniteSet((SUBSET A) \X (SUBSET B))
      /\ Cardinality((SUBSET A) \X (SUBSET B)) = 2^m * 2^n
  <2>1. /\ IsFiniteSet((SUBSET A) \X (SUBSET B))
        /\ Cardinality((SUBSET A) \X (SUBSET B)) = Cardinality(SUBSET A) * Cardinality(SUBSET B)
      BY ONLY <1>4, FS_Product, Zenon
  <2> QED BY ONLY <1>4, <2>1
<1>6. ExistsBijection((SUBSET A) \X (SUBSET B), SUBSET C)
    BY <1>3, Fun_ExistsBij, Zenon
<1>7. IsFiniteSet(SUBSET C) /\ Cardinality(SUBSET C) = Cardinality((SUBSET A) \X (SUBSET B))
    BY ONLY <1>5, <1>6, FS_Bijection, Zenon
<1> QED BY ONLY <1>4, <1>5, <1>7

(* What the code of sc.c fixes: 2^252 and a fold of six limbs.             *)
CodeSizes ==
    /\ WordBits = 256 /\ ScalarBits = 256 /\ LimbBits = 21 /\ Limbs = 12
    /\ Folding = <<666643, 470296, 654183, -997805, 136657, -683901>>

Totals == INSTANCE LoopTheorems WITH
    Kept <- LAMBDA a, b, c, k : c[k],
    First <- LAMBDA a, b, c : 0,
    Turns <- LAMBDA a, b, c : b,
    Before <- LAMBDA k : k - 1,
    Turn <- LAMBDA a, b, c, y, k : y + a[k - 1] * Weight(k - 1)

(* What limbs add up to, found limb by limb.                               *)
LEMMA Summed ==
    ASSUME NEW s, NEW n \in Nat, NEW c, 0 \in c[0],
           \A k \in 1 .. n : \A y \in c[k - 1] : y + s[k - 1] * Weight(k - 1) \in c[k]
    PROVE  Number(s, n) \in c[n]
<1>1. Totals!Run(s, n, c) \in c[n]
    BY Totals!Looped, Zenon
<1>2. Number(s, n) = Totals!Run(s, n, c)
    BY Zenon DEF Number, Totals!Run, Loop, Eagerly, Totals!Loop, Totals!Eagerly
<1> QED BY <1>1, <1>2

(* The loop of Number adds a limb at a time.                               *)
LEMMA Telescoped ==
    ASSUME NEW s, NEW n \in Nat, NEW g, g[0] = 0,
           \A k \in 1 .. n : g[k] = g[k - 1] + s[k - 1] * Weight(k - 1)
    PROVE  Number(s, n) = g[n]
<1> DEFINE c == [k \in 0 .. n |-> {g[k]}]
<1>1. \A k \in 1 .. n : k \in 0 .. n /\ k - 1 \in 0 .. n
    OBVIOUS
<1>2. 0 \in 0 .. n /\ n \in 0 .. n
    OBVIOUS
<1>3. 0 \in c[0] /\ \A k \in 1 .. n : \A y \in c[k - 1] : y + s[k - 1] * Weight(k - 1) \in c[k]
    BY <1>1, <1>2
<1>4. c[n] = {g[n]}
    BY <1>2
<1> HIDE DEF c
<1>5. Number(s, n) \in c[n]
    BY <1>3, Summed
<1> QED BY <1>4, <1>5

(* The number of no limbs is 0, and each limb adds itself times its weight *)
(* (sc.c:315-347).                                                         *)
LEMMA NextLimb ==
    ASSUME NEW s, NEW n \in Nat
    PROVE  Number(s, 0) = 0 /\ Number(s, n + 1) = Number(s, n) + s[n] * Weight(n)
<1> DEFINE g == Totals!Recursion(s, n + 1, 0)
<1>1. g[0] = 0 /\ \A k \in 1 .. n + 1 : g[k] = g[k - 1] + s[k - 1] * Weight(k - 1)
  <2>1. n + 1 \in Nat /\ \A k \in 1 .. n + 1 : k - 1 \in 0 .. k - 1
      OBVIOUS
  <2>2. g[0] = 0
      BY <2>1, Totals!Unfolded
  <2>3. ASSUME NEW k \in 1 .. n + 1 PROVE g[k] = g[k - 1] + s[k - 1] * Weight(k - 1)
      BY <2>1, Totals!Unfolded
  <2> QED BY <2>2, <2>3
<1> HIDE DEF g
<1>2. ASSUME NEW m \in 0 .. n + 1 PROVE Number(s, m) = g[m]
  <2>1. m \in Nat /\ \A k \in 1 .. m : k \in 1 .. n + 1
      OBVIOUS
  <2>2. \A k \in 1 .. m : g[k] = g[k - 1] + s[k - 1] * Weight(k - 1)
      BY <1>1, <2>1
  <2>3. m \in Nat /\ g[0] = 0
      BY <1>1, <2>1
  <2> QED BY ONLY <2>2, <2>3, Telescoped, Zenon
<1>3. n \in 0 .. n + 1 /\ n + 1 \in 0 .. n + 1 /\ n + 1 - 1 = n /\ n + 1 \in 1 .. n + 1 /\ 0 \in 0 .. n + 1
    OBVIOUS
<1> QED BY <1>1, <1>2, <1>3

(* What a limb weighs, each Radix times as much as the one before.         *)
LEMMA WeightIs ==
    ASSUME NEW i \in Nat
    PROVE  Weight(i) \in Nat /\ Weight(i) > 0 /\ Weight(i) \in Int
<1>1. LimbBits * i \in Nat /\ \A x \in Nat : x \in Int
    BY ScalarAssumption
<1>2. 2^(LimbBits * i) \in Nat /\ 2^(LimbBits * i) > 0
    BY <1>1, TwoPowers, Zenon
<1> QED BY <1>1, <1>2, Zenon DEF Weight

(* The weight of a product of limbs is that of the limb it is added to     *)
(* (sc.c:447-469).                                                         *)
LEMMA WeightsMultiply ==
    ASSUME NEW i \in Nat, NEW j \in Nat
    PROVE  Weight(i + j) = Weight(i) * Weight(j)
<1>1. /\ LimbBits * i \in Nat /\ LimbBits * j \in Nat
      /\ LimbBits * (i + j) = LimbBits * i + LimbBits * j
    BY ScalarAssumption
<1>2. 2^(LimbBits * i + LimbBits * j) = 2^(LimbBits * i) * 2^(LimbBits * j)
    BY <1>1, Exponents, Zenon
<1> QED BY <1>1, <1>2, Zenon DEF Weight

(* The lowest limb counts once, the next 2^21 times (sc.c:36-37).          *)
LEMMA FirstWeights == Weight(0) = 1 /\ Weight(1) = Radix /\ Radix \in Nat /\ Radix > 1
<1>1. Weight(0) = 1 /\ Weight(1) = Radix
  <2>1. LimbBits * 0 = 0 /\ LimbBits * 1 = LimbBits /\ 2^0 = 1
      BY ScalarAssumption
  <2> QED BY <2>1, Zenon DEF Weight, Radix
<1>2. Radix \in Nat /\ Radix > 1
  <2>1. 1 \in Nat /\ LimbBits - 1 \in Nat /\ LimbBits = 1 + (LimbBits - 1) /\ 2^1 = 2
      BY ScalarAssumption
  <2> DEFINE h == 2^(LimbBits - 1)
  <2>2. Radix = 2 * h
      BY <2>1, Exponents, Zenon DEF Radix
  <2>3. h \in Nat /\ h > 0
      BY <2>1, TwoPowers, Zenon
  <2> HIDE DEF h
  <2> QED BY <2>2, <2>3
<1> QED BY <1>1, <1>2

(* A limb weighs 2^21 times as much as the one below it: what the shifts   *)
(* of a carry rely on (sc.c:120-122).                                      *)
LEMMA NextWeight ==
    ASSUME NEW i \in Nat
    PROVE  Weight(i + 1) = Radix * Weight(i)
<1>1. Weight(i + 1) = Weight(i) * Weight(1)
    BY WeightsMultiply
<1>2. Weight(i) \in Int /\ Radix \in Int /\ Weight(1) = Radix
    BY WeightIs, FirstWeights
<1> QED BY <1>1, <1>2

(* The value of a string of limbs: a number, determined by its limbs.      *)
LEMMA NumberType ==
    ASSUME NEW n \in Nat, NEW s, \A k \in 0 .. n - 1 : s[k] \in Int
    PROVE  Number(s, n) \in Int
<1> DEFINE c == [k \in 0 .. n |-> Int]
<1>1. \A k \in 1 .. n : k \in 0 .. n /\ k - 1 \in 0 .. n /\ k - 1 \in 0 .. n - 1 /\ k - 1 \in Nat
    OBVIOUS
<1>2. 0 \in c[0] /\ c[n] = Int
    OBVIOUS
<1>3. ASSUME NEW k \in 1 .. n, NEW y \in c[k - 1] PROVE y + s[k - 1] * Weight(k - 1) \in c[k]
  <2>1. c[k] = Int /\ c[k - 1] = Int
      BY <1>1
  <2>2. Weight(k - 1) \in Int /\ s[k - 1] \in Int
      BY <1>1, WeightIs
  <2> QED BY <2>1, <2>2
<1> HIDE DEF c
<1> QED BY <1>2, <1>3, Summed

(* Limbs that no step has touched stand for the number they stood for.     *)
LEMMA SameNumber ==
    ASSUME NEW n \in Nat, NEW s, NEW t, \A k \in 0 .. n - 1 : t[k] = s[k]
    PROVE  Number(t, n) = Number(s, n)
<1> DEFINE g == [k \in 0 .. n |-> Number(s, k)]
<1>1. \A k \in 1 .. n : k \in 0 .. n /\ k - 1 \in 0 .. n /\ k - 1 \in 0 .. n - 1 /\ k - 1 \in Nat
                          /\ k - 1 + 1 = k
    OBVIOUS
<1>2. g[0] = 0 /\ g[n] = Number(s, n)
    BY NextLimb
<1>3. ASSUME NEW k \in 1 .. n PROVE g[k] = g[k - 1] + t[k - 1] * Weight(k - 1)
  <2>1. g[k] = Number(s, k) /\ g[k - 1] = Number(s, k - 1)
      BY <1>1
  <2>2. Number(s, k - 1 + 1) = Number(s, k - 1) + s[k - 1] * Weight(k - 1)
      BY <1>1, NextLimb
  <2> QED BY <1>1, <2>1, <2>2
<1> HIDE DEF g
<1> QED BY <1>2, <1>3, Telescoped

(* Limbs that are zero do not count.                                       *)
LEMMA ZeroLimbs ==
    ASSUME NEW m \in Nat, NEW n \in Nat, m <= n, NEW s,
           \A k \in 0 .. n - 1 : s[k] \in Int,
           \A k \in m .. n - 1 : s[k] = 0
    PROVE  Number(s, n) = Number(s, m)
<1> DEFINE g == [k \in 0 .. n |-> IF k <= m THEN Number(s, k) ELSE Number(s, m)]
<1>1. \A k \in 1 .. n : k \in 0 .. n /\ k - 1 \in 0 .. n /\ k - 1 \in 0 .. n - 1 /\ k - 1 \in Nat
                          /\ k - 1 + 1 = k
    OBVIOUS
<1>2. g[0] = 0 /\ g[n] = Number(s, m)
    BY NextLimb
<1>3. ASSUME NEW k \in 1 .. n PROVE g[k] = g[k - 1] + s[k - 1] * Weight(k - 1)
  <2>1. CASE k <= m
    <3>1. g[k] = Number(s, k) /\ g[k - 1] = Number(s, k - 1)
        BY <1>1, <2>1
    <3>2. Number(s, k - 1 + 1) = Number(s, k - 1) + s[k - 1] * Weight(k - 1)
        BY <1>1, NextLimb
    <3> QED BY <1>1, <3>1, <3>2
  <2>2. CASE ~(k <= m)
    <3>1. g[k] = Number(s, m) /\ g[k - 1] = Number(s, m)
        BY <1>1, <2>2
    <3>2. s[k - 1] = 0 /\ Weight(k - 1) \in Int
        BY <1>1, <2>2, WeightIs
    <3>3. Number(s, m) \in Int
      <4>1. \A j \in 0 .. m - 1 : j \in 0 .. n - 1
          OBVIOUS
      <4> QED BY <4>1, NumberType
    <3> HIDE DEF g
    <3> QED BY <3>1, <3>2, <3>3
  <2> QED BY <2>1, <2>2
<1> HIDE DEF g
<1> QED BY <1>2, <1>3, Telescoped

(* The arithmetic of bounds, apart from what it is applied to.             *)
LEMMA Distributes ==
    ASSUME NEW x \in Int, NEW y \in Int, NEW w \in Int
    PROVE  /\ x * w \in Int /\ x * w = w * x
           /\ (x + y) * w = x * w + y * w /\ (x - y) * w = x * w - y * w
           /\ x * (y - 1) = x * y - x
    OBVIOUS

(* A bound on a limb is a bound on the limb times its weight.              *)
LEMMA Monotonous ==
    ASSUME NEW x \in Int, NEW y \in Int, NEW w \in Nat, x <= y
    PROVE  x * w <= y * w /\ x * w \in Int /\ y * w \in Int
<1>1. y - x \in Nat
    OBVIOUS
<1>2. (y - x) * w \in Nat
    BY <1>1
<1>3. (y - x) * w = y * w - x * w
    BY Distributes
<1>4. x * w \in Int /\ y * w \in Int
    OBVIOUS
<1> QED BY <1>2, <1>3, <1>4

(* A limb that grows by x lets the value grow by x times what it weighs.   *)
LEMMA Grown ==
    ASSUME NEW n \in Nat, NEW i \in 0 .. n - 1, NEW x \in Int, NEW s, NEW t,
           \A k \in 0 .. n - 1 : s[k] \in Int,
           \A k \in 0 .. n - 1 : t[k] = IF k = i THEN s[k] + x ELSE s[k]
    PROVE  Number(t, n) = Number(s, n) + x * Weight(i)
<1> DEFINE e == x * Weight(i)
           g == [k \in 0 .. n |-> IF k <= i THEN Number(s, k) ELSE Number(s, k) + e]
<1>1. \A k \in 1 .. n : k \in 0 .. n /\ k - 1 \in 0 .. n /\ k - 1 \in 0 .. n - 1 /\ k - 1 \in Nat
                          /\ k - 1 + 1 = k
    OBVIOUS
<1>2. e \in Int
  <2>1. i \in Nat
      OBVIOUS
  <2>2. Weight(i) \in Int
      BY <2>1, WeightIs
  <2> QED BY <2>2
<1>3. \A k \in 0 .. n : Number(s, k) \in Int
  <2> SUFFICES ASSUME NEW k \in 0 .. n PROVE Number(s, k) \in Int
      OBVIOUS
  <2>1. k \in Nat /\ \A j \in 0 .. k - 1 : j \in 0 .. n - 1
      OBVIOUS
  <2> QED BY <2>1, NumberType
<1>4. g[0] = 0 /\ g[n] = Number(s, n) + e
    BY NextLimb
<1>5. ASSUME NEW k \in 1 .. n PROVE g[k] = g[k - 1] + t[k - 1] * Weight(k - 1)
  <2>1. Number(s, k) = Number(s, k - 1) + s[k - 1] * Weight(k - 1)
      BY <1>1, NextLimb
  <2>2. /\ Number(s, k) \in Int /\ Number(s, k - 1) \in Int /\ s[k - 1] \in Int
        /\ Weight(k - 1) \in Int
      BY <1>1, <1>3, WeightIs
  <2>3. /\ g[k] = IF k <= i THEN Number(s, k) ELSE Number(s, k) + e
        /\ g[k - 1] = IF k - 1 <= i THEN Number(s, k - 1) ELSE Number(s, k - 1) + e
      BY <1>1
  <2>4. CASE k - 1 = i
    <3>1. t[k - 1] = s[k - 1] + x
        BY <1>1, <2>4
    <3>2. t[k - 1] * Weight(k - 1) = s[k - 1] * Weight(k - 1) + e
        BY <2>2, <2>4, <3>1
    <3>3. g[k] = Number(s, k) + e /\ g[k - 1] = Number(s, k - 1)
        BY <2>3, <2>4
    <3> HIDE DEF e, g
    <3> QED BY <1>2, <2>1, <2>2, <3>2, <3>3
  <2>5. CASE k - 1 # i
    <3>1. t[k - 1] = s[k - 1]
        BY <1>1, <2>5
    <3>2. (k <= i) = (k - 1 <= i)
        BY <2>5
    <3> HIDE DEF e, g
    <3>3. s[k - 1] * Weight(k - 1) \in Int
        BY <2>2
    <3> QED BY <1>2, <2>1, <2>2, <2>3, <3>1, <3>2, <3>3
  <2> QED BY <2>4, <2>5
<1> HIDE DEF g
<1>6. Number(t, n) = g[n]
    BY <1>4, <1>5, Telescoped
<1> QED BY <1>4, <1>6

(* Limbs of 21 bits, as the last carries leave them, are the number they   *)
(* spell.                                                                  *)
LEMMA Spelled ==
    ASSUME NEW n \in Nat, NEW s, \A k \in 0 .. n - 1 : s[k] \in 0 .. Radix - 1
    PROVE  Number(s, n) \in 0 .. Weight(n) - 1
<1> DEFINE c == [k \in 0 .. n |-> 0 .. Weight(k) - 1]
<1>1. \A k \in 1 .. n : k \in 0 .. n /\ k - 1 \in 0 .. n /\ k - 1 \in 0 .. n - 1 /\ k - 1 \in Nat
                          /\ k - 1 + 1 = k
    OBVIOUS
<1>2. 0 \in c[0] /\ c[n] = 0 .. Weight(n) - 1
    BY FirstWeights
<1>3. ASSUME NEW k \in 1 .. n, NEW y \in c[k - 1] PROVE y + s[k - 1] * Weight(k - 1) \in c[k]
  <2> DEFINE w == Weight(k - 1)
             l == s[k - 1]
  <2>1. c[k] = 0 .. Weight(k) - 1 /\ c[k - 1] = 0 .. w - 1
      BY <1>1
  <2>2. w \in Nat /\ w > 0 /\ Weight(k) = Radix * w /\ l \in 0 .. Radix - 1
      BY <1>1, WeightIs, NextWeight, FirstWeights
  <2> HIDE DEF w, l, c
  <2> DEFINE u == l * w
             r == Radix * w
  <2>3. u >= 0 /\ u <= r - w /\ u \in Int /\ r \in Int
    <3>0. /\ l \in Int /\ Radix - 1 \in Int /\ 0 \in Int /\ w \in Nat /\ 0 * w = 0
          /\ 0 <= l /\ l <= Radix - 1
        BY <2>2, FirstWeights
    <3>1. 0 <= u /\ u \in Int
        BY <3>0, Monotonous
    <3>3. u <= (Radix - 1) * w
        BY <3>0, Monotonous, Zenon
    <3>2. (Radix - 1) * w = Radix * w - 1 * w /\ 1 * w = w /\ Radix * w \in Int
        BY <2>2, FirstWeights, Distributes
    <3> QED BY <3>1, <3>2, <3>3
  <2>5. c[k] = 0 .. r - 1 /\ y \in 0 .. w - 1 /\ w \in Nat /\ s[k - 1] * Weight(k - 1) = u
      BY <1>3, <2>1, <2>2 DEF l, w
  <2> HIDE DEF u, r
  <2> QED BY <2>3, <2>5
<1> HIDE DEF c
<1> QED BY <1>2, <1>3, Summed

(* So are signed limbs, within their bound times the next weight.          *)
LEMMA SpelledNear ==
    ASSUME NEW n \in Nat, NEW b \in Nat, NEW s, \A k \in 0 .. n - 1 : s[k] \in -b .. b
    PROVE  Number(s, n) \in -(b * Weight(n)) .. b * Weight(n)
<1> DEFINE c == [k \in 0 .. n |-> -(b * Weight(k)) .. b * Weight(k)]
<1>1. \A k \in 1 .. n : k \in 0 .. n /\ k - 1 \in 0 .. n /\ k - 1 \in 0 .. n - 1 /\ k - 1 \in Nat
                          /\ k - 1 + 1 = k
    OBVIOUS
<1>2. 0 \in c[0] /\ c[n] = -(b * Weight(n)) .. b * Weight(n)
    BY FirstWeights
<1>3. ASSUME NEW k \in 1 .. n, NEW y \in c[k - 1] PROVE y + s[k - 1] * Weight(k - 1) \in c[k]
  <2> DEFINE w == Weight(k - 1)
             l == s[k - 1]
             x == b * w
             u == l * w
             z == b * Weight(k)
  <2>1. c[k] = -z .. z /\ y \in -x .. x
      BY <1>1, <1>3
  <2>2. w \in Nat /\ Weight(k) = Radix * w /\ l \in -b .. b
      BY <1>1, WeightIs, NextWeight
  <2>3. u >= -x /\ u <= x /\ u \in Int /\ x \in Int
    <3> HIDE DEF w, l
    <3>1. (-b) * w <= u /\ u <= b * w /\ u \in Int /\ b * w \in Int
        BY <2>2, Monotonous
    <3>2. (-b) * w = -(b * w)
        BY <2>2
    <3> QED BY <3>1, <3>2
  <2>4. z >= x + x /\ z \in Int
    <3> HIDE DEF w, l
    <3>1. 2 * x <= Radix * x
      <4>1. x \in Nat /\ 2 \in Int /\ Radix \in Int /\ 2 <= Radix
          BY <2>2, FirstWeights
      <4> HIDE DEF x
      <4> QED BY <4>1, Monotonous, Zenon
    <3>2. Radix * x = z /\ x \in Int
        BY <2>2, FirstWeights
    <3> HIDE DEF x, z
    <3>3. Radix * x \in Int
        BY <3>2, FirstWeights
    <3> QED BY <3>1, <3>2, <3>3
  <2>5. s[k - 1] * Weight(k - 1) = u
      OBVIOUS
  <2> HIDE DEF w, l, x, u, z, c
  <2> QED BY <2>1, <2>3, <2>4, <2>5
<1> HIDE DEF c
<1> QED BY <1>2, <1>3, Summed

(* The limbs of sc.c, and the number they stand for.                       *)
LimbVectors == [0 .. 2 * Limbs - 1 -> Int]
Whole(s) == Number(s, 2 * Limbs)

\* What a carry to the nearest leaves.
Near == -(Radix \div 2) .. (Radix \div 2)

(* How many limbs there are, and how many values of a limb (sc.c:36-59).   *)
LEMMA Radixes ==
    /\ Limbs \in Nat /\ 2 * Limbs \in Nat
    /\ Radix \in Nat /\ Radix > 1
BY ScalarAssumption, FirstWeights

(* A shift right and left again leaves the lowest 21 bits (sc.c:238-240).  *)
LEMMA Divided ==
    ASSUME NEW x \in Int
    PROVE  /\ x \div Radix \in Int /\ x % Radix \in 0 .. Radix - 1
           /\ x - (x \div Radix) * Radix = x % Radix
BY Radixes

(* The limbs of sc.c, of whatever sign, stand for an integer.              *)
LEMMA WholeType == ASSUME NEW s \in LimbVectors PROVE Whole(s) \in Int
BY Radixes, NumberType DEF LimbVectors, Whole

(* A carry moves weight from one limb into the next.                       *)
LEMMA CarryKeeps ==
    ASSUME NEW s \in LimbVectors, NEW i \in 0 .. 2 * Limbs - 2, NEW x \in Int
    PROVE  /\ Carry(s, i, x) \in LimbVectors
           /\ Whole(Carry(s, i, x)) = Whole(s)
           /\ \A k \in 0 .. 2 * Limbs - 1 :
                Carry(s, i, x)[k] = IF k = i THEN s[k] - x * Radix
                                    ELSE IF k = i + 1 THEN s[k] + x ELSE s[k]
<1> DEFINE n == 2 * Limbs
           y == -(x * Radix)
           t == [s EXCEPT ![i] = @ + y]
           u == [t EXCEPT ![i + 1] = @ + x]
<1>1. n \in Nat /\ i \in 0 .. n - 1 /\ i + 1 \in 0 .. n - 1 /\ i \in Nat /\ y \in Int /\ i + 1 # i
    BY Radixes
<1>2. /\ t \in LimbVectors
      /\ \A k \in 0 .. n - 1 : t[k] = IF k = i THEN s[k] + y ELSE s[k]
    BY <1>1 DEF LimbVectors
<1>3. /\ u \in LimbVectors
      /\ \A k \in 0 .. n - 1 : u[k] = IF k = i + 1 THEN t[k] + x ELSE t[k]
    BY <1>1, <1>2 DEF LimbVectors
<1>4. Carry(s, i, x) = u
  <2>1. s[i] - x * Radix = s[i] + y
      BY <1>1, Radixes DEF LimbVectors
  <2>2. Carry(s, i, x) = [t EXCEPT ![i + 1] = t[i + 1] + x]
    <3>1. t = [s EXCEPT ![i] = s[i] - x * Radix]
        BY <2>1
    <3>2. t[i + 1] = s[i + 1]
        BY <1>1, <1>2
    <3> HIDE DEF t
    <3> QED BY <3>1, <3>2, Zenon DEF Carry
  <2> QED BY <2>2
<1> HIDE DEF y, t, u
<1>5. Number(t, n) = Number(s, n) + y * Weight(i)
  <2>1. \A k \in 0 .. n - 1 : s[k] \in Int
      BY DEF LimbVectors
  <2> HIDE DEF n
  <2> QED BY <1>1, <1>2, <2>1, Grown
<1>6. Number(u, n) = Number(t, n) + x * Weight(i + 1)
    BY <1>1, <1>2, <1>3, Grown DEF LimbVectors
<1>7. y * Weight(i) + x * Weight(i + 1) = 0
  <2>1. Weight(i + 1) = Radix * Weight(i) /\ Weight(i) \in Int
      BY <1>1, NextWeight, WeightIs
  <2> QED BY <2>1, Radixes DEF y
<1>8. Number(s, n) \in Int /\ y * Weight(i) \in Int /\ x * Weight(i + 1) \in Int
    BY <1>1, WeightIs, WholeType DEF Whole
<1>9. Number(u, n) = Number(s, n)
    BY <1>5, <1>6, <1>7, <1>8
<1>10. \A k \in 0 .. n - 1 : u[k] = IF k = i THEN s[k] - x * Radix
                                    ELSE IF k = i + 1 THEN s[k] + x ELSE s[k]
    BY <1>1, <1>2, <1>3, Radixes DEF y, LimbVectors
<1> QED BY <1>3, <1>4, <1>9, <1>10 DEF Whole

(* A quotient is as much smaller as the divisor is large.                  *)
LEMMA QuotientWithin ==
    ASSUME NEW x \in Int, NEW c \in Nat, x \in -(c * Radix) .. c * Radix
    PROVE  x \div Radix \in -c .. c
<1> DEFINE q == x \div Radix
<1>1. q \in Int /\ q * Radix <= x /\ x <= (q + 1) * Radix - 1
  <2>1. q \in Int /\ x % Radix \in 0 .. Radix - 1 /\ x - q * Radix = x % Radix
      BY Divided
  <2>2. q * Radix \in Int /\ (q + 1) * Radix = q * Radix + Radix
      BY <2>1, Radixes
  <2> QED BY <2>1, <2>2, Radixes
<1> HIDE DEF q
<1>2. q <= c
  <2> SUFFICES ASSUME c + 1 <= q PROVE FALSE
      BY <1>1
  <2>1. c + 1 \in Int /\ Radix \in Nat
      BY Radixes
  <2>2. (c + 1) * Radix <= q * Radix
      BY <1>1, <2>1, Monotonous
  <2>3. (c + 1) * Radix = c * Radix + Radix /\ c * Radix \in Int /\ q * Radix \in Int
      BY <1>1, <2>1
  <2> QED BY <1>1, <2>2, <2>3, Radixes
<1>3. -c <= q
  <2> SUFFICES ASSUME q + 1 <= -c PROVE FALSE
      BY <1>1
  <2>1. q + 1 \in Int /\ Radix \in Nat /\ -c \in Int
      BY <1>1, Radixes
  <2>2. (q + 1) * Radix <= (-c) * Radix
      BY <2>1, Monotonous
  <2>3. (-c) * Radix = -(c * Radix) /\ c * Radix \in Int /\ (q + 1) * Radix \in Int
      BY <1>1, <2>1
  <2> QED BY <1>1, <2>2, <2>3
<1> QED BY <1>1, <1>2, <1>3 DEF q

(* A carry to the nearest, for a limb of either sign (sc.c:120-122).       *)
LEMMA NearCarried ==
    ASSUME NEW s \in LimbVectors, NEW i \in 0 .. 2 * Limbs - 2, NEW b \in Nat, NEW c \in Nat,
           b + Radix \div 2 <= c * Radix, s[i] \in -b .. b
    PROVE  /\ CarryNear(s, i) \in LimbVectors /\ Whole(CarryNear(s, i)) = Whole(s)
           /\ CarryNear(s, i)[i] \in Near
           /\ CarryNear(s, i)[i + 1] - s[i + 1] \in -c .. c
           /\ \A k \in 0 .. 2 * Limbs - 1 :
                k # i /\ k # i + 1 => CarryNear(s, i)[k] = s[k]
<1> DEFINE h == Radix \div 2
           q == (s[i] + h) \div Radix
           t == Carry(s, i, q)
<1>1. i \in 0 .. 2 * Limbs - 1 /\ i + 1 \in 0 .. 2 * Limbs - 1 /\ i + 1 # i
    BY Radixes
<1>2. s[i] \in Int /\ s[i + 1] \in Int
    BY <1>1 DEF LimbVectors
<1>3. h \in Nat /\ Radix <= 2 * h + 1
    BY Radixes
<1>4. CarryNear(s, i) = t
    BY Zenon DEF CarryNear
<1> HIDE DEF h
<1>5. q \in Int /\ (s[i] + h) - q * Radix \in 0 .. Radix - 1
    BY <1>2, <1>3, Divided
<1>6. q \in -c .. c
  <2>1. s[i] + h \in -(c * Radix) .. c * Radix
    <3>1. c * Radix \in Int
        BY Radixes
    <3> QED BY <1>2, <1>3, <3>1 DEF h
  <2>2. s[i] + h \in Int
      BY <1>2, <1>3
  <2> QED BY <2>1, <2>2, QuotientWithin
<1> HIDE DEF q
<1>7. /\ t \in LimbVectors /\ Whole(t) = Whole(s)
      /\ \A k \in 0 .. 2 * Limbs - 1 :
           t[k] = IF k = i THEN s[k] - q * Radix ELSE IF k = i + 1 THEN s[k] + q ELSE s[k]
    BY <1>5, CarryKeeps
<1> HIDE DEF t
<1>8. t[i] \in Near
  <2>1. t[i] = s[i] - q * Radix /\ q * Radix \in Int
      BY <1>1, <1>5, <1>7, Radixes
  <2> QED BY <1>2, <1>3, <1>5, <2>1, Radixes DEF Near, h
<1>9. t[i + 1] - s[i + 1] \in -c .. c
  <2>1. t[i + 1] = s[i + 1] + q
      BY <1>1, <1>7
  <2> QED BY <1>2, <1>6, <2>1
<1> QED BY <1>4, <1>7, <1>8, <1>9

(* A carry down, for a limb of either sign (sc.c:238-240).                 *)
LEMMA DownCarried ==
    ASSUME NEW s \in LimbVectors, NEW i \in 0 .. 2 * Limbs - 2
    PROVE  /\ CarryDown(s, i) \in LimbVectors /\ Whole(CarryDown(s, i)) = Whole(s)
           /\ CarryDown(s, i)[i] \in 0 .. Radix - 1
           /\ \A k \in 0 .. 2 * Limbs - 1 :
                k # i /\ k # i + 1 => CarryDown(s, i)[k] = s[k]
<1> DEFINE q == s[i] \div Radix
           t == Carry(s, i, q)
<1>1. i \in 0 .. 2 * Limbs - 1 /\ i + 1 # i
    BY Radixes
<1>2. s[i] \in Int
    BY <1>1 DEF LimbVectors
<1>4. CarryDown(s, i) = t
    BY Zenon DEF CarryDown
<1>5. q \in Int /\ s[i] - q * Radix \in 0 .. Radix - 1
    BY <1>2, Divided
<1> HIDE DEF q
<1>7. /\ t \in LimbVectors /\ Whole(t) = Whole(s)
      /\ \A k \in 0 .. 2 * Limbs - 1 :
           t[k] = IF k = i THEN s[k] - q * Radix ELSE IF k = i + 1 THEN s[k] + q ELSE s[k]
    BY <1>5, CarryKeeps
<1> HIDE DEF t
<1>8. t[i] \in 0 .. Radix - 1
    BY <1>1, <1>5, <1>7
<1> QED BY <1>4, <1>7, <1>8

\* What the first k carries of a pass may have left.
Passing(s, first, c, k) ==
    {t \in LimbVectors :
       /\ Whole(t) = Whole(s)
       /\ \A m \in 0 .. k - 1 : t[first + 2 * m] \in Near
       /\ \A m \in 0 .. k - 1 : t[first + 2 * m + 1] - s[first + 2 * m + 1] \in -c .. c
       /\ \A j \in 0 .. 2 * Limbs - 1 : (j < first \/ first + 2 * k <= j) => t[j] = s[j]}

Passes == INSTANCE LoopTheorems WITH
    Kept <- LAMBDA s, first, r, k : Passing(s, first, r[2], k),
    First <- LAMBDA s, first, r : s,
    Turns <- LAMBDA s, first, r : (r[1] - first + 2) \div 2,
    Before <- LAMBDA k : k - 1,
    Turn <- LAMBDA s, first, r, y, k : CarryNear(y, first + 2 * k - 2)

(* Every other limb carries into the next (sc.c:120-122): the limbs that   *)
(* carried are small, the others have moved by no more than a carry.       *)
LEMMA PassTurn ==
    ASSUME NEW s \in LimbVectors, NEW first \in Nat, NEW b \in Nat, NEW c \in Nat, NEW n \in Nat,
           first + 2 * n <= 2 * Limbs, b + Radix \div 2 <= c * Radix,
           \A m \in 0 .. n - 1 : s[first + 2 * m] \in -b .. b,
           NEW k \in 1 .. n, NEW y \in Passing(s, first, c, k - 1)
    PROVE  CarryNear(y, first + 2 * k - 2) \in Passing(s, first, c, k)
<1> DEFINE i == first + 2 * k - 2
           t == CarryNear(y, i)
<1>1. /\ k - 1 \in 0 .. n - 1 /\ i = first + 2 * (k - 1) /\ i + 1 = first + 2 * (k - 1) + 1
      /\ i \in 0 .. 2 * Limbs - 2 /\ i \in 0 .. 2 * Limbs - 1 /\ i + 1 \in 0 .. 2 * Limbs - 1
      /\ first + 2 * k = i + 2 /\ i \in Nat
    BY Radixes
<1>2. /\ y \in LimbVectors /\ Whole(y) = Whole(s)
      /\ \A m \in 0 .. k - 1 - 1 : y[first + 2 * m] \in Near
      /\ \A m \in 0 .. k - 1 - 1 : y[first + 2 * m + 1] - s[first + 2 * m + 1] \in -c .. c
      /\ \A j \in 0 .. 2 * Limbs - 1 : (j < first \/ first + 2 * (k - 1) <= j) => y[j] = s[j]
    BY DEF Passing
<1> HIDE DEF i
<1>3. y[i] = s[i] /\ y[i + 1] = s[i + 1] /\ s[i] \in -b .. b
  <2>1. first + 2 * (k - 1) <= i /\ first + 2 * (k - 1) <= i + 1
      BY <1>1
  <2>2. s[first + 2 * (k - 1)] \in -b .. b
      BY <1>1, Zenon
  <2>3. y[i] = s[i] /\ y[i + 1] = s[i + 1]
      BY <1>1, <1>2, <2>1, Zenon
  <2> QED BY <1>1, <2>2, <2>3, Zenon
<1>4. /\ t \in LimbVectors /\ Whole(t) = Whole(y) /\ t[i] \in Near
      /\ t[i + 1] - s[i + 1] \in -c .. c
      /\ \A j \in 0 .. 2 * Limbs - 1 : j # i /\ j # i + 1 => t[j] = y[j]
  <2>1. y[i] \in -b .. b
      BY <1>3
  <2>2. /\ t \in LimbVectors /\ Whole(t) = Whole(y) /\ t[i] \in Near
        /\ t[i + 1] - y[i + 1] \in -c .. c
        /\ \A j \in 0 .. 2 * Limbs - 1 : j # i /\ j # i + 1 => t[j] = y[j]
      BY <1>1, <1>2, <2>1, NearCarried
  <2> QED BY <1>3, <2>2
<1> HIDE DEF t
<1>5. ASSUME NEW m \in 0 .. k - 1
      PROVE  /\ t[first + 2 * m] \in Near
             /\ t[first + 2 * m + 1] - s[first + 2 * m + 1] \in -c .. c
  <2>1. CASE m = k - 1
      BY <1>1, <1>4, <2>1
  <2>2. CASE m \in 0 .. k - 1 - 1
    <3> DEFINE p == first + 2 * m
    <3>1. /\ p \in 0 .. 2 * Limbs - 1 /\ p + 1 \in 0 .. 2 * Limbs - 1
          /\ p # i /\ p # i + 1 /\ p + 1 # i /\ p + 1 # i + 1
        BY <1>1, <2>2, Radixes
    <3>2. y[p] \in Near /\ y[p + 1] - s[p + 1] \in -c .. c
        BY <1>2, <2>2
    <3> HIDE DEF p
    <3>3. t[p] = y[p] /\ t[p + 1] = y[p + 1]
        BY <1>4, <3>1
    <3>4. t[p] \in Near /\ t[p + 1] - s[p + 1] \in -c .. c
        BY <3>2, <3>3
    <3> QED BY <3>4, Zenon DEF p
  <2> QED BY <2>1, <2>2
<1>6. ASSUME NEW j \in 0 .. 2 * Limbs - 1, j < first \/ first + 2 * k <= j
      PROVE  t[j] = s[j]
  <2>1. /\ j # i /\ j # i + 1
        /\ (j < first \/ first + 2 * (k - 1) <= j)
      BY <1>1, <1>6, Radixes
  <2> QED BY <1>2, <1>4, <2>1
<1>7. t \in Passing(s, first, c, k)
    BY <1>2, <1>4, <1>5, <1>6 DEF Passing
<1> QED BY <1>7 DEF t, i

(* The whole of one pass over every other limb (sc.c:120-137).             *)
LEMMA Passed ==
    ASSUME NEW s \in LimbVectors, NEW first \in Nat, NEW last \in Int,
           NEW b \in Nat, NEW c \in Nat, NEW n \in Nat, n = (last - first + 2) \div 2,
           first + 2 * n <= 2 * Limbs, b + Radix \div 2 <= c * Radix,
           \A m \in 0 .. n - 1 : s[first + 2 * m] \in -b .. b
    PROVE  CarryPass(s, first, last) \in Passing(s, first, c, n)
<1> DEFINE r == <<last, c>>
<1>1. r[1] = last /\ r[2] = c
    OBVIOUS
<1> HIDE DEF r
<1>2. s \in Passing(s, first, c, 0)
  <2>1. \A m \in 0 .. 0 - 1 : FALSE
      OBVIOUS
  <2> QED BY <2>1 DEF Passing
<1>3. \A k \in 1 .. n : k - 1 = k - 1
    OBVIOUS
<1>4. \A k \in 1 .. n : \A y \in Passing(s, first, c, k - 1) :
        CarryNear(y, first + 2 * k - 2) \in Passing(s, first, c, k)
    BY PassTurn
<1>5. Passes!Run(s, first, r) \in Passing(s, first, c, n)
    BY <1>1, <1>2, <1>3, <1>4, Passes!Looped, Zenon
<1>6. CarryPass(s, first, last) = Passes!Run(s, first, r)
    BY <1>1, Zenon DEF CarryPass, Passes!Run, Loop, Eagerly, Passes!Loop, Passes!Eagerly
<1> QED BY <1>5, <1>6

\* What the first k carries from limb to limb may have left.
Descending(s, k) ==
    {t \in LimbVectors :
       /\ Whole(t) = Whole(s)
       /\ \A j \in 0 .. 2 * Limbs - 1 : (j < k => t[j] \in 0 .. Radix - 1) /\ (k < j => t[j] = s[j])}

Descents == INSTANCE LoopTheorems WITH
    Kept <- LAMBDA s, last, c, k : Descending(s, k), First <- LAMBDA s, last, c : s,
    Turns <- LAMBDA s, last, c : last + 1, Before <- LAMBDA k : k - 1,
    Turn <- LAMBDA s, last, c, y, k : CarryDown(y, k - 1)

(* One carry after the other from the lowest (sc.c:238-273).               *)
LEMMA Descended ==
    ASSUME NEW s \in LimbVectors, NEW last \in Nat, last <= 2 * Limbs - 2
    PROVE  CarryAll(s, last) \in Descending(s, last + 1)
<1>1. last + 1 \in Nat /\ \A k \in 1 .. last + 1 : k - 1 \in 0 .. 2 * Limbs - 2 /\ k - 1 = k - 1
    BY Radixes
<1>2. s \in Descending(s, 0)
  <2>1. \A j \in 0 .. 2 * Limbs - 1 : ~(j < 0)
      BY Radixes
  <2> QED BY <2>1 DEF Descending
<1>3. ASSUME NEW k \in 1 .. last + 1, NEW y \in Descending(s, k - 1)
      PROVE  CarryDown(y, k - 1) \in Descending(s, k)
  <2> DEFINE t == CarryDown(y, k - 1)
  <2>1. /\ y \in LimbVectors /\ Whole(y) = Whole(s)
        /\ \A j \in 0 .. 2 * Limbs - 1 :
             (j < k - 1 => y[j] \in 0 .. Radix - 1) /\ (k - 1 < j => y[j] = s[j])
      BY DEF Descending
  <2>2. /\ t \in LimbVectors /\ Whole(t) = Whole(y) /\ t[k - 1] \in 0 .. Radix - 1
        /\ \A j \in 0 .. 2 * Limbs - 1 : j # k - 1 /\ j # k - 1 + 1 => t[j] = y[j]
      BY <1>1, <2>1, DownCarried
  <2> HIDE DEF t
  <2>3. ASSUME NEW j \in 0 .. 2 * Limbs - 1
        PROVE  (j < k => t[j] \in 0 .. Radix - 1) /\ (k < j => t[j] = s[j])
      BY <2>1, <2>2, Radixes
  <2>4. t \in Descending(s, k)
      BY <2>1, <2>2, <2>3 DEF Descending
  <2> QED BY <2>4 DEF t
<1>4. Descents!Run(s, last, 0) \in Descending(s, last + 1)
    BY <1>1, <1>2, <1>3, Descents!Looped, Zenon
<1>5. CarryAll(s, last) = Descents!Run(s, last, 0)
    BY Zenon DEF CarryAll, Descents!Run, Loop, Eagerly, Descents!Loop, Descents!Eagerly
<1> QED BY <1>4, <1>5

\* By e[k] the first k limbs of t are ahead of those of s.
Ahead(n, s, t, e) ==
    /\ \A k \in 0 .. n - 1 : s[k] \in Int /\ t[k] \in Int
    /\ \A k \in 0 .. n : e[k] \in Int
    /\ e[0] = 0
    /\ \A k \in 1 .. n : e[k] = e[k - 1] + (t[k - 1] - s[k - 1]) * Weight(k - 1)

(* Two strings of limbs, compared limb by limb.                            *)
LEMMA Compared ==
    ASSUME NEW n \in Nat, NEW s, NEW t, NEW e, Ahead(n, s, t, e)
    PROVE  Number(t, n) = Number(s, n) + e[n]
<1>0. /\ \A k \in 0 .. n - 1 : s[k] \in Int /\ t[k] \in Int
      /\ \A k \in 0 .. n : e[k] \in Int
      /\ e[0] = 0
      /\ \A k \in 1 .. n : e[k] = e[k - 1] + (t[k - 1] - s[k - 1]) * Weight(k - 1)
    BY Zenon DEF Ahead
<1> DEFINE g == [k \in 0 .. n |-> Number(s, k) + e[k]]
<1>1. \A k \in 1 .. n : k \in 0 .. n /\ k - 1 \in 0 .. n /\ k - 1 \in 0 .. n - 1 /\ k - 1 \in Nat
                          /\ k - 1 + 1 = k
    OBVIOUS
<1>2. g[0] = 0 /\ g[n] = Number(s, n) + e[n]
    BY <1>0, NextLimb
<1>3. \A k \in 0 .. n : Number(s, k) \in Int
  <2> SUFFICES ASSUME NEW k \in 0 .. n PROVE Number(s, k) \in Int
      OBVIOUS
  <2>1. k \in Nat /\ \A j \in 0 .. k - 1 : j \in 0 .. n - 1
      OBVIOUS
  <2> QED BY <1>0, <2>1, NumberType
<1>4. ASSUME NEW k \in 1 .. n PROVE g[k] = g[k - 1] + t[k - 1] * Weight(k - 1)
  <2>1. Number(s, k) = Number(s, k - 1) + s[k - 1] * Weight(k - 1)
      BY <1>1, NextLimb
  <2>2. /\ Number(s, k - 1) \in Int /\ s[k - 1] \in Int /\ t[k - 1] \in Int
        /\ Weight(k - 1) \in Int /\ e[k - 1] \in Int
      BY <1>0, <1>1, <1>3, WeightIs
  <2>3. /\ g[k] = Number(s, k) + e[k]
        /\ g[k - 1] = Number(s, k - 1) + e[k - 1]
      BY <1>1
  <2> HIDE DEF g
  <2>4. e[k] = e[k - 1] + (t[k - 1] - s[k - 1]) * Weight(k - 1)
      BY <1>0
  <2>5. /\ (t[k - 1] - s[k - 1]) * Weight(k - 1) = t[k - 1] * Weight(k - 1) - s[k - 1] * Weight(k - 1)
        /\ t[k - 1] * Weight(k - 1) \in Int /\ s[k - 1] * Weight(k - 1) \in Int
      BY <2>2, Distributes
  <2> QED BY <2>1, <2>2, <2>3, <2>4, <2>5
<1> HIDE DEF g
<1>5. Number(t, n) = g[n]
    BY <1>2, <1>4, Telescoped
<1> QED BY <1>2, <1>5

\* The limbs of Order below its highest bit, negated, and their number.
Low == [i \in 0 .. (Half - 1) |-> Folding[i + 1]]
LowNumber(k) == Number(Low, k)

(* The multiples of sc.c:78-83 are the limbs of 2^252 less the order.      *)
LEMMA OrderSplits ==
    /\ Half \in Nat /\ Half <= Limbs /\ 2 * Half = Limbs
    /\ \A i \in 0 .. Half - 1 : Low[i] = Folding[i + 1] /\ Low[i] \in Int
    /\ \A k \in 0 .. Half : LowNumber(k) \in Int
    /\ LowNumber(0) = 0
    /\ Order \in Int /\ Weight(Limbs) \in Int
    /\ LowNumber(Half) - Weight(Limbs) = -Order
<1>1. Half \in Nat /\ Half <= Limbs /\ 2 * Half = Limbs /\ Limbs \in Nat
    BY ScalarAssumption DEF Half
<1>2. \A i \in 0 .. Half - 1 : Low[i] = Folding[i + 1] /\ Low[i] \in Int
  <2> SUFFICES ASSUME NEW i \in 0 .. Half - 1 PROVE Folding[i + 1] \in Int
      BY DEF Low
  <2>1. i + 1 \in 1 .. Len(Folding) /\ Folding \in Seq(Int)
      BY <1>1, ScalarAssumption DEF Half
  <2> QED BY <2>1
<1>3. ASSUME NEW k \in 0 .. Half PROVE LowNumber(k) \in Int
  <2>1. k \in Nat /\ \A j \in 0 .. k - 1 : j \in 0 .. Half - 1
      BY <1>1
  <2> QED BY <1>2, <2>1, NumberType DEF LowNumber
<1>4. LowNumber(0) = 0
    BY NextLimb DEF LowNumber
<1>5. Order = Weight(Limbs) - LowNumber(Half)
    BY OrderAssumption DEF LowNumber, Low
<1>6. Weight(Limbs) \in Int
    BY <1>1, WeightIs
<1>7. LowNumber(Half) \in Int
    BY <1>1, <1>3
<1>8. LowNumber(Half) - Weight(Limbs) = -Order /\ Order \in Int
    BY <1>5, <1>6, <1>7
<1> QED BY <1>1, <1>2, <1>3, <1>4, <1>6, <1>8

(* The arithmetic of a fold, apart from the limbs it is applied to.        *)
LEMMA Regroups ==
    ASSUME NEW x \in Int, NEW w \in Int, NEW m \in Int, NEW f \in Int, NEW v \in Int
    PROVE  /\ (x * w) * (m + f * v) = (x * w) * m + (x * f) * (w * v)
           /\ (x * w) * m + (0 - x) * (w * v) = (x * w) * (m - v)
           /\ x * w \in Int /\ (x * w) * m \in Int /\ (x * w) * (m - v) \in Int
    OBVIOUS

(* Limb j goes into limbs j - Limbs to j - Limbs + Half - 1 (sc.c:78-84):  *)
(* it weighs as much as the order does, times what those limbs weigh.      *)
LEMMA FoldKeeps ==
    ASSUME NEW s \in LimbVectors, NEW j \in Limbs .. 2 * Limbs - 1
    PROVE  /\ Fold(s, j) \in LimbVectors
           /\ Whole(Fold(s, j)) = Whole(s) + (s[j] * Weight(j - Limbs)) * (-Order)
           /\ Fold(s, j)[j] = 0
           /\ \A i \in 0 .. 2 * Limbs - 1 :
                i # j /\ i - j + Limbs \notin 0 .. Half - 1 => Fold(s, j)[i] = s[i]
           /\ \A i \in 0 .. 2 * Limbs - 1 :
                i - j + Limbs \in 0 .. Half - 1 =>
                  Fold(s, j)[i] = s[i] + s[j] * Low[i - j + Limbs]
<1> DEFINE n == 2 * Limbs
           p == j - Limbs
           w == Weight(p)
           x == s[j]
           t == Fold(s, j)
           e == [k \in 0 .. n |->
                   IF k <= p THEN 0 ELSE IF k <= p + Half THEN (x * w) * LowNumber(k - p)
                   ELSE IF k <= j THEN (x * w) * LowNumber(Half)
                   ELSE (x * w) * (LowNumber(Half) - Weight(Limbs))]
<1>1. /\ Limbs \in Nat /\ n \in Nat /\ p \in Nat /\ p + Limbs = j /\ Half \in Nat /\ Half <= Limbs
      /\ p + Half <= j /\ j \in 0 .. n - 1 /\ j \in Nat /\ n = p + Limbs + (n - j)
    BY OrderSplits, Radixes
<1>2. w \in Int /\ x \in Int
    BY <1>1, WeightIs DEF LimbVectors
<1>3. \A i \in 0 .. n - 1 : s[i] \in Int /\ DOMAIN s = 0 .. n - 1
    BY DEF LimbVectors
<1>4. \A i \in 0 .. n - 1 :
        t[i] = IF i = j THEN 0 ELSE IF i - p \in 0 .. Half - 1 THEN s[i] + x * Low[i - p] ELSE s[i]
  <2> SUFFICES ASSUME NEW i \in 0 .. n - 1
               PROVE  t[i] = IF i = j THEN 0
                             ELSE IF i - p \in 0 .. Half - 1 THEN s[i] + x * Low[i - p] ELSE s[i]
      OBVIOUS
  <2>1. i - j + Limbs = i - p /\ i - j + Limbs + 1 = i - p + 1
      BY <1>1
  <2>2. t[i] = IF i = j THEN 0 ELSE IF i - j + Limbs \in 0 .. Half - 1
                                    THEN s[i] + s[j] * Folding[i - j + Limbs + 1] ELSE s[i]
      BY <1>3, Zenon DEF Fold
  <2>3. i - p \in 0 .. Half - 1 => Low[i - p] = Folding[i - p + 1]
      BY OrderSplits
  <2> QED BY <2>1, <2>2, <2>3
<1>5. t = [i \in 0 .. n - 1 |-> t[i]]
    BY <1>1, <1>3 DEF Fold
<1> HIDE DEF t, x, w
<1>6. \A i \in 0 .. n - 1 : t[i] \in Int
  <2> SUFFICES ASSUME NEW i \in 0 .. n - 1 PROVE t[i] \in Int
      OBVIOUS
  <2>1. i - p \in 0 .. Half - 1 => x * Low[i - p] \in Int
      BY <1>2, OrderSplits
  <2> QED BY <1>3, <1>4, <2>1
<1>7. t \in LimbVectors
    BY <1>5, <1>6 DEF LimbVectors
<1>8. \A k \in 0 .. n : e[k] \in Int
  <2> SUFFICES ASSUME NEW k \in 0 .. n PROVE e[k] \in Int
      OBVIOUS
  <2>1. x * w \in Int /\ LowNumber(Half) \in Int /\ Weight(Limbs) \in Int
      BY <1>1, <1>2, OrderSplits
  <2>2. (x * w) * LowNumber(Half) \in Int /\ (x * w) * (LowNumber(Half) - Weight(Limbs)) \in Int
      BY <2>1
  <2>3. CASE k <= p
      BY <2>3
  <2>4. CASE ~(k <= p) /\ k <= p + Half
    <3>1. LowNumber(k - p) \in Int
        BY <1>1, <2>4, OrderSplits
    <3>2. (x * w) * LowNumber(k - p) \in Int
        BY <2>1, <3>1
    <3> QED BY <2>4, <3>2
  <2>5. CASE ~(k <= p) /\ ~(k <= p + Half)
      BY <2>2, <2>5
  <2> QED BY <2>3, <2>4, <2>5
<1>9. e[0] = 0 /\ e[n] = (x * w) * (LowNumber(Half) - Weight(Limbs))
    BY <1>1
<1>10. ASSUME NEW k \in 1 .. n
       PROVE  e[k] = e[k - 1] + (t[k - 1] - s[k - 1]) * Weight(k - 1)
  <2> DEFINE i == k - 1
             v == Weight(i)
  <2>1. /\ i \in 0 .. n - 1 /\ i \in Nat /\ v \in Int /\ k \in 0 .. n /\ i \in 0 .. n /\ k = i + 1
        /\ s[i] \in Int
    <3>1. /\ i \in 0 .. n - 1 /\ i \in Nat /\ k \in 0 .. n /\ i \in 0 .. n /\ k = i + 1
        BY <1>1
    <3> QED BY <1>3, <3>1, WeightIs
  <2>2. /\ e[k] = IF k <= p THEN 0 ELSE IF k <= p + Half THEN (x * w) * LowNumber(k - p)
                  ELSE IF k <= j THEN (x * w) * LowNumber(Half)
                  ELSE (x * w) * (LowNumber(Half) - Weight(Limbs))
        /\ e[i] = IF i <= p THEN 0 ELSE IF i <= p + Half THEN (x * w) * LowNumber(i - p)
                  ELSE IF i <= j THEN (x * w) * LowNumber(Half)
                  ELSE (x * w) * (LowNumber(Half) - Weight(Limbs))
      BY <2>1, Zenon
  <2> HIDE DEF e
  <2>3. x * w \in Int /\ (x * w) * LowNumber(0) = 0
      BY <1>2, OrderSplits
  <2>4. ASSUME t[i] = s[i] PROVE (t[i] - s[i]) * v = 0
      BY <2>1, <2>4
  <2>5. CASE i < p
      BY <1>1, <1>4, <2>1, <2>2, <2>4, <2>5
  <2>6. CASE i - p \in 0 .. Half - 1
    <3> DEFINE m == i - p
               f == Low[m]
    <3>1. m \in Nat /\ p + m = i /\ k - p = m + 1 /\ m \in 0 .. Half /\ i # j
        BY <1>1, <2>1, <2>6
    <3>2. f \in Int /\ LowNumber(m) \in Int /\ LowNumber(m + 1) = LowNumber(m) + f * Weight(m)
        BY <2>6, <3>1, OrderSplits, NextLimb DEF LowNumber
    <3>3. v = w * Weight(m) /\ Weight(m) \in Int
        BY <1>1, <3>1, WeightsMultiply, WeightIs DEF w
    <3>4. t[i] = s[i] + x * f
        BY <1>4, <2>1, <2>6, <3>1
    <3>5. (t[i] - s[i]) * v = (x * f) * (w * Weight(m))
      <4>1. x * f \in Int
          BY <1>2, <3>2
      <4> HIDE DEF f, i, v
      <4>2. t[i] - s[i] = x * f
          BY <2>1, <3>4, <4>1
      <4> QED BY <3>3, <4>2
    <3>6. e[k] = (x * w) * LowNumber(m + 1) /\ e[i] = (x * w) * LowNumber(m)
        BY <1>1, <2>1, <2>2, <2>3, <2>6, <3>1
    <3> HIDE DEF f, i, v, m
    <3>7. (x * w) * (LowNumber(m) + f * Weight(m)) = (x * w) * LowNumber(m) + (x * f) * (w * Weight(m))
        BY <1>2, <3>2, <3>3, Regroups
    <3>8. e[k] = e[i] + (t[i] - s[i]) * v
        BY <3>2, <3>5, <3>6, <3>7
    <3> QED BY <3>8 DEF i, v
  <2>7. CASE p + Half <= i /\ i < j
    <3> DEFINE h == (x * w) * LowNumber(Half)
    <3>1. t[i] = s[i]
        BY <1>1, <1>4, <2>1, <2>7
    <3>2. e[k] = h /\ h \in Int
        BY <1>1, <1>8, <2>1, <2>2, <2>7
    <3>3. e[i] = h
      <4>1. CASE i = p
        <5>1. Half = 0 /\ i <= p
            BY <1>1, <2>7, <4>1
        <5>2. h = 0
            BY <2>3, <5>1
        <5> QED BY <2>2, <5>1, <5>2
      <4>2. CASE i # p /\ i = p + Half
        <5>1. ~(i <= p) /\ i <= p + Half /\ i - p = Half
            BY <1>1, <2>7, <4>2
        <5> QED BY <2>2, <5>1
      <4>3. CASE i # p + Half /\ i # p
        <5>1. ~(i <= p) /\ ~(i <= p + Half) /\ i <= j
            BY <1>1, <2>7, <4>3
        <5> QED BY <2>2, <5>1
      <4> QED BY <1>1, <2>7, <4>1, <4>2, <4>3
    <3> HIDE DEF h
    <3> QED BY <2>4, <3>1, <3>2, <3>3
  <2>8. CASE i = j
    <3>1. e[i] = (x * w) * LowNumber(Half) /\ e[k] = (x * w) * (LowNumber(Half) - Weight(Limbs))
        BY <1>1, <2>1, <2>2, <2>8
    <3>2. t[i] - s[i] = 0 - x
        BY <1>2, <1>4, <2>1, <2>8 DEF x
    <3>3. v = w * Weight(Limbs) /\ Weight(Limbs) \in Int /\ LowNumber(Half) \in Int
        BY <1>1, <2>8, WeightsMultiply, OrderSplits DEF w
    <3> HIDE DEF i, v
    <3>4. (x * w) * LowNumber(Half) + (0 - x) * (w * Weight(Limbs))
            = (x * w) * (LowNumber(Half) - Weight(Limbs))
        BY <1>2, <3>3, Regroups
    <3>5. e[k] = e[i] + (t[i] - s[i]) * v
        BY <3>1, <3>2, <3>3, <3>4
    <3> QED BY <3>5 DEF i, v
  <2>9. CASE j < i
      BY <1>1, <1>4, <1>8, <2>1, <2>2, <2>4, <2>9
  <2> QED BY <1>1, <2>1, <2>5, <2>6, <2>7, <2>8, <2>9
<1>11. Number(t, n) = Number(s, n) + e[n]
  <2> HIDE DEF e, n
  <2>1. \A k \in 0 .. n - 1 : s[k] \in Int /\ t[k] \in Int
      BY <1>3, <1>6
  <2>2. n \in Nat /\ e[0] = 0
      BY <1>1, <1>9
  <2>3. \A k \in 1 .. n : e[k] = e[k - 1] + (t[k - 1] - s[k - 1]) * Weight(k - 1)
      BY <1>10
  <2>4. Ahead(n, s, t, e)
      BY ONLY <1>8, <2>1, <2>2, <2>3, Zenon DEF Ahead
  <2> QED BY ONLY <2>2, <2>4, Compared, Zenon
<1>12. e[n] = (x * w) * (-Order)
    BY <1>9, OrderSplits
<1>13. /\ t[j] = 0
       /\ \A i \in 0 .. n - 1 : i # j /\ i - p \notin 0 .. Half - 1 => t[i] = s[i]
       /\ \A i \in 0 .. n - 1 : i - p \in 0 .. Half - 1 => t[i] = s[i] + x * Low[i - p]
    BY <1>1, <1>4
<1>14. \A i \in 0 .. n - 1 : i - j + Limbs = i - p
    BY <1>1
<1> QED BY <1>7, <1>11, <1>12, <1>13, <1>14 DEF Whole, t, x, w

\* The same scalar: the numbers differ by a multiple of the order.
Congruent(s, t) == \E z \in Int : Whole(t) = Whole(s) + z * Order

(* Two steps of a reduction that each keep the scalar keep it              *)
(* (sc.c:78-313).                                                          *)
LEMMA CongruentTwice ==
    ASSUME NEW s \in LimbVectors, NEW t \in LimbVectors, NEW u \in LimbVectors,
           Congruent(s, t), Congruent(t, u)
    PROVE  Congruent(s, u)
<1>1. PICK y \in Int : Whole(t) = Whole(s) + y * Order
    BY DEF Congruent
<1>2. PICK z \in Int : Whole(u) = Whole(t) + z * Order
    BY DEF Congruent
<1>3. y + z \in Int /\ Whole(u) = Whole(s) + (y + z) * Order
  <2>1. y * Order \in Int /\ z * Order \in Int /\ (y + z) * Order = y * Order + z * Order
      BY OrderSplits
  <2> QED BY <1>1, <1>2, <2>1, WholeType
<1> QED BY <1>3 DEF Congruent

(* A carry moves value between limbs and so keeps the scalar               *)
(* (sc.c:120-122).                                                         *)
LEMMA CongruentSame ==
    ASSUME NEW s \in LimbVectors, NEW t \in LimbVectors, Whole(t) = Whole(s)
    PROVE  Congruent(s, t)
<1>1. Whole(t) = Whole(s) + 0 * Order
    BY OrderSplits, WholeType
<1> QED BY <1>1 DEF Congruent

\* What k folds from limb first down may have left, if no limb they fold is
\* larger than e allows.
Folded(s, first, last, e, k) ==
    {t \in LimbVectors :
       /\ Congruent(s, t)
       /\ \A i \in 0 .. 2 * Limbs - 1 :
            /\ first - k < i /\ i <= first => t[i] = 0
            /\ (i < last - Limbs \/ first < i \/ (first - Limbs + Half <= i /\ i <= first - k))
                 => t[i] = s[i]
            /\ i < first - Limbs + Half => t[i] - s[i] \in -(k * e) .. k * e}

Foldings == INSTANCE LoopTheorems WITH
    Kept <- LAMBDA s, r, e, k : Folded(s, r[1], r[2], e, k),
    First <- LAMBDA s, r, e : s,
    Turns <- LAMBDA s, r, e : r[1] + 1 - r[2],
    Before <- LAMBDA k : k - 1,
    Turn <- LAMBDA s, r, e, y, k : Fold(y, r[1] + 1 - k)

(* Limb after limb is folded from the top down (sc.c:78-119); none goes    *)
(* into one that is to be folded.                                          *)
LEMMA FoldTurn ==
    ASSUME NEW s \in LimbVectors, NEW first \in Limbs .. 2 * Limbs - 1, NEW last \in Limbs .. first,
           first - Limbs + Half <= last, NEW e \in Nat,
           \A i \in last .. first : \A m \in 0 .. Half - 1 : s[i] * Low[m] \in -e .. e,
           NEW k \in 1 .. first + 1 - last, NEW y \in Folded(s, first, last, e, k - 1)
    PROVE  Fold(y, first + 1 - k) \in Folded(s, first, last, e, k)
<1> DEFINE j == first + 1 - k
           t == Fold(y, j)
           n == 2 * Limbs
<1>1. /\ Limbs \in Nat /\ Half \in Nat /\ Half <= Limbs /\ j \in Limbs .. 2 * Limbs - 1
      /\ j \in last .. first /\ j \in 0 .. 2 * Limbs - 1 /\ first - (k - 1) = j /\ first - k = j - 1
    BY Radixes, OrderSplits
<1>2. /\ y \in LimbVectors /\ Congruent(s, y)
      /\ \A i \in 0 .. n - 1 :
           /\ first - (k - 1) < i /\ i <= first => y[i] = 0
           /\ (i < last - Limbs \/ first < i \/ (first - Limbs + Half <= i /\ i <= first - (k - 1)))
                => y[i] = s[i]
           /\ i < first - Limbs + Half => y[i] - s[i] \in -((k - 1) * e) .. (k - 1) * e
    BY DEF Folded
<1>3. y[j] = s[j]
    BY <1>1, <1>2
<1>4. /\ t \in LimbVectors
      /\ Whole(t) = Whole(y) + (y[j] * Weight(j - Limbs)) * (-Order)
      /\ t[j] = 0
      /\ \A i \in 0 .. n - 1 : i # j /\ i - j + Limbs \notin 0 .. Half - 1 => t[i] = y[i]
      /\ \A i \in 0 .. n - 1 : i - j + Limbs \in 0 .. Half - 1 =>
                  t[i] = y[i] + y[j] * Low[i - j + Limbs]
    BY <1>1, <1>2, FoldKeeps
<1> HIDE DEF t, j
<1>5. Congruent(s, t)
  <2> DEFINE z == y[j] * Weight(j - Limbs)
  <2>1. z \in Int
    <3>1. j - Limbs \in Nat
        BY <1>1
    <3>2. Weight(j - Limbs) \in Int /\ y[j] \in Int
        BY <1>1, <1>2, <3>1, WeightIs DEF LimbVectors
    <3> QED BY <3>2
  <2>2. Whole(t) = Whole(y) + z * (-Order)
      BY <1>4
  <2> HIDE DEF z
  <2>3. -z \in Int /\ z * (-Order) = (-z) * Order
      BY <2>1, OrderSplits
  <2>4. Congruent(y, t)
      BY <2>2, <2>3 DEF Congruent
  <2> QED BY <1>2, <1>4, <2>4, CongruentTwice
<1>6. ASSUME NEW i \in 0 .. n - 1
      PROVE  /\ first - k < i /\ i <= first => t[i] = 0
             /\ (i < last - Limbs \/ first < i \/ (first - Limbs + Half <= i /\ i <= first - k))
                  => t[i] = s[i]
             /\ i < first - Limbs + Half => t[i] - s[i] \in -(k * e) .. k * e
  <2>1. y[i] \in Int /\ s[i] \in Int
      BY <1>2 DEF LimbVectors
  <2>2. /\ i - j + Limbs \in 0 .. Half - 1 => i < first - Limbs + Half /\ i # j /\ last - Limbs <= i
        /\ first - Limbs + Half <= j
      BY <1>1
  <2>3. ASSUME first - k < i, i <= first PROVE t[i] = 0
    <3>1. CASE i = j
        BY <1>4, <3>1
    <3>2. CASE i # j
      <4>1. first - (k - 1) < i /\ i - j + Limbs \notin 0 .. Half - 1
          BY <1>1, <2>2, <2>3, <3>2
      <4> QED BY <1>2, <1>4, <2>3, <3>2, <4>1
    <3> QED BY <3>1, <3>2
  <2>4. ASSUME i < last - Limbs \/ first < i \/ (first - Limbs + Half <= i /\ i <= first - k)
        PROVE  t[i] = s[i]
    <3>1. /\ i # j /\ i - j + Limbs \notin 0 .. Half - 1
          /\ (i < last - Limbs \/ first < i \/ (first - Limbs + Half <= i /\ i <= first - (k - 1)))
        BY <1>1, <2>2, <2>4
    <3> QED BY <1>2, <1>4, <3>1
  <2>5. ASSUME i < first - Limbs + Half PROVE t[i] - s[i] \in -(k * e) .. k * e
    <3> DEFINE a == (k - 1) * e
    <3>1. k * e = a + e /\ a \in Int
        BY Distributes
    <3>2. y[i] - s[i] \in -a .. a
        BY <1>2, <2>5
    <3> HIDE DEF a
    <3>3. i # j
        BY <1>1, <2>2, <2>5
    <3>4. CASE i - j + Limbs \in 0 .. Half - 1
      <4> DEFINE x == y[j] * Low[i - j + Limbs]
      <4>1. t[i] = y[i] + x
          BY <1>4, <3>4
      <4>2. x \in -e .. e
          BY <1>1, <1>3, <3>4
      <4> HIDE DEF x
      <4> QED BY <2>1, <3>1, <3>2, <4>1, <4>2
    <3>5. CASE i - j + Limbs \notin 0 .. Half - 1
      <4>1. t[i] = y[i]
          BY <1>4, <3>3, <3>5
      <4> QED BY <2>1, <3>1, <3>2, <4>1
    <3> QED BY <3>4, <3>5
  <2> QED BY <2>3, <2>4, <2>5
<1>7. t \in Folded(s, first, last, e, k)
    BY <1>4, <1>5, <1>6 DEF Folded
<1> QED BY <1>7 DEF t, j

(* The folds of one run of limbs, from the top down (sc.c:78-119,          *)
(* 153-194).                                                               *)
LEMMA FoldedDown ==
    ASSUME NEW s \in LimbVectors, NEW first \in Limbs .. 2 * Limbs - 1, NEW last \in Limbs .. first,
           first - Limbs + Half <= last, NEW e \in Nat,
           \A i \in last .. first : \A m \in 0 .. Half - 1 : s[i] * Low[m] \in -e .. e
    PROVE  FoldDown(s, first, last) \in Folded(s, first, last, e, first + 1 - last)
<1> DEFINE r == <<first, last>>
<1>1. r[1] = first /\ r[2] = last
    OBVIOUS
<1> HIDE DEF r
<1>2. first + 1 - last \in Nat /\ \A k \in 1 .. first + 1 - last : k - 1 = k - 1
    BY Radixes
<1>3. s \in Folded(s, first, last, e, 0)
  <2>1. \A i \in 0 .. 2 * Limbs - 1 : ~(first - 0 < i /\ i <= first)
      BY Radixes
  <2>2. \A i \in 0 .. 2 * Limbs - 1 : s[i] - s[i] \in -(0 * e) .. 0 * e
      BY DEF LimbVectors
  <2> QED BY <2>1, <2>2, CongruentSame DEF Folded
<1>4. \A k \in 1 .. first + 1 - last : \A y \in Folded(s, first, last, e, k - 1) :
        Fold(y, first + 1 - k) \in Folded(s, first, last, e, k)
    BY FoldTurn
<1>5. Foldings!Run(s, r, e) \in Folded(s, first, last, e, first + 1 - last)
  <2>1. s \in Folded(s, r[1], r[2], e, 0)
      BY <1>1, <1>3, Zenon
  <2>2. r[1] + 1 - r[2] \in Nat /\ \A k \in 1 .. r[1] + 1 - r[2] : k - 1 = k - 1
      BY <1>1, <1>2, Zenon
  <2>3. \A k \in 1 .. r[1] + 1 - r[2] : \A y \in Folded(s, r[1], r[2], e, k - 1) :
          Fold(y, r[1] + 1 - k) \in Folded(s, r[1], r[2], e, k)
      BY <1>1, <1>4, Zenon
  <2>4. Foldings!Run(s, r, e) \in Folded(s, r[1], r[2], e, r[1] + 1 - r[2])
      BY <2>1, <2>2, <2>3, Foldings!Looped, Zenon
  <2> QED BY <1>1, <2>4, Zenon
<1>6. FoldDown(s, first, last) = Foldings!Run(s, r, e)
  <2>1. FoldDown(s, r[1], r[2]) = Foldings!Run(s, r, e)
      BY Zenon DEF FoldDown, Foldings!Run, Loop, Eagerly, Foldings!Loop, Foldings!Eagerly
  <2> QED BY <1>1, <2>1, Zenon
<1> QED BY <1>5, <1>6

(* What the two passes leave of the limbs first..last.                     *)
Settled(s, t, first, last, c, h) ==
    /\ t \in LimbVectors /\ Whole(t) = Whole(s)
    /\ \A j \in 0 .. 2 * Limbs - 1 :
         /\ j < first \/ last + 1 < j => t[j] = s[j]
         /\ first <= j /\ j <= last => t[j] \in -(c + h) .. c + h
         /\ j = last + 1 => t[j] - s[j] \in -c .. c
         /\ j = last /\ (last - first) % 2 = 1 => t[j] \in Near

(* Two passes of carries (sc.c:120-152) leave every limb they carry small, *)
(* and the one behind them moved by no more than a carry.                  *)
LEMMA Alternated ==
    ASSUME NEW s \in LimbVectors, NEW first \in Nat, NEW last \in Nat, first <= last,
           last + 2 <= 2 * Limbs, NEW b \in Nat, NEW c \in Nat, NEW h \in Nat, h = Radix \div 2,
           b + c + h <= c * Radix, \A j \in first .. last : s[j] \in -b .. b
    PROVE  Settled(s, CarryAlternately(s, first, last), first, last, c, h)
<1> DEFINE n1 == (last - first + 2) \div 2
           n2 == (last - first + 1) \div 2
           u == CarryPass(s, first, last)
           t == CarryPass(u, first + 1, last)
<1>1. /\ Limbs \in Nat /\ n1 \in Nat /\ n2 \in Nat /\ n2 <= n1 /\ first + 1 \in Nat /\ last \in Int
      /\ first + 2 * n1 <= 2 * Limbs /\ first + 1 + 2 * n2 <= 2 * Limbs
      /\ n2 = (last - (first + 1) + 2) \div 2
      /\ first + 2 * n1 <= last + 2 /\ first + 1 + 2 * n2 <= last + 2
      /\ last + 1 <= first + 2 * n1 /\ last + 1 <= first + 1 + 2 * n2
    BY Radixes
<1>2. b + h <= c * Radix /\ b + c \in Nat /\ c * Radix \in Int
    BY Radixes
<1>3. u \in Passing(s, first, c, n1)
  <2>1. \A m \in 0 .. n1 - 1 : s[first + 2 * m] \in -b .. b
    <3>1. \A m \in 0 .. n1 - 1 : first + 2 * m \in first .. last
        BY <1>1
    <3> QED BY <3>1
  <2> QED BY <1>1, <1>2, <2>1, Passed
<1>4. /\ u \in LimbVectors /\ Whole(u) = Whole(s)
      /\ \A m \in 0 .. n1 - 1 : u[first + 2 * m] \in Near
      /\ \A m \in 0 .. n1 - 1 : u[first + 2 * m + 1] - s[first + 2 * m + 1] \in -c .. c
      /\ \A j \in 0 .. 2 * Limbs - 1 : (j < first \/ first + 2 * n1 <= j) => u[j] = s[j]
    BY <1>3 DEF Passing
<1> HIDE DEF u
<1>5. ASSUME NEW m \in 0 .. n2 - 1 PROVE u[first + 1 + 2 * m] \in -(b + c) .. b + c
  <2> DEFINE j == first + 2 * m + 1
  <2>1. m \in 0 .. n1 - 1 /\ j = first + 1 + 2 * m /\ j \in first .. last /\ j \in 0 .. 2 * Limbs - 1
      BY <1>1
  <2>2. u[j] - s[j] \in -c .. c /\ s[j] \in -b .. b
      BY <1>4, <2>1
  <2>3. u[j] \in Int /\ s[j] \in Int
      BY <1>4, <2>1 DEF LimbVectors
  <2> HIDE DEF j
  <2>4. u[j] \in -(b + c) .. b + c
      BY <2>2, <2>3
  <2> QED BY <2>1, <2>4
<1>6. t \in Passing(u, first + 1, c, n2)
  <2> HIDE DEF n1
  <2>1. b + c + Radix \div 2 <= c * Radix
      BY <1>2
  <2> QED BY <1>1, <1>2, <1>4, <1>5, <2>1, Passed
<1>7. /\ t \in LimbVectors /\ Whole(t) = Whole(u)
      /\ \A m \in 0 .. n2 - 1 : t[first + 1 + 2 * m] \in Near
      /\ \A m \in 0 .. n2 - 1 : t[first + 1 + 2 * m + 1] - u[first + 1 + 2 * m + 1] \in -c .. c
      /\ \A j \in 0 .. 2 * Limbs - 1 : (j < first + 1 \/ first + 1 + 2 * n2 <= j) => t[j] = u[j]
    BY <1>6 DEF Passing
<1>8. CarryAlternately(s, first, last) = t
    BY Zenon DEF CarryAlternately, u
<1> HIDE DEF t
<1>9. ASSUME NEW j \in 0 .. 2 * Limbs - 1
      PROVE  /\ j < first \/ last + 1 < j => t[j] = s[j]
             /\ first <= j /\ j <= last => t[j] \in -(c + h) .. c + h
             /\ j = last + 1 => t[j] - s[j] \in -c .. c
             /\ j = last /\ (last - first) % 2 = 1 => t[j] \in Near
  <2> DEFINE m == (j - first) \div 2
  <2>0. t[j] \in Int /\ u[j] \in Int /\ s[j] \in Int
      BY <1>4, <1>7 DEF LimbVectors
  <2>1. CASE j < first \/ last + 1 < j
    <3>1. /\ j < first \/ first + 2 * n1 <= j
          /\ j < first + 1 \/ first + 1 + 2 * n2 <= j
          /\ ~(first <= j /\ j <= last) /\ j # last + 1 /\ j # last
        BY <1>1, <2>1
    <3> HIDE DEF n1, n2
    <3> QED BY <1>4, <1>7, <3>1
  <2>2. CASE first <= j /\ j <= last + 1 /\ j = first + 2 * m
    <3>1. j <= last => u[j] \in Near
      <4>1. j <= last => m \in 0 .. n1 - 1
          BY <1>1, <2>2
      <4> HIDE DEF m, n1
      <4> QED BY <1>4, <2>2, <4>1
    <3>2. j = last + 1 => u[j] = s[j]
      <4>1. j = last + 1 => first + 2 * n1 <= j
          BY <1>1, <2>2
      <4> QED BY <1>4, <4>1
    <3>3. t[j] - u[j] \in -c .. c
      <4>1. CASE j = first
        <5>1. t[j] = u[j]
            BY <1>7, <4>1
        <5> QED BY <2>0, <5>1
      <4>2. CASE j # first
        <5>1. m - 1 \in 0 .. n2 - 1 /\ first + 1 + 2 * (m - 1) + 1 = j
            BY <1>1, <2>2, <4>2
        <5> HIDE DEF m, n2
        <5> QED BY <1>7, <5>1
      <4> QED BY <4>1, <4>2
    <3>4. ~(j = last /\ (last - first) % 2 = 1)
        BY <2>2
    <3> HIDE DEF m, n1, n2
    <3> QED BY <2>0, <2>2, <3>1, <3>2, <3>3, <3>4 DEF Near
  <2>3. CASE first <= j /\ j <= last + 1 /\ j = first + 2 * m + 1
    <3>1. j <= last => t[j] \in Near
      <4>1. j <= last => m \in 0 .. n2 - 1 /\ first + 1 + 2 * m = j
          BY <1>1, <2>3
      <4> HIDE DEF m, n2
      <4> QED BY <1>7, <4>1
    <3>2. j = last + 1 => u[j] - s[j] \in -c .. c /\ t[j] = u[j]
      <4>1. j = last + 1 => m \in 0 .. n1 - 1 /\ first + 1 + 2 * n2 <= j
          BY <1>1, <2>3
      <4> HIDE DEF m, n1, n2
      <4> QED BY <1>4, <1>7, <2>3, <4>1
    <3> HIDE DEF m, n1, n2
    <3> QED BY <2>0, <2>3, <3>1, <3>2 DEF Near
  <2>4. (first <= j => j = first + 2 * m \/ j = first + 2 * m + 1) /\ (j < first \/ first <= j)
      OBVIOUS
  <2>5. last + 1 < j \/ j <= last + 1
      OBVIOUS
  <2> HIDE DEF m
  <2> QED BY <2>1, <2>2, <2>3, <2>4, <2>5
<1> HIDE DEF n1, n2
<1>10. t \in LimbVectors /\ Whole(t) = Whole(s)
    BY <1>4, <1>7
<1> QED BY <1>8, <1>9, <1>10, Zenon DEF Settled

(* What the sizes of the code are used for.                                *)
LEMMA Sizes ==
    ASSUME CodeSizes
    PROVE  /\ Limbs = 12 /\ Half = 6 /\ Radix = 2^21
           /\ \A m \in 0 .. 5 : Low[m] \in -(2^20) .. 2^20
           /\ Low[5] <= -1
<1>1. Limbs = 12 /\ Half = 6
    BY SMT DEF CodeSizes, Half
<1>2. Radix = 2^21
    BY SMT DEF CodeSizes, Radix
<1>3. \A m \in 0 .. 5 : Low[m] = Folding[m + 1]
    BY <1>1, OrderSplits, SMT
<1>4. \A m \in 1 .. 6 : Folding[m] \in -(2^20) .. 2^20
    BY SMT DEF CodeSizes
<1>5. Folding[6] <= -1
    BY SMT DEF CodeSizes
<1> QED BY <1>1, <1>2, <1>3, <1>4, <1>5, SMT

(* A limb times a multiple of sc.c:78-83 is within the product of their    *)
(* bounds.                                                                 *)
LEMMA ProductWithin ==
    ASSUME NEW x \in Int, NEW y \in Int, NEW b \in Nat, NEW c \in Nat, x \in -b .. b, y \in -c .. c
    PROVE  x * y \in -(b * c) .. b * c
<1>1. CASE x >= 0 /\ y >= 0
    BY <1>1
<1>2. CASE x >= 0 /\ y <= 0
    BY <1>2
<1>3. CASE x <= 0 /\ y >= 0
    BY <1>3
<1>4. CASE x <= 0 /\ y <= 0
    BY <1>4
<1> QED BY <1>1, <1>2, <1>3, <1>4

\* The steps of Lowered.
Upper(s) == FoldDown(s, 23, 18)
Carried1(s) == CarryAlternately(Upper(s), 6, 16)
Middle(s) == FoldDown(Carried1(s), 17, 12)
Carried2(s) == CarryAlternately(Middle(s), 0, 11)

(* The stages of a reduction in the order of sc.c:78-237: folds of the     *)
(* upper limbs, carries, folds of the middle ones, carries, the last fold. *)
LEMMA LoweredIs ==
    ASSUME CodeSizes, NEW s
    PROVE  Lowered(s) = Fold(Carried2(s), 12)
<1>1. /\ 2 * Limbs - 1 = 23 /\ Limbs + Half = 18 /\ Half = 6 /\ Limbs + Half - 2 = 16
      /\ Limbs + Half - 1 = 17 /\ Limbs = 12 /\ Limbs - 1 = 11
    BY Sizes, SMT
<1> QED BY <1>1, Zenon DEF Lowered, Upper, Carried1, Middle, Carried2

(* No limb outgrows a word of 64 bits on the way down (sc.c:78-152).       *)
LEMMA UpperFits ==
    ASSUME CodeSizes, NEW s \in LimbVectors, \A i \in 0 .. 23 : s[i] \in -(2^32) .. 2^32
    PROVE  /\ Upper(s) \in LimbVectors /\ Congruent(s, Upper(s))
           /\ \A i \in 0 .. 23 :
                /\ Upper(s)[i] \in -(2^35 * 2^20) .. 2^35 * 2^20
                /\ 18 <= i => Upper(s)[i] = 0
                /\ i < 6 \/ i = 17 => Upper(s)[i] \in -(2^32) .. 2^32
<1>1. Limbs = 12 /\ Half = 6
    BY Sizes
<1>2. ASSUME NEW i \in 18 .. 23, NEW m \in 0 .. 5 PROVE s[i] * Low[m] \in -(2^32 * 2^20) .. 2^32 * 2^20
  <2>1. /\ s[i] \in -(2^32) .. 2^32 /\ Low[m] \in -(2^20) .. 2^20
        /\ s[i] \in Int /\ Low[m] \in Int
      BY Sizes, SMT
  <2>2. 2^32 \in Nat /\ 2^20 \in Nat
      BY SMT
  <2> QED BY <2>1, <2>2, ProductWithin
<1>3. Upper(s) \in Folded(s, 23, 18, 2^32 * 2^20, 6)
  <2>1. /\ 23 \in Limbs .. 2 * Limbs - 1 /\ 18 \in Limbs .. 23 /\ 23 - Limbs + Half <= 18
        /\ 2^32 * 2^20 \in Nat /\ 23 + 1 - 18 = 6 /\ Half - 1 = 5
      BY <1>1, SMT
  <2>2. \A i \in 18 .. 23 : \A m \in 0 .. Half - 1 : s[i] * Low[m] \in -(2^32 * 2^20) .. 2^32 * 2^20
      BY <1>2, <2>1
  <2>3. FoldDown(s, 23, 18) \in Folded(s, 23, 18, 2^32 * 2^20, 23 + 1 - 18)
      BY <2>1, <2>2, FoldedDown
  <2> QED BY <2>1, <2>3 DEF Upper
<1> DEFINE t == Upper(s)
<1> HIDE DEF t
<1>4. /\ t \in LimbVectors /\ Congruent(s, t)
      /\ \A i \in 0 .. 23 :
            /\ 17 < i /\ i <= 23 => t[i] = 0
            /\ (i < 6 \/ 23 < i \/ (17 <= i /\ i <= 17)) => t[i] = s[i]
            /\ i < 17 => t[i] - s[i] \in -(6 * (2^32 * 2^20)) .. 6 * (2^32 * 2^20)
  <2>1. /\ 2 * Limbs - 1 = 23 /\ 23 - 6 = 17 /\ 18 - Limbs = 6 /\ 23 - Limbs + Half = 17
      BY <1>1, SMT
  <2> QED BY <1>3, <2>1, Zenon DEF Folded, t
<1>5. ASSUME NEW i \in 0 .. 23
      PROVE  /\ t[i] \in -(2^35 * 2^20) .. 2^35 * 2^20
             /\ 18 <= i => t[i] = 0
             /\ i < 6 \/ i = 17 => t[i] \in -(2^32) .. 2^32
  <2>1. t[i] \in Int /\ s[i] \in -(2^32) .. 2^32
      BY <1>1, <1>4 DEF LimbVectors
  <2>2. /\ 18 <= i => t[i] = 0
        /\ i < 6 \/ i = 17 => t[i] = s[i]
        /\ i < 17 => t[i] - s[i] \in -(6 * (2^32 * 2^20)) .. 6 * (2^32 * 2^20)
      BY <1>4
  <2> QED BY <2>1, <2>2, SMT
<1> QED BY <1>4, <1>5 DEF t

(* The limbs that the first carries leave (sc.c:120-152).                  *)
LEMMA Carried1Fits ==
    ASSUME CodeSizes, NEW s \in LimbVectors, \A i \in 0 .. 23 : s[i] \in -(2^32) .. 2^32
    PROVE  /\ Carried1(s) \in LimbVectors /\ Congruent(s, Carried1(s))
           /\ \A i \in 0 .. 23 :
                /\ Carried1(s)[i] \in -(2^36) .. 2^36
                /\ 18 <= i => Carried1(s)[i] = 0
<1> DEFINE u == Upper(s)
           t == CarryAlternately(u, 6, 16)
<1>1. Limbs = 12 /\ Half = 6 /\ Radix = 2^21
    BY Sizes
<1>2. /\ u \in LimbVectors /\ Congruent(s, u)
      /\ \A i \in 0 .. 23 :
           /\ u[i] \in -(2^35 * 2^20) .. 2^35 * 2^20
           /\ 18 <= i => u[i] = 0
           /\ i < 6 \/ i = 17 => u[i] \in -(2^32) .. 2^32
    BY UpperFits
<1> HIDE DEF u
<1> DEFINE b == 2^35 * 2^20
           c == 2^35
           h == 2^20
<1>3. /\ t \in LimbVectors /\ Whole(t) = Whole(u)
      /\ \A j \in 0 .. 2 * Limbs - 1 :
           /\ j < 6 \/ 16 + 1 < j => t[j] = u[j]
           /\ 6 <= j /\ j <= 16 => t[j] \in -(c + h) .. c + h
           /\ j = 16 + 1 => t[j] - u[j] \in -c .. c
           /\ j = 16 /\ (16 - 6) % 2 = 1 => t[j] \in Near
  <2>1. /\ 6 \in Nat /\ 16 \in Nat /\ 6 <= 16 /\ 16 + 2 <= 2 * Limbs /\ b \in Nat
        /\ c \in Nat /\ h \in Nat /\ h = Radix \div 2
        /\ b + c + h <= c * Radix
      BY <1>1, SMT
  <2>2. \A j \in 6 .. 16 : u[j] \in -b .. b
      BY <1>2
  <2>3. u \in LimbVectors
      BY <1>2
  <2> HIDE DEF t, b, c, h
  <2>4. Settled(u, CarryAlternately(u, 6, 16), 6, 16, c, h)
      BY ONLY <2>1, <2>2, <2>3, Alternated, Zenon
  <2> QED BY <2>4, Zenon DEF t, Settled
<1>4. Congruent(s, t)
  <2> HIDE DEF t
  <2>1. Congruent(u, t)
      BY <1>2, <1>3, CongruentSame
  <2> QED BY <1>2, <1>3, <2>1, CongruentTwice
<1> HIDE DEF t
<1>5. ASSUME NEW i \in 0 .. 23
      PROVE  t[i] \in -(2^36) .. 2^36 /\ (18 <= i => t[i] = 0)
  <2>1. /\ u[i] \in -(2^35 * 2^20) .. 2^35 * 2^20
        /\ 18 <= i => u[i] = 0
        /\ i < 6 \/ i = 17 => u[i] \in -(2^32) .. 2^32
      BY <1>2
  <2>2. /\ i < 6 \/ 17 < i => t[i] = u[i]
        /\ 6 <= i /\ i <= 16 => t[i] \in -(2^35 + 2^20) .. 2^35 + 2^20
        /\ i = 17 => t[i] - u[i] \in -(2^35) .. 2^35
      BY <1>1, <1>3, SMT
  <2>3. t[i] \in Int
      BY <1>1, <1>3 DEF LimbVectors
  <2> QED BY <2>1, <2>2, <2>3, SMT
<1> QED BY <1>3, <1>4, <1>5 DEF t, u, Carried1

(* The limbs that the second run of folds leaves (sc.c:153-194): the       *)
(* largest of the reduction, well below 2^63.                              *)
LEMMA MiddleFits ==
    ASSUME CodeSizes, NEW s \in LimbVectors, \A i \in 0 .. 23 : s[i] \in -(2^32) .. 2^32
    PROVE  /\ Middle(s) \in LimbVectors /\ Congruent(s, Middle(s))
           /\ \A i \in 0 .. 23 :
                /\ Middle(s)[i] \in -(7 * (2^36 * 2^20)) .. 7 * (2^36 * 2^20)
                /\ 12 <= i => Middle(s)[i] = 0
<1> DEFINE u == Carried1(s)
           t == FoldDown(u, 17, 12)
<1>1. Limbs = 12 /\ Half = 6
    BY Sizes
<1>2. /\ u \in LimbVectors /\ Congruent(s, u)
      /\ \A i \in 0 .. 23 : u[i] \in -(2^36) .. 2^36 /\ (18 <= i => u[i] = 0)
    BY Carried1Fits
<1> HIDE DEF u
<1>3. ASSUME NEW i \in 12 .. 17, NEW m \in 0 .. 5 PROVE u[i] * Low[m] \in -(2^36 * 2^20) .. 2^36 * 2^20
  <2>1. /\ u[i] \in -(2^36) .. 2^36 /\ Low[m] \in -(2^20) .. 2^20
        /\ u[i] \in Int /\ Low[m] \in Int
      BY <1>2, Sizes, SMT
  <2>2. 2^36 \in Nat /\ 2^20 \in Nat
      BY SMT
  <2> QED BY <2>1, <2>2, ProductWithin
<1>4. t \in Folded(u, 17, 12, 2^36 * 2^20, 6)
  <2>1. /\ 17 \in Limbs .. 2 * Limbs - 1 /\ 12 \in Limbs .. 17 /\ 17 - Limbs + Half <= 12
        /\ 2^36 * 2^20 \in Nat /\ 17 + 1 - 12 = 6 /\ Half - 1 = 5
      BY <1>1, SMT
  <2>2. \A i \in 12 .. 17 : \A m \in 0 .. Half - 1 : u[i] * Low[m] \in -(2^36 * 2^20) .. 2^36 * 2^20
      BY <1>3, <2>1
  <2> HIDE DEF t
  <2>3. t \in Folded(u, 17, 12, 2^36 * 2^20, 17 + 1 - 12)
      BY <1>2, <2>1, <2>2, FoldedDown DEF t
  <2> QED BY <2>1, <2>3
<1> HIDE DEF t
<1>5. /\ t \in LimbVectors /\ Congruent(u, t)
      /\ \A i \in 0 .. 23 :
            /\ 11 < i /\ i <= 17 => t[i] = 0
            /\ (i < 0 \/ 17 < i \/ (11 <= i /\ i <= 11)) => t[i] = u[i]
            /\ i < 11 => t[i] - u[i] \in -(6 * (2^36 * 2^20)) .. 6 * (2^36 * 2^20)
  <2>1. /\ 2 * Limbs - 1 = 23 /\ 17 - 6 = 11 /\ 12 - Limbs = 0 /\ 17 - Limbs + Half = 11
      BY <1>1, SMT
  <2> QED BY <1>4, <2>1, Zenon DEF Folded
<1>6. ASSUME NEW i \in 0 .. 23
      PROVE  t[i] \in -(7 * (2^36 * 2^20)) .. 7 * (2^36 * 2^20) /\ (12 <= i => t[i] = 0)
  <2>1. t[i] \in Int /\ u[i] \in -(2^36) .. 2^36 /\ (18 <= i => u[i] = 0)
      BY <1>1, <1>2, <1>5 DEF LimbVectors
  <2>2. /\ 11 < i /\ i <= 17 => t[i] = 0
        /\ 17 < i \/ i = 11 => t[i] = u[i]
        /\ i < 11 => t[i] - u[i] \in -(6 * (2^36 * 2^20)) .. 6 * (2^36 * 2^20)
      BY <1>5
  <2> QED BY <2>1, <2>2, SMT
<1>7. Congruent(s, t)
    BY <1>2, <1>5, CongruentTwice
<1> QED BY <1>5, <1>6, <1>7 DEF t, u, Middle

(* The limbs that the second carries leave (sc.c:195-230).                 *)
LEMMA Carried2Fits ==
    ASSUME CodeSizes, NEW s \in LimbVectors, \A i \in 0 .. 23 : s[i] \in -(2^32) .. 2^32
    PROVE  /\ Carried2(s) \in LimbVectors /\ Congruent(s, Carried2(s))
           /\ \A i \in 0 .. 23 :
                /\ i <= 10 => Carried2(s)[i] \in -(2^38 + 2^20) .. 2^38 + 2^20
                /\ i = 11 => Carried2(s)[i] \in -(2^20) .. 2^20
                /\ i = 12 => Carried2(s)[i] \in -(2^38) .. 2^38
                /\ 13 <= i => Carried2(s)[i] = 0
<1> DEFINE u == Middle(s)
           t == CarryAlternately(u, 0, 11)
<1>1. Limbs = 12 /\ Half = 6 /\ Radix = 2^21
    BY Sizes
<1>2. /\ u \in LimbVectors /\ Congruent(s, u)
      /\ \A i \in 0 .. 23 :
           /\ u[i] \in -(7 * (2^36 * 2^20)) .. 7 * (2^36 * 2^20)
           /\ 12 <= i => u[i] = 0
    BY MiddleFits
<1> HIDE DEF u
<1> DEFINE b == 7 * (2^36 * 2^20)
           c == 2^38
           h == 2^20
<1>3. /\ t \in LimbVectors /\ Whole(t) = Whole(u)
      /\ \A j \in 0 .. 2 * Limbs - 1 :
           /\ j < 0 \/ 11 + 1 < j => t[j] = u[j]
           /\ 0 <= j /\ j <= 11 => t[j] \in -(c + h) .. c + h
           /\ j = 11 + 1 => t[j] - u[j] \in -c .. c
           /\ j = 11 /\ (11 - 0) % 2 = 1 => t[j] \in Near
  <2>1. /\ 0 \in Nat /\ 11 \in Nat /\ 0 <= 11 /\ 11 + 2 <= 2 * Limbs /\ b \in Nat
        /\ c \in Nat /\ h \in Nat /\ h = Radix \div 2
        /\ b + c + h <= c * Radix
      BY <1>1, SMT
  <2>2. \A j \in 0 .. 11 : u[j] \in -b .. b
      BY <1>2
  <2>3. u \in LimbVectors
      BY <1>2
  <2> HIDE DEF t, b, c, h
  <2>4. Settled(u, CarryAlternately(u, 0, 11), 0, 11, c, h)
      BY ONLY <2>1, <2>2, <2>3, Alternated, Zenon
  <2> QED BY <2>4, Zenon DEF t, Settled
<1>4. Congruent(s, t)
  <2> HIDE DEF t
  <2>1. Congruent(u, t)
      BY <1>2, <1>3, CongruentSame
  <2> QED BY <1>2, <1>3, <2>1, CongruentTwice
<1> HIDE DEF t
<1>5. ASSUME NEW i \in 0 .. 23
      PROVE  /\ i <= 10 => t[i] \in -(2^38 + 2^20) .. 2^38 + 2^20
             /\ i = 11 => t[i] \in -(2^20) .. 2^20
             /\ i = 12 => t[i] \in -(2^38) .. 2^38
             /\ 13 <= i => t[i] = 0
  <2>1. 12 <= i => u[i] = 0
      BY <1>2
  <2>2. /\ 12 < i => t[i] = u[i]
        /\ i <= 11 => t[i] \in -(2^38 + 2^20) .. 2^38 + 2^20
        /\ i = 12 => t[i] - u[i] \in -(2^38) .. 2^38
        /\ i = 11 => t[i] \in Near
    <3>1. i \in 0 .. 2 * Limbs - 1 /\ 11 + 1 = 12 /\ (11 - 0) % 2 = 1 /\ (i <= 11 => 0 <= i)
        BY <1>1, SMT
    <3>2. /\ 11 + 1 < i => t[i] = u[i]
          /\ 0 <= i /\ i <= 11 => t[i] \in -(c + h) .. c + h
          /\ i = 11 + 1 => t[i] - u[i] \in -c .. c
          /\ i = 11 /\ (11 - 0) % 2 = 1 => t[i] \in Near
      <4> HIDE DEF c, h
      <4> QED BY <1>3, <3>1, Zenon
    <3> HIDE DEF c, h
    <3>3. /\ 12 < i => t[i] = u[i]
          /\ i <= 11 => t[i] \in -(c + h) .. c + h
          /\ i = 12 => t[i] - u[i] \in -c .. c
          /\ i = 11 => t[i] \in Near
      BY <3>1, <3>2, Zenon
    <3> QED BY <3>3, Zenon DEF c, h
  <2>3. t[i] \in Int /\ u[i] \in Int
      BY <1>1, <1>2, <1>3, SMT DEF LimbVectors
  <2>4. i = 11 => t[i] \in -(2^20) .. 2^20
    <3>1. Near = -(2^20) .. 2^20
        BY <1>1, SMT DEF Near
    <3> QED BY <2>2, <3>1, Zenon
  <2>5. i = 12 => t[i] \in -(2^38) .. 2^38
      BY <2>1, <2>2, <2>3, SMT
  <2>6. 13 <= i => t[i] = 0
      BY <2>1, <2>2, SMT
  <2> QED BY <2>2, <2>4, <2>5, <2>6, SMT
<1> QED BY <1>3, <1>4, <1>5 DEF t, u, Carried2

(* The fold of limb 12 after the second carries (sc.c:231-237) leaves      *)
(* twelve limbs, the top three of them small.                              *)
LEMMA LoweredFits ==
    ASSUME CodeSizes, NEW s \in LimbVectors, \A i \in 0 .. 23 : s[i] \in -(2^32) .. 2^32
    PROVE  /\ Lowered(s) \in LimbVectors /\ Congruent(s, Lowered(s))
           /\ \A i \in 0 .. 23 :
                /\ i <= 8 => Lowered(s)[i] \in -(2^38 * 2^21) .. 2^38 * 2^21
                /\ 9 <= i /\ i <= 10 => Lowered(s)[i] \in -(2^38 + 2^20) .. 2^38 + 2^20
                /\ i = 11 => Lowered(s)[i] \in -(2^20) .. 2^20
                /\ 12 <= i => Lowered(s)[i] = 0
<1> DEFINE u == Carried2(s)
           t == Fold(u, 12)
<1>1. Limbs = 12 /\ Half = 6 /\ \A m \in 0 .. 5 : Low[m] \in -(2^20) .. 2^20
    BY Sizes, Zenon
<1>2. /\ u \in LimbVectors /\ Congruent(s, u)
      /\ \A i \in 0 .. 23 :
           /\ i <= 10 => u[i] \in -(2^38 + 2^20) .. 2^38 + 2^20
           /\ i = 11 => u[i] \in -(2^20) .. 2^20
           /\ i = 12 => u[i] \in -(2^38) .. 2^38
           /\ 13 <= i => u[i] = 0
    BY Carried2Fits
<1> HIDE DEF u
<1>3. Lowered(s) = t
    BY LoweredIs, Zenon DEF u
<1>4. /\ t \in LimbVectors
      /\ Whole(t) = Whole(u) + (u[12] * Weight(0)) * (-Order)
      /\ t[12] = 0
      /\ \A i \in 0 .. 23 : i # 12 /\ i \notin 0 .. 5 => t[i] = u[i]
      /\ \A i \in 0 .. 5 : t[i] = u[i] + u[12] * Low[i]
  <2>1. 12 \in Limbs .. 2 * Limbs - 1 /\ 12 - Limbs = 0 /\ 2 * Limbs - 1 = 23 /\ Half - 1 = 5
      BY <1>1
  <2> HIDE DEF t
  <2>2. /\ t \in LimbVectors
        /\ Whole(t) = Whole(u) + (u[12] * Weight(12 - Limbs)) * (-Order)
        /\ t[12] = 0
        /\ \A i \in 0 .. 2 * Limbs - 1 : i # 12 /\ i - 12 + Limbs \notin 0 .. Half - 1 => t[i] = u[i]
        /\ \A i \in 0 .. 2 * Limbs - 1 :
             i - 12 + Limbs \in 0 .. Half - 1 => t[i] = u[i] + u[12] * Low[i - 12 + Limbs]
      BY <1>2, <2>1, FoldKeeps, Zenon DEF t
  <2>3. \A i \in 0 .. 23 : i - 12 + Limbs = i
      BY <1>1
  <2>4. \A i \in 0 .. 5 : i \in 0 .. 23
      BY SMT
  <2>5. ASSUME NEW i \in 0 .. 23, i # 12, i \notin 0 .. 5 PROVE t[i] = u[i]
      BY <2>1, <2>2, <2>3, <2>5, Zenon
  <2>6. ASSUME NEW i \in 0 .. 5 PROVE t[i] = u[i] + u[12] * Low[i]
    <3>1. i \in 0 .. 2 * Limbs - 1 /\ i - 12 + Limbs = i /\ i - 12 + Limbs \in 0 .. Half - 1
        BY <2>1, <2>3, <2>4, Zenon
    <3>2. t[i] = u[i] + u[12] * Low[i - 12 + Limbs]
        BY <2>2, <3>1, Zenon
    <3> QED BY <3>1, <3>2, Zenon
  <2>7. Whole(t) = Whole(u) + (u[12] * Weight(0)) * (-Order)
      BY <2>1, <2>2
  <2> QED BY <2>2, <2>5, <2>6, <2>7, Zenon
<1>5. u[12] \in -(2^38) .. 2^38 /\ u[12] \in Int
    BY <1>2, SMT
<1> HIDE DEF t
<1>6. Congruent(s, t)
  <2>1. Weight(0) = 1 /\ Order \in Int /\ Whole(u) \in Int
      BY <1>2, FirstWeights, OrderSplits, WholeType, Zenon
  <2>2. (u[12] * 1) * (-Order) = (-u[12]) * Order /\ -u[12] \in Int
      BY <1>5, <2>1
  <2>3. Whole(t) = Whole(u) + (-u[12]) * Order
      BY <1>4, <2>1, <2>2, Zenon
  <2>4. Congruent(u, t)
      BY <2>2, <2>3, Zenon DEF Congruent
  <2> QED BY <1>2, <1>4, <2>4, CongruentTwice
<1>7. ASSUME NEW i \in 0 .. 23
      PROVE  /\ i <= 8 => t[i] \in -(2^38 * 2^21) .. 2^38 * 2^21
             /\ 9 <= i /\ i <= 10 => t[i] \in -(2^38 + 2^20) .. 2^38 + 2^20
             /\ i = 11 => t[i] \in -(2^20) .. 2^20
             /\ 12 <= i => t[i] = 0
  <2>1. u[i] \in Int /\ t[i] \in Int
      BY <1>1, <1>2, <1>4 DEF LimbVectors
  <2>2. CASE i \in 0 .. 5
    <3>1. /\ Low[i] \in -(2^20) .. 2^20 /\ Low[i] \in Int /\ t[i] = u[i] + u[12] * Low[i]
          /\ 2^38 \in Nat /\ 2^20 \in Nat
        BY <1>1, <1>4, <2>2, SMT
    <3>2. u[12] * Low[i] \in -(2^38 * 2^20) .. 2^38 * 2^20
        BY <1>5, <3>1, ProductWithin
    <3>3. u[i] \in -(2^38 + 2^20) .. 2^38 + 2^20
        BY <1>2, <2>2, SMT
    <3> DEFINE x == u[12] * Low[i]
    <3>4. x \in -(2^38 * 2^20) .. 2^38 * 2^20 /\ t[i] = u[i] + x
        BY <3>1, <3>2
    <3> HIDE DEF x
    <3> QED BY <2>1, <2>2, <3>3, <3>4, SMT
  <2>3. CASE i \in 6 .. 11
    <3>1. t[i] = u[i]
        BY <1>4, <2>3, SMT
    <3>2. /\ i <= 10 => u[i] \in -(2^38 + 2^20) .. 2^38 + 2^20
          /\ i = 11 => u[i] \in -(2^20) .. 2^20
        BY <1>2
    <3> QED BY <2>1, <2>3, <3>1, <3>2, SMT
  <2>4. CASE i \in 12 .. 23
    <3>1. t[i] = 0
        BY <1>2, <1>4, <2>4, SMT
    <3> QED BY <2>4, <3>1, SMT
  <2> QED BY <2>2, <2>3, <2>4, SMT
<1> QED BY <1>3, <1>4, <1>6, <1>7, Zenon

(* What is left is within 2^252 of zero: limb 12 will be 0 or -1 after the *)
(* next carries (sc.c:238-273).                                            *)
LEMMA LoweredNear ==
    ASSUME CodeSizes, NEW t \in LimbVectors,
           \A i \in 0 .. 23 :
             /\ i <= 8 => t[i] \in -(2^38 * 2^21) .. 2^38 * 2^21
             /\ 9 <= i /\ i <= 10 => t[i] \in -(2^38 + 2^20) .. 2^38 + 2^20
             /\ i = 11 => t[i] \in -(2^20) .. 2^20
             /\ 12 <= i => t[i] = 0
    PROVE  Whole(t) \in -Weight(12) .. Weight(12) - 1
<1> DEFINE w == Weight(9)
           b == 2^38 * 2^21
           b9 == 2^38 + 2^20
           b11 == 2^20
           n == Number(t, 9)
<1>1. Limbs = 12 /\ Radix = 2^21 /\ 2 * Limbs = 24
    BY Sizes
<1>2. \A k \in 0 .. 23 : t[k] \in Int
    BY <1>1 DEF LimbVectors
<1>3. /\ w \in Nat /\ w > 0
      /\ Weight(10) = Radix * w /\ Weight(11) = Radix * Weight(10) /\ Weight(12) = Radix * Weight(11)
  <2>1. 9 \in Nat /\ 10 \in Nat /\ 11 \in Nat /\ 9 + 1 = 10 /\ 10 + 1 = 11 /\ 11 + 1 = 12
      BY SMT
  <2>2. Weight(9 + 1) = Radix * Weight(9) /\ Weight(10 + 1) = Radix * Weight(10) /\ Weight(11 + 1) = Radix * Weight(11)
      BY <2>1, NextWeight, Zenon
  <2>3. w \in Nat /\ w > 0
      BY <2>1, WeightIs, Zenon
  <2> QED BY <2>1, <2>2, <2>3, Zenon
<1>4. Whole(t) = n + t[9] * w + t[10] * Weight(10) + t[11] * Weight(11)
  <2>1. Whole(t) = Number(t, 12)
    <3>1. 12 \in Nat /\ 24 \in Nat /\ 12 <= 24 /\ \A k \in 0 .. 24 - 1 : t[k] \in Int
        BY <1>2
    <3>2. \A k \in 12 .. 24 - 1 : t[k] = 0
        BY SMT
    <3>3. Number(t, 24) = Number(t, 12)
        BY <3>1, <3>2, ZeroLimbs
    <3> QED BY <1>1, <3>3, Zenon DEF Whole
  <2>2. 9 \in Nat /\ 10 \in Nat /\ 11 \in Nat /\ 9 + 1 = 10 /\ 10 + 1 = 11 /\ 11 + 1 = 12
      BY SMT
  <2>3. /\ Number(t, 9 + 1) = Number(t, 9) + t[9] * Weight(9)
        /\ Number(t, 10 + 1) = Number(t, 10) + t[10] * Weight(10)
        /\ Number(t, 11 + 1) = Number(t, 11) + t[11] * Weight(11)
      BY <2>2, NextLimb, Zenon
  <2> QED BY <2>1, <2>2, <2>3, Zenon
<1>5. n \in -(b * w) .. b * w
  <2>1. 9 \in Nat /\ b \in Nat
      BY SMT
  <2>2. \A k \in 0 .. 9 - 1 : t[k] \in -b .. b
      BY SMT
  <2> HIDE DEF b
  <2> QED BY <2>1, <2>2, SpelledNear, Zenon
<1> HIDE DEF n
<1>6. /\ t[9] * w \in -(b9 * w) .. b9 * w
      /\ t[10] * w \in -(b9 * w) .. b9 * w
      /\ t[11] * w \in -(b11 * w) .. b11 * w
  <2>1. /\ t[9] \in -b9 .. b9 /\ t[10] \in -b9 .. b9 /\ t[11] \in -b11 .. b11
        /\ b9 \in Nat /\ b11 \in Nat
      BY SMT
  <2>2. t[9] \in Int /\ t[10] \in Int /\ t[11] \in Int /\ w \in -w .. w /\ w \in Int
      BY <1>2, <1>3, SMT
  <2> HIDE DEF w, b9, b11
  <2> QED BY <1>3, <2>1, <2>2, ProductWithin
<1> DEFINE p9 == t[9] * w
           p10 == t[10] * w
           p11 == t[11] * w
<1>7. Whole(t) = n + p9 + 2^21 * p10 + 2^21 * (2^21 * p11) /\ Weight(12) = 2^21 * (2^21 * (2^21 * w))
  <2>1. t[9] \in Int /\ t[10] \in Int /\ t[11] \in Int /\ w \in Int
      BY <1>2, <1>3, SMT
  <2> DEFINE r == 2^21
  <2>2. r \in Int /\ Radix = r
      BY <1>1, SMT
  <2> HIDE DEF r, w
  <2>3. t[10] * (r * w) = r * (t[10] * w) /\ t[11] * (r * (r * w)) = r * (r * (t[11] * w))
      BY <2>1, <2>2
  <2>4. Whole(t) = n + p9 + r * p10 + r * (r * p11) /\ Weight(12) = r * (r * (r * w))
      BY <1>3, <1>4, <2>2, <2>3, Zenon
  <2> QED BY <2>4, Zenon DEF r
<1>8. n \in Int /\ p9 \in Int /\ p10 \in Int /\ p11 \in Int
  <2>1. b * w \in Int /\ b9 * w \in Int /\ b11 * w \in Int
    <3>1. b \in Int /\ b9 \in Int /\ b11 \in Int
        BY SMT
    <3> HIDE DEF b, b9, b11, w
    <3> QED BY <1>3, <3>1
  <2> HIDE DEF b, b9, b11
  <2> QED BY <1>5, <1>6, <2>1
<1>9. /\ p9 \in -(b9 * w) .. b9 * w /\ p10 \in -(b9 * w) .. b9 * w /\ p11 \in -(b11 * w) .. b11 * w
    BY <1>6, Zenon
<1> HIDE DEF w, p9, p10, p11
<1> QED BY <1>3, <1>5, <1>7, <1>8, <1>9, SMT

(* The order is 2^252 and a number of less than half as many bits.         *)
LEMMA OrderSizes ==
    ASSUME CodeSizes
    PROVE  /\ Order \in Nat /\ Order > 0
           /\ Weight(12) \in Nat /\ Weight(12) <= Order /\ Order <= 2 * Weight(12)
           /\ 2^WordBits = 16 * Weight(12)
<1> DEFINE b == 2^20
<1>1. /\ Limbs = 12 /\ Half = 6 /\ Radix = 2 * b /\ b \in Nat /\ b > 0
      /\ \A m \in 0 .. 5 : Low[m] \in -b .. b
      /\ Low[5] <= -1
  <2>1. Limbs = 12 /\ Half = 6 /\ Radix = 2^21 /\ Low[5] <= -1 /\ \A m \in 0 .. 5 : Low[m] \in -b .. b
      BY Sizes, Zenon
  <2>2. 2^21 = 2 * b /\ b \in Nat /\ b > 0
      BY SMT
  <2> QED BY <2>1, <2>2, Zenon
<1> HIDE DEF b
<1>2. /\ 4 \in Nat /\ 5 \in Nat /\ 6 \in Nat /\ 4 + 1 = 5 /\ 5 + 1 = 6 /\ 6 + 6 = 12 /\ 12 \in Nat
    BY SMT
<1>3. \A k \in 0 .. 5 : Low[k] \in Int
    BY <1>1
<1>4. /\ Weight(4) \in Nat /\ Weight(5) \in Nat /\ Weight(6) \in Nat /\ Weight(12) \in Nat
      /\ Weight(4) > 0 /\ Weight(6) > 0 /\ Weight(12) > 0 /\ Weight(5) = Radix * Weight(4)
      /\ Weight(6) = Radix * Weight(5) /\ Weight(12) = Weight(6) * Weight(6)
  <2>1. Weight(4 + 1) = Radix * Weight(4) /\ Weight(5 + 1) = Radix * Weight(5)
        /\ Weight(6 + 6) = Weight(6) * Weight(6)
      BY <1>2, NextWeight, WeightsMultiply, Zenon
  <2> QED BY <1>2, <2>1, WeightIs, Zenon
<1>5. LowNumber(4) \in -(b * Weight(4)) .. b * Weight(4) /\ LowNumber(6) \in -(b * Weight(6)) .. b * Weight(6)
  <2>1. /\ \A k \in 0 .. 4 - 1 : Low[k] \in -b .. b
        /\ \A k \in 0 .. 6 - 1 : Low[k] \in -b .. b
      BY <1>1
  <2> QED BY <1>1, <1>2, <2>1, SpelledNear, Zenon DEF LowNumber
<1>6. LowNumber(6) = LowNumber(4) + Low[4] * Weight(4) + Low[5] * Weight(5)
  <2>1. Number(Low, 4 + 1) = Number(Low, 4) + Low[4] * Weight(4)
        /\ Number(Low, 5 + 1) = Number(Low, 5) + Low[5] * Weight(5)
      BY <1>2, NextLimb, Zenon
  <2> QED BY <1>2, <2>1, Zenon DEF LowNumber
<1>7. Low[4] * Weight(4) \in -(b * Weight(4)) .. b * Weight(4)
  <2>1. Low[4] \in -b .. b /\ Low[4] \in Int /\ Weight(4) \in Int /\ Weight(4) \in -Weight(4) .. Weight(4)
      BY <1>1, <1>3, <1>4
  <2> QED BY <1>1, <1>4, <2>1, ProductWithin
<1>8. Low[5] * Weight(5) <= -Weight(5) /\ Low[5] * Weight(5) \in Int
  <2>1. Low[5] \in Int /\ -1 \in Int /\ Low[5] <= -1
      BY <1>1, <1>3
  <2>2. Low[5] * Weight(5) <= (-1) * Weight(5) /\ Low[5] * Weight(5) \in Int
      BY <1>4, <2>1, Monotonous
  <2> QED BY <1>4, <2>2
<1> DEFINE x == b * Weight(4)
<1>9. x \in Int /\ Weight(5) = 2 * x
    BY <1>1, <1>4
<1>10. LowNumber(6) <= 0
  <2> DEFINE y == Low[4] * Weight(4)
             z == Low[5] * Weight(5)
  <2>1. /\ LowNumber(6) = LowNumber(4) + y + z /\ LowNumber(4) \in -x .. x /\ y \in -x .. x
        /\ z <= -Weight(5) /\ z \in Int
      BY <1>5, <1>6, <1>7, <1>8, Zenon
  <2> HIDE DEF x, y, z
  <2> QED BY <1>9, <2>1
<1>11. b * Weight(6) <= Weight(12) /\ b * Weight(6) \in Int
  <2>1. b <= Weight(6)
    <3>1. b <= Radix /\ Radix <= Weight(6)
      <4>1. 1 <= Weight(5)
          BY <1>1, <1>4, <1>9
      <4>2. Radix * 1 <= Radix * Weight(5)
          BY <1>1, <1>4, <4>1
      <4> QED BY <1>1, <1>4, <4>2
    <3> QED BY <1>1, <1>4, <3>1
  <2>2. b * Weight(6) <= Weight(6) * Weight(6) /\ b * Weight(6) \in Int
      BY <1>1, <1>4, <2>1, Monotonous
  <2> QED BY <1>4, <2>2
<1>12. Order \in Int /\ LowNumber(6) \in Int /\ LowNumber(6) - Weight(12) = -Order
  <2>1. 6 \in 0 .. Half
      BY <1>1
  <2> QED BY <1>1, <2>1, OrderSplits, Zenon
<1>13. 2^WordBits = 16 * Weight(12)
  <2> DEFINE m == LimbBits * 12
  <2>1. WordBits = m + 4 /\ m \in Nat /\ 4 \in Nat /\ 2^4 = 16
      BY SMT DEF CodeSizes
  <2> HIDE DEF m
  <2>2. 2^(m + 4) = 2^m * 2^4
      BY <2>1, Exponents, Zenon
  <2>3. Weight(12) = 2^m
      BY Zenon DEF Weight, m
  <2>4. 2^WordBits = Weight(12) * 16
      BY <2>1, <2>2, <2>3, Zenon
  <2> QED BY <1>4, <2>4
<1> DEFINE v == b * Weight(6)
<1>14. v <= Weight(12) /\ v \in Int /\ LowNumber(6) \in -v .. v
    BY <1>5, <1>11, Zenon
<1> HIDE DEF v
<1>15. /\ Order \in Nat /\ Order > 0 /\ Weight(12) <= Order /\ Order <= 2 * Weight(12)
    BY <1>4, <1>10, <1>12, <1>14
<1> QED BY <1>4, <1>13, <1>15, Zenon

(* A number below the order that differs from x by a multiple of the order *)
(* is what x leaves.                                                       *)
LEMMA Residue ==
    ASSUME NEW x \in Int, NEW y \in Int, NEW z \in Int, NEW n \in Nat, n > 0,
           y \in 0 .. n - 1, y = x + z * n
    PROVE  y = x % n
<1> DEFINE q == x \div n
           r == x % n
<1>1. q \in Int /\ r \in 0 .. n - 1 /\ x = n * q + r
    OBVIOUS
<1> HIDE DEF q, r
<1>2. (q + z) * n = y - r /\ q + z \in Int
    BY <1>1
<1> DEFINE k == q + z
<1> HIDE DEF k
<1>3. k * n = y - r /\ k \in Int
    BY <1>2 DEF k
<1>4. ~(k >= 1)
  <2>1. k >= 1 => 1 * n <= k * n
      BY <1>3, Monotonous
  <2> QED BY <1>1, <1>3, <2>1
<1>5. ~(k <= -1)
  <2>1. k <= -1 => k * n <= (-1) * n
      BY <1>3, Monotonous
  <2> QED BY <1>1, <1>3, <2>1
<1>6. k = 0
    BY <1>3, <1>4, <1>5
<1>7. y = r
    BY <1>1, <1>3, <1>6
<1> QED BY <1>7 DEF r

(* Twelve limbs carried down to 21 bits each, what is left of them a       *)
(* quotient in limb 12 (sc.c:238-273).                                     *)
LEMMA QuotientLeft ==
    ASSUME CodeSizes, NEW s \in LimbVectors, \A i \in 0 .. 23 : s[i] \in -(2^32) .. 2^32,
           NEW u, u = CarryAll(Lowered(s), 11)
    PROVE  /\ u \in LimbVectors /\ Congruent(s, u)
           /\ Number(u, 12) \in 0 .. Weight(12) - 1
           /\ Whole(u) = Number(u, 12) + u[12] * Weight(12)
           /\ u[12] \in {0, -1}
           /\ \A i \in 13 .. 23 : u[i] = 0
<1> DEFINE t == Lowered(s)
           w == Weight(12)
           low == Number(u, 12)
<1>1. Limbs = 12 /\ 2 * Limbs = 24 /\ Radix \in Nat /\ Radix > 1
    BY Sizes, Radixes
<1>2. /\ t \in LimbVectors /\ Congruent(s, t)
      /\ \A i \in 0 .. 23 :
           /\ i <= 8 => t[i] \in -(2^38 * 2^21) .. 2^38 * 2^21
           /\ 9 <= i /\ i <= 10 => t[i] \in -(2^38 + 2^20) .. 2^38 + 2^20
           /\ i = 11 => t[i] \in -(2^20) .. 2^20
           /\ 12 <= i => t[i] = 0
    BY LoweredFits
<1> HIDE DEF t
<1>3. Whole(t) \in -w .. w - 1
    BY <1>2, LoweredNear
<1>4. \A i \in 12 .. 23 : t[i] = 0
    BY <1>2, SMT
<1>5. /\ u \in LimbVectors /\ Whole(u) = Whole(t)
      /\ \A j \in 0 .. 23 : (j < 12 => u[j] \in 0 .. Radix - 1) /\ (12 < j => u[j] = t[j])
  <2>1. 11 \in Nat /\ 11 <= 2 * Limbs - 2 /\ 11 + 1 = 12 /\ 2 * Limbs - 1 = 23
      BY <1>1
  <2>2. CarryAll(t, 11) \in Descending(t, 11 + 1)
      BY <1>2, <2>1, Descended, Zenon
  <2>3. u \in Descending(t, 12)
      BY <2>1, <2>2, Zenon DEF t
  <2> QED BY <2>1, <2>3, Zenon DEF Descending
<1>6. Congruent(s, u)
  <2>1. Congruent(t, u)
      BY <1>2, <1>5, CongruentSame, Zenon
  <2> QED BY <1>2, <1>5, <2>1, CongruentTwice, Zenon
<1>7. \A i \in 13 .. 23 : u[i] = 0
    BY <1>4, <1>5, SMT
<1>8. \A k \in 0 .. 23 : u[k] \in Int
    BY <1>1, <1>5 DEF LimbVectors
<1>9. /\ 12 \in Nat /\ 13 \in Nat /\ 24 \in Nat /\ 13 <= 24 /\ 12 + 1 = 13 /\ 24 - 1 = 23 /\ 12 - 1 = 11
    BY SMT
<1>10. low \in 0 .. w - 1
  <2>1. \A k \in 0 .. 12 - 1 : u[k] \in 0 .. Radix - 1
      BY <1>5, SMT
  <2> QED BY <1>9, <2>1, Spelled, Zenon
<1>11. Whole(u) = low + u[12] * w
  <2>1. Number(u, 24) = Number(u, 13)
    <3>1. (\A k \in 0 .. 24 - 1 : u[k] \in Int) /\ \A k \in 13 .. 24 - 1 : u[k] = 0
        BY ONLY <1>7, <1>8, <1>9
    <3> QED BY ONLY <1>9, <3>1, ZeroLimbs, Zenon
  <2>2. Number(u, 12 + 1) = Number(u, 12) + u[12] * Weight(12)
      BY <1>9, NextLimb, Zenon
  <2> QED BY <1>1, <1>9, <2>1, <2>2, Zenon DEF Whole
<1>12. w \in Nat /\ w > 0
    BY <1>9, WeightIs, Zenon
<1>13. u[12] \in Int
    BY <1>8, SMT
<1>14. u[12] \in {0, -1}
  <2> DEFINE q == u[12]
             p == q * w
  <2> HIDE DEF w, low
  <2>1. q \in Int /\ p \in Int /\ low \in 0 .. w - 1 /\ low + p \in -w .. w - 1
      BY <1>3, <1>5, <1>10, <1>11, <1>12, <1>13
  <2>2. ~(q >= 1)
    <3>1. q >= 1 => 1 * w <= q * w
        BY <1>12, <1>13, Monotonous
    <3>2. q >= 1 => w <= p
        BY <1>12, <3>1
    <3> HIDE DEF p, q
    <3> QED BY <1>12, <2>1, <3>2
  <2>3. ~(q <= -2)
    <3>1. q <= -2 => q * w <= (-2) * w
        BY <1>12, <1>13, Monotonous
    <3>2. q <= -2 => p <= -2 * w
        BY <1>12, <3>1
    <3> HIDE DEF p, q
    <3> QED BY <1>12, <2>1, <3>2
  <2> HIDE DEF p
  <2> QED BY <2>1, <2>2, <2>3
<1> QED BY <1>5, <1>6, <1>7, <1>10, <1>11, <1>14, Zenon

(* What sc.c stores is the number of the limbs modulo the order, whatever  *)
(* limbs of 32 bits it starts from (sc.c:78-347): the folds and carries    *)
(* lose nothing, and the quotient of 0 or -1 that is folded last leaves a  *)
(* number below the order.                                                 *)
LEMMA ReducedIs ==
    ASSUME CodeSizes, NEW s \in LimbVectors, \A i \in 0 .. 23 : s[i] \in -(2^32) .. 2^32
    PROVE  Reduced(s) = Whole(s) % Order /\ Reduced(s) \in 0 .. Order - 1
<1> DEFINE u == CarryAll(Lowered(s), 11)
           f == Fold(u, 12)
           r == CarryAll(f, 10)
           w == Weight(12)
<1>1. Limbs = 12 /\ Half = 6 /\ 2 * Limbs - 1 = 23 /\ Limbs - 1 = 11 /\ Limbs - 2 = 10 /\ 2 * Limbs = 24
    BY Sizes
<1>2. /\ u \in LimbVectors /\ Congruent(s, u)
      /\ Number(u, 12) \in 0 .. w - 1
      /\ Whole(u) = Number(u, 12) + u[12] * w
      /\ u[12] \in {0, -1}
      /\ \A i \in 13 .. 23 : u[i] = 0
    BY QuotientLeft
<1>3. Reduced(s) = Number(r, 12) % 2^WordBits
    BY <1>1, Zenon DEF Reduced, Stored
<1> HIDE DEF u
<1>4. /\ f \in LimbVectors
      /\ Whole(f) = Whole(u) + (u[12] * Weight(0)) * (-Order)
      /\ f[12] = 0
      /\ \A i \in 13 .. 23 : f[i] = u[i]
  <2>1. 12 \in Limbs .. 2 * Limbs - 1 /\ 12 - Limbs = 0
      BY <1>1
  <2>2. /\ f \in LimbVectors
        /\ Whole(f) = Whole(u) + (u[12] * Weight(12 - Limbs)) * (-Order)
        /\ f[12] = 0
        /\ \A i \in 0 .. 2 * Limbs - 1 : i # 12 /\ i - 12 + Limbs \notin 0 .. Half - 1 => f[i] = u[i]
      BY <1>2, <2>1, FoldKeeps, Zenon
  <2>3. \A i \in 13 .. 23 : i \in 0 .. 2 * Limbs - 1 /\ i # 12 /\ i - 12 + Limbs \notin 0 .. Half - 1
      BY <1>1
  <2>4. Whole(f) = Whole(u) + (u[12] * Weight(0)) * (-Order)
      BY <2>1, <2>2, Zenon
  <2>5. \A i \in 13 .. 23 : f[i] = u[i]
      BY <2>2, <2>3, Zenon
  <2> QED BY <2>2, <2>4, <2>5, Zenon
<1> HIDE DEF f
<1>5. /\ r \in LimbVectors /\ Whole(r) = Whole(f)
      /\ \A j \in 0 .. 23 : 11 < j => r[j] = f[j]
  <2>1. 10 \in Nat /\ 10 <= 2 * Limbs - 2 /\ 10 + 1 = 11
      BY <1>1
  <2>2. CarryAll(f, 10) \in Descending(f, 10 + 1)
      BY <1>4, <2>1, Descended, Zenon
  <2>3. r \in Descending(f, 11)
      BY <2>1, <2>2, Zenon
  <2> QED BY <1>1, <2>3, Zenon DEF Descending
<1> HIDE DEF r
<1>6. Number(r, 12) = Whole(r)
  <2>1. /\ 12 \in Nat /\ 24 \in Nat /\ 12 <= 24 /\ 24 - 1 = 23
      BY SMT
  <2>2. \A k \in 0 .. 23 : r[k] \in Int
      BY <1>1, <1>5 DEF LimbVectors
  <2>3. \A k \in 12 .. 23 : r[k] = 0
    <3>1. ASSUME NEW k \in 12 .. 23 PROVE r[k] = 0
      <4>1. k \in 0 .. 23 /\ 11 < k /\ (k = 12 \/ k \in 13 .. 23)
          BY SMT
      <4> QED BY <1>2, <1>4, <1>5, <4>1, Zenon
    <3> QED BY <3>1
  <2>4. Number(r, 24) = Number(r, 12)
      BY <2>1, <2>2, <2>3, ZeroLimbs, Zenon
  <2> QED BY <1>1, <2>4, Zenon DEF Whole
<1>7. /\ Order \in Nat /\ Order > 0 /\ w \in Nat /\ w <= Order /\ Order <= 2 * w /\ 2^WordBits = 16 * w
    BY OrderSizes, Zenon
<1>8. Weight(0) = 1
    BY FirstWeights, Zenon
<1> DEFINE n == Number(u, 12)
<1> HIDE DEF w, n
<1>9. n \in 0 .. w - 1 /\ Whole(u) = n + u[12] * w /\ u[12] \in {0, -1}
    BY <1>2, Zenon DEF n
<1>10. Whole(r) \in 0 .. Order - 1 /\ \E z \in Int : Whole(r) = Whole(u) + z * Order
  <2>1. CASE u[12] = 0
    <3>1. Whole(r) = Whole(u) + (0 * 1) * (-Order)
        BY <1>4, <1>5, <1>8, <2>1, Zenon
    <3>2. Whole(u) = n + 0 * w
        BY <1>9, <2>1, Zenon
    <3>3. Whole(r) = n /\ Whole(u) = n
        BY <1>7, <1>9, <3>1, <3>2
    <3>4. n = n + 0 * Order
        BY <1>7, <1>9
    <3>5. n \in 0 .. Order - 1
        BY <1>7, <1>9
    <3>6. 0 \in Int
        BY SMT
    <3> QED BY <3>3, <3>4, <3>5, <3>6, Zenon
  <2>2. CASE u[12] = -1
    <3>1. Whole(r) = Whole(u) + ((-1) * 1) * (-Order)
        BY <1>4, <1>5, <1>8, <2>2, Zenon
    <3>2. Whole(u) = n + (-1) * w
        BY <1>9, <2>2, Zenon
    <3>3. Whole(u) = n - w /\ Whole(r) = n - w + Order /\ Whole(r) = Whole(u) + 1 * Order
        BY <1>7, <1>9, <3>1, <3>2
    <3>4. Whole(r) \in 0 .. Order - 1
        BY <1>7, <1>9, <3>3
    <3>5. 1 \in Int
        BY SMT
    <3> QED BY <3>3, <3>4, <3>5, Zenon
  <2> QED BY <1>9, <2>1, <2>2
<1>11. PICK z \in Int : Whole(r) = Whole(s) + z * Order
  <2>1. Congruent(u, r)
      BY <1>10, Zenon DEF Congruent
  <2>2. Congruent(s, r)
      BY <1>2, <1>5, <2>1, CongruentTwice, Zenon
  <2> QED BY <2>2, Zenon DEF Congruent
<1>12. Whole(r) = Whole(s) % Order
  <2>1. Whole(s) \in Int /\ Whole(r) \in Int
      BY <1>5, WholeType, Zenon
  <2> QED BY <1>7, <1>10, <1>11, <2>1, Residue, Zenon
<1>13. Whole(r) % 2^WordBits = Whole(r)
  <2> DEFINE m == 2^WordBits
             x == Whole(r)
  <2>1. x \in 0 .. Order - 1 /\ m = 16 * w
      BY <1>7, <1>10, Zenon
  <2> HIDE DEF m, x
  <2>2. x \in 0 .. m - 1 /\ m \in Nat /\ m > 0
      BY <1>7, <2>1
  <2>3. x % m = x
      BY <2>2
  <2> QED BY <2>3, Zenon DEF m, x
<1> QED BY <1>3, <1>6, <1>10, <1>12, <1>13, Zenon

\* Bit k of a string of scalars, and the number of its lowest m bits.
BitOf(words, k) == (words[k \div WordBits + 1] \div 2^(k % WordBits)) % 2
Strung(words, m) ==
    IF m <= WordBits THEN words[1] % 2^m
    ELSE (words[1] % 2^WordBits) + 2^WordBits * (words[2] % 2^(m - WordBits))
Strings == {words \in Seq(Int) : Len(words) \in {1, 2}}

(* The lowest bits of a number, one bit more.                              *)
LEMMA BitMore ==
    ASSUME NEW x \in Int, NEW n \in Nat
    PROVE  /\ 2^n \in Nat /\ 2^n > 0 /\ 2^(n + 1) = 2 * 2^n
           /\ x % 2^n \in 0 .. 2^n - 1
           /\ (x \div 2^n) % 2 \in 0 .. 1
           /\ x % 2^(n + 1) = (x % 2^n) + ((x \div 2^n) % 2) * 2^n
<1> DEFINE p == 2^n
           q == x \div p
           r == x % p
           b == q % 2
           h == q \div 2
<1>1. p \in Nat /\ p > 0 /\ 2^(n + 1) = 2 * p
  <2>1. 2^n \in Nat /\ 2^n > 0
      BY TwoPowers, Zenon
  <2>2. 2^(n + 1) = 2^n * 2^1 /\ 2^1 = 2
    <3>1. 1 \in Nat /\ 2^1 = 2
        BY SMT
    <3> QED BY <3>1, Exponents, Zenon
  <2>3. 2^(n + 1) = 2^n * 2
      BY <2>2, Zenon
  <2> HIDE DEF p
  <2>4. p \in Nat /\ p > 0 /\ 2^(n + 1) = p * 2
      BY <2>1, <2>3, Zenon DEF p
  <2> QED BY <2>4
<1> HIDE DEF p
<1>2. q \in Int /\ r \in 0 .. p - 1 /\ x = p * q + r
    BY <1>1
<1> HIDE DEF q, r
<1>3. h \in Int /\ b \in 0 .. 1 /\ q = 2 * h + b
    BY <1>2
<1> HIDE DEF h, b
<1>4. r + b * p \in 0 .. 2 * p - 1
  <2>1. CASE b = 0
      BY <1>1, <1>2, <2>1
  <2>2. CASE b = 1
      BY <1>1, <1>2, <2>2
  <2> QED BY <1>3, <2>1, <2>2
<1>5. r + b * p = x + (-h) * (2 * p) /\ -h \in Int /\ 2 * p \in Nat /\ 2 * p > 0 /\ r + b * p \in Int
    BY <1>1, <1>2, <1>3
<1>6. r + b * p = x % (2 * p)
    BY <1>4, <1>5, Residue
<1> QED BY <1>1, <1>2, <1>3, <1>6, Zenon DEF p, q, r, b

(* A string of scalars, one bit more.                                      *)
LEMMA NextBit ==
    ASSUME NEW words \in Strings, NEW m \in 0 .. Len(words) * WordBits - 1
    PROVE  /\ Strung(words, m) \in Nat /\ Strung(words, m + 1) \in Nat
           /\ BitOf(words, m) \in 0 .. 1
           /\ Strung(words, m + 1) = Strung(words, m) + BitOf(words, m) * 2^m
<1>1. WordBits \in Nat /\ 2^WordBits \in Nat /\ 2^WordBits > 0 /\ m \in Nat
    BY ScalarAssumption, TwoPowers DEF Strings
<1>2. words[1] \in Int /\ Len(words) \in {1, 2} /\ (Len(words) = 2 => words[2] \in Int)
    BY DEF Strings
<1>3. CASE m < WordBits
  <2>1. m <= WordBits /\ m + 1 <= WordBits /\ m \div WordBits = 0 /\ m % WordBits = m
      BY <1>1, <1>3
  <2>2. BitOf(words, m) = (words[1] \div 2^m) % 2
    <3>1. 0 + 1 = 1
        BY SMT
    <3> QED BY <2>1, <3>1, Zenon DEF BitOf
  <2>3. Strung(words, m) = words[1] % 2^m /\ Strung(words, m + 1) = words[1] % 2^(m + 1)
      BY <2>1, Zenon DEF Strung
  <2>4. /\ 2^m \in Nat /\ 2^m > 0 /\ 2^(m + 1) = 2 * 2^m
        /\ words[1] % 2^m \in 0 .. 2^m - 1
        /\ (words[1] \div 2^m) % 2 \in 0 .. 1
        /\ words[1] % 2^(m + 1) = (words[1] % 2^m) + ((words[1] \div 2^m) % 2) * 2^m
      BY <1>1, <1>2, BitMore, Zenon
  <2> DEFINE b == (words[1] \div 2^m) % 2
             p == 2^m
             x == words[1] % p
             y == words[1] % 2^(m + 1)
  <2>5. p \in Nat /\ x \in 0 .. p - 1 /\ b \in 0 .. 1 /\ y = x + b * p
      BY <2>4, Zenon
  <2> HIDE DEF b, p, x, y
  <2>6. x \in Nat /\ y \in Nat
      BY <2>5
  <2> QED BY <2>2, <2>3, <2>5, <2>6, Zenon DEF b, p, x, y
<1>4. CASE m >= WordBits
  <2> DEFINE k == m - WordBits
             v == 2^WordBits
  <2>1. /\ Len(words) = 2 /\ k \in Nat /\ m = WordBits + k /\ m + 1 - WordBits = k + 1
        /\ ~(m + 1 <= WordBits) /\ (m <= WordBits => m = WordBits /\ k = 0)
        /\ m \div WordBits = 1 /\ m % WordBits = k /\ k < WordBits
    <3>1. CASE Len(words) = 1
        BY <1>1, <1>4, <3>1
    <3>2. CASE Len(words) = 2
      <4>1. m < 2 * WordBits
          BY <1>1, <3>2
      <4>2. m \div WordBits = 1 /\ m % WordBits = m - WordBits
          BY <1>1, <1>4, <4>1
      <4> QED BY <1>1, <1>4, <3>2, <4>1, <4>2
    <3> QED BY <1>2, <3>1, <3>2
  <2> HIDE DEF k
  <2>2. BitOf(words, m) = (words[2] \div 2^k) % 2
    <3>1. 1 + 1 = 2
        BY SMT
    <3> QED BY <2>1, <3>1, Zenon DEF BitOf
  <2> DEFINE w1 == words[1] % v
             b == (words[2] \div 2^k) % 2
             p == 2^k
             x == words[2] % p
             y == words[2] % 2^(k + 1)
  <2>3. p \in Nat /\ p > 0 /\ x \in 0 .. p - 1 /\ b \in 0 .. 1 /\ y = x + b * p
    <3>1. /\ 2^k \in Nat /\ 2^k > 0
          /\ words[2] % 2^k \in 0 .. 2^k - 1
          /\ (words[2] \div 2^k) % 2 \in 0 .. 1
          /\ words[2] % 2^(k + 1) = (words[2] % 2^k) + ((words[2] \div 2^k) % 2) * 2^k
        BY <1>2, <2>1, BitMore, Zenon
    <3> QED BY <3>1, Zenon
  <2>4. Strung(words, m + 1) = w1 + v * y
    <3> DEFINE j == m + 1
    <3>1. ~(j <= WordBits) /\ j - WordBits = k + 1
        BY <1>1, <2>1
    <3> HIDE DEF j
    <3>2. Strung(words, j) = (words[1] % 2^WordBits) + 2^WordBits * (words[2] % 2^(j - WordBits))
        BY <3>1, Zenon DEF Strung
    <3>3. Strung(words, j) = w1 + v * y
        BY <3>1, <3>2, Zenon
    <3> QED BY <3>3, Zenon DEF j
  <2>5. w1 \in Nat /\ v \in Nat
    <3>1. v \in Nat /\ v > 0
        BY <1>1, Zenon
    <3> HIDE DEF v
    <3> QED BY <1>2, <3>1
  <2>6. Strung(words, m) = w1 + v * x
    <3>1. CASE m <= WordBits
      <4>1. m = WordBits /\ k = 0 /\ 2^0 = 1
          BY <2>1, <3>1, SMT
      <4>2. Strung(words, m) = w1
          BY <3>1, <4>1, Zenon DEF Strung
      <4>3. p = 1
          BY <4>1, Zenon
      <4> HIDE DEF v, w1, p, x, b, y
      <4>4. x = 0
          BY <2>3, <4>3
      <4>5. w1 = w1 + v * x
          BY <2>5, <4>4
      <4> QED BY <4>2, <4>5, Zenon
    <3>2. CASE ~(m <= WordBits)
      <4>1. m - WordBits = k
          BY Zenon DEF k
      <4>2. Strung(words, m) = (words[1] % 2^WordBits) + 2^WordBits * (words[2] % 2^(m - WordBits))
          BY <3>2, Zenon DEF Strung
      <4> QED BY <4>1, <4>2, Zenon
    <3> QED BY <3>1, <3>2, Zenon
  <2>7. 2^m = v * p
      BY <1>1, <2>1, Exponents, Zenon
  <2> HIDE DEF v, w1, p, x, b, y
  <2>8. w1 + v * y = w1 + v * x + b * (v * p) /\ w1 + v * y \in Nat /\ w1 + v * x \in Nat
    <3>1. b * p \in Int /\ v * (x + b * p) = v * x + b * (v * p) /\ v * x \in Nat /\ b * (v * p) \in Nat /\ x \in Nat
      <4>1. v * (x + b * p) = v * x + v * (b * p)
          BY <2>3, <2>5
      <4>2. v * (b * p) = b * (v * p)
          BY <2>3, <2>5
      <4> QED BY <2>3, <2>5, <4>1, <4>2
    <3> QED BY <2>3, <2>5, <3>1
  <2> QED BY <2>2, <2>3, <2>4, <2>6, <2>7, <2>8, Zenon DEF b
<1> QED BY <1>1, <1>3, <1>4

\* What k turns of the loop of Bits, from the highest bit, may have read.
Reading(words, first, last, k) ==
    {n \in 0 .. 2^k - 1 : n * 2^(last + 1 - k) = Strung(words, last + 1) - Strung(words, last + 1 - k)}

Reads == INSTANCE LoopTheorems WITH
    Kept <- LAMBDA words, r, c, k : Reading(words, r[1], r[2], k),
    First <- LAMBDA words, r, c : 0,
    Turns <- LAMBDA words, r, c : r[2] + 1 - r[1],
    Before <- LAMBDA k : k - 1,
    Turn <- LAMBDA words, r, c, y, k : 2 * y + BitOf(words, r[2] + 1 - k)

(* The bits of a limb are shifted and masked out of the bytes              *)
(* (sc.c:36-59).                                                           *)
LEMMA ReadTurn ==
    ASSUME NEW words \in Strings, NEW first \in Nat, NEW last \in Nat, first <= last,
           last < Len(words) * WordBits,
           NEW k \in 1 .. last + 1 - first, NEW y \in Reading(words, first, last, k - 1)
    PROVE  2 * y + BitOf(words, last + 1 - k) \in Reading(words, first, last, k)
<1> DEFINE j == last + 1 - k
           p == 2^j
           b == BitOf(words, j)
           e == 2^(k - 1)
           whole == Strung(words, last + 1)
           some == Strung(words, j)
           more == Strung(words, j + 1)
<1>1. /\ j \in Nat /\ last + 1 - (k - 1) = j + 1 /\ k - 1 \in Nat /\ k - 1 + 1 = k /\ k \in Nat
      /\ Len(words) \in Nat /\ WordBits \in Nat /\ j <= last
    BY ScalarAssumption DEF Strings
<1>2. j \in 0 .. Len(words) * WordBits - 1 /\ last \in 0 .. Len(words) * WordBits - 1
  <2> DEFINE n == Len(words) * WordBits
  <2>1. n \in Nat /\ last < n
      BY <1>1
  <2> HIDE DEF j, n
  <2>2. j \in 0 .. n - 1 /\ last \in 0 .. n - 1
      BY <1>1, <2>1
  <2> QED BY <2>2, Zenon DEF n
<1>3. y \in 0 .. e - 1 /\ y * 2^(j + 1) = whole - more
  <2>1. y \in 0 .. 2^(k - 1) - 1 /\ y * 2^(last + 1 - (k - 1)) = whole - Strung(words, last + 1 - (k - 1))
      BY Zenon DEF Reading
  <2> QED BY <1>1, <2>1, Zenon
<1> HIDE DEF j
<1>4. some \in Nat /\ more \in Nat /\ b \in 0 .. 1 /\ more = some + b * p
    BY <1>2, NextBit, Zenon
<1>5. whole \in Nat
    BY <1>2, NextBit, Zenon
<1>6. p \in Nat /\ p > 0 /\ 2^(j + 1) = 2 * p
    BY <1>1, 0 \in Int, BitMore, Zenon
<1>7. e \in Nat /\ e > 0 /\ 2^k = 2 * e
  <2>1. e \in Nat /\ e > 0 /\ 2^(k - 1 + 1) = 2 * e
      BY <1>1, 0 \in Int, BitMore, Zenon
  <2> QED BY <1>1, <2>1, Zenon
<1>8. y * (2 * p) = whole - more
    BY <1>3, <1>6, Zenon
<1>9. y \in 0 .. e - 1
    BY <1>3
<1> HIDE DEF b, p, e, whole, some, more
<1>10. 2 * y + b \in 0 .. 2 * e - 1 /\ y \in Int /\ b \in Int
    BY <1>4, <1>7, <1>9
<1>11. (2 * y + b) * p = whole - some
  <2>1. (2 * y + b) * p = y * (2 * p) + b * p
      BY <1>6, <1>10
  <2>2. b * p \in Int /\ y * (2 * p) \in Int
      BY <1>6, <1>10
  <2> QED BY <1>4, <1>5, <1>8, <2>1, <2>2
<1>12. 2 * y + b \in 0 .. 2^k - 1
    BY <1>7, <1>10, Zenon
<1> QED BY <1>11, <1>12, Zenon DEF Reading, b, p, j, whole, some

(* The loads, shifts and masks of a limb give the bits between its first   *)
(* and its last (sc.c:36-59).                                              *)
LEMMA BitsRead ==
    ASSUME NEW words \in Strings, NEW first \in Nat, NEW last \in Nat, first <= last,
           last < Len(words) * WordBits
    PROVE  /\ Bits(words, first, last) \in 0 .. 2^(last + 1 - first) - 1
           /\ Bits(words, first, last) * 2^first = Strung(words, last + 1) - Strung(words, first)
<1> DEFINE n == last + 1 - first
           r == <<first, last>>
<1>1. n \in Nat /\ last + 1 - n = first /\ last + 1 - 0 = last + 1 /\ last + 1 \in Nat
    OBVIOUS
<1>2. r[1] = first /\ r[2] = last
    OBVIOUS
<1>3. 0 \in Reading(words, first, last, 0)
  <2>1. last \in 0 .. Len(words) * WordBits - 1
    <3> DEFINE m == Len(words) * WordBits
    <3>1. m \in Int
        BY ScalarAssumption DEF Strings
    <3> HIDE DEF m
    <3>2. last \in 0 .. m - 1
        BY <3>1 DEF m
    <3> QED BY <3>2 DEF m
  <2>2. Strung(words, last + 1) \in Nat
      BY <2>1, NextBit, Zenon
  <2>3. 2^0 = 1 /\ 2^(last + 1) \in Nat
    <3>1. 2^0 = 1
        BY SMT
    <3> QED BY <1>1, <3>1, TwoPowers, Zenon
  <2> DEFINE w == Strung(words, last + 1)
             v == 2^(last + 1)
  <2>4. w \in Nat /\ v \in Nat
      BY <2>2, <2>3, Zenon
  <2> HIDE DEF w, v
  <2>5. 0 * v = w - w /\ 0 \in 0 .. 1 - 1
      BY <2>4
  <2>6. 0 \in 0 .. 2^0 - 1
      BY <2>3, <2>5, Zenon
  <2>7. 0 * 2^(last + 1 - 0) = Strung(words, last + 1) - Strung(words, last + 1 - 0)
      BY <1>1, <2>5, Zenon DEF w, v
  <2> QED BY <2>6, <2>7, Zenon DEF Reading
<1>4. \A k \in 1 .. n : \A y \in Reading(words, first, last, k - 1) :
        2 * y + BitOf(words, last + 1 - k) \in Reading(words, first, last, k)
  <2>1. ASSUME NEW k \in 1 .. n, NEW y \in Reading(words, first, last, k - 1)
        PROVE  2 * y + BitOf(words, last + 1 - k) \in Reading(words, first, last, k)
      BY ReadTurn
  <2> QED BY <2>1, Zenon
<1>5. Reads!Run(words, r, 0) \in Reading(words, first, last, n)
  <2> HIDE DEF r
  <2>1. /\ r[2] + 1 - r[1] \in Nat
        /\ 0 \in Reading(words, r[1], r[2], 0)
        /\ \A k \in 1 .. r[2] + 1 - r[1] : \A y \in Reading(words, r[1], r[2], k - 1) :
             2 * y + BitOf(words, r[2] + 1 - k) \in Reading(words, r[1], r[2], k)
      BY <1>1, <1>2, <1>3, <1>4, Zenon
  <2>2. Reads!Run(words, r, 0) \in Reading(words, r[1], r[2], r[2] + 1 - r[1])
      BY <2>1, Reads!Looped, Zenon
  <2> QED BY <1>2, <2>2, Zenon
<1>6. Bits(words, first, last) = Reads!Run(words, r, 0)
  <2> HIDE DEF r
  <2>1. Bits(words, r[1], r[2]) = Reads!Run(words, r, 0)
      BY Zenon DEF Bits, BitOf, Reads!Run, Loop, Eagerly, Reads!Loop, Reads!Eagerly
  <2> QED BY <1>2, <2>1, Zenon
<1> HIDE DEF n
<1>7. Bits(words, first, last) \in Reading(words, first, last, n)
    BY <1>5, <1>6, Zenon
<1>8. /\ Bits(words, first, last) \in 0 .. 2^n - 1
      /\ Bits(words, first, last) * 2^(last + 1 - n) = Strung(words, last + 1) - Strung(words, last + 1 - n)
    BY <1>7, Zenon DEF Reading
<1> QED BY <1>1, <1>8, Zenon DEF n

(* The limbs a string is loaded into (sc.c:36-59, 363-398) have 21 bits,   *)
(* but for the last, and stand for the number of the string.               *)
LEMMA LoadedIs ==
    ASSUME NEW words \in Strings, NEW n \in Nat, n > 0, NEW room \in Nat, room = Len(words) * WordBits,
           (n - 1) * LimbBits < room
    PROVE  /\ Loaded(words, n) = [i \in 0 .. n - 1 |-> Loaded(words, n)[i]]
           /\ \A i \in 0 .. n - 1 : Loaded(words, n)[i] \in Nat
           /\ \A i \in 0 .. n - 2 : Loaded(words, n)[i] <= Radix - 1
           /\ Loaded(words, n)[n - 1] <= 2^(room - (n - 1) * LimbBits) - 1
           /\ Number(Loaded(words, n), n) = Strung(words, room)
<1> DEFINE t == Loaded(words, n)
           First(i) == i * LimbBits
           Last(i) == IF i = n - 1 THEN room - 1 ELSE (i + 1) * LimbBits - 1
           g == [k \in 0 .. n |-> Strung(words, IF k = n THEN room ELSE First(k))]
<1>1. LimbBits \in Nat /\ LimbBits > 0 /\ WordBits \in Nat
    BY ScalarAssumption
<1>2. t = [i \in 0 .. n - 1 |-> Bits(words, First(i), Last(i))]
    BY Zenon DEF Loaded
<1>3. ASSUME NEW i \in 0 .. n - 1
      PROVE  /\ First(i) \in Nat /\ Last(i) \in Nat /\ First(i) <= Last(i) /\ Last(i) < room
             /\ Last(i) + 1 = IF i + 1 = n THEN room ELSE First(i + 1)
             /\ i < n - 1 => Last(i) + 1 - First(i) = LimbBits
             /\ i = n - 1 => Last(i) + 1 - First(i) = room - (n - 1) * LimbBits
  <2> DEFINE f == i * LimbBits
             h == (i + 1) * LimbBits
             l == (n - 1) * LimbBits
  <2>1. f \in Nat /\ h = f + LimbBits /\ h \in Nat
      BY <1>1
  <2>2. l \in Int /\ l < room
      BY <1>1
  <2>3. CASE i = n - 1
    <3>1. First(i) = l /\ Last(i) = room - 1 /\ i + 1 = n /\ ~(i < n - 1) /\ f = l
        BY <2>3
    <3> HIDE DEF First, Last, f, h, l
    <3> QED BY <2>1, <2>2, <3>1 DEF l
  <2>4. CASE i < n - 1
    <3>1. First(i) = f /\ Last(i) = h - 1 /\ i + 1 # n /\ i # n - 1 /\ First(i + 1) = h
        BY <2>4
    <3>2. h <= l
      <4>1. i + 1 \in Int /\ n - 1 \in Int /\ i + 1 <= n - 1
          BY <2>4
      <4> QED BY <1>1, <4>1, Monotonous
    <3> HIDE DEF First, Last, f, h, l
    <3> QED BY <1>1, <2>1, <2>2, <3>1, <3>2
  <2> QED BY <2>3, <2>4
<1> HIDE DEF First, Last
<1>4. ASSUME NEW i \in 0 .. n - 1
      PROVE  /\ t[i] \in 0 .. 2^(Last(i) + 1 - First(i)) - 1
             /\ t[i] * 2^First(i) = Strung(words, Last(i) + 1) - Strung(words, First(i))
  <2>1. t[i] = Bits(words, First(i), Last(i))
      BY <1>2, Zenon
  <2>2. First(i) \in Nat /\ Last(i) \in Nat /\ First(i) <= Last(i) /\ Last(i) < Len(words) * WordBits
      BY <1>3, Zenon
  <2>3. /\ Bits(words, First(i), Last(i)) \in 0 .. 2^(Last(i) + 1 - First(i)) - 1
        /\ Bits(words, First(i), Last(i)) * 2^First(i) = Strung(words, Last(i) + 1) - Strung(words, First(i))
      BY <2>2, BitsRead, Zenon
  <2> QED BY <2>1, <2>3, Zenon
<1>5. \A i \in 0 .. n - 1 : t[i] \in Nat
  <2>1. ASSUME NEW i \in 0 .. n - 1 PROVE t[i] \in Nat
    <3> DEFINE m == 2^(Last(i) + 1 - First(i)) - 1
    <3>1. t[i] \in 0 .. m
        BY <1>4, Zenon
    <3> HIDE DEF m, t
    <3> QED BY <3>1
  <2> QED BY <2>1, Zenon
<1>6. \A i \in 0 .. n - 2 : t[i] <= Radix - 1
  <2>1. ASSUME NEW i \in 0 .. n - 2 PROVE t[i] <= Radix - 1
    <3>1. i \in 0 .. n - 1 /\ i < n - 1
        OBVIOUS
    <3>2. Last(i) + 1 - First(i) = LimbBits
        BY <1>3, <3>1, Zenon
    <3>3. t[i] \in 0 .. 2^(Last(i) + 1 - First(i)) - 1
        BY <1>4, <3>1, Zenon
    <3>4. t[i] \in 0 .. 2^LimbBits - 1
        BY <3>2, <3>3, Zenon
    <3>5. t[i] \in 0 .. Radix - 1
        BY <3>4, Zenon DEF Radix
    <3> HIDE DEF t
    <3> QED BY <3>5
  <2> QED BY <2>1, Zenon
<1>7. t[n - 1] <= 2^(room - (n - 1) * LimbBits) - 1
  <2> DEFINE i == n - 1
             m == 2^(room - (n - 1) * LimbBits) - 1
  <2>1. i \in 0 .. n - 1
      OBVIOUS
  <2>2. i = n - 1 => Last(i) + 1 - First(i) = room - (n - 1) * LimbBits
      BY <1>3, <2>1, Zenon
  <2>3. t[i] \in 0 .. 2^(Last(i) + 1 - First(i)) - 1
      BY <1>4, <2>1, Zenon
  <2>4. t[i] \in 0 .. m
      BY <2>2, <2>3, Zenon
  <2> HIDE DEF t, m
  <2>5. t[i] <= m
      BY <2>4
  <2> QED BY <2>5, Zenon DEF m
<1>8. Number(t, n) = g[n]
  <2>1. g[0] = 0
    <3>1. First(0) = 0 /\ 0 # n /\ 0 \in 0 .. n
        BY <1>1 DEF First
    <3>2. g[0] = Strung(words, 0)
        BY <3>1, Zenon
    <3>3. Strung(words, 0) = words[1] % 2^0
      <4>1. 0 <= WordBits
          BY <1>1
      <4> QED BY <4>1, Zenon DEF Strung
    <3>4. words[1] \in Int /\ 2^0 = 1
        BY SMT DEF Strings
    <3>5. words[1] % 1 = 0
        BY <3>4
    <3> QED BY <3>2, <3>3, <3>4, <3>5, Zenon
  <2>2. ASSUME NEW k \in 1 .. n PROVE g[k] = g[k - 1] + t[k - 1] * Weight(k - 1)
    <3> DEFINE i == k - 1
    <3>1. i \in 0 .. n - 1 /\ i + 1 = k /\ i # n /\ i \in 0 .. n /\ k \in 0 .. n
        OBVIOUS
    <3> HIDE DEF i
    <3>2. Last(i) + 1 = IF k = n THEN room ELSE First(k)
        BY <1>3, <3>1, Zenon
    <3>3. g[k] = Strung(words, Last(i) + 1) /\ g[i] = Strung(words, First(i))
        BY <3>1, <3>2, Zenon
    <3>4. 2^First(i) = Weight(i)
      <4>1. First(i) = LimbBits * i
          BY <1>1, <3>1 DEF First
      <4> QED BY <4>1, Zenon DEF Weight
    <3>5. t[i] * Weight(i) = g[k] - g[i]
        BY <1>4, <3>1, <3>3, <3>4, Zenon
    <3>6. g[k] \in Nat /\ g[i] \in Nat /\ t[i] * Weight(i) \in Int
      <4>1. First(i) \in Nat /\ Last(i) \in Nat /\ First(i) <= Last(i) /\ Last(i) < room
          BY <1>3, <3>1, Zenon
      <4>2. First(i) \in 0 .. room - 1 /\ Last(i) \in 0 .. room - 1
        <5> HIDE DEF First, Last
        <5> QED BY <4>1
      <4>3. g[k] \in Nat /\ g[i] \in Nat
          BY <3>3, <4>2, NextBit, Zenon
      <4>4. t[i] \in Nat /\ Weight(i) \in Nat
        <5>1. i \in Nat
            BY <3>1
        <5> QED BY <1>5, <3>1, <5>1, WeightIs, Zenon
      <4> QED BY <4>3, <4>4
    <3> DEFINE x == t[i] * Weight(i)
               gk == g[k]
               gi == g[i]
    <3>7. gk = gi + x
      <4>1. gk \in Nat /\ gi \in Nat /\ x \in Int /\ x = gk - gi
          BY <3>5, <3>6, Zenon
      <4> HIDE DEF gk, gi, x
      <4> QED BY <4>1
    <3> HIDE DEF g, t
    <3> QED BY ONLY <3>7, Zenon DEF i
  <2> HIDE DEF g, t
  <2>3. \A k \in 1 .. n : g[k] = g[k - 1] + t[k - 1] * Weight(k - 1)
      BY <2>2, Zenon
  <2> QED BY ONLY <2>1, <2>3, Telescoped, Zenon
<1>9. g[n] = Strung(words, room)
  <2>1. n \in 0 .. n
      OBVIOUS
  <2> QED BY <2>1, Zenon
<1>10. t = [i \in 0 .. n - 1 |-> t[i]]
    BY <1>2, Zenon
<1> HIDE DEF g
<1>11. Number(t, n) = Strung(words, room)
    BY <1>8, <1>9, Zenon
<1> QED BY <1>5, <1>6, <1>7, <1>10, <1>11, Zenon

(* A digest is loaded into limbs that the reduction takes (sc.c:36-59).    *)
LEMMA DigestLoaded ==
    ASSUME CodeSizes, NEW x \in Int, NEW y \in Int, NEW words, words = <<x, y>>
    PROVE  /\ Loaded(words, 24) \in LimbVectors
           /\ \A i \in 0 .. 23 : Loaded(words, 24)[i] \in -(2^32) .. 2^32
           /\ Whole(Loaded(words, 24)) = (x % 2^WordBits) + 2^WordBits * (y % 2^WordBits)
<1> DEFINE t == Loaded(words, 24)
           room == Len(words) * WordBits
<1>1. words \in Strings /\ Len(words) = 2 /\ words[1] = x /\ words[2] = y
    BY DEF Strings
<1>2. /\ WordBits \in Nat /\ LimbBits = 21 /\ WordBits > 0
      /\ room \in Nat /\ (24 - 1) * LimbBits < room /\ room - (24 - 1) * LimbBits = 29
      /\ ~(room <= WordBits) /\ room - WordBits = WordBits
  <2>1. WordBits = 256 /\ LimbBits = 21
      BY SMT DEF CodeSizes
  <2> QED BY <1>1, <2>1, SMT
<1> HIDE DEF room
<1>3. 24 \in Nat /\ 24 > 0 /\ 24 - 1 = 23 /\ 24 - 2 = 22 /\ room = Len(words) * WordBits
    BY SMT DEF room
<1>4. /\ t = [i \in 0 .. 24 - 1 |-> t[i]]
      /\ \A i \in 0 .. 24 - 1 : t[i] \in Nat
      /\ \A i \in 0 .. 24 - 2 : t[i] <= Radix - 1
      /\ t[24 - 1] <= 2^(room - (24 - 1) * LimbBits) - 1
      /\ Number(t, 24) = Strung(words, room)
    BY <1>1, <1>2, <1>3, LoadedIs, Zenon
<1> HIDE DEF t
<1>5. /\ t = [i \in 0 .. 23 |-> t[i]]
      /\ \A i \in 0 .. 23 : t[i] \in Nat
      /\ \A i \in 0 .. 22 : t[i] <= Radix - 1
      /\ t[23] <= 2^29 - 1
    BY <1>2, <1>3, <1>4, Zenon
<1>6. Limbs = 12 /\ Radix = 2^21 /\ 2 * Limbs = 24 /\ 2 * Limbs - 1 = 23
    BY Sizes
<1>7. t \in LimbVectors
  <2>1. t \in [0 .. 23 -> Int]
      BY <1>5
  <2>2. 2 * Limbs - 1 = 23
      BY <1>6
  <2> QED BY ONLY <2>1, <2>2, Zenon DEF LimbVectors
<1>8. ASSUME NEW i \in 0 .. 23 PROVE t[i] \in -(2^32) .. 2^32
  <2>1. t[i] \in Nat /\ (i \in 0 .. 22 \/ i = 23)
      BY <1>5
  <2>2. CASE i \in 0 .. 22
    <3>1. t[i] <= 2^21 - 1
        BY <1>5, <1>6, <2>2, Zenon
    <3> QED BY <2>1, <3>1, SMT
  <2>3. CASE i = 23
    <3>1. t[i] <= 2^29 - 1
        BY <1>5, <2>3, Zenon
    <3> QED BY <2>1, <3>1, SMT
  <2> QED BY <2>1, <2>2, <2>3, Zenon
<1>9. Whole(t) = (x % 2^WordBits) + 2^WordBits * (y % 2^WordBits)
  <2>1. Strung(words, room) = (x % 2^WordBits) + 2^WordBits * (y % 2^WordBits)
    <3>1. Strung(words, room) = (words[1] % 2^WordBits) + 2^WordBits * (words[2] % 2^(room - WordBits))
      <4>1. ~(room <= WordBits)
          BY <1>2, Zenon
      <4> QED BY <4>1, Zenon DEF Strung
    <3>2. room - WordBits = WordBits
        BY <1>2, Zenon
    <3> QED BY <1>1, <3>1, <3>2, Zenon
  <2>2. Whole(t) = Number(t, 24)
      BY <1>6, Zenon DEF Whole
  <2> QED BY <1>4, <2>1, <2>2, Zenon
<1> QED BY <1>7, <1>8, <1>9, Zenon DEF t

(* What leaves sc_reduce is below the order (sc.c:35-347).                 *)
LEMMA DigestBelow ==
    ASSUME CodeSizes, NEW words \in Int \X Int
    PROVE  sc_reduce(words) \in 0 .. Order - 1 /\ sc_reduce(words) \in Nat
<1>1. words[1] \in Int /\ words[2] \in Int /\ words = <<words[1], words[2]>>
    OBVIOUS
<1>2. /\ Loaded(words, 24) \in LimbVectors
      /\ \A i \in 0 .. 23 : Loaded(words, 24)[i] \in -(2^32) .. 2^32
    BY <1>1, DigestLoaded, Zenon
<1>3. Reduced(Loaded(words, 24)) \in 0 .. Order - 1
    BY <1>2, ReducedIs, Zenon
<1>4. sc_reduce(words) = Reduced(Loaded(words, 24))
  <2>1. 2 * Limbs = 24
      BY Sizes
  <2> QED BY <2>1, Zenon DEF sc_reduce
<1>5. sc_reduce(words) \in 0 .. Order - 1
    BY <1>3, <1>4, Zenon
<1> QED BY <1>5, OrderSizes

(* A digest of 512 bits is reduced exactly: the folds with the signed      *)
(* limbs of the order and the carries between them lose nothing and leave  *)
(* the one representative below the order (sc.c:35-347).                   *)
THEOREM DigestReduced ==
    ASSUME CodeSizes, NEW x \in 0 .. 2^WordBits - 1, NEW y \in 0 .. 2^WordBits - 1
    PROVE  sc_reduce(<<x, y>>) = (x + 2^WordBits * y) % Order
<1> DEFINE words == <<x, y>>
           v == 2^WordBits
<1>1. x \in Int /\ y \in Int
    OBVIOUS
<1>2. /\ Loaded(words, 24) \in LimbVectors
      /\ \A i \in 0 .. 23 : Loaded(words, 24)[i] \in -(2^32) .. 2^32
      /\ Whole(Loaded(words, 24)) = (x % v) + v * (y % v)
    BY <1>1, DigestLoaded, Zenon
<1> HIDE DEF words
<1>3. Reduced(Loaded(words, 24)) = Whole(Loaded(words, 24)) % Order
    BY <1>2, ReducedIs, Zenon
<1>4. sc_reduce(words) = Reduced(Loaded(words, 24))
  <2>1. 2 * Limbs = 24
      BY Sizes
  <2> QED BY <2>1, Zenon DEF sc_reduce
<1>5. x % v = x /\ y % v = y
  <2>1. v \in Nat /\ v > 0 /\ x \in 0 .. v - 1 /\ y \in 0 .. v - 1
      BY ScalarAssumption, TwoPowers, Zenon
  <2> HIDE DEF v
  <2> QED BY <2>1
<1> QED BY <1>2, <1>3, <1>4, <1>5, Zenon DEF words, v

\* x times the limbs of u, added to those of s from limb j on.
ShiftAdded(s, x, u, j) ==
    [i \in 0 .. 2 * Limbs - 1 |-> IF i - j \in 0 .. Limbs - 1 THEN s[i] + x * u[i - j] ELSE s[i]]

(* Limb j of a factor times the limbs u of the other, added from limb j on *)
(* (sc.c:447-469), is their product at the weight of limb j.               *)
LEMMA ProductAdded ==
    ASSUME NEW s \in LimbVectors, NEW j \in 0 .. Limbs - 1, NEW x \in Int,
           NEW u, \A m \in 0 .. Limbs - 1 : u[m] \in Int
    PROVE  /\ ShiftAdded(s, x, u, j) \in LimbVectors
           /\ Whole(ShiftAdded(s, x, u, j)) = Whole(s) + (x * Weight(j)) * Number(u, Limbs)
<1> DEFINE n == 2 * Limbs
           t == ShiftAdded(s, x, u, j)
           w == Weight(j)
           e == [k \in 0 .. n |->
                   IF k <= j THEN 0 ELSE IF k <= j + Limbs THEN (x * w) * Number(u, k - j)
                   ELSE (x * w) * Number(u, Limbs)]
<1>1. Limbs \in Nat /\ Limbs > 0 /\ n \in Nat /\ j \in Nat /\ j + Limbs <= n - 1
    BY Radixes
<1>2. w \in Int
    BY <1>1, WeightIs, Zenon
<1>3. \A i \in 0 .. n - 1 : s[i] \in Int
    BY DEF LimbVectors
<1>4. \A i \in 0 .. n - 1 : t[i] = IF i - j \in 0 .. Limbs - 1 THEN s[i] + x * u[i - j] ELSE s[i]
    BY Zenon DEF ShiftAdded
<1>5. t = [i \in 0 .. n - 1 |-> t[i]]
    BY Zenon DEF ShiftAdded
<1> HIDE DEF w, t
<1>6. \A i \in 0 .. n - 1 : t[i] \in Int
  <2> SUFFICES ASSUME NEW i \in 0 .. n - 1 PROVE t[i] \in Int
      OBVIOUS
  <2>1. CASE i - j \in 0 .. Limbs - 1
    <3>1. t[i] = s[i] + x * u[i - j] /\ u[i - j] \in Int /\ s[i] \in Int
        BY <1>3, <1>4, <2>1, Zenon
    <3>2. x * u[i - j] \in Int
        BY <3>1
    <3> QED BY <3>1, <3>2
  <2>2. CASE i - j \notin 0 .. Limbs - 1
      BY <1>3, <1>4, <2>2, Zenon
  <2> QED BY <2>1, <2>2
<1>7. t \in LimbVectors
    BY <1>5, <1>6 DEF LimbVectors
<1>8. ASSUME NEW m \in 0 .. Limbs
      PROVE  Number(u, m) \in Int /\ (x * w) * Number(u, m) \in Int /\ x * w \in Int
  <2>1. m \in Nat /\ \A k \in 0 .. m - 1 : u[k] \in Int
      BY <1>1
  <2>2. Number(u, m) \in Int
      BY <2>1, NumberType, Zenon
  <2> QED BY <1>2, <2>2
<1>9. \A k \in 0 .. n : e[k] \in Int
  <2> SUFFICES ASSUME NEW k \in 0 .. n PROVE e[k] \in Int
      OBVIOUS
  <2>1. e[k] = IF k <= j THEN 0 ELSE IF k <= j + Limbs THEN (x * w) * Number(u, k - j)
               ELSE (x * w) * Number(u, Limbs)
      BY Zenon
  <2>2. ~(k <= j) /\ k <= j + Limbs => k - j \in 0 .. Limbs
      BY <1>1
  <2>3. Limbs \in 0 .. Limbs /\ 0 \in Int
      BY <1>1
  <2> HIDE DEF e
  <2> QED BY <1>8, <2>1, <2>2, <2>3, Zenon
<1>10. e[0] = 0 /\ e[n] = (x * w) * Number(u, Limbs)
  <2>1. 0 \in 0 .. n /\ n \in 0 .. n /\ 0 <= j /\ ~(n <= j) /\ ~(n <= j + Limbs)
      BY <1>1
  <2> QED BY <2>1, Zenon
<1>11. ASSUME NEW k \in 1 .. n
       PROVE  e[k] = e[k - 1] + (t[k - 1] - s[k - 1]) * Weight(k - 1)
  <2> DEFINE i == k - 1
             v == Weight(i)
  <2>1. /\ i \in 0 .. n - 1 /\ i \in Nat /\ k \in 0 .. n /\ i \in 0 .. n /\ k = i + 1
      BY <1>1
  <2>2. v \in Int /\ s[i] \in Int
      BY <1>3, <2>1, WeightIs, Zenon
  <2>3. /\ e[k] = IF k <= j THEN 0 ELSE IF k <= j + Limbs THEN (x * w) * Number(u, k - j)
                  ELSE (x * w) * Number(u, Limbs)
        /\ e[i] = IF i <= j THEN 0 ELSE IF i <= j + Limbs THEN (x * w) * Number(u, i - j)
                  ELSE (x * w) * Number(u, Limbs)
      BY <2>1, Zenon
  <2>4. e[k] \in Int /\ e[i] \in Int
      BY <1>9, <2>1, Zenon
  <2> HIDE DEF e
  <2>5. ASSUME t[i] = s[i] PROVE (t[i] - s[i]) * v = 0
      BY <2>2, <2>5
  <2>6. CASE i < j
    <3>1. i - j \notin 0 .. Limbs - 1 /\ k <= j /\ i <= j
        BY <1>1, <2>1, <2>6
    <3>2. t[i] = s[i] /\ e[k] = 0 /\ e[i] = 0
        BY <1>4, <2>1, <2>3, <3>1, Zenon
    <3>3. (t[i] - s[i]) * v = 0
        BY <2>5, <3>2, Zenon
    <3>4. e[k] = e[i] + (t[i] - s[i]) * v
      <4> HIDE DEF v, i
      <4>1. 0 = 0 + 0
          OBVIOUS
      <4> QED BY <3>2, <3>3, <4>1, Zenon
    <3> QED BY <3>4, Zenon DEF i, v
  <2>7. CASE i - j \in 0 .. Limbs - 1
    <3> DEFINE m == i - j
               f == u[m]
    <3>1. m \in Nat /\ j + m = i /\ k - j = m + 1 /\ m \in 0 .. Limbs /\ m + 1 \in 0 .. Limbs
          /\ ~(k <= j) /\ k <= j + Limbs /\ (i <= j => m = 0) /\ i <= j + Limbs
        BY <1>1, <2>1, <2>7
    <3>2. f \in Int /\ Number(u, m) \in Int /\ Number(u, m + 1) = Number(u, m) + f * Weight(m)
      <4>1. Number(u, m) \in Int
          BY <1>8, <3>1, Zenon
      <4>2. Number(u, m + 1) = Number(u, m) + u[m] * Weight(m)
          BY <3>1, NextLimb, Zenon
      <4> QED BY <2>7, <4>1, <4>2, Zenon
    <3>3. v = w * Weight(m) /\ Weight(m) \in Int
      <4>1. Weight(j + m) = Weight(j) * Weight(m) /\ Weight(m) \in Int
          BY <1>1, <3>1, WeightsMultiply, WeightIs, Zenon
      <4> QED BY <3>1, <4>1, Zenon DEF w
    <3>4. t[i] = s[i] + x * f
        BY <1>4, <2>1, <2>7, Zenon
    <3>5. (t[i] - s[i]) * v = (x * f) * (w * Weight(m))
      <4>1. x * f \in Int
          BY <3>2
      <4> HIDE DEF f, i, v
      <4>2. t[i] - s[i] = x * f
          BY <2>2, <3>4, <4>1
      <4> QED BY <3>3, <4>2
    <3>6. e[k] = (x * w) * Number(u, m + 1) /\ e[i] = (x * w) * Number(u, m)
      <4>1. e[k] = (x * w) * Number(u, m + 1)
          BY <2>3, <3>1, Zenon
      <4>2. e[i] = (x * w) * Number(u, m)
        <5>1. CASE i <= j
          <6>1. m = 0 /\ e[i] = 0
              BY <2>3, <3>1, <5>1, Zenon
          <6>2. Number(u, 0) = 0
              BY NextLimb, 0 \in Nat, Zenon
          <6>3. (x * w) * 0 = 0
              BY <1>2
          <6> QED BY <6>1, <6>2, <6>3, Zenon
        <5>2. CASE ~(i <= j)
            BY <2>3, <3>1, <5>2, Zenon
        <5> QED BY <5>1, <5>2, Zenon
      <4> QED BY <4>1, <4>2, Zenon
    <3> HIDE DEF f, i, v, m
    <3>7. (x * w) * (Number(u, m) + f * Weight(m)) = (x * w) * Number(u, m) + (x * f) * (w * Weight(m))
        BY <1>2, <3>2, <3>3, Regroups
    <3>8. e[k] = e[i] + (t[i] - s[i]) * v
        BY <3>2, <3>5, <3>6, <3>7, Zenon
    <3> QED BY <3>8, Zenon DEF i, v
  <2>8. CASE j + Limbs <= i
    <3> DEFINE h == (x * w) * Number(u, Limbs)
    <3>1. /\ i - j \notin 0 .. Limbs - 1 /\ ~(k <= j) /\ ~(k <= j + Limbs) /\ ~(i <= j)
          /\ (i <= j + Limbs => i - j = Limbs)
        BY <1>1, <2>1, <2>8
    <3>2. t[i] = s[i] /\ e[k] = h
        BY <1>4, <2>1, <2>3, <3>1, Zenon
    <3>3. e[i] = h
      <4>1. CASE i <= j + Limbs
        <5>1. e[i] = (x * w) * Number(u, i - j)
            BY <2>3, <3>1, <4>1, Zenon
        <5> QED BY <3>1, <4>1, <5>1, Zenon
      <4>2. CASE ~(i <= j + Limbs)
        <5>1. e[i] = (x * w) * Number(u, Limbs)
          <6>1. ~(i <= j)
              BY <3>1
          <6>2. e[i] = IF i <= j THEN 0 ELSE IF i <= j + Limbs THEN (x * w) * Number(u, i - j)
                       ELSE (x * w) * Number(u, Limbs)
              BY <2>3
          <6> QED BY ONLY <4>2, <6>1, <6>2, Zenon
        <5> QED BY ONLY <5>1, Zenon DEF h
      <4> QED BY <4>1, <4>2, Zenon
    <3>4. (t[i] - s[i]) * v = 0
        BY <2>5, <3>2, Zenon
    <3> HIDE DEF h, v, i
    <3>5. h = h + 0
        BY <2>4, <3>2
    <3>6. e[k] = e[i] + (t[i] - s[i]) * v
        BY <3>2, <3>3, <3>4, <3>5, Zenon
    <3> QED BY <3>6, Zenon DEF i, v
  <2>9. i < j \/ i - j \in 0 .. Limbs - 1 \/ j + Limbs <= i
      BY <1>1, <2>1
  <2> QED BY <2>6, <2>7, <2>8, <2>9
<1>12. Number(t, n) = Number(s, n) + e[n]
  <2> HIDE DEF e, n
  <2>1. \A k \in 0 .. n - 1 : s[k] \in Int /\ t[k] \in Int
      BY <1>3, <1>6
  <2>2. n \in Nat
      BY <1>1
  <2>3. e[0] = 0
      BY <1>10
  <2>4. \A k \in 1 .. n : e[k] = e[k - 1] + (t[k - 1] - s[k - 1]) * Weight(k - 1)
      BY <1>11
  <2>5. Ahead(n, s, t, e)
      BY ONLY <1>9, <2>1, <2>3, <2>4, Zenon DEF Ahead
  <2> QED BY ONLY <2>2, <2>5, Compared, Zenon
<1> QED BY <1>7, <1>10, <1>12, Zenon DEF Whole, w, t

\* The limbs of a scalar: digits, but for the last, which has four bits more.
ScalarLimbs == {u \in [0 .. 11 -> Nat] : u[11] <= 2^25 /\ \A i \in 0 .. 10 : u[i] <= 2^21}

\* A row of the product: limb i - 1 of al times bl.
RowAdded(al, bl, t, i) ==
    [k \in DOMAIN t |-> IF k - i + 1 \in 0 .. Limbs - 1 THEN t[k] + al[i - 1] * bl[k - i + 1] ELSE t[k]]

\* What the first i rows of al times bl, added to s, may have left.
Rowed(s, al, bl, i) ==
    {t \in LimbVectors :
       /\ Whole(t) = Whole(s) + Number(al, i) * Number(bl, 12)
       /\ \A k \in 0 .. 21 : t[k] \in 0 .. 2^25 + i * (2^25 * 2^21)
       /\ t[22] \in 0 .. (IF i = 12 THEN 2^25 * 2^25 ELSE 0)
       /\ t[23] = 0}

\* A scalar's limbs as the lower ones of a product.
Widened(u) == [k \in 0 .. (2 * Limbs - 1) |-> IF k < Limbs THEN u[k] ELSE 0]

Rows == INSTANCE LoopTheorems WITH
    Kept <- LAMBDA al, bl, cl, k : Rowed(Widened(cl), al, bl, k),
    First <- LAMBDA al, bl, cl : Widened(cl),
    Turns <- LAMBDA al, bl, cl : Limbs,
    Before <- LAMBDA k : k - 1,
    Turn <- LAMBDA al, bl, cl, y, k : RowAdded(al, bl, y, k)

(* A scalar of 256 bits is loaded into its limbs (sc.c:363-398).           *)
LEMMA WordLoaded ==
    ASSUME CodeSizes, NEW x \in Int
    PROVE  Loaded(<<x>>, 12) \in ScalarLimbs /\ Number(Loaded(<<x>>, 12), 12) = x % 2^WordBits
<1> DEFINE words == <<x>>
           t == Loaded(words, 12)
           room == Len(words) * WordBits
<1>1. words \in Strings /\ Len(words) = 1 /\ words[1] = x
    BY DEF Strings
<1>2. /\ room \in Nat /\ (12 - 1) * LimbBits < room /\ room - (12 - 1) * LimbBits = 25
      /\ room = WordBits /\ room <= WordBits
  <2>1. WordBits = 256 /\ LimbBits = 21
      BY SMT DEF CodeSizes
  <2> QED BY <1>1, <2>1, SMT
<1> HIDE DEF room, words
<1>3. 12 \in Nat /\ 12 > 0 /\ 12 - 1 = 11 /\ 12 - 2 = 10
    BY SMT
<1>4. /\ t = [i \in 0 .. 12 - 1 |-> t[i]]
      /\ \A i \in 0 .. 12 - 1 : t[i] \in Nat
      /\ \A i \in 0 .. 12 - 2 : t[i] <= Radix - 1
      /\ t[12 - 1] <= 2^(room - (12 - 1) * LimbBits) - 1
      /\ Number(t, 12) = Strung(words, room)
  <2>1. room = Len(words) * WordBits
      BY Zenon DEF room
  <2> QED BY <1>1, <1>2, <1>3, <2>1, LoadedIs, Zenon
<1> HIDE DEF t
<1>5. /\ t = [i \in 0 .. 11 |-> t[i]]
      /\ \A i \in 0 .. 11 : t[i] \in Nat
      /\ \A i \in 0 .. 10 : t[i] <= Radix - 1
      /\ t[11] <= 2^25 - 1
    BY <1>2, <1>3, <1>4, Zenon
<1>6. Radix = 2^21
    BY Sizes
<1>7. t \in ScalarLimbs
  <2>1. t \in [0 .. 11 -> Nat]
      BY <1>5
  <2>2. t[11] <= 2^25
    <3>1. t[11] \in Nat /\ t[11] <= 2^25 - 1
        BY <1>5
    <3> QED BY <3>1, SMT
  <2>3. \A i \in 0 .. 10 : t[i] <= 2^21
    <3>1. ASSUME NEW i \in 0 .. 10 PROVE t[i] <= 2^21
      <4>1. t[i] \in Nat /\ t[i] <= 2^21 - 1
          BY <1>5, <1>6
      <4> QED BY <4>1, SMT
    <3> QED BY <3>1
  <2> QED BY <2>1, <2>2, <2>3, Zenon DEF ScalarLimbs
<1>8. Strung(words, room) = x % 2^WordBits
    BY <1>1, <1>2, Zenon DEF Strung
<1> QED BY <1>4, <1>7, <1>8, Zenon DEF t, words

(* What one limb of a adds to the limbs of a * b + c (sc.c:447-469); only  *)
(* the last reaches limb 22, and no sum outgrows a word of 64 bits.        *)
LEMMA RowTurn ==
    ASSUME CodeSizes, NEW s \in LimbVectors, NEW al \in ScalarLimbs, NEW bl \in ScalarLimbs,
           NEW i \in 1 .. 12, NEW y \in Rowed(s, al, bl, i - 1)
    PROVE  RowAdded(al, bl, y, i) \in Rowed(s, al, bl, i)
<1> DEFINE j == i - 1
           x == al[j]
           t == RowAdded(al, bl, y, i)
           b0 == 2^25
           b1 == 2^21
           c == b0 * b1
<1>1. Limbs = 12 /\ 2 * Limbs - 1 = 23 /\ Limbs - 1 = 11 /\ 2 * Limbs = 24
    BY Sizes
<1>2. j \in 0 .. 11 /\ j \in Nat /\ i \in Nat /\ j + 1 = i /\ j \in 0 .. Limbs - 1 /\ j # 12 /\ i - 1 = j
    BY <1>1
<1>3. b0 \in Nat /\ b1 \in Nat /\ c \in Nat
    BY SMT
<1> HIDE DEF j, b0, b1
<1>4. /\ y \in LimbVectors
      /\ Whole(y) = Whole(s) + Number(al, j) * Number(bl, 12)
      /\ \A k \in 0 .. 21 : y[k] \in 0 .. b0 + j * c
      /\ y[22] \in 0 .. (IF j = 12 THEN b0 * b0 ELSE 0)
      /\ y[23] = 0
    BY <1>2, Zenon DEF Rowed, b0, b1
<1>5. /\ \A m \in 0 .. 11 : al[m] \in Nat /\ bl[m] \in Nat /\ al[m] \in Int /\ bl[m] \in Int
      /\ \A m \in 0 .. 10 : al[m] <= b1 /\ bl[m] <= b1
      /\ al[11] <= b0 /\ bl[11] <= b0
    BY DEF ScalarLimbs, b0, b1
<1>6. x \in Int /\ x \in Nat
    BY <1>2, <1>5
<1>7. t = [k \in 0 .. 2 * Limbs - 1 |-> IF k - j \in 0 .. Limbs - 1 THEN y[k] + x * bl[k - j] ELSE y[k]]
  <2>1. DOMAIN y = 0 .. 2 * Limbs - 1
      BY <1>4 DEF LimbVectors
  <2>2. \A k \in 0 .. 2 * Limbs - 1 : k - i + 1 = k - j
      BY <1>1, <1>2
  <2>3. t = [k \in 0 .. 2 * Limbs - 1 |->
               IF k - i + 1 \in 0 .. Limbs - 1 THEN y[k] + al[i - 1] * bl[k - i + 1] ELSE y[k]]
      BY <2>1, Zenon DEF RowAdded
  <2> HIDE DEF t
  <2>4. \A k \in 0 .. 2 * Limbs - 1 : t[k] = IF k - j \in 0 .. Limbs - 1 THEN y[k] + x * bl[k - j] ELSE y[k]
    <3> SUFFICES ASSUME NEW k \in 0 .. 2 * Limbs - 1
                 PROVE  t[k] = IF k - j \in 0 .. Limbs - 1 THEN y[k] + x * bl[k - j] ELSE y[k]
        OBVIOUS
    <3>1. t[k] = IF k - i + 1 \in 0 .. Limbs - 1 THEN y[k] + al[i - 1] * bl[k - i + 1] ELSE y[k]
        BY <2>3, Zenon
    <3> QED BY <1>2, <2>2, <3>1, Zenon
  <2>5. t = [k \in 0 .. 2 * Limbs - 1 |-> t[k]]
      BY <2>3, Zenon
  <2> QED BY <2>4, <2>5, Zenon
<1> HIDE DEF t
<1>16. t = ShiftAdded(y, x, bl, j)
    BY <1>7, Zenon DEF ShiftAdded
<1> HIDE DEF x
<1>8. t \in LimbVectors /\ Whole(t) = Whole(y) + (x * Weight(j)) * Number(bl, 12)
  <2>1. \A m \in 0 .. Limbs - 1 : bl[m] \in Int
      BY <1>1, <1>5
  <2>2. t \in LimbVectors /\ Whole(t) = Whole(y) + (x * Weight(j)) * Number(bl, Limbs)
    <3>1. y \in LimbVectors /\ j \in 0 .. Limbs - 1 /\ x \in Int
        BY <1>2, <1>4, <1>6, Zenon
    <3>2. /\ ShiftAdded(y, x, bl, j) \in LimbVectors
          /\ Whole(ShiftAdded(y, x, bl, j)) = Whole(y) + (x * Weight(j)) * Number(bl, Limbs)
        BY <2>1, <3>1, ProductAdded, Zenon
    <3> QED BY <1>16, <3>2, Zenon
  <2> QED BY <1>1, <2>2, Zenon
<1>9. Whole(t) = Whole(s) + Number(al, i) * Number(bl, 12)
  <2> DEFINE a0 == Number(al, j)
             a1 == x * Weight(j)
             n == Number(bl, 12)
  <2>1. Number(al, i) = a0 + a1
    <3>1. Number(al, j + 1) = Number(al, j) + al[j] * Weight(j)
        BY <1>2, NextLimb, Zenon
    <3> QED BY <1>2, <3>1, Zenon DEF x
  <2>2. a0 \in Int /\ a1 \in Int /\ n \in Int /\ Whole(s) \in Int
    <3>1. \A m \in 0 .. j - 1 : al[m] \in Int
        BY <1>2, <1>5
    <3>2. \A m \in 0 .. 12 - 1 : bl[m] \in Int
        BY <1>5
    <3>3. a0 \in Int
      <4> HIDE DEF j
      <4> QED BY <1>2, <3>1, NumberType, Zenon
    <3>4. n \in Int
        BY <3>2, 12 \in Nat, NumberType, Zenon
    <3>5. Weight(j) \in Int
        BY <1>2, WeightIs, Zenon
    <3>6. a1 \in Int
        BY <1>6, <3>5
    <3>7. Whole(s) \in Int
        BY WholeType, Zenon
    <3> QED BY <3>3, <3>4, <3>6, <3>7, Zenon
  <2>3. Whole(t) = Whole(s) + a0 * n + a1 * n
      BY <1>4, <1>8, Zenon
  <2> HIDE DEF a0, a1, n
  <2>4. Whole(t) = Whole(s) + (a0 + a1) * n
    <3>1. (a0 + a1) * n = a0 * n + a1 * n /\ a0 * n \in Int /\ a1 * n \in Int
        BY <2>2
    <3> QED BY <2>2, <2>3, <3>1
  <2> QED BY <2>1, <2>4, Zenon DEF n
<1>10. ASSUME NEW k \in 0 .. 23
       PROVE  t[k] = IF k - j \in 0 .. 11 THEN y[k] + x * bl[k - j] ELSE y[k]
    BY <1>1, <1>7, Zenon
<1>11. ASSUME NEW k \in 0 .. 21, k - j \in 0 .. 11 PROVE x * bl[k - j] \in 0 .. c
  <2> DEFINE z == bl[k - j]
  <2>1. z \in Nat /\ z \in Int
      BY <1>5, <1>11
  <2>2. CASE j = 11
    <3>1. x <= b0 /\ z <= b1
      <4>1. k - j \in 0 .. 10
          BY <1>11, <2>2
      <4> QED BY <1>5, <2>2, <4>1, Zenon DEF x
    <3> HIDE DEF z
    <3>2. x \in -b0 .. b0 /\ z \in -b1 .. b1
        BY <1>3, <1>6, <2>1, <3>1
    <3>3. x * z \in -(b0 * b1) .. b0 * b1
        BY <1>3, <1>6, <2>1, <3>2, ProductWithin, Zenon
    <3>4. x * z \in Nat
        BY <1>6, <2>1
    <3> HIDE DEF c
    <3>5. x * z \in 0 .. c
      <4>1. x * z \in -c .. c
          BY <3>3, Zenon DEF c
      <4> QED BY <1>3, <3>4, <4>1
    <3> QED BY <3>5, Zenon DEF z
  <2>3. CASE j # 11
    <3>1. x <= b1 /\ z <= b0
      <4>1. j \in 0 .. 10 /\ (k - j \in 0 .. 10 \/ k - j = 11)
          BY <1>2, <1>11, <2>3
      <4>2. x <= b1
          BY <1>5, <4>1, Zenon DEF x
      <4>3. b1 <= b0
          BY SMT DEF b0, b1
      <4>4. CASE k - j \in 0 .. 10
        <5>1. z <= b1
            BY <1>5, <4>4, Zenon
        <5> HIDE DEF z
        <5> QED BY <1>3, <2>1, <4>2, <4>3, <5>1
      <4>5. CASE k - j = 11
        <5>1. z <= b0
            BY <1>5, <4>5, Zenon
        <5> QED BY <4>2, <5>1, Zenon
      <4> QED BY <4>1, <4>4, <4>5
    <3> HIDE DEF z
    <3>2. x \in -b1 .. b1 /\ z \in -b0 .. b0
        BY <1>3, <1>6, <2>1, <3>1
    <3>3. x * z \in -(b1 * b0) .. b1 * b0
        BY <1>3, <1>6, <2>1, <3>2, ProductWithin, Zenon
    <3>4. x * z \in Nat /\ b1 * b0 = c
        BY <1>3, <1>6, <2>1
    <3> HIDE DEF c
    <3>5. x * z \in 0 .. c
      <4>1. x * z \in -c .. c
          BY <3>3, <3>4, Zenon
      <4> QED BY <1>3, <3>4, <4>1
    <3> QED BY <3>5, Zenon DEF z
  <2> QED BY <2>2, <2>3
<1> HIDE DEF c
<1>12. ASSUME NEW k \in 0 .. 21 PROVE t[k] \in 0 .. b0 + i * c
  <2>1. i * c = j * c + c /\ j * c \in Nat /\ i * c \in Nat
      BY <1>2, <1>3
  <2> DEFINE jc == j * c
             ic == i * c
  <2>2. y[k] \in 0 .. b0 + jc /\ k \in 0 .. 23
      BY <1>4
  <2> HIDE DEF jc, ic
  <2>3. ic = jc + c /\ jc \in Nat
      BY <2>1, Zenon DEF jc, ic
  <2>4. CASE k - j \in 0 .. 11
    <3> DEFINE z == x * bl[k - j]
    <3>1. z \in 0 .. c /\ t[k] = y[k] + z
        BY <1>10, <1>11, <2>2, <2>4, Zenon
    <3> HIDE DEF z
    <3>2. t[k] \in 0 .. b0 + ic
        BY <1>3, <2>2, <2>3, <3>1
    <3> QED BY <3>2, Zenon DEF ic
  <2>5. CASE k - j \notin 0 .. 11
    <3>1. t[k] = y[k]
        BY <1>10, <2>2, <2>5, Zenon
    <3>2. t[k] \in 0 .. b0 + ic
        BY <1>3, <2>2, <2>3, <3>1
    <3> QED BY <3>2, Zenon DEF ic
  <2> QED BY <2>4, <2>5
<1>13. t[22] \in 0 .. (IF i = 12 THEN b0 * b0 ELSE 0)
  <2>1. y[22] = 0
      BY <1>2, <1>4
  <2>2. CASE j = 11
    <3> DEFINE z == bl[11]
    <3>1. 22 \in 0 .. 23 /\ 22 - j = 11 /\ 22 - j \in 0 .. 11 /\ i = 12
        BY <1>2, <2>2
    <3>2. t[22] = y[22] + x * z
        BY <1>10, <3>1, Zenon
    <3>3. z \in Nat /\ z \in Int /\ z <= b0 /\ x <= b0
      <4>1. x <= b0
          BY <1>5, <2>2, Zenon DEF x
      <4> QED BY <1>5, <4>1
    <3> HIDE DEF z
    <3>4. x \in -b0 .. b0 /\ z \in -b0 .. b0
        BY <1>3, <1>6, <3>3
    <3>5. x * z \in -(b0 * b0) .. b0 * b0
        BY <1>3, <1>6, <3>3, <3>4, ProductWithin, Zenon
    <3>6. x * z \in Nat /\ b0 * b0 \in Nat
        BY <1>3, <1>6, <3>3
    <3> DEFINE xz == x * z
               bb == b0 * b0
    <3>7. xz \in -bb .. bb /\ xz \in Nat /\ bb \in Nat /\ t[22] = y[22] + xz
        BY <3>2, <3>5, <3>6, Zenon
    <3> HIDE DEF xz, bb
    <3>8. t[22] \in 0 .. bb
        BY <2>1, <3>7
    <3> QED BY <3>1, <3>8, Zenon DEF bb
  <2>3. CASE j # 11
    <3>1. 22 \in 0 .. 23 /\ 22 - j \notin 0 .. 11 /\ i # 12
        BY <1>2, <2>3
    <3>2. t[22] = 0
        BY <1>10, <2>1, <3>1, Zenon
    <3> QED BY <3>1, <3>2
  <2> QED BY <2>2, <2>3
<1>14. t[23] = 0
  <2>1. 23 \in 0 .. 23 /\ 23 - j \notin 0 .. 11
      BY <1>2
  <2> QED BY <1>4, <1>10, <2>1, Zenon
<1>15. t \in Rowed(s, al, bl, i)
    BY <1>8, <1>9, <1>12, <1>13, <1>14, Zenon DEF Rowed, b0, b1, c
<1> QED BY <1>15, Zenon DEF t

(* All the limbs of a times all the limbs of b, added to c (sc.c:447-470). *)
LEMMA RowsAdded ==
    ASSUME CodeSizes, NEW al \in ScalarLimbs, NEW bl \in ScalarLimbs, NEW cl \in ScalarLimbs,
           NEW t, t = Rows!Run(al, bl, cl)
    PROVE  /\ t \in LimbVectors
           /\ Whole(t) = Number(cl, 12) + Number(al, 12) * Number(bl, 12)
           /\ \A k \in 0 .. 22 : t[k] \in -(2^25 * 2^25) .. 2^25 * 2^25
           /\ t[23] = 0
<1> DEFINE s == Widened(cl)
           b == 2^25 * 2^25
<1>1. Limbs = 12 /\ 2 * Limbs - 1 = 23 /\ 2 * Limbs = 24 /\ Limbs \in Nat
    BY Sizes, SMT
<1>2. \A k \in 0 .. 23 : s[k] = IF k < 12 THEN cl[k] ELSE 0
    BY <1>1, Zenon DEF Widened
<1>3. /\ \A k \in 0 .. 11 : cl[k] \in Nat
      /\ \A k \in 0 .. 11 : cl[k] <= 2^25
  <2>1. \A k \in 0 .. 11 : cl[k] \in Nat
      BY DEF ScalarLimbs
  <2>2. ASSUME NEW k \in 0 .. 11 PROVE cl[k] <= 2^25
    <3>1. cl[k] \in Nat /\ (k \in 0 .. 10 \/ k = 11)
        BY <2>1
    <3>2. CASE k \in 0 .. 10
      <4>1. cl[k] <= 2^21
          BY <3>2, Zenon DEF ScalarLimbs
      <4> QED BY <3>1, <4>1, SMT
    <3>3. CASE k = 11
        BY <3>3, Zenon DEF ScalarLimbs
    <3> QED BY <3>1, <3>2, <3>3
  <2> QED BY <2>1, <2>2
<1>4. s \in LimbVectors
  <2>1. \A k \in 0 .. 23 : s[k] \in Int
    <3>1. ASSUME NEW k \in 0 .. 23 PROVE s[k] \in Int
      <4>1. CASE k < 12
        <5>1. k \in 0 .. 11
            BY <4>1
        <5>2. s[k] = cl[k] /\ cl[k] \in Nat
            BY <1>2, <1>3, <4>1, <5>1, Zenon
        <5> HIDE DEF s
        <5> QED BY <5>2
      <4>2. CASE ~(k < 12)
        <5>1. s[k] = 0
            BY <1>2, <4>2, Zenon
        <5> HIDE DEF s
        <5> QED BY <5>1
      <4> QED BY <4>1, <4>2
    <3> QED BY <3>1
  <2>2. s = [k \in 0 .. 2 * Limbs - 1 |-> s[k]]
      BY Zenon DEF Widened
  <2> HIDE DEF s
  <2> QED BY <1>1, <2>1, <2>2 DEF LimbVectors
<1> HIDE DEF s
<1>5. Whole(s) = Number(cl, 12) /\ Number(cl, 12) \in Int
  <2>1. 12 \in Nat /\ 24 \in Nat /\ 12 <= 24 /\ 24 - 1 = 23 /\ 12 - 1 = 11
      BY SMT
  <2>2. \A k \in 0 .. 23 : s[k] \in Int
      BY <1>1, <1>4 DEF LimbVectors
  <2>3. \A k \in 12 .. 23 : s[k] = 0
      BY <1>2, SMT
  <2>4. Number(s, 24) = Number(s, 12)
    <3>1. (\A k \in 0 .. 24 - 1 : s[k] \in Int) /\ \A k \in 12 .. 24 - 1 : s[k] = 0
        BY ONLY <2>1, <2>2, <2>3
    <3> QED BY ONLY <2>1, <3>1, ZeroLimbs, Zenon
  <2>5. \A k \in 0 .. 11 : s[k] = cl[k] /\ cl[k] \in Int
    <3>1. \A k \in 0 .. 11 : k \in 0 .. 23 /\ k < 12
        OBVIOUS
    <3>2. \A k \in 0 .. 11 : s[k] = cl[k]
        BY <1>2, <3>1, Zenon
    <3> QED BY <1>3, <3>2
  <2>6. Number(s, 12) = Number(cl, 12)
    <3>1. \A k \in 0 .. 12 - 1 : s[k] = cl[k]
        BY <2>1, <2>5
    <3> QED BY <2>1, <3>1, SameNumber, Zenon
  <2>7. Number(cl, 12) \in Int
      BY <2>1, <2>5, NumberType, Zenon
  <2> QED BY <1>1, <2>4, <2>6, <2>7, Zenon DEF Whole
<1>6. s \in Rowed(s, al, bl, 0)
  <2>1. Whole(s) = Whole(s) + Number(al, 0) * Number(bl, 12)
    <3>1. Number(al, 0) = 0
        BY NextLimb, 0 \in Nat, Zenon
    <3>2. Number(bl, 12) \in Int
      <4>1. \A k \in 0 .. 12 - 1 : bl[k] \in Int
          BY DEF ScalarLimbs
      <4> QED BY <4>1, 12 \in Nat, NumberType, Zenon
    <3> DEFINE n == Number(bl, 12)
               w == Whole(s)
    <3>3. n \in Int /\ w \in Int
        BY <1>4, <3>2, WholeType, Zenon
    <3> HIDE DEF n, w
    <3>4. w = w + 0 * n
        BY <3>3
    <3> QED BY <3>1, <3>4, Zenon DEF n, w
  <2>2. ASSUME NEW k \in 0 .. 21 PROVE s[k] \in 0 .. 2^25 + 0 * (2^25 * 2^21)
    <3>1. s[k] = IF k < 12 THEN cl[k] ELSE 0
        BY <1>2
    <3>2. CASE k < 12
      <4>1. k \in 0 .. 11
          BY <3>2
      <4>2. s[k] \in Nat /\ s[k] <= 2^25
          BY <1>3, <3>1, <3>2, <4>1, Zenon
      <4> QED BY <4>2, SMT
    <3>3. CASE ~(k < 12)
        BY <3>1, <3>3, SMT
    <3> QED BY <3>2, <3>3
  <2>3. s[22] \in 0 .. (IF 0 = 12 THEN 2^25 * 2^25 ELSE 0) /\ s[23] = 0
    <3>1. s[22] = 0 /\ s[23] = 0
      <4>1. 22 \in 0 .. 23 /\ 23 \in 0 .. 23 /\ ~(22 < 12) /\ ~(23 < 12)
          BY SMT
      <4> QED BY <1>2, <4>1, Zenon
    <3>2. 0 # 12 /\ 0 \in 0 .. 0
        BY SMT
    <3> QED BY <3>1, <3>2, Zenon
  <2> QED BY <1>4, <2>1, <2>2, <2>3, Zenon DEF Rowed
<1>7. t \in Rowed(s, al, bl, 12)
  <2>1. \A k \in 1 .. 12 : \A y \in Rowed(s, al, bl, k - 1) : RowAdded(al, bl, y, k) \in Rowed(s, al, bl, k)
      BY <1>4, RowTurn, Zenon
  <2>2. /\ Limbs \in Nat /\ \A k \in 1 .. Limbs : k - 1 = k - 1
        /\ Widened(cl) \in Rowed(Widened(cl), al, bl, 0)
        /\ \A k \in 1 .. Limbs : \A y \in Rowed(Widened(cl), al, bl, k - 1) :
             RowAdded(al, bl, y, k) \in Rowed(Widened(cl), al, bl, k)
      BY <1>1, <1>6, <2>1, Zenon DEF s
  <2>3. Rows!Run(al, bl, cl) \in Rowed(Widened(cl), al, bl, Limbs)
      BY <2>2, Rows!Looped, Zenon
  <2> QED BY <1>1, <2>3, Zenon DEF s
<1>8. /\ t \in LimbVectors /\ t[23] = 0
      /\ Whole(t) = Number(cl, 12) + Number(al, 12) * Number(bl, 12)
    BY <1>5, <1>7, Zenon DEF Rowed
<1>9. ASSUME NEW k \in 0 .. 22 PROVE t[k] \in -b .. b
  <2>1. CASE k \in 0 .. 21
    <3>1. t[k] \in 0 .. 2^25 + 12 * (2^25 * 2^21)
        BY <1>7, <2>1, Zenon DEF Rowed
    <3> QED BY <3>1, SMT
  <2>2. CASE k = 22
    <3>1. t[22] \in 0 .. 2^25 * 2^25
        BY <1>7, Zenon DEF Rowed
    <3> QED BY <2>2, <3>1, SMT
  <2>3. k \in 0 .. 21 \/ k = 22
      OBVIOUS
  <2> QED BY <2>1, <2>2, <2>3
<1> QED BY <1>8, <1>9, Zenon

(* The product is carried before it is reduced (sc.c:471-539): the limbs   *)
(* are small enough for the reduction.                                     *)
LEMMA ProductCarried ==
    ASSUME CodeSizes, NEW s \in LimbVectors, s[23] = 0,
           \A k \in 0 .. 22 : s[k] \in -(2^25 * 2^25) .. 2^25 * 2^25,
           NEW t, t = CarryAlternately(s, 0, 22)
    PROVE  /\ t \in LimbVectors /\ Whole(t) = Whole(s)
           /\ \A k \in 0 .. 23 : t[k] \in -(2^32) .. 2^32
<1> DEFINE b == 2^25 * 2^25
           c == 2^30
           h == 2^20
<1>1. Limbs = 12 /\ Radix = 2^21 /\ 2 * Limbs - 1 = 23
    BY Sizes
<1>2. Settled(s, t, 0, 22, c, h)
  <2>1. /\ 0 \in Nat /\ 22 \in Nat /\ 0 <= 22 /\ 22 + 2 <= 2 * Limbs /\ b \in Nat
        /\ c \in Nat /\ h \in Nat /\ h = Radix \div 2
        /\ b + c + h <= c * Radix
      BY <1>1, SMT
  <2>2. \A j \in 0 .. 22 : s[j] \in -b .. b
      BY Zenon
  <2> HIDE DEF b, c, h
  <2>3. Settled(s, CarryAlternately(s, 0, 22), 0, 22, c, h)
      BY ONLY <2>1, <2>2, s \in LimbVectors, Alternated, Zenon
  <2> QED BY <2>3, Zenon
<1>3. /\ t \in LimbVectors /\ Whole(t) = Whole(s)
      /\ \A j \in 0 .. 23 :
           /\ 0 <= j /\ j <= 22 => t[j] \in -(c + h) .. c + h
           /\ j = 22 + 1 => t[j] - s[j] \in -c .. c
    BY <1>1, <1>2, Zenon DEF Settled
<1>4. ASSUME NEW k \in 0 .. 23 PROVE t[k] \in -(2^32) .. 2^32
  <2>1. k <= 22 => t[k] \in -(c + h) .. c + h
      BY <1>3
  <2>2. CASE k <= 22
      BY <2>1, <2>2, SMT
  <2>3. CASE k = 23
    <3>1. 23 \in 0 .. 23 /\ 22 + 1 = 23
        BY SMT
    <3>2. t[23] - 0 \in -c .. c
        BY <1>3, <3>1, Zenon
    <3>3. t[23] \in Int
        BY <1>1, <1>3 DEF LimbVectors
    <3> QED BY <2>3, <3>2, <3>3, SMT
  <2> QED BY <2>2, <2>3
<1> QED BY <1>3, <1>4, Zenon

(* What sc_muladd returns (sc.c:362-809) for whatever it is given.         *)
LEMMA ProductIs ==
    ASSUME CodeSizes, NEW a \in Int, NEW b \in Int, NEW c \in Int
    PROVE  /\ sc_muladd(a, b, c)
                = ((c % 2^WordBits) + (a % 2^WordBits) * (b % 2^WordBits)) % Order
           /\ sc_muladd(a, b, c) \in 0 .. Order - 1 /\ sc_muladd(a, b, c) \in Nat
<1> DEFINE al == Loaded(<<a>>, 12)
           bl == Loaded(<<b>>, 12)
           cl == Loaded(<<c>>, 12)
           s == Rows!Run(al, bl, cl)
           t == CarryAlternately(s, 0, 22)
<1>1. Limbs = 12 /\ 2 * Limbs - 2 = 22
    BY Sizes
<1>2. /\ al \in ScalarLimbs /\ bl \in ScalarLimbs /\ cl \in ScalarLimbs
      /\ Number(al, 12) = a % 2^WordBits /\ Number(bl, 12) = b % 2^WordBits /\ Number(cl, 12) = c % 2^WordBits
    BY WordLoaded, Zenon
<1>3. sc_muladd(a, b, c) = Reduced(t)
  <2> DEFINE l1 == Loaded(<<a>>, Limbs)
             l2 == Loaded(<<b>>, Limbs)
             l3 == Loaded(<<c>>, Limbs)
  <2>1. sc_muladd(a, b, c) = Reduced(CarryAlternately(Rows!Run(l1, l2, l3), 0, 2 * Limbs - 2))
      BY Zenon DEF sc_muladd, Widened, RowAdded, Rows!Run, Loop, Eagerly, Rows!Loop, Rows!Eagerly
  <2> QED BY <1>1, <2>1, Zenon
<1> HIDE DEF al, bl, cl
<1>4. /\ s \in LimbVectors
      /\ Whole(s) = Number(cl, 12) + Number(al, 12) * Number(bl, 12)
      /\ \A k \in 0 .. 22 : s[k] \in -(2^25 * 2^25) .. 2^25 * 2^25
      /\ s[23] = 0
    BY <1>2, RowsAdded, Zenon
<1> HIDE DEF s
<1>5. /\ t \in LimbVectors /\ Whole(t) = Whole(s)
      /\ \A k \in 0 .. 23 : t[k] \in -(2^32) .. 2^32
    BY <1>4, ProductCarried, Zenon
<1> HIDE DEF t
<1>6. Reduced(t) = Whole(t) % Order /\ Reduced(t) \in 0 .. Order - 1
    BY <1>5, ReducedIs, Zenon
<1>7. sc_muladd(a, b, c) = ((c % 2^WordBits) + (a % 2^WordBits) * (b % 2^WordBits)) % Order
    BY <1>2, <1>3, <1>4, <1>5, <1>6, Zenon
<1>8. sc_muladd(a, b, c) \in 0 .. Order - 1
    BY <1>3, <1>6, Zenon
<1>9. sc_muladd(a, b, c) \in Nat
  <2> HIDE DEF sc_muladd
  <2> QED BY <1>8, OrderSizes
<1> QED BY <1>7, <1>8, <1>9, Zenon

(* The product and sum of scalars of 256 bits is exact: no product, carry  *)
(* or fold of sc_muladd loses anything, and what it leaves is the one      *)
(* representative below the order (sc.c:362-809).                          *)
THEOREM ProductReduced ==
    ASSUME CodeSizes, NEW a \in 0 .. 2^WordBits - 1, NEW b \in 0 .. 2^WordBits - 1,
           NEW c \in 0 .. 2^WordBits - 1
    PROVE  sc_muladd(a, b, c) = (a * b + c) % Order
<1> DEFINE v == 2^WordBits
<1>1. v \in Nat /\ v > 0
    BY ScalarAssumption, TwoPowers, Zenon
<1>2. a \in 0 .. v - 1 /\ b \in 0 .. v - 1 /\ c \in 0 .. v - 1
    BY Zenon
<1>3. sc_muladd(a, b, c) = ((c % v) + (a % v) * (b % v)) % Order
  <2>1. a \in Int /\ b \in Int /\ c \in Int
      OBVIOUS
  <2> QED BY <2>1, ProductIs, Zenon
<1> HIDE DEF v
<1>4. a % v = a /\ b % v = b /\ c % v = c
    BY <1>1, <1>2
<1>5. c + a * b = a * b + c
  <2>1. a \in Int /\ b \in Int /\ c \in Int
      BY <1>1, <1>2
  <2>2. a * b \in Int
      BY <2>1
  <2> QED BY <2>1, <2>2
<1> QED BY <1>3, <1>4, <1>5, Zenon

Words == 0 .. 2^WordBits - 1

\* A digest is as long as two scalars.
DigestSizes == \A state, block : Compress(state, block) \in Words \X Words

\* A string of two scalars as a number.
ValueOf(words) == words[1] + 2^WordBits * words[2]

(* A digest is the state that the last compression leaves                  *)
(* (sha512.c:257-262).                                                     *)
LEMMA Finals ==
    ASSUME DigestSizes, NEW md
    PROVE  sha512_final(md) \in Words \X Words
<1>1. PICK state, block : sha512_final(md) = Compress(state, block)
    BY Zenon DEF sha512_final
<1> QED BY <1>1, Zenon DEF DigestSizes

(* A digest of pieces is two scalars long, and its scalars are numbers.    *)
LEMMA Digests ==
    ASSUME DigestSizes
    PROVE  \A pieces : Hash(pieces) \in Words \X Words /\ Hash(pieces) \in Int \X Int
<1>1. \A md : sha512_final(md) \in Words \X Words
    BY Finals, Zenon
<1>2. \A pieces : Hash(pieces) \in Words \X Words
    BY <1>1, Zenon DEF Hash
<1>3. Words \subseteq Int
  <2> DEFINE v == 2^WordBits
  <2>1. Words = 0 .. v - 1
      BY Zenon DEF Words
  <2> HIDE DEF v
  <2> QED BY <2>1
<1>4. Words \X Words \subseteq Int \X Int
    BY <1>3
<1> QED BY <1>2, <1>4, Zenon

(* What the S of a signature is, and that it is below the order.           *)
LEMMA Responses ==
    ASSUME CodeSizes, DigestSizes, NEW m, NEW key, NEW priv, priv.a \in Int
    PROVE  Signature(m, key, priv).S \in 0 .. Order - 1
<1> DEFINE r == sc_reduce(Hash(<< Bytes(priv.prefix), m >>))
           R == ge_p3_tobytes(ge_scalarmult_base(r))
           h == sc_reduce(Hash(<< Bytes(R), Bytes(key), m >>))
           S == sc_muladd(h, priv.a, r)
<1>1. Signature(m, key, priv) = [R |-> R, S |-> S]
    BY Zenon DEF Signature
<1>2. r \in Nat
    BY Digests, DigestBelow, Zenon
<1>3. h \in Nat
    BY Digests, DigestBelow, Zenon
<1> HIDE DEF r, R, h
<1>4. h \in Int /\ r \in Int
    BY <1>2, <1>3
<1>5. S \in 0 .. Order - 1
    BY <1>4, ProductIs, Zenon
<1> HIDE DEF S
<1> QED BY <1>1, <1>5

(* ed25519_sign computes the S of the equation that ed25519_verify checks: *)
(* the nonce plus the challenge times the scalar, modulo the order         *)
(* (sign.c:14-30).                                                         *)
THEOREM SignatureExact ==
    ASSUME CodeSizes, DigestSizes, NEW m, NEW key, NEW priv, priv.a \in Words
    PROVE  LET r == ValueOf(Hash(<< Bytes(priv.prefix), m >>)) % Order
               R == ge_p3_tobytes(ge_scalarmult_base(r))
               h == ValueOf(Hash(<< Bytes(R), Bytes(key), m >>)) % Order
           IN  Signature(m, key, priv) = [R |-> R, S |-> (h * priv.a + r) % Order]
<1> DEFINE dr == Hash(<< Bytes(priv.prefix), m >>)
           r == ValueOf(dr) % Order
           R == ge_p3_tobytes(ge_scalarmult_base(r))
           dh == Hash(<< Bytes(R), Bytes(key), m >>)
           h == ValueOf(dh) % Order
<1>1. ASSUME NEW x \in Words \X Words
      PROVE  sc_reduce(x) = ValueOf(x) % Order /\ sc_reduce(x) \in Words
  <2>1. x[1] \in Words /\ x[2] \in Words /\ x = <<x[1], x[2]>>
      OBVIOUS
  <2>2. sc_reduce(<<x[1], x[2]>>) = (x[1] + 2^WordBits * x[2]) % Order
      BY <2>1, DigestReduced, Zenon DEF Words
  <2>3. sc_reduce(x) = ValueOf(x) % Order
      BY <2>1, <2>2, Zenon DEF ValueOf
  <2>4. x \in Int \X Int
    <3> DEFINE v == 2^WordBits
    <3>1. x[1] \in 0 .. v - 1 /\ x[2] \in 0 .. v - 1
        BY <2>1, Zenon DEF Words
    <3> HIDE DEF v
    <3>2. x[1] \in Int /\ x[2] \in Int
        BY <3>1
    <3> QED BY <2>1, <3>2, Zenon
  <2>5. sc_reduce(x) \in 0 .. Order - 1
      BY <2>4, DigestBelow, Zenon
  <2>6. sc_reduce(x) \in Words
    <3> DEFINE v == 2^WordBits
               w == Weight(12)
               y == sc_reduce(x)
    <3>1. Order \in Nat /\ w \in Nat /\ Order <= 2 * w /\ v = 16 * w /\ y \in 0 .. Order - 1
        BY <2>5, OrderSizes, Zenon
    <3> HIDE DEF v, w, y
    <3>2. y \in 0 .. v - 1
        BY <3>1
    <3> QED BY <3>2, Zenon DEF Words, y, v
  <2> QED BY <2>3, <2>6
<1>2. sc_reduce(dr) = r /\ r \in Words
  <2>1. dr \in Words \X Words
      BY Digests, Zenon
  <2> HIDE DEF dr
  <2> QED BY <1>1, <2>1, Zenon
<1>3. sc_reduce(dh) = h /\ h \in Words
  <2>1. dh \in Words \X Words
      BY Digests, Zenon
  <2> HIDE DEF dh
  <2> QED BY <1>1, <2>1, Zenon
<1>4. Signature(m, key, priv) = [R |-> R, S |-> sc_muladd(h, priv.a, r)]
  <2> DEFINE Signed1(n) == [R |-> ge_p3_tobytes(ge_scalarmult_base(n)),
                            S |-> sc_muladd(sc_reduce(Hash(<< Bytes(ge_p3_tobytes(ge_scalarmult_base(n))),
                                                             Bytes(key), m >>)), priv.a, n)]
  <2>1. Signature(m, key, priv) = Signed1(sc_reduce(dr))
      BY Zenon DEF Signature
  <2>2. Signed1(sc_reduce(dr)) = Signed1(r)
      BY <1>2, Zenon
  <2>3. Signed1(r) = [R |-> R, S |-> sc_muladd(sc_reduce(dh), priv.a, r)]
    <3> HIDE DEF r
    <3> QED BY Zenon
  <2> HIDE DEF dr, Signed1, r, R, dh, h
  <2> QED BY <1>3, <2>1, <2>2, <2>3, Zenon
<1>5. sc_muladd(h, priv.a, r) = (h * priv.a + r) % Order
  <2> HIDE DEF dr, r, R, dh, h
  <2> QED BY <1>2, <1>3, ProductReduced, Zenon DEF Words
<1> HIDE DEF h, dh
<1>6. Signature(m, key, priv) = [R |-> R, S |-> (h * priv.a + r) % Order]
  <2> HIDE DEF R, r
  <2> QED BY <1>4, <1>5, Zenon
<1> QED BY <1>6, Zenon DEF h, dh

(* The scalar of a pair is a number, and S is below the order.             *)
ReducedInv ==
    /\ DOMAIN private = Party
    /\ \A p \in Party : Created(p) => private[p].a \in Int
    /\ sig # None => sig.S \in 0 .. Order - 1

(* S leaves the library reduced (sign.c:30), whatever the calls before     *)
(* made of the private scalar: it need not be below the order itself.      *)
THEOREM SignaturesReduced ==
    ASSUME CodeSizes, DigestSizes
    PROVE  Spec => []SignatureReduced
<1>1. Init => ReducedInv
    BY DEF Init, ReducedInv, Created
<1>2. ASSUME ReducedInv, [Next]_vars PROVE ReducedInv'
  <2>1. ASSUME NEW p \in Party, NEW seed \in Seeds, ed25519_create_keypair(p, seed)
        PROVE  ReducedInv'
    <3>1. private' = [private EXCEPT ![p] = Pair(seed)] /\ sig' = sig
        BY <2>1, Zenon DEF ed25519_create_keypair
    <3>2. Pair(seed).a \in Int
      <4> DEFINE h == sha512(Bytes(seed))
                 n == h[1]
      <4>1. h \in Words \X Words
        <5>1. \A md : sha512_final(md) \in Words \X Words
            BY Finals, Zenon
        <5> QED BY <5>1, Zenon DEF sha512
      <4>2. Pair(seed).a = Clamped(n)
          BY DEF Pair
      <4> HIDE DEF h
      <4>3. n \in Int
        <5> DEFINE v == 2^WordBits
        <5>1. n \in 0 .. v - 1
            BY <4>1 DEF Words
        <5> HIDE DEF v, n
        <5> QED BY <5>1
      <4> HIDE DEF n
      <4>4. Clamped(n) \in Int
        <5> DEFINE v == 2^(ScalarBits - 2)
        <5>1. v \in Nat /\ v > 0
          <6>1. ScalarBits - 2 \in Nat
              BY SMT DEF CodeSizes
          <6> QED BY <6>1, TwoPowers, Zenon
        <5>2. Clamped(n) = v + ((n - (n % 8)) % v)
            BY Zenon DEF Clamped
        <5> HIDE DEF v
        <5>3. v + ((n - (n % 8)) % v) \in Int
            BY <4>3, <5>1
        <5> QED BY <5>2, <5>3, Zenon
      <4> QED BY <4>2, <4>4, Zenon
    <3> QED BY <1>2, <3>1, <3>2 DEF ReducedInv, Created
  <2>2. ASSUME NEW p \in Party, NEW m \in Messages, ed25519_sign(p, m)
        PROVE  ReducedInv'
    <3>1. PICK s \in {Signature(m, public[p], private[p])} :
            sig' = [R |-> s.R, S |-> s.S, m |-> m, key |-> public[p],
                    whole |-> lag[p] = 0, behind |-> Behind(p)]
        BY <2>2 DEF ed25519_sign
    <3>2. private[p].a \in Int
        BY <1>2, <2>2 DEF ed25519_sign, ReducedInv
    <3>3. s.S \in 0 .. Order - 1
      <4>1. Signature(m, public[p], private[p]).S \in 0 .. Order - 1
          BY <3>2, Responses, Zenon
      <4>2. s = Signature(m, public[p], private[p])
          BY <3>1
      <4> QED BY <4>1, <4>2, Zenon
    <3>4. sig'.S = s.S
        BY <3>1
    <3>5. private' = private
        BY <2>2 DEF ed25519_sign
    <3> QED BY <1>2, <3>3, <3>4, <3>5 DEF ReducedInv, Created
  <2>3. ASSUME ed25519_verify PROVE ReducedInv'
      BY <1>2, <2>3 DEF ed25519_verify, ReducedInv, Created
  <2>4. ASSUME NEW p \in Party, NEW n \in Scalars, NEW onPublic \in BOOLEAN,
               NEW onPrivate \in BOOLEAN, ed25519_add_scalar(p, n, onPublic, onPrivate)
        PROVE  ReducedInv'
    <3>1. /\ Created(p) /\ sig' = sig
          /\ private' = private \/ private' = [private EXCEPT ![p] = NextScalar(private[p], n)]
        BY <2>4, Zenon DEF ed25519_add_scalar
    <3>2. NextScalar(private[p], n).a \in Int
      <4>1. private[p].a \in Int
          BY <1>2, <3>1 DEF ReducedInv
      <4>2. Unsigned(n) \in Int
        <5> DEFINE v == 2^(ScalarBits - 1)
        <5>1. v \in Nat /\ v > 0
          <6>1. ScalarBits - 1 \in Nat
              BY SMT DEF CodeSizes
          <6> QED BY <6>1, TwoPowers, Zenon
        <5>2. n \in Nat
            BY CallsAssumption
        <5>3. Unsigned(n) = n % v
            BY Zenon DEF Unsigned
        <5> HIDE DEF v
        <5>4. n % v \in Int
            BY <5>1, <5>2
        <5> QED BY <5>3, <5>4, Zenon
      <4>3. 1 \in Int
          OBVIOUS
      <4>4. sc_muladd(1, Unsigned(n), private[p].a) \in Nat
          BY <4>1, <4>2, <4>3, ProductIs, Zenon
      <4>5. NextScalar(private[p], n).a = sc_muladd(1, Unsigned(n), private[p].a)
          BY DEF NextScalar
      <4> HIDE DEF NextScalar, sc_muladd
      <4>6. sc_muladd(1, Unsigned(n), private[p].a) \in Int
          BY <4>4
      <4> QED BY <4>5, <4>6, Zenon
    <3> QED BY <1>2, <3>1, <3>2 DEF ReducedInv, Created
  <2>5. ASSUME NEW p \in Party, NEW q \in Party, p # q, ed25519_key_exchange(p, q)
        PROVE  ReducedInv'
      BY <1>2, <2>5 DEF ed25519_key_exchange, ReducedInv, Created
  <2>6. CASE UNCHANGED vars
      BY <1>2, <2>6 DEF vars, ReducedInv, Created
  <2> QED BY <1>2, <2>1, <2>2, <2>3, <2>4, <2>5, <2>6 DEF Next
<1>3. ReducedInv => SignatureReduced
  <2>1. Order \in Nat
      BY GroupAssumption
  <2> QED BY <2>1 DEF ReducedInv, SignatureReduced
<1> QED BY <1>1, <1>2, <1>3, PTL DEF Spec
=============================================================================
