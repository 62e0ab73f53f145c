----------------------------- MODULE Group25519 -----------------------------
(***************************************************************************)
(* The group of ge.c: the points of -x^2 + y^2 = 1 + d x^2 y^2, in the     *)
(* representations of ge.h, and the two multiplications by scalars with    *)
(* the recodings of the scalars they begin with.  A scalar, and a point as *)
(* bytes, is a number of ScalarBits bits: 256 in the code, in 32 bytes.    *)
(***************************************************************************)
EXTENDS Field25519, Sequences

CONSTANTS
  ScalarBits,    \* 256
  Order,         \* l, the prime order of the base point
  Base           \* the base point, <<x, y>>

ASSUME GroupAssumption ==
  /\ ScalarBits \in Nat /\ ScalarBits % 8 = 0 /\ FieldBits = ScalarBits - 1
  /\ Order \in Nat
  /\ Base \in (0..(Prime - 1)) \X (0..(Prime - 1))
  /\ \E s \in 0..(Prime - 1) : (s * s + 1) % Prime = 0

Element(n) == [v |-> n % Prime, m |-> Carried]

\* The constants: d is -121665/121666.
d      == fe_mul(Element(1 - A24), fe_invert(Element(A24)))
d2     == Element(2 * d.v)
sqrtm1 == Element(CHOOSE s \in 0..(Prime - 1) : (s * s + 1) % Prime = 0)

-----------------------------------------------------------------------------
(***************************************************************************)
(* The group by its affine law, <<x, y>> with no representations and no    *)
(* limbs: what the tables of precomp_data.h hold, and what the operations  *)
(* below are compared with.                                                *)
(***************************************************************************)
Quotient(a, b) == (a * fe_invert(Element(b)).v) % Prime

Plus(p, q) ==
  LET xx == (p[1] * q[1]) % Prime
      yy == (p[2] * q[2]) % Prime
      xy == (p[1] * q[2] + p[2] * q[1]) % Prime
      t  == (d.v * ((xx * yy) % Prime)) % Prime
  IN  << Quotient(xy, 1 + t), Quotient((yy + xx) % Prime, 1 - t) >>

Times(n, p) ==
  LET Upper(half, k) == IF k % 2 = 0 THEN Plus(half, half) ELSE Plus(Plus(half, half), p)
      times[k \in 0..n] ==
        IF k = 0 THEN <<0, 1>> ELSE Eagerly(LAMBDA half : Upper(half, k), times[k \div 2])
  IN  times[n]

Encoded(p) == p[2] + (p[1] % 2) * 2^FieldBits

\* A point as the tables hold it, and the two tables.
Precomp(p) == [ yplusx  |-> Element(p[2] + p[1]), yminusx |-> Element(p[2] - p[1]),
                xy2d    |-> Element(d2.v * ((p[1] * p[2]) % Prime)) ]
Bi   == [j \in 0..7 |-> Precomp(Times(2 * j + 1, Base))]
Raised[i \in 0..(ScalarBits \div 8 - 1)] == IF i = 0 THEN Base ELSE Times(256, Raised[i - 1])
base == [i \in 0..(ScalarBits \div 8 - 1) |->
          [j \in 0..7 |-> Precomp(Times(j + 1, Raised[i]))]]

-----------------------------------------------------------------------------
\* The four additions; q's part comes in as the sums of its coordinates.
Added(p, yplusx, yminusx, zz, t) ==
  LET a  == fe_mul(fe_add(p.Y, p.X), yplusx)
      b  == fe_mul(fe_sub(p.Y, p.X), yminusx)
      t0 == fe_add(zz, zz)
  IN  [X |-> fe_sub(a, b), Y |-> fe_add(a, b), Z |-> fe_add(t0, t), T |-> fe_sub(t0, t)]

ge_add(p, q)  == Added(p, q.YplusX, q.YminusX, fe_mul(p.Z, q.Z), fe_mul(q.T2d, p.T))
ge_sub(p, q)  == Added(p, q.YminusX, q.YplusX, fe_mul(p.Z, q.Z), fe_neg(fe_mul(q.T2d, p.T)))
ge_madd(p, q) == Added(p, q.yplusx, q.yminusx, p.Z, fe_mul(q.xy2d, p.T))
ge_msub(p, q) == Added(p, q.yminusx, q.yplusx, p.Z, fe_neg(fe_mul(q.xy2d, p.T)))

ge_p1p1_to_p2(p) == [X |-> fe_mul(p.X, p.T), Y |-> fe_mul(p.Y, p.Z), Z |-> fe_mul(p.Z, p.T)]
ge_p1p1_to_p3(p) == [X |-> fe_mul(p.X, p.T), Y |-> fe_mul(p.Y, p.Z), Z |-> fe_mul(p.Z, p.T),
                     T |-> fe_mul(p.X, p.Y)]
ge_p3_to_p2(p) == [X |-> fe_copy(p.X), Y |-> fe_copy(p.Y), Z |-> fe_copy(p.Z)]
ge_p3_to_cached(p) ==
  [YplusX |-> fe_add(p.Y, p.X), YminusX |-> fe_sub(p.Y, p.X),
   Z |-> fe_copy(p.Z), T2d |-> fe_mul(p.T, d2)]

ge_p2_0 == [X |-> fe_0, Y |-> fe_1, Z |-> fe_1]
ge_p3_0 == [X |-> fe_0, Y |-> fe_1, Z |-> fe_1, T |-> fe_0]

ge_p2_dbl(p) ==
  LET xx == fe_sq(p.X)
      yy == fe_sq(p.Y)
      y  == fe_add(yy, xx)
      z  == fe_sub(yy, xx)
  IN  [X |-> fe_sub(fe_sq(fe_add(p.X, p.Y)), y), Y |-> y, Z |-> z, T |-> fe_sub(fe_sq2(p.Z), z)]
ge_p3_dbl(p) == ge_p2_dbl(ge_p3_to_p2(p))

ge_tobytes(h) ==
  LET recip == fe_invert(h.Z)
      x     == fe_mul(h.X, recip)
      y     == fe_mul(h.Y, recip)
  IN  IF NoBytes \in {fe_tobytes(x), fe_tobytes(y)} THEN NoBytes
      ELSE fe_tobytes(y) + fe_isnegative(x) * 2^FieldBits
ge_p3_tobytes(h) == Eagerly(ge_tobytes, ge_p3_to_p2(h))

\* A root of u/v, or of -u/v, if either has one: u v^3 (u v^7)^((p-5)/8).
RootOf(u, v) ==
  LET v3 == fe_mul(fe_sq(v), v)
  IN  fe_mul(fe_mul(Eagerly(fe_pow22523, fe_mul(fe_mul(fe_sq(v3), v), u)), v3), u)

PointAt(x, y, ok) == [ok |-> ok, h |-> [X |-> x, Y |-> y, Z |-> fe_1, T |-> fe_mul(x, y)]]

\* The point of the bytes s, negated; ok says whether there is one.
ge_frombytes_negate_vartime(s) ==
  LET y == fe_frombytes(s)
      u == fe_sub(fe_sq(y), fe_1)
      v == fe_add(fe_mul(fe_sq(y), d), fe_1)
      Opposed(x) == IF fe_isnegative(x) = s \div 2^FieldBits THEN fe_neg(x) ELSE x
      FromRoot(root) ==
        LET vxx == fe_mul(fe_sq(root), v)
        IN  IF ~fe_isnonzero(fe_sub(vxx, u)) THEN PointAt(Opposed(root), y, TRUE)
            ELSE PointAt(Opposed(fe_mul(root, sqrtm1)), y, ~fe_isnonzero(fe_add(vxx, u)))
  IN  FromRoot(RootOf(u, v))

-----------------------------------------------------------------------------
(***************************************************************************)
(* h = a * B in signed digits of four bits, the odd ones first.            *)
(***************************************************************************)
Digits == ScalarBits \div 4

\* The digits of a, -8..7 but the last, which is 0..8 if a has its top bit
\* clear: what is left of the carry goes into it.
Radix16(a) ==
  LET e[i \in 0..(Digits - 1)] == (a \div 16^i) % 16
      carry[i \in 0..(Digits - 1)] ==
        IF i = 0 THEN 0 ELSE (e[i - 1] + carry[i - 1] + 8) \div 16
  IN  [i \in 0..(Digits - 1) |->
         IF i < Digits - 1 THEN e[i] + carry[i] - 16 * carry[i + 1] ELSE e[i] + carry[i]]

equal(b, c) == IF b = c THEN 1 ELSE 0
negative(b) == IF b < 0 THEN 1 ELSE 0
cmov(t, u, b) == [ yplusx  |-> fe_cmov(t.yplusx, u.yplusx, b),
                   yminusx |-> fe_cmov(t.yminusx, u.yminusx, b),
                   xy2d    |-> fe_cmov(t.xy2d, u.xy2d, b) ]

\* b * 256^pos * B, the whole row of the table read; a digit of no entry
\* selects the neutral point.
select(pos, b) ==
  LET babs == IF negative(b) = 1 THEN -b ELSE b
      t == Loop(LAMBDA u, j : cmov(u, base[pos][j - 1], equal(babs, j)),
                [yplusx |-> fe_1, yminusx |-> fe_1, xy2d |-> fe_0], 8)
      Minus(u) == [yplusx |-> u.yminusx, yminusx |-> u.yplusx, xy2d |-> fe_neg(u.xy2d)]
      WithSign(u) == cmov(u, Minus(u), negative(b))
  IN  WithSign(t)

ge_scalarmult_base(a) ==
  LET e == Radix16(a)
      AddDigit(h, i) == ge_p1p1_to_p3(ge_madd(h, select(i \div 2, e[i])))
      odd  == Loop(LAMBDA h, k : AddDigit(h, 2 * k - 1), ge_p3_0, Digits \div 2)
      twice(p) == ge_p1p1_to_p2(ge_p2_dbl(p))
      by16 == ge_p1p1_to_p3(ge_p2_dbl(twice(twice(twice(ge_p3_to_p2(odd))))))
  IN  Loop(LAMBDA h, k : AddDigit(h, 2 * k - 2), by16, Digits \div 2)

-----------------------------------------------------------------------------
(***************************************************************************)
(* r = a * A + b * B in sliding windows: the digits are odd, -15..15, and  *)
(* far apart.                                                              *)
(***************************************************************************)
\* Fault: what digit i takes away is not carried to a higher one.
AbsorbUncarried(r, i, b) ==
  IF i + b >= ScalarBits \/ r[i] = 0 THEN r
  ELSE IF r[i + b] = 0 THEN r
  ELSE IF r[i] + 2^b <= 15 THEN [r EXCEPT ![i] = @ + 2^b, ![i + b] = 0]
  ELSE IF r[i] - 2^b >= -15 THEN [r EXCEPT ![i] = @ - 2^b, ![i + b] = 0] ELSE r

\* Digit i takes in bit i+b, or takes it away and carries one to the first
\* zero from i+b on.
Absorb(r, i, b) ==
  IF i + b >= ScalarBits \/ r[i] = 0 THEN r
  ELSE IF r[i + b] = 0 THEN r
  ELSE IF r[i] + 2^b <= 15 THEN [r EXCEPT ![i] = @ + 2^b, ![i + b] = 0]
  ELSE IF r[i] - 2^b >= -15
  THEN LET Stops(k) == k = ScalarBits \/ r[k] = 0
           k0 == CHOOSE k \in (i + b)..ScalarBits :
                   Stops(k) /\ \A j \in (i + b)..(k - 1) : ~Stops(j)
       IN  [k \in DOMAIN r |-> IF k = i THEN r[i] - 2^b
                               ELSE IF k = k0 THEN 1
                               ELSE IF k \in (i + b)..k0 THEN 0 ELSE r[k]]
  ELSE r

slide(a) ==
  Loop(LAMBDA r, i : Loop(LAMBDA s, b : Absorb(s, i - 1, b), r, 6),
       [i \in 0..(ScalarBits - 1) |-> (a \div 2^i) % 2], ScalarBits)

ge_double_scalarmult_vartime(a, A, b) ==
  LET aslide == slide(a)
      bslide == slide(b)
      A2     == ge_p1p1_to_p3(ge_p3_dbl(A))
      \* A, 3A, 5A, ... 15A
      Ai     == Loop(LAMBDA ai, k :
                       Append(ai, ge_p3_to_cached(ge_p1p1_to_p3(ge_add(A2, ai[k])))),
                     << ge_p3_to_cached(A) >>, 7)
      WithA(t, n) ==
        IF n > 0 THEN ge_add(ge_p1p1_to_p3(t), Ai[n \div 2 + 1])
        ELSE IF n < 0 THEN ge_sub(ge_p1p1_to_p3(t), Ai[(-n) \div 2 + 1]) ELSE t
      WithB(t, n) ==
        IF n > 0 THEN ge_madd(ge_p1p1_to_p3(t), Bi[n \div 2])
        ELSE IF n < 0 THEN ge_msub(ge_p1p1_to_p3(t), Bi[(-n) \div 2]) ELSE t
      used == {i \in 0..(ScalarBits - 1) : aslide[i] # 0 \/ bslide[i] # 0}
      top  == IF used = {} THEN 0 ELSE 1 + CHOOSE i \in used : \A j \in used : j <= i
  IN  Loop(LAMBDA r, k : ge_p1p1_to_p2(WithB(WithA(ge_p2_dbl(r), aslide[top - k]),
                                             bslide[top - k])),
           ge_p2_0, top)
=============================================================================
