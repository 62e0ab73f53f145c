------------------------------ MODULE Ed25519 ------------------------------
(***************************************************************************)
(* The interface of the Ed25519 library the engine is linked with: key     *)
(* pairs, signatures, the tweak of a key pair by a scalar (add_scalar.c)   *)
(* and the key exchange, over the group, the scalars and the hash.  Each   *)
(* call runs to its end on the caller's buffers, so a step is a call; what *)
(* can go wrong lies in the sequence of calls: the halves of a key pair    *)
(* may be tweaked together or one without the other.                       *)
(***************************************************************************)
EXTENDS Group25519, Scalar25519, Sha512, FiniteSets

CONSTANTS
  Party,        \* the holders of a key pair
  Seeds,        \* what ed25519_create_seed may have returned
  Scalars,      \* the scalars a key is tweaked by
  Messages,     \* sequences of bytes
  Foreign,      \* public keys of no party
  MaxCalls      \* bound: calls that change a key or a signature

ASSUME CallsAssumption == MaxCalls \in Nat /\ Scalars \subseteq Nat

\* The limbs of Folding are those of the difference to a power of two.
ASSUME OrderAssumption ==
  Order = Weight(Limbs) - Number([i \in 0..(Half - 1) |-> Folding[i + 1]], Half)

VARIABLES
  public,       \* the public keys; NoBytes before a pair is created
  private,      \* [a: the scalar, prefix: the second half], or None
  shared,       \* the last secret each party computed
  sig,          \* the last signature issued, with what was signed and how
  verdict,      \* the last answer of ed25519_verify, with its arguments
  lag,          \* history: what the private half was tweaked by and the public not
  signed,       \* history: the scalars and prefixes signatures were made with
  calls         \* calls so far, up to MaxCalls

vars == << public, private, shared, sig, verdict, lag, signed, calls >>

None  == [none |-> TRUE]
Created(p) == private[p] # None

Bytes(n) == << n % 256, n \div 256 >>
Hash(pieces) ==
  sha512_final(Loop(LAMBDA md, k : sha512_update(md, pieces[k]), sha512_init, Len(pieces)))

\* A scalar as key_exchange and create_keypair make it: a multiple of 8 with
\* its highest bit but one set.
Clamped(n) == 2^(ScalarBits - 2) + ((n - (n % 8)) % 2^(ScalarBits - 2))

Init ==
  /\ public  = [p \in Party |-> NoBytes]
  /\ private = [p \in Party |-> None]
  /\ shared  = [p \in Party |-> None]
  /\ sig = None /\ verdict = None
  /\ lag = [p \in Party |-> 0]
  /\ signed = {} /\ calls = 0

Call == calls < MaxCalls /\ calls' = calls + 1

-----------------------------------------------------------------------------
Pair(seed) == LET h == sha512(Bytes(seed)) IN [a |-> Clamped(h[1]), prefix |-> h[2]]

ed25519_create_keypair(p, seed) ==
  /\ Call /\ ~Created(p)
  /\ LET pair == Pair(seed)
     IN  /\ private' = [private EXCEPT ![p] = pair]
         /\ public'  = [public EXCEPT ![p] = ge_p3_tobytes(ge_scalarmult_base(pair.a))]
  /\ UNCHANGED << shared, sig, verdict, lag, signed >>

\* The signature: R of the nonce, then S = r + H(R, key, m) * a.
Signature(m, key, priv) ==
  LET Answer(R, r) ==
        [R |-> R, S |-> sc_muladd(sc_reduce(Hash(<< Bytes(R), Bytes(key), m >>)), priv.a, r)]
      WithNonce(r) == Answer(ge_p3_tobytes(ge_scalarmult_base(r)), r)
  IN  WithNonce(sc_reduce(Hash(<< Bytes(priv.prefix), m >>)))

\* The scalar the public key of p stands for.
Behind(p) == (private[p].a - lag[p]) % Order

ed25519_sign(p, m) ==
  /\ Call /\ Created(p)
  /\ \E s \in {Signature(m, public[p], private[p])} :
         sig' = [R |-> s.R, S |-> s.S, m |-> m, key |-> public[p],
                 whole |-> lag[p] = 0, behind |-> Behind(p)]
  /\ signed' = signed \cup {private[p]}
  /\ verdict' = None
  /\ UNCHANGED << public, private, shared, lag >>

consttime_equal(x, y) == x = y

Verified(R, S, m, key) ==
  LET h == sc_reduce(Hash(<< Bytes(R), Bytes(key), m >>))
      By(A) ==
        /\ A.ok
        /\ consttime_equal(Eagerly(ge_tobytes, ge_double_scalarmult_vartime(h, A.h, S)), R)
  IN  S < 2^(ScalarBits - 3) /\ By(ge_frombytes_negate_vartime(key))

\* ed25519_verify of the last signature, one of its parts possibly replaced.
ed25519_verify ==
  /\ sig # None /\ verdict = None
  /\ \E m \in Messages, key \in Foreign \cup {sig.key} \cup {public[p] : p \in {q \in Party : Created(q)}},
        S \in {sig.S, (sig.S + Order) % 2^ScalarBits, sig.S + 2^(ScalarBits - 3)} :
       /\ Cardinality({i \in 1..3 : << m, key, S >>[i] # << sig.m, sig.key, sig.S >>[i]}) <= 1
       /\ verdict' = [m |-> m, key |-> key, S |-> S, accepted |-> Verified(sig.R, S, m, key)]
  /\ UNCHANGED << public, private, shared, sig, lag, signed, calls >>

\* Fault: the highest bit of the scalar is kept.
Signed(scalar) == scalar
Unsigned(scalar) == scalar % 2^(ScalarBits - 1)

Renewed(prefix, scalar) == Hash(<< Bytes(prefix), Bytes(scalar) >>)[1]
\* Fault: the second half stays when the scalar changes.
PrefixKept(priv, scalar) == [priv EXCEPT !.a = sc_muladd(1, Unsigned(scalar), @)]
NextScalar(priv, scalar) ==
  [a      |-> sc_muladd(1, Unsigned(scalar), priv.a),
   prefix |-> Renewed(priv.prefix, scalar)]

PointPlus(key, scalar) ==
  LET Undone(T) == [T EXCEPT !.X = fe_neg(@), !.T = fe_neg(@)]
      T == Eagerly(LAMBDA A : ge_p3_to_cached(Undone(A.h)), ge_frombytes_negate_vartime(key))
  IN  ge_p3_tobytes(ge_p1p1_to_p3(ge_add(ge_scalarmult_base(Unsigned(scalar)), T)))

\* Of both halves, of the private or of the public one.
ed25519_add_scalar(p, scalar, onPublic, onPrivate) ==
  /\ Call /\ Created(p)
  /\ private' = IF onPrivate THEN [private EXCEPT ![p] = NextScalar(@, scalar)] ELSE private
  /\ public'  = IF ~onPublic THEN public
                ELSE [public EXCEPT ![p] =
                       IF onPrivate THEN ge_p3_tobytes(ge_scalarmult_base(private'[p].a))
                       ELSE PointPlus(@, scalar)]
  /\ lag' = [lag EXCEPT ![p] =
              IF onPublic /\ onPrivate THEN 0
              ELSE (IF onPrivate THEN @ + Unsigned(scalar) ELSE @ - Unsigned(scalar)) % Order]
  /\ UNCHANGED << shared, sig, verdict, signed >>

\* The ladder's doubling of point 2 and addition of point 3 to it.
Laddered(x1, xs, zs, b) ==
  LET minus3 == fe_sub(xs[2], zs[2])
      minus2 == fe_sub(xs[1], zs[1])
      plus2  == fe_add(xs[1], zs[1])
      plus3  == fe_add(xs[2], zs[2])
      z3 == fe_mul(minus3, plus2)
      z2 == fe_mul(plus3, minus2)
      bb == fe_sq(minus2)
      aa == fe_sq(plus2)
      e  == fe_sub(aa, bb)
  IN  [ bit |-> b, x2 |-> fe_mul(aa, bb), z2 |-> fe_mul(e, fe_add(bb, fe_mul121666(e))),
        x3 |-> fe_sq(fe_add(z3, z2)), z3 |-> fe_mul(x1, fe_sq(fe_sub(z3, z2))) ]

\* Fault: the points are swapped by the bit and not by its change.
StepByBit(x1, w, b) == Laddered(x1, fe_cswap(w.x2, w.x3, b), fe_cswap(w.z2, w.z3, b), b)

\* The points are held in the order the last bit left them in.
LadderStep(x1, w, b) ==
  LET swap == IF w.bit = b THEN 0 ELSE 1
  IN  Laddered(x1, fe_cswap(w.x2, w.x3, swap), fe_cswap(w.z2, w.z3, swap), b)

Secret(key, a) ==
  LET e  == Clamped(a)
      y  == fe_frombytes(key)
      x1 == fe_mul(fe_add(y, fe_1), fe_invert(fe_sub(fe_1, y)))
      Affine(w) == fe_mul(fe_cswap(w.x2, w.x3, w.bit)[1],
                          fe_invert(fe_cswap(w.z2, w.z3, w.bit)[1]))
  IN  fe_tobytes(Affine(
        Loop(LAMBDA w, k : LadderStep(x1, w, (e \div 2^(FieldBits - k)) % 2),
             [bit |-> 0, x2 |-> fe_1, z2 |-> fe_0, x3 |-> x1, z3 |-> fe_1], FieldBits)))

ed25519_key_exchange(p, q) ==
  /\ Created(p) /\ Created(q)
  /\ shared' = [shared EXCEPT ![p] = [with |-> q, a |-> private[p].a, behind |-> Behind(q),
                                      secret |-> Secret(public[q], private[p].a)]]
  /\ UNCHANGED << public, private, sig, verdict, lag, signed, calls >>

Next ==
  \/ \E p \in Party, seed \in Seeds : ed25519_create_keypair(p, seed)
  \/ \E p \in Party, m \in Messages : ed25519_sign(p, m)
  \/ ed25519_verify
  \/ \E p \in Party, n \in Scalars, onPublic, onPrivate \in BOOLEAN :
       (onPublic \/ onPrivate) /\ ed25519_add_scalar(p, n, onPublic, onPrivate)
  \/ \E p, q \in Party : p # q /\ ed25519_key_exchange(p, q)

Spec == Init /\ [][Next]_vars

\* Two signatures whose nonces come from one secret prefix were made with one
\* scalar: a tweak of the scalar renews the prefix (add_scalar.c:32-39).
NonceNeverShared == \A x, y \in signed : x.prefix = y.prefix => x.a = y.a

\* The pairs there may be after k tweaks of a pair, and that no two digests of
\* different bytes among theirs agree in the half that becomes a prefix.
Tweaked(pairs) == {NextScalar(x, n) : x \in pairs, n \in Scalars}
Held[k \in 0..MaxCalls] == IF k = 0 THEN {Pair(s) : s \in Seeds} ELSE Tweaked(Held[k - 1])
NoCollision ==
  LET held == UNION {Held[k] : k \in 0..MaxCalls}
  IN  /\ \A s, t \in Seeds : Pair(s).prefix = Pair(t).prefix => s = t
      /\ \A x, y \in held, m, n \in Scalars :
           Renewed(x.prefix, m) = Renewed(y.prefix, n) => x.prefix = y.prefix /\ m = n
      /\ \A x \in held, m \in Scalars, s \in Seeds : Renewed(x.prefix, m) # Pair(s).prefix

\* S leaves the library reduced: the one representative below the order.
SignatureReduced == sig # None => sig.S < Order

\* No chain of additions between two carries outgrows what the next product
\* or the conversion to bytes takes: nothing that leaves the library is garbage.
LimbsFit ==
  /\ \A p \in Party : Created(p) => public[p] # NoBytes
  /\ sig # None => sig.R # NoBytes
  /\ \A p \in Party : shared[p] # None => shared[p].secret # NoBytes
=============================================================================
