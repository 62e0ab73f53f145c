----------------------------- MODULE Ed25519MC -----------------------------
(***************************************************************************)
(* The library over a small curve that has the shape of Curve25519: the    *)
(* prime 2^15 - 19, a base point of the prime order 2^12 + 15, cofactor 8, *)
(* scalars of 16 bits in two limbs of six.                                 *)
(***************************************************************************)
EXTENDS Ed25519

MCBase == << 9124, 30757 >>
MCFolding == << -15 >>
MCInitialState == << 27145, 47975 >>

\* A mixing of the block into the state, in place of sha512_compress.
MCCompress(state, block) ==
  LET Mixed(s, byte) == LET x == (s[1] * 251 + s[2] + byte + 1) % 65521
                        IN  << (x * 31 + s[2]) % 65536, (s[2] * 17 + x) % 65536 >>
  IN  Loop(LAMBDA s, k : Mixed(s, block[k]), state, Len(block))

MCSeeds == {1, 40000}
MCScalars == {61445, 4110}
MCForeign == {3, 32771}      \* no points
Message(n) == [i \in 1..n |-> 7 * i + n]
\* With the four bytes of the keys before them they end before, at and past the
\* end of a block, and before and past the room for the length.
MCMessages == {Message(n) : n \in {0, 2, 4, 11}}

-----------------------------------------------------------------------------
(***************************************************************************)
(* What the calls are compared with: the affine law, the padding of the    *)
(* whole message, and arithmetic modulo the order.                         *)
(***************************************************************************)
Padded(bytes) ==
  LET bare == bytes \o <<128>>
      fill == (2 * BlockBytes - 2 - (Len(bare) % BlockBytes)) % BlockBytes
  IN  bare \o [i \in 1..fill |-> 0] \o << (8 * Len(bytes)) \div 256, (8 * Len(bytes)) % 256 >>

Digest(bytes) ==
  LET padded == Padded(bytes)
      Block(k) == SubSeq(padded, BlockBytes * (k - 1) + 1, BlockBytes * k)
  IN  Loop(LAMBDA s, k : MCCompress(s, Block(k)), MCInitialState, Len(padded) \div BlockBytes)

\* The digest modulo the order.
Reduction(words) == ((words[2] % Order) * (2^ScalarBits % Order) + (words[1] % Order)) % Order
Challenge(R, key, m) == Reduction(Digest(Bytes(R) \o Bytes(key) \o m))

\* Whatever the halves of a pair were tweaked by, and in whatever order, the
\* public key is the point of the private scalar less what only the private
\* half was tweaked by (add_scalar.c:30, :52-63).
KeyPairConsistent ==
  \A p \in Party : Created(p) => public[p] = Encoded(Times(Behind(p), Base))

\* A signature made with a pair whose halves agree verifies, and not only at once.
SignedVerifies ==
  (sig # None /\ verdict # None) =>
    (sig.whole /\ << verdict.m, verdict.key, verdict.S >> = << sig.m, sig.key, sig.S >>
      => verdict.accepted)

\* ed25519_verify accepts exactly the solutions of its equation whose S has
\* no more bits than the order.
VerifyExact ==
  verdict # None =>
    (verdict.accepted <=>
       /\ verdict.S < 2 * 2^(Limbs * LimbBits)
       /\ \E k \in {<< sig.key, sig.behind >>}
                     \cup {<< public[p], Behind(p) >> : p \in {q \in Party : Created(q)}} :
            /\ k[1] = verdict.key
            /\ sig.R = Encoded(Times(
                 (verdict.S - Challenge(sig.R, k[1], verdict.m) * k[2]) % Order, Base)))

\* The secret is the Montgomery coordinate of the other party's point times
\* the clamped scalar (key_exchange.c:36-78).
ExchangeExact ==
  \A p \in Party : shared[p] # None =>
    LET y == Times((Clamped(shared[p].a) * shared[p].behind) % Order, Base)[2]
    IN  shared[p].secret = Quotient(1 + y, 1 - y)

\* Two parties compute the same secret as long as neither private scalar was
\* tweaked: add_scalar leaves a scalar that is not clamped, and key_exchange
\* clamps it to another one.
ExchangeAgrees ==
  \A p, q \in Party :
    /\ shared[p] # None /\ shared[q] # None
    /\ p # q /\ Clamped(shared[p].a) = shared[p].a /\ Clamped(shared[q].a) = shared[q].a
    /\ shared[p].behind = shared[q].a % Order /\ shared[q].behind = shared[p].a % Order
    => shared[p].secret = shared[q].secret

ASSUME NoCollision
=============================================================================
