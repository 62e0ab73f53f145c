------------------------------ MODULE Sha512 ------------------------------
(***************************************************************************)
(* The streaming hash of sha512.c: a context takes its input in pieces of  *)
(* any length and compresses it block by block.  Bytes are numbers below   *)
(* 256, a digest is what the last compression leaves of the state.  What   *)
(* sha512_compress computes is a constant.                                 *)
(***************************************************************************)
EXTENDS Integers, Sequences, Loops

CONSTANTS
  BlockBytes,      \* 128
  LengthBytes,     \* 16: the end of the last block, with the length in it
  InitialState,
  Compress(_, _)   \* the state after a block

ASSUME BlockAssumption ==
  /\ BlockBytes \in Nat /\ LengthBytes \in Nat /\ LengthBytes % 2 = 0
  /\ LengthBytes < BlockBytes

sha512_init == [state |-> InitialState, length |-> 0, buf |-> <<>>]

Compressed(md, block) ==
  [md EXCEPT !.state = Compress(@, block), !.length = @ + 8 * BlockBytes]

\* A whole block is taken from the input as long as nothing is buffered.
Turn(s) ==
  IF s.in = <<>> THEN s
  ELSE IF s.md.buf = <<>> /\ Len(s.in) >= BlockBytes
  THEN [md |-> Compressed(s.md, SubSeq(s.in, 1, BlockBytes)),
        in |-> SubSeq(s.in, BlockBytes + 1, Len(s.in))]
  ELSE LET room == BlockBytes - Len(s.md.buf)
           n    == IF Len(s.in) < room THEN Len(s.in) ELSE room
           buf  == s.md.buf \o SubSeq(s.in, 1, n)
       IN  [md |-> IF Len(buf) = BlockBytes THEN [Compressed(s.md, buf) EXCEPT !.buf = <<>>]
                                            ELSE [s.md EXCEPT !.buf = buf],
            in |-> SubSeq(s.in, n + 1, Len(s.in))]

\* The buffer is filled, whole blocks are taken, and what is left is buffered.
sha512_update(md, in) ==
  Loop(LAMBDA s, k : Turn(s), [md |-> md, in |-> in], Len(in) \div BlockBytes + 2).md

Zeros(n) == [i \in 1..n |-> 0]
\* The length, big-endian, in the second half of the room it has.
LengthField(length) ==
  [i \in 1..(LengthBytes \div 2) |-> (length \div 256^(LengthBytes \div 2 - i)) % 256]

\* Fault: a buffer that has no room left for the length is not compressed apart.
FinalUnsplit(md) ==
  LET length == md.length + 8 * Len(md.buf)
      tail   == SubSeq(md.buf \o <<128>> \o Zeros(BlockBytes), 1, BlockBytes - LengthBytes \div 2)
  IN  Compress(md.state, tail \o LengthField(length))

sha512_final(md) ==
  LET length == md.length + 8 * Len(md.buf)
      tail   == md.buf \o <<128>>
      split  == Len(tail) > BlockBytes - LengthBytes
      state  == IF split THEN Compress(md.state, tail \o Zeros(BlockBytes - Len(tail)))
                         ELSE md.state
      rest   == IF split THEN <<>> ELSE tail
  IN  Compress(state, rest \o Zeros(BlockBytes - LengthBytes \div 2 - Len(rest))
                           \o LengthField(length))

sha512(message) == sha512_final(sha512_update(sha512_init, message))
=============================================================================
