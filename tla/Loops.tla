------------------------------- MODULE Loops -------------------------------
(***************************************************************************)
(* Loops that carry a state from turn to turn, each turn evaluated before  *)
(* the next: nested turns would outgrow TLC's stack.                       *)
(***************************************************************************)
EXTENDS Integers

Eagerly(Op(_), x) == CHOOSE r \in {Op(y) : y \in {x}} : TRUE

Loop(Turn(_, _), x, n) ==
  LET state[k \in 0..n] == IF k = 0 THEN x ELSE Eagerly(LAMBDA y : Turn(y, k), state[k - 1])
  IN  state[n]
=============================================================================
