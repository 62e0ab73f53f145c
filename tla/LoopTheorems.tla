---------------------------- MODULE LoopTheorems ----------------------------
(***************************************************************************)
(* What every turn of a loop keeps holds at its end.  A recursion over     *)
(* numbers is a turn per number, from the result for an earlier one.  The  *)
(* parameters a, b and c stand for what the loop is in the scope of.       *)
(***************************************************************************)
EXTENDS Loops, WellFoundedInduction, TLAPS

CONSTANTS
  Kept(_, _, _, _),   \* the states there may be after turn k
  First(_, _, _),     \* the state before the first turn
  Turns(_, _, _),     \* the number of turns
  Before(_),          \* the turn that turn k goes on from
  Turn(_, _, _, _, _) \* the state after turn k

Recursion(a, b, c) ==
  CHOOSE s : s = [k \in 0 .. Turns(a, b, c) |->
                    IF k = 0 THEN First(a, b, c) ELSE Turn(a, b, c, s[Before(k)], k)]
Run(a, b, c) == Loop(LAMBDA y, k : Turn(a, b, c, y, k), First(a, b, c), Turns(a, b, c))

(* A set of numbers has a smallest one: the induction all the rest uses.   *)
LEMMA Least ==
    ASSUME NEW S \in SUBSET Nat, S # {}
    PROVE  \E x \in S : \A y \in S : x <= y
<1> DEFINE R == {p \in Nat \X Nat : p[1] < p[2]}
<1>1. IsWellFoundedOn(R, Nat)
  <2>1. R = OpToRel(<, Nat)
      BY DEF OpToRel
  <2> QED BY <2>1, NatLessThanWellFounded
<1>2. PICK x \in S : \A y \in S : ~(<<y, x>> \in R)
  <2> HIDE DEF R
  <2> QED BY <1>1, WFMin
<1>3. ASSUME NEW y \in S PROVE x <= y
  <2>1. <<y, x>> \in R <=> y < x
      OBVIOUS
  <2> QED BY <1>2, <2>1
<1> QED BY <1>3

(* Turn after turn, the recursion is defined.                              *)
THEOREM Unfolded ==
    ASSUME NEW a, NEW b, NEW c, Turns(a, b, c) \in Nat,
           \A k \in 1 .. Turns(a, b, c) : Before(k) \in 0 .. k - 1
    PROVE  /\ Recursion(a, b, c)[0] = First(a, b, c)
           /\ \A k \in 1 .. Turns(a, b, c) :
                Recursion(a, b, c)[k] = Turn(a, b, c, Recursion(a, b, c)[Before(k)], k)
<1> DEFINE n == Turns(a, b, c)
           Goes(f, k) == f[k] = Turn(a, b, c, f[Before(k)], k)
           P(m, f) == /\ f = [k \in 0 .. m |-> f[k]]
                      /\ f[0] = First(a, b, c)
                      /\ \A k \in 1 .. m : Goes(f, k)
           S == {m \in 0 .. n : ~ \E f : P(m, f)}
           st == Recursion(a, b, c)
<1>0. n \in Nat
    OBVIOUS
<1> HIDE DEF n
<1>1. S = {}
  <2> SUFFICES ASSUME S # {} PROVE FALSE
      OBVIOUS
  <2>1. S \in SUBSET Nat
      BY <1>0
  <2>2. PICK m \in S : \A k \in S : m <= k
    <3> HIDE DEF S
    <3> QED BY <2>1, Least
  <2>3. m # 0
    <3> DEFINE f == [k \in 0 .. 0 |-> First(a, b, c)]
    <3>1. P(0, f)
        OBVIOUS
    <3> QED BY <3>1
  <2>4. m \in 1 .. n /\ m - 1 \in 0 .. n /\ m - 1 \in Nat /\ m \in Nat
      BY <1>0, <2>3
  <2>5. PICK f : P(m - 1, f)
    <3>1. m - 1 \notin S
      <4> HIDE DEF S
      <4> QED BY <2>2, <2>4
    <3> QED BY <2>4, <3>1
  <2> DEFINE e == Turn(a, b, c, f[Before(m)], m)
             g == [k \in 0 .. m |-> IF k = m THEN e ELSE f[k]]
  <2>6. ASSUME NEW k \in 1 .. m PROVE Goes(g, k)
    <3>1. Before(k) \in 0 .. k - 1 /\ Before(k) \in 0 .. m - 1
        BY <2>4 DEF n
    <3>2. g[Before(k)] = f[Before(k)]
        BY <2>4, <3>1
    <3>3. CASE k = m
        BY <3>2, <3>3
    <3>4. CASE k \in 1 .. m - 1
      <4>1. g[k] = f[k]
          BY <2>4, <3>4
      <4>2. f[k] = Turn(a, b, c, f[Before(k)], k)
          BY <2>5, <3>4
      <4> QED BY <3>2, <4>1, <4>2
    <3> QED BY <2>4, <3>3, <3>4
  <2>7. P(m, g)
    <3>1. g = [k \in 0 .. m |-> g[k]] /\ g[0] = First(a, b, c)
        BY <2>3, <2>4, <2>5
    <3> QED BY <2>6, <3>1
  <2> QED BY <2>7, <2>2
<1>2. PICK f : P(n, f)
    BY <1>0, <1>1
<1>3. f = [k \in 0 .. n |-> IF k = 0 THEN First(a, b, c) ELSE Turn(a, b, c, f[Before(k)], k)]
  <2>1. \A k \in 0 .. n : k = 0 \/ k \in 1 .. n
      BY <1>0
  <2> QED BY <1>2, <2>1
<1>4. st = [k \in 0 .. n |-> IF k = 0 THEN First(a, b, c) ELSE Turn(a, b, c, st[Before(k)], k)]
    BY <1>3 DEF n, Recursion
<1>5. st[0] = First(a, b, c) /\ \A k \in 1 .. n : Goes(st, k)
  <2> HIDE DEF st
  <2>1. 0 \in 0 .. n /\ \A k \in 1 .. n : k \in 0 .. n /\ k # 0
      BY <1>0
  <2> QED BY <1>4, <2>1
<1> QED BY <1>5 DEF n

(* Turn after turn, the recursion is defined and stays where it should.    *)
THEOREM Recursed ==
    ASSUME NEW a, NEW b, NEW c, Turns(a, b, c) \in Nat, First(a, b, c) \in Kept(a, b, c, 0),
           \A k \in 1 .. Turns(a, b, c) : Before(k) \in 0 .. k - 1,
           \A k \in 1 .. Turns(a, b, c) : \A y \in Kept(a, b, c, Before(k)) :
             Turn(a, b, c, y, k) \in Kept(a, b, c, k)
    PROVE  \A k \in 0 .. Turns(a, b, c) : Recursion(a, b, c)[k] \in Kept(a, b, c, k)
<1> DEFINE n == Turns(a, b, c)
           st == Recursion(a, b, c)
           U == {k \in 0 .. n : st[k] \notin Kept(a, b, c, k)}
<1>0. n \in Nat
    OBVIOUS
<1>5. st[0] = First(a, b, c) /\ \A k \in 1 .. n : st[k] = Turn(a, b, c, st[Before(k)], k)
    BY Unfolded
<1> HIDE DEF n
<1>6. U = {}
  <2> HIDE DEF st
  <2> SUFFICES ASSUME U # {} PROVE FALSE
      OBVIOUS
  <2>1. U \in SUBSET Nat
      BY <1>0
  <2>2. PICK m \in U : \A k \in U : m <= k
    <3> HIDE DEF U
    <3> QED BY <2>1, Least
  <2>3. m \in 1 .. n
      BY <1>0, <1>5
  <2>4. Before(m) \in 0 .. m - 1
      BY <2>3 DEF n
  <2>5. Before(m) \in 0 .. n /\ Before(m) < m /\ m \in Nat
      BY <1>0, <2>3, <2>4
  <2>6. st[Before(m)] \in Kept(a, b, c, Before(m))
      BY <2>2, <2>5
  <2> QED BY <1>5, <2>3, <2>6 DEF n
<1> QED BY <1>6 DEF n

(* The loops of Loops: each turn goes on from the one before.              *)
LEMMA Recurring ==
    ASSUME NEW a, NEW b, NEW c, Turns(a, b, c) \in Nat,
           \A k \in 1 .. Turns(a, b, c) : Before(k) = k - 1
    PROVE  Run(a, b, c) = Recursion(a, b, c)[Turns(a, b, c)]
<1> DEFINE n == Turns(a, b, c)
           E(k, s) == Eagerly(LAMBDA y : Turn(a, b, c, y, k), s)
           Eager(s) == s = [k \in 0 .. n |-> IF k = 0 THEN First(a, b, c) ELSE E(k, s[k - 1])]
           Plain(s) == s = [k \in 0 .. n |->
                              IF k = 0 THEN First(a, b, c) ELSE Turn(a, b, c, s[Before(k)], k)]
<1>1. \A k, s : E(k, s) = Turn(a, b, c, s, k)
    BY DEF Eagerly
<1>2. Run(a, b, c) = (CHOOSE s : Eager(s))[n]
    BY Zenon DEF Run, Loop
<1>3. Recursion(a, b, c) = CHOOSE s : Plain(s)
    BY Zenon DEF Recursion
<1> HIDE DEF E
<1>4. \A s : Eager(s) <=> Plain(s)
  <2> SUFFICES ASSUME NEW s
               PROVE  \A k \in 0 .. n : (IF k = 0 THEN First(a, b, c) ELSE E(k, s[k - 1]))
                                          = IF k = 0 THEN First(a, b, c) ELSE Turn(a, b, c, s[Before(k)], k)
      OBVIOUS
  <2>1. \A k \in 0 .. n : k = 0 \/ k \in 1 .. n
      OBVIOUS
  <2> QED BY <1>1, <2>1
<1> HIDE DEF Eager, Plain
<1>5. (CHOOSE s : Eager(s)) = CHOOSE s : Plain(s)
    BY <1>4
<1> QED BY <1>2, <1>3, <1>5

(* What they leave is what the last turn leaves.                           *)
THEOREM Looped ==
    ASSUME NEW a, NEW b, NEW c, Turns(a, b, c) \in Nat, First(a, b, c) \in Kept(a, b, c, 0),
           \A k \in 1 .. Turns(a, b, c) : Before(k) = k - 1,
           \A k \in 1 .. Turns(a, b, c) : \A y \in Kept(a, b, c, k - 1) :
             Turn(a, b, c, y, k) \in Kept(a, b, c, k)
    PROVE  Run(a, b, c) \in Kept(a, b, c, Turns(a, b, c))
<1> DEFINE n == Turns(a, b, c)
<1>1. \A k \in 1 .. n : Before(k) \in 0 .. k - 1
    OBVIOUS
<1>2. n \in 0 .. n
    OBVIOUS
<1>3. Recursion(a, b, c)[n] \in Kept(a, b, c, n)
    BY <1>1, <1>2, Recursed
<1> QED BY <1>3, Recurring
=============================================================================
