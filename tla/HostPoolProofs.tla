--------------------------- MODULE HostPoolProofs ---------------------------
(***************************************************************************)
(* Proofs about HostPool: half a block of lead lets Half + 1 CPUs grow the  *)
(* pool without a lock.                                                     *)
(***************************************************************************)
EXTENDS HostPool, FiniteSetTheorems, TLAPS

(* A number without remainder is a multiple. *)
LEMMA MultipleOf ==
    ASSUME NEW n \in Nat, n > 0, NEW x \in Int, x % n = 0
    PROVE  \E k \in Int : x = n * k
<1>1. x = n * (x \div n) + (x % n) /\ x \div n \in Int
    BY Z3
<1>2. x = n * (x \div n)
    BY <1>1
<1> QED BY <1>1, <1>2

(* A multiple leaves no remainder. *)
LEMMA NoRemainder ==
    ASSUME NEW n \in Nat, n > 0, NEW k \in Int
    PROVE  (n * k) % n = 0
BY Z3

(* The next multiple of n is n away. *)
LEMMA MultipleGap ==
    ASSUME NEW n \in Nat, n > 0, NEW k \in Int, NEW m \in Int, k > m
    PROVE  n * k >= n * m + n
<1>1. PICK d \in Nat : d >= 1 /\ k = m + d
    BY k - m \in Nat
<1>2. n * d >= n
    BY <1>1
<1>3. n * k = n * m + n * d
    BY <1>1
<1> QED BY <1>2, <1>3, n * m \in Int, n * d \in Int

(* Two multiples of n less than n apart are equal. *)
LEMMA NearMultiples ==
    ASSUME NEW n \in Nat, n > 0, NEW x \in Int, NEW y \in Int,
           x % n = 0, y % n = 0, x < y + n, y < x + n
    PROVE  x = y
<1>1. PICK k \in Int : x = n * k
    BY MultipleOf
<1>2. PICK m \in Int : y = n * m
    BY MultipleOf
<1>3. ~(k > m)
    BY <1>1, <1>2, MultipleGap
<1>4. ~(m > k)
    BY <1>1, <1>2, MultipleGap
<1> QED BY <1>1, <1>2, <1>3, <1>4

(* The multiples of n next to x. *)
LEMMA NextMultiple ==
    ASSUME NEW n \in Nat, n > 0, NEW x \in Int, x % n = 0
    PROVE  (x + n) % n = 0 /\ (x - n) % n = 0
<1>1. PICK k \in Int : x = n * k
    BY MultipleOf
<1>2. x + n = n * (k + 1) /\ x - n = n * (k - 1)
    BY <1>1
<1>3. k + 1 \in Int /\ k - 1 \in Int
    OBVIOUS
<1>4. (n * (k + 1)) % n = 0 /\ (n * (k - 1)) % n = 0
    BY <1>3, NoRemainder
<1> QED BY <1>2, <1>4

(* HPOOL_GROW is twice its half. *)
LEMMA GrowHalf ==
    /\ HPOOL_GROW \in Nat /\ Half \in Nat
    /\ HPOOL_GROW > 0 /\ Half > 0 /\ HPOOL_GROW = Half + Half
<1>1. ASSUME NEW n \in Nat, n > 0, n % 2 = 0
      PROVE  n \div 2 \in Nat /\ n \div 2 > 0 /\ n = n \div 2 + n \div 2
    BY <1>1
<1> QED BY <1>1, PoolAssumption DEF Half

(* Where the growing index lies: the committed size is a multiple of the    *)
(* block, so near it only the middle of the neighbouring blocks counts.     *)
LEMMA ShortStrawAt ==
    ASSUME NEW s \in Int, NEW t \in Int, t % HPOOL_GROW = 0
    PROVE  /\ s \in t - HPOOL_GROW - Half + 1 .. t + Half - 1
                => (ShortStraw(s) <=> s = t - Half)
           /\ s \in t - Half + 1 .. t + Half
                => (ShortStraw(s) <=> s = t + Half)
<1> USE GrowHalf
<1>1. (t - HPOOL_GROW) % HPOOL_GROW = 0
    BY NextMultiple
<1>2. ASSUME ShortStraw(s), s > t - HPOOL_GROW - Half, s < t + Half
      PROVE  s = t - Half
  <2>1. (s - Half) % HPOOL_GROW = 0
      BY <1>2 DEF ShortStraw
  <2>2. /\ s - Half < t - HPOOL_GROW + HPOOL_GROW
        /\ t - HPOOL_GROW < s - Half + HPOOL_GROW
      BY <1>2
  <2>3. s - Half = t - HPOOL_GROW
    <3>1. s - Half \in Int /\ t - HPOOL_GROW \in Int
        OBVIOUS
    <3> QED BY <3>1, <2>1, <2>2, <1>1, NearMultiples
  <2> QED BY <2>3
<1>3. ASSUME ShortStraw(s), s > t - Half, s < t + Half + HPOOL_GROW
      PROVE  s = t + Half
  <2>1. (s - Half) % HPOOL_GROW = 0
      BY <1>3 DEF ShortStraw
  <2>2. s - Half < t + HPOOL_GROW /\ t < s - Half + HPOOL_GROW
      BY <1>3
  <2>3. s - Half = t
    <3>1. s - Half \in Int
        OBVIOUS
    <3> QED BY <3>1, <2>1, <2>2, NearMultiples
  <2> QED BY <2>3
<1>4. ASSUME s = t - Half PROVE ShortStraw(s)
  <2>1. s - Half = t - HPOOL_GROW
      BY <1>4
  <2> QED BY <2>1, <1>1 DEF ShortStraw
<1>5. ASSUME s = t + Half PROVE ShortStraw(s)
  <2>1. s - Half = t
      BY <1>5
  <2> QED BY <2>1 DEF ShortStraw
<1> QED BY <1>2, <1>3, <1>4, <1>5

(* While one CPU grows the pool, the Half indices past the committed size   *)
(* cannot all be taken: each would have an owner that waits, and with the   *)
(* growing CPU and one more to take the next index that is too many CPUs.   *)
LEMMA LeadSuffices ==
    ASSUME FewCPUs, PoolInv,
           NEW g \in CPU, pc[g] \in Growing, NEW c \in CPU, pc[c] = "idle"
    PROVE  hp_size < hp_true_sz + Half - 1
<1> USE GrowHalf
<1>1. /\ hp_size \in Nat /\ hp_true_sz \in Nat
      /\ hp_size \in hp_true_sz - Half .. hp_true_sz + Half - 1
    BY DEF PoolInv, GrowInv, TypeOK
<1>2. SUFFICES ASSUME hp_size = hp_true_sz + Half - 1 PROVE FALSE
    BY <1>1
<1> DEFINE Late == hp_true_sz .. hp_true_sz + Half - 1
           Others == (CPU \ {g}) \ {c}
           owner == [i \in Late |-> CHOOSE d \in CPU : pc[d] = "wait"
                                                        /\ idx[d] = i]
<1>3. IsFiniteSet(Late) /\ Cardinality(Late) = Half
    BY <1>1, FS_Interval
<1>4. IsFiniteSet(Others) /\ Cardinality(Others) < Half
  <2>1. IsFiniteSet(CPU) /\ Cardinality(CPU) \in Nat
      BY PoolAssumption, FS_CardinalityType
  <2>2. /\ IsFiniteSet(CPU \ {g})
        /\ Cardinality(CPU \ {g}) = Cardinality(CPU) - 1
      BY <2>1, FS_RemoveElement
  <2>3. c \in CPU \ {g}
      BY DEF Growing
  <2>4. /\ IsFiniteSet(Others)
        /\ Cardinality(Others) = Cardinality(CPU \ {g}) - 1
      BY <2>2, <2>3, FS_RemoveElement
  <2> QED BY <2>1, <2>2, <2>4 DEF FewCPUs
<1>5. ASSUME NEW i \in Late
      PROVE  owner[i] \in CPU /\ pc[owner[i]] = "wait" /\ idx[owner[i]] = i
  <2>1. \E d \in CPU : pc[d] = "wait" /\ idx[d] = i
    <3>1. i \in hp_true_sz .. hp_size
        BY <1>2
    <3> QED BY <3>1 DEF PoolInv, OwnersInv
  <2> QED BY <2>1
<1>6. owner \in [Late -> Others]
  <2>1. ASSUME NEW i \in Late PROVE owner[i] \in Others
      BY <1>5 DEF Growing
  <2> QED BY <2>1
<1>7. PICK x, y \in Late : x # y /\ owner[x] = owner[y]
  <2> HIDE DEF Late, Others, owner
  <2>1. Cardinality(Others) < Cardinality(Late)
      BY <1>3, <1>4
  <2> QED BY <1>3, <1>4, <1>6, <2>1, FS_PigeonHole
<1> QED BY <1>5, <1>7

(* After ntfe_init half a block of the first growth lies ahead. *)
LEMMA PoolInit == ASSUME Init PROVE PoolInv
<1> USE GrowHalf DEF Init, Block
<1>1. HPOOL_GROW % HPOOL_GROW = 0
  <2>1. HPOOL_GROW = HPOOL_GROW * 1
      OBVIOUS
  <2> QED BY <2>1, NoRemainder
<1>2. /\ starved \in BOOLEAN
      /\ ~starved => backed = 0 .. HPOOL_GROW - 1
      /\ backed \subseteq Nat
  <2>1. 0 .. 0 + HPOOL_GROW - 1 = 0 .. HPOOL_GROW - 1
      OBVIOUS
  <2>2. 0 .. HPOOL_GROW - 1 \subseteq Nat
      OBVIOUS
  <2>3. CASE backed = Block(0) /\ starved = FALSE
      BY <2>1, <2>2, <2>3
  <2>4. CASE backed = {} /\ starved = TRUE
      BY <2>4
  <2> QED BY <2>3, <2>4
<1>3. TypeOK
    BY <1>2 DEF TypeOK
<1>4. GrowersSerialised /\ IndexUnique /\ GrowInv
    BY DEF GrowersSerialised, IndexUnique, GrowInv, Growing
<1>5. OwnersInv
    BY DEF OwnersInv
<1>6. RestInv
    BY <1>2 DEF RestInv
<1> QED BY <1>1, <1>3, <1>4, <1>5, <1>6 DEF PoolInv

(* Taking an index: it either becomes the one growth under way, or its      *)
(* owner waits.                                                             *)
LEMMA AllocateStep ==
    ASSUME FewCPUs, PoolInv, NEW c \in CPU, Allocate(c)
    PROVE  PoolInv'
<1> USE GrowHalf DEF Goto, memory
<1> DEFINE s == hp_size + 1
<1>1. /\ TypeOK /\ hp_true_sz % HPOOL_GROW = 0
      /\ GrowersSerialised /\ IndexUnique /\ OwnersInv /\ GrowInv /\ RestInv
    BY DEF PoolInv
<1>2. /\ pc[c] = "idle" /\ hp_size \in Nat /\ s \in Nat /\ hp_true_sz \in Nat
      /\ hp_size' = s
      /\ idx' = [idx EXCEPT ![c] = s]
      /\ pc' = [pc EXCEPT ![c] = IF ShortStraw(s) THEN "grow" ELSE "wait"]
      /\ UNCHANGED <<hp_true_sz, backed, starved, base>>
    BY <1>1 DEF Allocate, TypeOK
<1>3. TypeOK'
    BY <1>1, <1>2 DEF TypeOK, Growing
<1>4. IndexUnique'
  <2>1. \A d \in CPU : pc[d] # "idle" => idx[d] # s
      BY <1>1 DEF OwnersInv, TypeOK
  <2> QED BY <1>1, <1>2, <2>1 DEF IndexUnique, TypeOK
<1>5. ASSUME s < hp_true_sz \/ ~ShortStraw(s) PROVE OwnersInv'
  <2>1. \A d \in CPU : pc'[d] # "idle" => idx'[d] \in 1 .. hp_size'
      BY <1>1, <1>2 DEF OwnersInv, TypeOK
  <2>2. \A d \in CPU : pc'[d] = "use" => idx'[d] < hp_true_sz'
      BY <1>1, <1>2 DEF OwnersInv, TypeOK
  <2>3. \A i \in hp_true_sz .. hp_size :
           \E d \in CPU : pc'[d] = "wait" /\ idx'[d] = i
    <3>1. ASSUME NEW i \in hp_true_sz .. hp_size
          PROVE  \E d \in CPU : pc'[d] = "wait" /\ idx'[d] = i
      <4>1. PICK d \in CPU : pc[d] = "wait" /\ idx[d] = i
          BY <1>1 DEF OwnersInv
      <4>2. pc'[d] = "wait" /\ idx'[d] = i
          BY <4>1, <1>1, <1>2 DEF TypeOK
      <4> QED BY <4>2
    <3> QED BY <3>1
  <2>4. ~ShortStraw(s) => pc'[c] = "wait" /\ idx'[c] = s
      BY <1>1, <1>2 DEF TypeOK
  <2>5. ASSUME NEW i \in hp_true_sz .. s
        PROVE  \E d \in CPU : pc'[d] = "wait" /\ idx'[d] = i
    <3>1. CASE i = s
        BY <3>1, <1>2, <1>5, <2>4
    <3>2. CASE i # s
        BY <3>2, <1>2, <2>3
    <3> QED BY <3>1, <3>2
  <2> QED BY <1>2, <2>1, <2>2, <2>5 DEF OwnersInv
<1>6. CASE \E g \in CPU : pc[g] \in Growing
  <2>1. PICK g \in CPU : pc[g] \in Growing
      BY <1>6
  <2>2. hp_size < hp_true_sz + Half - 1
      BY <1>2, <2>1, LeadSuffices
  <2>3. hp_size \in hp_true_sz - Half .. hp_true_sz + Half - 1
      BY <1>1, <2>1 DEF GrowInv
  <2>4. ~ShortStraw(s)
    <3>1. s \in hp_true_sz - Half + 1 .. hp_true_sz + Half
        BY <2>3, <1>2
    <3>2. s \in Int /\ hp_true_sz \in Int
        BY <1>2
    <3>3. ShortStraw(s) <=> s = hp_true_sz + Half
        BY <1>1, <3>1, <3>2, ShortStrawAt
    <3> QED BY <3>3, <2>2, <1>2
  <2>5. pc' = [pc EXCEPT ![c] = "wait"]
      BY <1>2, <2>4
  <2>6. GrowersSerialised'
      BY <1>1, <2>5 DEF GrowersSerialised, Growing, TypeOK
  <2>7. GrowInv'
      BY <1>1, <1>2, <2>2, <2>3, <2>5 DEF GrowInv, Growing, TypeOK
  <2>8. RestInv'
    <3>1. pc'[g] \in Growing
        BY <2>1, <2>5, <1>1, <1>2 DEF Growing, TypeOK
    <3> QED BY <3>1 DEF RestInv
  <2> QED BY <1>1, <1>2, <1>3, <1>4, <1>5, <2>4, <2>6, <2>7, <2>8 DEF PoolInv
<1>7. CASE \A g \in CPU : pc[g] \notin Growing
  <2>1. /\ hp_size \in hp_true_sz - HPOOL_GROW - Half .. hp_true_sz - Half - 1
        /\ ~starved => backed = 0 .. hp_true_sz - 1
      BY <1>1, <1>7 DEF RestInv
  <2>2. ShortStraw(s) <=> s = hp_true_sz - Half
    <3>1. s \in hp_true_sz - HPOOL_GROW - Half + 1 .. hp_true_sz + Half - 1
        BY <2>1, <1>2
    <3>2. s \in Int /\ hp_true_sz \in Int
        BY <1>2
    <3> QED BY <1>1, <3>1, <3>2, ShortStrawAt
  <2>3. OwnersInv'
      BY <1>2, <1>5, <2>1
  <2>4. GrowersSerialised'
      BY <1>1, <1>2, <1>7 DEF GrowersSerialised, Growing, TypeOK
  <2>5. GrowInv'
      BY <1>1, <1>2, <1>7, <2>1, <2>2 DEF GrowInv, Growing, TypeOK
  <2>6. RestInv'
    <3>1. pc'[c] = IF ShortStraw(s) THEN "grow" ELSE "wait"
        BY <1>1, <1>2 DEF TypeOK
    <3>2. CASE ShortStraw(s)
        BY <3>1, <3>2 DEF RestInv, Growing
    <3>3. CASE ~ShortStraw(s)
        BY <3>3, <1>2, <2>1, <2>2 DEF RestInv
    <3> QED BY <3>2, <3>3
  <2> QED BY <1>1, <1>2, <1>3, <1>4, <2>3, <2>4, <2>5, <2>6 DEF PoolInv
<1> QED BY <1>6, <1>7

(* A step of the CPU that grows the pool, other than the last, changes      *)
(* nothing anybody else looks at.                                           *)
LEMMA GrowingStep ==
    ASSUME PoolInv, NEW c \in CPU,
           \/ GrowAddress(c) \/ RegionCommit(c) \/ RegionCommitFails(c)
           \/ GrowLoad(c)
    PROVE  PoolInv'
<1> USE GrowHalf DEF Goto, memory
<1>1. /\ TypeOK /\ hp_true_sz % HPOOL_GROW = 0
      /\ GrowersSerialised /\ IndexUnique /\ OwnersInv /\ GrowInv
    BY DEF PoolInv
<1>2. /\ pc[c] \in Growing /\ pc'[c] \in Growing
      /\ \A d \in CPU : d # c => pc'[d] = pc[d] /\ base'[d] = base[d]
      /\ pc' \in [CPU -> Growing \cup {"idle", "wait", "use"}]
      /\ UNCHANGED <<hp_size, hp_true_sz, idx>>
    BY <1>1 DEF TypeOK, Growing, GrowAddress, RegionCommit,
               RegionCommitFails, GrowLoad
<1>3. /\ hp_size \in Nat /\ hp_true_sz \in Nat
      /\ \A d \in CPU : d # c => pc[d] \notin Growing
    BY <1>1, <1>2 DEF TypeOK, GrowersSerialised
<1>4. TypeOK'
  <2>1. base' \in [CPU -> Nat]
      BY <1>1 DEF TypeOK, GrowAddress, RegionCommit,
               RegionCommitFails, GrowLoad
  <2>2. backed' \subseteq Nat
    <3>1. base[c] .. base[c] + HPOOL_GROW - 1 \subseteq Nat
        BY <1>1 DEF TypeOK
    <3>2. backed' \in {backed, backed \cup Block(base[c])}
        BY DEF GrowAddress, RegionCommit,
               RegionCommitFails, GrowLoad
    <3> QED BY <1>1, <3>1, <3>2 DEF TypeOK, Block
  <2>3. starved' \in BOOLEAN
      BY <1>1 DEF TypeOK, GrowAddress, RegionCommit, RegionCommitFails,
                  GrowLoad
  <2> QED BY <1>1, <1>2, <2>1, <2>2, <2>3 DEF TypeOK
<1>5. GrowersSerialised' /\ RestInv'
    BY <1>2, <1>3 DEF GrowersSerialised, RestInv
<1>6. IndexUnique' /\ OwnersInv'
  <2>0. /\ pc[c] \notin {"idle", "wait", "use"}
        /\ pc'[c] \notin {"idle", "wait", "use"}
      BY <1>2 DEF Growing
  <2>1. \A d \in CPU : (pc'[d] = "idle") <=> (pc[d] = "idle")
      BY <1>2, <2>0
  <2>2. \A d \in CPU : (pc'[d] = "wait") <=> (pc[d] = "wait")
      BY <1>2, <2>0
  <2>3. \A d \in CPU : (pc'[d] = "use") <=> (pc[d] = "use")
      BY <1>2, <2>0
  <2>4. IndexUnique'
      BY <1>1, <1>2, <2>1 DEF IndexUnique
  <2> QED BY <1>1, <1>2, <2>1, <2>2, <2>3, <2>4 DEF OwnersInv
<1>7. GrowInv'
  <2>1. /\ idx'[c] = hp_true_sz' - Half
        /\ hp_size' \in hp_true_sz' - Half .. hp_true_sz' + Half - 1
      BY <1>1, <1>2 DEF GrowInv
  <2>2. pc'[c] # "grow" /\ pc'[c] # "load" => base'[c] = hp_true_sz'
      BY <1>1, <1>2 DEF GrowInv, TypeOK, Growing, GrowAddress, RegionCommit,
                        RegionCommitFails, GrowLoad
  <2>3. ~starved' =>
          backed' = IF pc'[c] \in {"load", "store"}
                    THEN 0 .. hp_true_sz' + HPOOL_GROW - 1
                    ELSE 0 .. hp_true_sz' - 1
    <3>1. CASE GrowAddress(c)
        BY <3>1, <1>1, <1>2 DEF GrowInv, TypeOK, Growing, GrowAddress
    <3>2. CASE RegionCommit(c)
      <4> SUFFICES ASSUME ~starved' PROVE backed' = IF pc'[c] \in {"load", "store"}
                    THEN 0 .. hp_true_sz' + HPOOL_GROW - 1
                    ELSE 0 .. hp_true_sz' - 1
          OBVIOUS
      <4>1. backed = 0 .. hp_true_sz - 1 /\ base[c] = hp_true_sz
          BY <3>2, <1>1, <1>2 DEF GrowInv, RegionCommit
      <4>2. backed' = (0 .. hp_true_sz - 1)
                        \cup (hp_true_sz .. hp_true_sz + HPOOL_GROW - 1)
          BY <3>2, <4>1 DEF RegionCommit, Block
      <4>3. backed' = 0 .. hp_true_sz + HPOOL_GROW - 1
          BY <4>2, <1>3
      <4> QED BY <3>2, <4>3, <1>1, <1>2 DEF RegionCommit, TypeOK
    <3>3. CASE GrowLoad(c)
        BY <3>3, <1>1, <1>2 DEF GrowInv, TypeOK, Growing, GrowLoad
    <3>4. CASE RegionCommitFails(c)
        BY <3>4 DEF RegionCommitFails
    <3> QED BY <3>1, <3>2, <3>3, <3>4
  <2> QED BY <1>2, <1>3, <2>1, <2>2, <2>3 DEF GrowInv
<1> QED BY <1>1, <1>2, <1>4, <1>5, <1>6, <1>7 DEF PoolInv

(* The end of a growth moves the committed size by one block.               *)
LEMMA GrowStoreStep ==
    ASSUME PoolInv, NEW c \in CPU, GrowStore(c)
    PROVE  PoolInv'
<1> USE GrowHalf DEF Goto, memory
<1>1. /\ TypeOK /\ hp_true_sz % HPOOL_GROW = 0
      /\ GrowersSerialised /\ IndexUnique /\ OwnersInv /\ GrowInv
    BY DEF PoolInv
<1>2. /\ pc[c] = "store" /\ pc' = [pc EXCEPT ![c] = "use"]
      /\ UNCHANGED <<hp_size, backed, starved, idx, base>>
      /\ hp_size \in Nat /\ hp_true_sz \in Nat
    BY <1>1 DEF GrowStore, TypeOK
<1>3. /\ base[c] = hp_true_sz /\ idx[c] = hp_true_sz - Half
      /\ hp_size \in hp_true_sz - Half .. hp_true_sz + Half - 1
      /\ ~starved => backed = 0 .. hp_true_sz + HPOOL_GROW - 1
    BY <1>1, <1>2 DEF GrowInv, Growing
<1>4. hp_true_sz' = hp_true_sz + HPOOL_GROW
    BY <1>3 DEF GrowStore
<1>5. hp_true_sz' % HPOOL_GROW = 0
    BY <1>1, <1>2, <1>4, NextMultiple
<1>6. TypeOK'
    BY <1>1, <1>2, <1>4 DEF TypeOK, Growing
<1>7. \A d \in CPU : pc'[d] \notin Growing
    BY <1>1, <1>2 DEF GrowersSerialised, Growing, TypeOK
<1>8. GrowersSerialised' /\ GrowInv'
    BY <1>7 DEF GrowersSerialised, GrowInv
<1>9. IndexUnique'
    BY <1>1, <1>2 DEF IndexUnique, TypeOK
<1>10. OwnersInv'
  <2>1. \A d \in CPU : pc'[d] # "idle" => idx'[d] \in 1 .. hp_size'
      BY <1>1, <1>2 DEF OwnersInv, TypeOK
  <2>2. \A d \in CPU : pc'[d] = "use" => idx'[d] < hp_true_sz'
    <3>1. ASSUME NEW d \in CPU, pc'[d] = "use" PROVE idx'[d] < hp_true_sz'
      <4>1. CASE d = c
          BY <4>1, <1>2, <1>3, <1>4
      <4>2. CASE d # c
        <5>1. pc[d] = "use"
            BY <3>1, <4>2, <1>1, <1>2 DEF TypeOK
        <5>2. idx[d] < hp_true_sz /\ idx[d] \in Nat
            BY <5>1, <1>1 DEF OwnersInv, TypeOK
        <5> QED BY <5>2, <1>2, <1>4
      <4> QED BY <4>1, <4>2
    <3> QED BY <3>1
  <2>3. \A i \in hp_true_sz' .. hp_size' : i \in hp_true_sz .. hp_size
      BY <1>2, <1>4
  <2>4. \A d \in CPU : pc[d] = "wait" => pc'[d] = "wait"
      BY <1>1, <1>2 DEF TypeOK
  <2> QED BY <1>1, <1>2, <2>1, <2>2, <2>3, <2>4 DEF OwnersInv
<1>11. RestInv'
    BY <1>2, <1>3, <1>4 DEF RestInv
<1> QED BY <1>5, <1>6, <1>8, <1>9, <1>10, <1>11 DEF PoolInv

(* The steps that touch neither the counter nor the pool. *)
LEMMA CallerStep ==
    ASSUME PoolInv, NEW c \in CPU, Waited(c) \/ Return(c)
    PROVE  PoolInv'
<1> USE GrowHalf DEF Goto, memory
<1>1. /\ TypeOK /\ hp_true_sz % HPOOL_GROW = 0
      /\ GrowersSerialised /\ IndexUnique /\ OwnersInv /\ GrowInv /\ RestInv
    BY DEF PoolInv
<1>2. /\ pc[c] \notin Growing /\ pc'[c] \notin Growing
      /\ \A d \in CPU : d # c => /\ pc'[d] = pc[d] /\ base'[d] = base[d]
                                /\ idx'[d] = idx[d]
      /\ UNCHANGED <<hp_size, hp_true_sz, backed, starved>>
    BY <1>1 DEF TypeOK, Growing, Waited, Return
<1>3. TypeOK'
  <2>1. CASE Waited(c)
      BY <1>1, <2>1 DEF TypeOK, Waited
  <2>2. CASE Return(c)
    <3>1. idx' \in [CPU -> Nat] /\ base' \in [CPU -> Nat]
        BY <1>1, <2>2 DEF TypeOK, Return
    <3>2. pc' \in [CPU -> Growing \cup {"idle", "wait", "use"}]
        BY <1>1, <2>2 DEF TypeOK, Return
    <3> QED BY <1>1, <1>2, <3>1, <3>2 DEF TypeOK
  <2> QED BY <2>1, <2>2
<1>4. GrowersSerialised' /\ GrowInv' /\ RestInv'
    BY <1>1, <1>2 DEF GrowersSerialised, GrowInv, RestInv
<1>5. \/ pc'[c] = "idle" /\ pc[c] = "use"
      \/ pc'[c] = "use" /\ pc[c] = "wait" /\ idx[c] < hp_true_sz /\ idx' = idx
    BY <1>1 DEF TypeOK, Waited, Return
<1>6. IndexUnique'
    BY <1>1, <1>2, <1>5 DEF IndexUnique
<1>7. OwnersInv'
  <2>1. /\ \A d \in CPU : pc'[d] # "idle" => idx'[d] \in 1 .. hp_size'
        /\ \A d \in CPU : pc'[d] = "use" => idx'[d] < hp_true_sz'
      BY <1>1, <1>2, <1>5 DEF OwnersInv
  <2>2. ASSUME NEW i \in hp_true_sz .. hp_size
        PROVE  \E d \in CPU : pc'[d] = "wait" /\ idx'[d] = i
    <3>1. PICK d \in CPU : pc[d] = "wait" /\ idx[d] = i
        BY <1>1 DEF OwnersInv
    <3>2. d # c
        BY <3>1, <1>1, <1>5 DEF TypeOK
    <3> QED BY <3>1, <3>2, <1>2
  <2> QED BY <1>2, <2>1, <2>2 DEF OwnersInv
<1> QED BY <1>1, <1>2, <1>3, <1>4, <1>6, <1>7 DEF PoolInv

(* PoolInv is inductive as long as there are no more CPUs than half a block *)
(* of lead can hold back.                                                   *)
THEOREM PoolInductive ==
    ASSUME FewCPUs
    PROVE  Spec => []PoolInv
<1>1. Init => PoolInv
    BY PoolInit
<1>2. PoolInv /\ [Next]_vars => PoolInv'
  <2> SUFFICES ASSUME PoolInv, [Next]_vars PROVE PoolInv'
      OBVIOUS
  <2>1. CASE UNCHANGED vars
      BY <2>1 DEF vars, memory, PoolInv, TypeOK, GrowersSerialised, IndexUnique,
                  OwnersInv, GrowInv, RestInv
  <2>2. ASSUME NEW c \in CPU, Allocate(c) PROVE PoolInv'
      BY <2>2, AllocateStep
  <2>3. ASSUME NEW c \in CPU, Waited(c) PROVE PoolInv'
      BY <2>3, CallerStep
  <2>4. ASSUME NEW c \in CPU, Pause(c) PROVE PoolInv'
    <3>1. UNCHANGED vars
        BY <2>4 DEF Pause
    <3> QED BY <2>1, <3>1
  <2>5. ASSUME NEW c \in CPU,
               \/ GrowAddress(c) \/ RegionCommit(c) \/ RegionCommitFails(c)
               \/ GrowLoad(c)
        PROVE  PoolInv'
      BY <2>5, GrowingStep
  <2>7. ASSUME NEW c \in CPU, GrowStore(c) PROVE PoolInv'
      BY <2>7, GrowStoreStep
  <2>8. ASSUME NEW c \in CPU, Return(c) PROVE PoolInv'
      BY <2>8, CallerStep
  <2> QED BY <2>1, <2>2, <2>3, <2>4, <2>5, <2>7, <2>8
          DEF Next, Continue
<1> QED BY <1>1, <1>2, PTL DEF Spec

(* Growth is serialised without a lock. *)
THEOREM GrowersCorrect ==
    ASSUME FewCPUs
    PROVE  Spec => []GrowersSerialised
<1>1. PoolInv => GrowersSerialised
    BY DEF PoolInv
<1> QED BY <1>1, PoolInductive, PTL

(* Every index host_allocate returns has memory behind it, until            *)
(* RegionCommit fails.                                                      *)
THEOREM IndexCorrectlyBacked ==
    ASSUME FewCPUs
    PROVE  Spec => []IndexBacked
<1>1. PoolInv => IndexBacked
  <2> SUFFICES ASSUME PoolInv, ~starved, NEW c \in CPU, pc[c] = "use"
               PROVE  idx[c] \in backed
      BY DEF IndexBacked
  <2>1. idx[c] \in 0 .. hp_true_sz - 1
      BY DEF PoolInv, OwnersInv, TypeOK
  <2>2. CASE \A d \in CPU : pc[d] \notin Growing
      BY <2>1, <2>2 DEF PoolInv, RestInv
  <2>3. ASSUME NEW d \in CPU, pc[d] \in Growing PROVE idx[c] \in backed
      BY <2>1, <2>3, GrowHalf DEF PoolInv, GrowInv, TypeOK
  <2> QED BY <2>2, <2>3
<1> QED BY <1>1, PoolInductive, PTL

(* Between growths hp_true_sz is what is committed. *)
THEOREM TrueSizeCorrect ==
    ASSUME FewCPUs
    PROVE  Spec => []TrueSizeBacked
<1>1. PoolInv => TrueSizeBacked
    BY DEF PoolInv, RestInv, TrueSizeBacked
<1> QED BY <1>1, PoolInductive, PTL

=============================================================================
