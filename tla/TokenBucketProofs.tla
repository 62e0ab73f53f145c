------------------------- MODULE TokenBucketProofs --------------------------
(***************************************************************************)
(* Proofs about TokenBucket for every word size, rate and capacity.         *)
(***************************************************************************)
EXTENDS TokenBucket, TLAPS

(* The next multiple of n is n away. *)
LEMMA MultipleGap ==
    ASSUME NEW n \in Nat, n > 0, NEW k \in Int, NEW m \in Int, k > m
    PROVE  n * k >= n * m + n
<1>1. PICK d \in Nat : d >= 1 /\ k = m + d
    BY k - m \in Nat
<1>2. n * d >= n
    BY <1>1
<1>3. n * k = n * m + n * d
    BY <1>1
<1> QED BY <1>2, <1>3, n * m \in Int, n * d \in Int

(* A remainder lies below the divisor; small numbers are their own. *)
LEMMA ModRange ==
    ASSUME NEW n \in Nat, n > 0, NEW x \in Int
    PROVE  x % n \in 0 .. n - 1 /\ (x \in 0 .. n - 1 => x % n = x)
BY Z3

(* Adding a multiple of the divisor leaves the remainder alone. *)
LEMMA ModShift ==
    ASSUME NEW n \in Nat, n > 0, NEW x \in Int, NEW k \in Int
    PROVE  (x + n * k) % n = x % n
<1> DEFINE r == x % n
           y == x + n * k
           s == y % n
<1>1. r \in 0 .. n - 1
    BY ModRange
<1>2. n * k \in Int /\ y \in Int
    OBVIOUS
<1>3. s \in 0 .. n - 1
    BY <1>2, ModRange
<1>4. x - r \in Int /\ y - s \in Int
    BY <1>1, <1>2, <1>3
<1>5. PICK q \in Int : x = n * q + r
    BY x = n * (x \div n) + (x % n), x \div n \in Int, Z3
<1>6. PICK p \in Int : y = n * p + s
  <2> HIDE DEF y
  <2>1. y = n * (y \div n) + (y % n) /\ y \div n \in Int
      BY <1>2, Z3
  <2> QED BY <2>1
<1>7. n * p \in Int /\ n * q \in Int /\ n * (q + k) = n * q + n * k
    BY <1>5, <1>6
<1>8. n * p - n * (q + k) = r - s
    BY <1>1, <1>2, <1>3, <1>5, <1>6, <1>7
<1>9. ~(p > q + k)
    BY <1>1, <1>3, <1>7, <1>8, MultipleGap, q + k \in Int
<1>10. ~(q + k > p)
    BY <1>1, <1>3, <1>7, <1>8, MultipleGap, q + k \in Int
<1> QED BY <1>1, <1>3, <1>7, <1>8, <1>9, <1>10

(* The time that token_bucket_charge believes to have passed is never more  *)
(* than the time that has, if the times are in order.                       *)
LEMMA DeltaBound ==
    ASSUME NEW n \in Nat, n > 0, NEW s \in Nat, NEW t \in Nat, s <= t
    PROVE  (t - (s % n)) % n \in 0 .. t - s
<1>1. PICK k \in Int : s = n * k + (s % n)
    BY s = n * (s \div n) + (s % n), s \div n \in Int, Z3
<1>2. s % n \in Int /\ n * k \in Int
    BY ModRange
<1>3. t - (s % n) = (t - s) + n * k
    BY <1>1, <1>2
<1>4. (t - (s % n)) % n = (t - s) % n
    BY <1>3, ModShift, t - s \in Int
<1>5. (t - s) % n \in 0 .. t - s
  <2>1. t - s \in Nat
      OBVIOUS
  <2>2. ASSUME NEW x \in Nat PROVE x % n \in 0 .. x
    <3>1. CASE x < n
        BY <3>1, ModRange
    <3>2. CASE x >= n
        BY <3>2, ModRange
    <3> QED BY <3>1, <3>2
  <2> QED BY <2>1, <2>2
<1> QED BY <1>4, <1>5

(* The bit tricks of helper.cpp saturate. *)
LEMMA SatSub ==
    ASSUME NEW a \in U32, NEW b \in U32
    PROVE  satsub32(a, b) = IF b <= a THEN a - b ELSE 0
<1>0. Word \in Nat /\ Word > 0
    BY MeterAssumption
<1>1. CASE b <= a
  <2>1. a - b \in 0 .. Word - 1
      BY <1>0, <1>1 DEF U32
  <2>2. (a - b) % Word = a - b
      BY <1>0, <2>1, ModRange
  <2> QED BY <1>1, <2>2, <1>0 DEF satsub32, U32
<1>2. CASE b > a
  <2>1. a - b + Word \in 0 .. Word - 1 /\ a - b + Word > a
      BY <1>0, <1>2 DEF U32
  <2>2. (a - b + Word) % Word = a - b + Word
      BY <1>0, <2>1, ModRange
  <2>3. (a - b) % Word = (a - b + Word * 1) % Word
      BY <1>0, ModShift, a - b \in Int, 1 \in Int DEF U32
  <2>4. (a - b) % Word = a - b + Word
      BY <1>0, <2>2, <2>3 DEF U32
  <2> QED BY <1>0, <1>2, <2>1, <2>4 DEF satsub32, U32
<1> QED BY <1>0, <1>1, <1>2 DEF U32

(* ... and upwards. *)
LEMMA SatAdd ==
    ASSUME NEW a \in U32, NEW b \in U32
    PROVE  satadd32(a, b) = IF a + b < Word THEN a + b ELSE Word - 1
<1>0. Word \in Nat /\ Word > 0
    BY MeterAssumption
<1>1. CASE a + b < Word
  <2>1. a + b \in 0 .. Word - 1
      BY <1>0, <1>1 DEF U32
  <2>2. (a + b) % Word = a + b
      BY <1>0, <2>1, ModRange
  <2> QED BY <1>1, <2>2, <1>0 DEF satadd32, U32
<1>2. CASE a + b >= Word
  <2>1. a + b - Word \in 0 .. Word - 1 /\ a + b - Word < a
      BY <1>0, <1>2 DEF U32
  <2>2. (a + b - Word) % Word = a + b - Word
      BY <1>0, <2>1, ModRange
  <2>3. (a + b - Word + Word * 1) % Word = (a + b - Word) % Word
      BY <1>0, ModShift, a + b - Word \in Int, 1 \in Int DEF U32
  <2>4. (a + b) % Word = a + b - Word
      BY <1>0, <2>2, <2>3 DEF U32
  <2> QED BY <1>0, <1>2, <2>1, <2>4 DEF satadd32, U32
<1> QED BY <1>0, <1>1, <1>2 DEF U32

(* Products of naturals are naturals and grow with their factors. *)
LEMMA Products ==
    ASSUME NEW a \in Nat, NEW b \in Nat, NEW c \in Nat, b <= c
    PROVE  a * b \in Nat /\ a * b <= a * c /\ b * a = a * b
<1>1. PICK d \in Nat : c = b + d
    BY c - b \in Nat
<1>2. a * c = a * b + a * d
    BY <1>1
<1>3. a * b \in Nat /\ a * d \in Nat
    BY <1>1
<1> QED BY <1>2, <1>3

(* ... and for products. *)
LEMMA SatMul ==
    ASSUME NEW a \in U32, NEW b \in U32
    PROVE  satmul32(a, b) \in U32 /\ satmul32(a, b) <= a * b
<1>1. a * b \in Nat /\ Word \in Nat /\ Word > 0
    BY Products, MeterAssumption DEF U32
<1> QED BY <1>1 DEF satmul32, U32

(* Sums stay words. *)
LEMMA SatAddType ==
    ASSUME NEW a \in U32, NEW b \in U32
    PROVE  satadd32(a, b) \in U32 /\ satadd32(a, b) <= a + b
<1>1. Word \in Nat /\ Word > 0
    BY MeterAssumption
<1> QED BY <1>1, SatAdd DEF U32

(* Replenishing adds no more than the rate allows, up to the capacity. *)
LEMMA RefillBound ==
    ASSUME TypeOK, TokensCapped, NEW m \in Meter, NEW dt \in U32
    PROVE  /\ Refilled(m, dt) \in U32
           /\ Refilled(m, dt) <= Capacity[m]
           /\ Refilled(m, dt) <= tokens[m] + Rate[m] * dt
<1>1. /\ tokens[m] \in U32 /\ Rate[m] \in U32 /\ Capacity[m] \in U32
      /\ tokens[m] <= Capacity[m] /\ Word \in Nat
    BY MeterAssumption DEF TypeOK, TokensCapped
<1>2. /\ dt * Rate[m] = Rate[m] * dt
      /\ Rate[m] * dt \in Nat
    BY <1>1, Products DEF U32
<1> DEFINE gain == satmul32(dt, Rate[m])
           sum == satadd32(tokens[m], gain)
<1>3. gain \in U32 /\ gain <= Rate[m] * dt
    BY <1>1, <1>2, SatMul
<1>4. sum \in U32 /\ sum <= tokens[m] + gain
    BY <1>1, <1>3, SatAddType
<1>5. Refilled(m, dt) = IF dt = 0 THEN tokens[m] ELSE Least(Capacity[m], sum)
    BY DEF Refilled
<1> HIDE DEF gain, sum
<1> QED BY <1>1, <1>2, <1>3, <1>4, <1>5 DEF Least, U32

(* One charge keeps the capacity, whatever the CPU's time. *)
LEMMA ChargeCapped ==
    ASSUME TypeOK, TokensCapped, NEW m \in Meter, NEW now \in Nat,
           NEW n \in U32, token_bucket_charge(m, now, n)
    PROVE  /\ tokens' \in [Meter -> U32] /\ last' \in [Meter -> U32]
           /\ seen' \in [Meter -> Nat] /\ excess' \in [Meter -> Nat]
           /\ TokensCapped'
<1>1. Word \in Nat /\ Word > 0 /\ Capacity[m] \in Nat /\ Rate[m] \in Nat
    BY MeterAssumption DEF U32
<1>2. (now - last[m]) % Word \in U32 /\ now % Word \in U32
  <2>1. now - last[m] \in Int
      BY DEF TypeOK, U32
  <2> QED BY <1>1, <2>1, ModRange DEF U32
<1> DEFINE full == Refilled(m, (now - last[m]) % Word)
           left == satsub32(full, n)
           d == Drained(m, now)
<1>3. full \in U32 /\ full <= Capacity[m]
    BY <1>2, RefillBound
<1>4. left \in U32 /\ left <= full
    BY <1>1, <1>3, SatSub DEF U32
<1>5. Gain(m, now) \in Nat
  <2>1. CASE Behind(m, now)
      BY <1>1, <2>1 DEF Gain
  <2>2. CASE ~Behind(m, now)
    <3>1. now - seen[m] \in Nat
        BY <2>2 DEF Behind, TypeOK
    <3>2. Rate[m] * (now - seen[m]) \in Nat
        BY <1>1, <3>1, Products
    <3> QED BY <2>2, <3>2 DEF Gain
  <2> QED BY <2>1, <2>2
<1>6. d \in Nat
    BY <1>5 DEF Drained, TypeOK
<1>7. /\ tokens' = [tokens EXCEPT ![m] = left]
      /\ last' = [last EXCEPT ![m] = now % Word]
      /\ seen' = [seen EXCEPT ![m] = now]
      /\ excess' = [excess EXCEPT ![m] = d + IF left > Level[m] THEN n ELSE 0]
    BY DEF token_bucket_charge
<1> HIDE DEF full, left, d
<1>8. excess' \in [Meter -> Nat]
  <2>1. d + (IF left > Level[m] THEN n ELSE 0) \in Nat
      BY <1>6 DEF U32
  <2> QED BY <1>7, <2>1 DEF TypeOK
<1>9. TokensCapped'
  <2>1. left <= Capacity[m]
      BY <1>1, <1>3, <1>4 DEF U32
  <2> QED BY <1>7, <2>1 DEF TokensCapped, TypeOK
<1> QED BY <1>2, <1>4, <1>5, <1>7, <1>8, <1>9 DEF TypeOK

(* A charge conserves tokens, whatever its time: what is not in the bucket  *)
(* any more was paid for, and a bucket refilled by a charge behind the      *)
(* stored time holds no more than one capacity.                             *)
LEMMA ChargeBalanced ==
    ASSUME TypeOK, TokensCapped, Balance,
           NEW m \in Meter, NEW now \in Nat,
           NEW n \in U32, token_bucket_charge(m, now, n)
    PROVE  Balance'
<1>1. /\ Word \in Nat /\ Word > 0 /\ Capacity[m] \in Nat /\ Rate[m] \in Nat
      /\ Level[m] \in Nat /\ tokens[m] \in Nat /\ excess[m] \in Nat
      /\ seen[m] \in Nat
      /\ tokens[m] + excess[m] <= Capacity[m] /\ last[m] = seen[m] % Word
    BY MeterAssumption DEF U32, TypeOK, Balance
<1> DEFINE dt == (now - last[m]) % Word
           full == Refilled(m, dt)
           left == satsub32(full, n)
           d == Drained(m, now)
<1>2. dt \in U32
    BY <1>1, ModRange, now - last[m] \in Int DEF U32, TypeOK
<1>3. /\ full \in Nat /\ full \in U32 /\ full <= Capacity[m]
      /\ full <= tokens[m] + Rate[m] * dt
    BY <1>2, RefillBound DEF U32
<1>4. left = IF n <= full THEN full - n ELSE 0
    BY <1>3, SatSub
<1>5. /\ tokens' = [tokens EXCEPT ![m] = left]
      /\ last' = [last EXCEPT ![m] = now % Word]
      /\ seen' = [seen EXCEPT ![m] = now]
      /\ excess' = [excess EXCEPT ![m] = d + IF left > Level[m] THEN n ELSE 0]
    BY DEF token_bucket_charge
<1>6. n \in Nat
    BY DEF U32
<1>7. CASE Behind(m, now)
  <2>1. d = 0
      BY <1>1, <1>7 DEF Drained, Gain
  <2> HIDE DEF dt, full, left, d
  <2>2. left + (d + IF left > Level[m] THEN n ELSE 0) <= Capacity[m]
      BY <1>1, <1>3, <1>4, <1>6, <2>1
  <2> QED BY <1>5, <2>2 DEF Balance, TypeOK
<1>8. CASE ~Behind(m, now)
  <2> DEFINE true == now - seen[m]
  <2>1. seen[m] <= now
      BY <1>1, <1>8 DEF Behind
  <2>2. true \in Nat
      BY <1>1, <2>1
  <2>3. dt \in 0 .. true
      BY <1>1, <2>1, DeltaBound
  <2>4. /\ Rate[m] * dt \in Nat /\ Rate[m] * true \in Nat
        /\ Rate[m] * dt <= Rate[m] * true
      BY <1>1, <2>2, <2>3, Products
  <2>5. d = IF excess[m] > Rate[m] * true THEN excess[m] - Rate[m] * true ELSE 0
      BY <1>8 DEF Drained, Gain
  <2> HIDE DEF dt, full, left, d, true
  <2>6. full + d <= Capacity[m] /\ d \in Nat
    <3> DEFINE a == Rate[m] * dt
               b == Rate[m] * true
    <3>1. /\ a \in Nat /\ b \in Nat /\ a <= b
          /\ full <= tokens[m] + a
          /\ d = IF excess[m] > b THEN excess[m] - b ELSE 0
        BY <1>3, <2>4, <2>5
    <3> HIDE DEF a, b
    <3> QED BY <1>1, <1>3, <3>1
  <2>7. left + (d + IF left > Level[m] THEN n ELSE 0) <= Capacity[m]
      BY <1>1, <1>3, <1>4, <1>6, <2>6
  <2> QED BY <1>5, <2>7 DEF Balance, TypeOK
<1> QED BY <1>7, <1>8

(* A rule names meters and scales that exist. *)
LEMMA RuleType ==
    ASSUME NEW r \in Rule \cup {NoRule}
    PROVE  /\ r.byte_tb \in Meter /\ r.packet_tb \in Meter
           /\ r.byte_scale \in U32 /\ r.packet_scale \in U32
<1>1. 0 \in U32
    BY MeterAssumption DEF U32
<1>2. (CHOOSE m \in Meter : TRUE) \in Meter
    BY MeterAssumption
<1>3. CASE r = NoRule
    BY <1>1, <1>2, <1>3 DEF NoRule
<1>4. CASE r \in Rule
    BY <1>4, MeterAssumption
<1> QED BY <1>3, <1>4

(* Types and capacities hold for any number of CPUs and any clocks. *)
LEMMA CapStep ==
    ASSUME TypeOK, TokensCapped, [Next]_vars
    PROVE  TypeOK' /\ TokensCapped'
<1>1. ASSUME UNCHANGED <<bucket, history>>
      PROVE  TokensCapped'
    BY <1>1 DEF TokensCapped, bucket
<1>2. CASE UNCHANGED vars
    BY <1>2 DEF vars, TypeOK, TokensCapped
<1>3. CASE Tick
    BY <1>1, <1>3 DEF Tick, TypeOK, bucket, history
<1>4. ASSUME NEW c \in CPU, Prepare(c) PROVE TypeOK' /\ TokensCapped'
    BY <1>1, <1>4 DEF Prepare, TypeOK, bucket, history
<1>5. ASSUME NEW c \in CPU, NEW r \in Rule, NEW n \in Length, Acquire(c, r, n)
      PROVE  TypeOK' /\ TokensCapped'
  <2>1. satmul32(n, r.byte_scale) \in U32
      BY RuleType, SatMul, MeterAssumption
  <2> QED BY <1>1, <1>5, <2>1 DEF Acquire, TypeOK, bucket, history, time
<1>6. ASSUME NEW c \in CPU, ChargeBytes(c) PROVE TypeOK' /\ TokensCapped'
  <2>1. /\ ts[c] \in Nat /\ cost[c] \in U32 /\ rl[c].byte_tb \in Meter
      BY RuleType DEF TypeOK
  <2>2. CASE cost[c] = 0
      BY <1>1, <1>6, <2>2 DEF ChargeBytes, TypeOK, bucket, history, time
  <2>3. CASE cost[c] # 0
    <3>1. token_bucket_charge(rl[c].byte_tb, ts[c], cost[c])
        BY <1>6, <2>3 DEF ChargeBytes
    <3>2. /\ tokens' \in [Meter -> U32] /\ last' \in [Meter -> U32]
          /\ seen' \in [Meter -> Nat] /\ excess' \in [Meter -> Nat]
          /\ TokensCapped'
        BY <2>1, <3>1, ChargeCapped
    <3> QED BY <1>6, <3>2 DEF ChargeBytes, TypeOK, time
  <2> QED BY <2>2, <2>3
<1>7. ASSUME NEW c \in CPU, ChargePacket(c) PROVE TypeOK' /\ TokensCapped'
  <2>1. /\ ts[c] \in Nat /\ rl[c].packet_scale \in U32
        /\ rl[c].packet_tb \in Meter
      BY RuleType DEF TypeOK
  <2>2. /\ lock' \in BOOLEAN /\ clock' \in Nat /\ ts' \in [CPU -> Nat]
        /\ pc' \in [CPU -> {"idle", "byte", "packet"}]
        /\ rl' \in [CPU -> Rule \cup {NoRule}]
        /\ cost' \in [CPU -> U32]
    <3>1. 0 \in U32
        BY MeterAssumption DEF U32
    <3> QED BY <1>7, <3>1 DEF ChargePacket, TypeOK, time
  <2>3. CASE rl[c].packet_scale = 0
      BY <1>1, <1>7, <2>2, <2>3 DEF ChargePacket, TypeOK, bucket, history
  <2>4. CASE rl[c].packet_scale # 0
    <3>1. token_bucket_charge(rl[c].packet_tb, ts[c], rl[c].packet_scale)
        BY <1>7, <2>4 DEF ChargePacket
    <3>2. /\ tokens' \in [Meter -> U32] /\ last' \in [Meter -> U32]
          /\ seen' \in [Meter -> Nat] /\ excess' \in [Meter -> Nat]
          /\ TokensCapped'
        BY <2>1, <3>1, ChargeCapped
    <3> QED BY <2>2, <3>2 DEF TypeOK
  <2> QED BY <2>3, <2>4
<1> QED BY <1>2, <1>3, <1>4, <1>5, <1>6, <1>7 DEF Next

(* Initially nothing is in the buckets and nothing was taken. *)
LEMMA MeterInit == Init => MeterInv /\ TokensCapped
<1> SUFFICES ASSUME Init PROVE MeterInv /\ TokensCapped
    OBVIOUS
<1>1. 0 \in U32 /\ Word \in Nat /\ Word > 0
    BY MeterAssumption DEF U32
<1>2. 0 % Word = 0
    BY <1>1, ModRange DEF U32
<1>3. \A m \in Meter : Capacity[m] >= 0
    BY MeterAssumption DEF U32
<1>4. TypeOK
    BY <1>1 DEF Init, TypeOK
<1>5. Balance /\ TokensCapped
    BY <1>2, <1>3 DEF Init, Balance, TokensCapped
<1>6. Sampled
    BY DEF Init, Sampled
<1> QED BY <1>4, <1>5, <1>6 DEF MeterInv

(* Types: 32-bit words stay 32-bit words. *)
THEOREM TypeCorrect == Spec => []TypeOK
<1>1. Init => TypeOK /\ TokensCapped
    BY MeterInit DEF MeterInv
<1>2. TypeOK /\ TokensCapped /\ [Next]_vars => TypeOK' /\ TokensCapped'
    BY CapStep
<1> QED BY <1>1, <1>2, PTL DEF Spec

(* No meter ever holds more than its capacity, however many CPUs charge it  *)
(* and whatever their clocks say.                                           *)
THEOREM CapCorrect == Spec => []TokensCapped
<1>1. Init => TypeOK /\ TokensCapped
    BY MeterInit DEF MeterInv
<1>2. TypeOK /\ TokensCapped /\ [Next]_vars => TypeOK' /\ TokensCapped'
    BY CapStep
<1> QED BY <1>1, <1>2, PTL DEF Spec

(* Balance bounds both what is in a bucket and what was taken. *)
LEMMA BalanceCaps == MeterInv => TokensCapped /\ RateBound
<1> SUFFICES ASSUME MeterInv, NEW m \in Meter
             PROVE  tokens[m] <= Capacity[m] /\ excess[m] <= Capacity[m]
    BY DEF TokensCapped, RateBound
<1>1. /\ tokens[m] \in Nat /\ excess[m] \in Nat /\ Capacity[m] \in Nat
      /\ tokens[m] + excess[m] <= Capacity[m]
    BY MeterAssumption DEF MeterInv, TypeOK, Balance, U32
<1> QED BY <1>1

(* Tokens are conserved by every step of every CPU, in whatever order their *)
(* times are.                                                               *)
LEMMA MeterStep ==
    ASSUME MeterInv, [Next]_vars
    PROVE  Balance' /\ Sampled'
<1>0. TypeOK /\ TokensCapped /\ Balance /\ Sampled
    BY BalanceCaps DEF MeterInv
<1>1. ASSUME UNCHANGED <<bucket, history, time>>
      PROVE  Balance' /\ Sampled'
    BY <1>0, <1>1 DEF Balance, Sampled, bucket, history, time
<1>2. ASSUME NEW c \in CPU, NEW m \in Meter, NEW n \in U32,
             token_bucket_charge(m, ts[c], n), UNCHANGED time
      PROVE  Balance' /\ Sampled'
  <2>1. ts[c] \in Nat /\ ts[c] <= clock
      BY <1>0 DEF TypeOK, Sampled
  <2>2. Balance'
      BY <1>0, <1>2, <2>1, ChargeBalanced
  <2>3. seen' = [seen EXCEPT ![m] = ts[c]]
      BY <1>2 DEF token_bucket_charge
  <2>4. Sampled'
      BY <1>0, <1>2, <2>1, <2>3 DEF Sampled, TypeOK, time
  <2> QED BY <2>2, <2>4
<1>3. CASE UNCHANGED vars
    BY <1>1, <1>3 DEF vars, bucket, history, time
<1>4. CASE Tick
  <2>1. Balance'
      BY <1>0, <1>4 DEF Tick, Balance, bucket, history
  <2>2. Sampled'
      BY <1>0, <1>4 DEF Tick, Sampled, history, TypeOK
  <2> QED BY <2>1, <2>2
<1>5. ASSUME NEW c \in CPU, Prepare(c) PROVE Balance' /\ Sampled'
  <2>1. Balance'
      BY <1>0, <1>5 DEF Prepare, Balance, bucket, history
  <2>2. Sampled'
      BY <1>0, <1>5 DEF Prepare, Sampled, history, TypeOK
  <2> QED BY <2>1, <2>2
<1>6. ASSUME NEW c \in CPU, NEW r \in Rule, NEW n \in Length, Acquire(c, r, n)
      PROVE  Balance' /\ Sampled'
    BY <1>1, <1>6 DEF Acquire
<1>7. ASSUME NEW c \in CPU, ChargeBytes(c) PROVE Balance' /\ Sampled'
  <2>1. cost[c] \in U32 /\ rl[c].byte_tb \in Meter
      BY <1>0, RuleType DEF TypeOK
  <2> QED BY <1>1, <1>2, <1>7, <2>1 DEF ChargeBytes
<1>8. ASSUME NEW c \in CPU, ChargePacket(c) PROVE Balance' /\ Sampled'
  <2>1. rl[c].packet_scale \in U32 /\ rl[c].packet_tb \in Meter
      BY <1>0, RuleType DEF TypeOK
  <2> QED BY <1>1, <1>2, <1>8, <2>1 DEF ChargePacket
<1> QED BY <1>3, <1>4, <1>5, <1>6, <1>7, <1>8 DEF Next

(* The balance of every meter is an invariant, for any number of CPUs that  *)
(* charge it and whatever their cached times.                               *)
THEOREM MeterInductive == Spec => []MeterInv
<1>1. Init => MeterInv
    BY MeterInit
<1>2. MeterInv /\ [Next]_vars => MeterInv'
    BY CapStep, MeterStep, BalanceCaps DEF MeterInv
<1> QED BY <1>1, <1>2, PTL DEF Spec

(* In no interval do conforming charges take more than the rate allows plus *)
(* the capacity; a charge behind another CPU's later one is worth at most   *)
(* one capacity more.                                                       *)
THEOREM RateCorrect == Spec => []RateBound
<1>1. MeterInv => RateBound
    BY BalanceCaps
<1> QED BY <1>1, MeterInductive, PTL

(* While the times fit a word, the difference in 32 bits is the real one,   *)
(* or, behind the stored time, short of a word by as much.                  *)
LEMMA DeltaExact ==
    ASSUME NEW n \in Nat, n > 0, NEW s \in 0 .. n - 1, NEW t \in 0 .. n - 1
    PROVE  /\ s <= t => (t - s) % n = t - s
           /\ t < s => (t - s) % n = n - (s - t)
<1>1. ASSUME s <= t PROVE (t - s) % n = t - s
  <2>1. t - s \in 0 .. n - 1 /\ t - s \in Int
      BY <1>1
  <2> QED BY <2>1, ModRange
<1>2. ASSUME t < s PROVE (t - s) % n = n - (s - t)
  <2>1. t - s + n * 1 \in 0 .. n - 1 /\ t - s \in Int
      BY <1>2
  <2>2. (t - s + n * 1) % n = t - s + n * 1
      BY <2>1, ModRange
  <2>3. (t - s + n * 1) % n = (t - s) % n
      BY <2>1, ModShift, 1 \in Int
  <2>4. t - s + n * 1 = n - (s - t)
      OBVIOUS
  <2> QED BY <2>2, <2>3, <2>4
<1> QED BY <1>1, <1>2

(* While the clock fits a word, the stored time is the real one. *)
LEMMA ExactCharge ==
    ASSUME MeterInv, NEW m \in Meter, NEW now \in Nat, now < Word,
           seen[m] < Word, NEW n \in U32, token_bucket_charge(m, now, n)
    PROVE  Exact(m, now, n)
<1>1. /\ Word \in Nat /\ Word > 0 /\ Capacity[m] \in U32 /\ Rate[m] \in U32
      /\ tokens[m] \in U32 /\ seen[m] \in Nat /\ last[m] = seen[m] % Word
      /\ tokens[m] <= Capacity[m]
    BY MeterAssumption, BalanceCaps DEF MeterInv, TypeOK, Balance, TokensCapped
<1> DEFINE dt == Delta(m, now)
           gain == satmul32(dt, Rate[m])
           sum == satadd32(tokens[m], gain)
           full == Least(Capacity[m], tokens[m] + Rate[m] * dt)
<1>2. dt \in U32 /\ dt \in Nat
    BY <1>1 DEF U32, Delta, Behind
<1>3. (now - last[m]) % Word = dt
  <2>1. last[m] = seen[m]
      BY <1>1, ModRange, seen[m] \in Int
  <2>2. seen[m] \in 0 .. Word - 1 /\ now \in 0 .. Word - 1
      BY <1>1
  <2>3. /\ seen[m] <= now => (now - seen[m]) % Word = now - seen[m]
        /\ now < seen[m] => (now - seen[m]) % Word = Word - (seen[m] - now)
      BY <1>1, <2>2, DeltaExact
  <2>4. seen[m] <= now \/ now < seen[m]
      BY <1>1
  <2>5. now < seen[m] => ~(seen[m] <= now)
      BY <1>1
  <2> QED BY <2>1, <2>3, <2>4, <2>5 DEF Delta, Behind
<1>4. Rate[m] * dt \in Nat /\ dt * Rate[m] = Rate[m] * dt
    BY <1>1, <1>2, Products DEF U32
<1>5. gain = IF Rate[m] * dt < Word THEN Rate[m] * dt ELSE Word - 1
    BY <1>1, <1>4 DEF satmul32
<1>6. gain \in U32
    BY <1>1, <1>2, SatMul
<1>7. sum = IF tokens[m] + gain < Word THEN tokens[m] + gain ELSE Word - 1
    BY <1>1, <1>6, SatAdd
<1>8. Refilled(m, dt) = IF dt = 0 THEN tokens[m] ELSE Least(Capacity[m], sum)
    BY DEF Refilled
<1>9. dt = 0 => Rate[m] * dt = 0
    BY <1>1 DEF U32
<1>10. tokens'[m] = satsub32(Refilled(m, dt), n)
    BY <1>3 DEF token_bucket_charge, MeterInv, TypeOK
<1> HIDE DEF dt, gain, sum
<1>11. Refilled(m, dt) = full
  <2> DEFINE g == Rate[m] * dt
  <2>1. /\ g \in Nat /\ gain = IF g < Word THEN g ELSE Word - 1
        /\ dt = 0 => g = 0
        /\ full = Least(Capacity[m], tokens[m] + g)
      BY <1>4, <1>5, <1>9
  <2> HIDE DEF g, full
  <2>2. CASE dt = 0
      BY <1>1, <1>8, <2>1, <2>2 DEF Least, U32
  <2>3. CASE dt # 0
      BY <1>1, <1>6, <1>7, <1>8, <2>1, <2>3 DEF Least, U32
  <2> QED BY <2>2, <2>3
<1>12. full \in U32
    BY <1>1, <1>4 DEF Least, U32
<1>13. tokens'[m] = IF n <= full THEN full - n ELSE 0
    BY <1>10, <1>11, <1>12, SatSub
<1> QED BY <1>12, <1>13 DEF Exact, dt, U32

(* While the clock fits a word, the 32-bit saturating arithmetic            *)
(* replenishes exactly what the rate and the capacity say, and a charge     *)
(* behind another CPU's later one over 2^32 ms less the difference.         *)
THEOREM ArithmeticCorrect == Spec => ReplenishesExactly
<1>1. Spec => []MeterInv
    BY MeterInductive
<1>2. ASSUME MeterInv, clock < Word, NEW c \in CPU
      PROVE  /\ ChargeBytes(c) /\ cost[c] # 0
                  => Exact(rl[c].byte_tb, ts[c], cost[c])
             /\ ChargePacket(c) /\ rl[c].packet_scale # 0
                  => Exact(rl[c].packet_tb, ts[c], rl[c].packet_scale)
  <2>0. Word \in Nat
      BY MeterAssumption
  <2>1. ts[c] \in Nat /\ ts[c] < Word /\ \A m \in Meter : seen[m] < Word
      BY <1>2, <2>0 DEF MeterInv, TypeOK, Sampled
  <2>2. /\ cost[c] \in U32 /\ rl[c].byte_tb \in Meter
        /\ rl[c].packet_tb \in Meter /\ rl[c].packet_scale \in U32
      BY <1>2, RuleType DEF MeterInv, TypeOK
  <2>3. ASSUME ChargeBytes(c), cost[c] # 0
        PROVE  Exact(rl[c].byte_tb, ts[c], cost[c])
    <3>1. token_bucket_charge(rl[c].byte_tb, ts[c], cost[c])
        BY <2>3 DEF ChargeBytes
    <3> QED BY <1>2, <2>1, <2>2, <3>1, ExactCharge
  <2>4. ASSUME ChargePacket(c), rl[c].packet_scale # 0
        PROVE  Exact(rl[c].packet_tb, ts[c], rl[c].packet_scale)
    <3>1. token_bucket_charge(rl[c].packet_tb, ts[c], rl[c].packet_scale)
        BY <2>4 DEF ChargePacket
    <3> QED BY <1>2, <2>1, <2>2, <3>1, ExactCharge
  <2> QED BY <2>3, <2>4
<1>3. MeterInv =>
        [clock < Word => \A c \in CPU :
           /\ ChargeBytes(c) /\ cost[c] # 0
                => Exact(rl[c].byte_tb, ts[c], cost[c])
           /\ ChargePacket(c) /\ rl[c].packet_scale # 0
                => Exact(rl[c].packet_tb, ts[c], rl[c].packet_scale)]_vars
    BY <1>2
<1> QED BY <1>1, <1>3, PTL DEF ReplenishesExactly

=============================================================================
