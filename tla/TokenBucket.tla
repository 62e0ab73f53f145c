---------------------------- MODULE TokenBucket -----------------------------
(***************************************************************************)
(* Traffic policing of one host of the ntfe engine: host_charge_packet and  *)
(* token_bucket_charge (src/ntfe/ntfe.cpp) with the saturating arithmetic   *)
(* of helper.cpp, on the token buckets of one host_state.  The spin lock of *)
(* the state is module HostTable's concern; here it is a flag.              *)
(*                                                                          *)
(* A CPU charges with the time it sampled when its batch of frames began    *)
(* (ntfe_rx_prepare), not with the time of the charge.  The CPUs that share *)
(* a host may therefore charge it with times that run backwards.            *)
(***************************************************************************)
EXTENDS Integers

CONSTANTS
    CPU,       \* processors that charge this host
    Meter,     \* the meters (MAX_METERS)
    Word,      \* 2^32, where tokens, costs and times wrap
    Rate, Capacity, Level, \* tbucket_desc, by meter
    Rule,      \* the rules that police: their scales and meters
    Length,    \* frame lengths
    MaxClock   \* bound of the model: milliseconds

U32 == 0 .. Word - 1

ASSUME MeterAssumption ==
    /\ Word \in Nat \ {0} /\ Meter # {}
    /\ Rate \in [Meter -> U32]
    /\ Capacity \in [Meter -> U32]
    /\ Level \in [Meter -> U32]
    /\ Rule \subseteq [byte_scale : U32, packet_scale : U32,
                       byte_tb : Meter, packet_tb : Meter]
    /\ Length \subseteq U32
    /\ MaxClock \in Nat

VARIABLES
    tokens, last,  \* tbucket, by meter
    lock,          \* host_state.lock
    clock, ts,     \* real time, and cpu_local.ts_msec
    pc, rl, cost,  \* the charge each CPU is in: rule, byte cost
    seen, excess   \* history: the time last charged with, not cut to a
                   \* word, and what the conforming charges took beyond
                   \* what the meter gained

bucket == <<tokens, last>>
time == <<clock, ts>>
history == <<seen, excess>>
vars == <<tokens, last, lock, clock, ts, pc, rl, cost, seen, excess>>

-----------------------------------------------------------------------------
(* helper.cpp. *)
Least(a, b) == IF a <= b THEN a ELSE b

(* Fault: no saturation. *)
SatMulWraps(a, b) == (a * b) % Word

satsub32(a, b) == LET r == (a - b) % Word IN IF r <= a THEN r ELSE 0
satadd32(a, b) == LET r == (a + b) % Word IN IF r < a THEN Word - 1 ELSE r
satmul32(a, b) == IF a * b >= Word THEN Word - 1 ELSE a * b

-----------------------------------------------------------------------------
(* Fault: the bucket is not capped. *)
RefilledUncapped(m, dt) == satadd32(tokens[m], satmul32(dt, Rate[m]))

(* token_bucket_charge: replenish, then pay; the history follows.  (If no   *)
(* time has passed, the stored time is already the present one.)            *)
Refilled(m, dt) ==
    IF dt = 0 THEN tokens[m]
    ELSE Least(Capacity[m], satadd32(tokens[m], satmul32(dt, Rate[m])))

(* What a meter gains until a charge: the rate for the time since the last  *)
(* one; but the charge of a CPU whose time is behind the stored one finds   *)
(* a difference just short of 2^32, and that is a full bucket.              *)
Behind(m, now) == now < seen[m]
Gain(m, now) ==
    IF Behind(m, now) THEN Capacity[m] ELSE Rate[m] * (now - seen[m])
Drained(m, now) ==
    IF excess[m] > Gain(m, now) THEN excess[m] - Gain(m, now) ELSE 0

(* Fault: the refill time is not stored. *)
ChargeKeepsLast(m, now, n) ==
    LET left == satsub32(Refilled(m, (now - last[m]) % Word), n)
    IN  /\ tokens' = [tokens EXCEPT ![m] = left]
        /\ seen' = [seen EXCEPT ![m] = now]
        /\ excess' = [excess EXCEPT ![m] =
               Drained(m, now) + IF left > Level[m] THEN n ELSE 0]
        /\ UNCHANGED last

token_bucket_charge(m, now, n) ==
    LET left == satsub32(Refilled(m, (now - last[m]) % Word), n)
    IN  /\ tokens' = [tokens EXCEPT ![m] = left]
        /\ last' = [last EXCEPT ![m] = now % Word]
        /\ seen' = [seen EXCEPT ![m] = now]
        /\ excess' = [excess EXCEPT ![m] =
               Drained(m, now) + IF left > Level[m] THEN n ELSE 0]

-----------------------------------------------------------------------------
NoRule == [byte_scale |-> 0, packet_scale |-> 0,
           byte_tb |-> CHOOSE m \in Meter : TRUE,
           packet_tb |-> CHOOSE m \in Meter : TRUE]

(* The pages of a fresh host state are zeroed. *)
Init ==
    /\ tokens = [m \in Meter |-> 0]
    /\ last = [m \in Meter |-> 0]
    /\ lock = FALSE
    /\ clock = 0
    /\ ts = [c \in CPU |-> 0]
    /\ pc = [c \in CPU |-> "idle"]
    /\ rl = [c \in CPU |-> NoRule]
    /\ cost = [c \in CPU |-> 0]
    /\ seen = [m \in Meter |-> 0]
    /\ excess = [m \in Meter |-> 0]

Tick ==
    /\ clock < MaxClock
    /\ clock' = clock + 1
    /\ UNCHANGED <<bucket, lock, ts, pc, rl, cost, history>>

(* ntfe_rx_prepare: a batch of frames begins. *)
Prepare(c) ==
    /\ pc[c] = "idle"
    /\ ts' = [ts EXCEPT ![c] = clock]
    /\ UNCHANGED <<bucket, lock, clock, pc, rl, cost, history>>

(* host_charge_packet: the costs, then the lock. *)
Acquire(c, r, n) ==
    /\ pc[c] = "idle" /\ ~lock
    /\ lock' = TRUE
    /\ pc' = [pc EXCEPT ![c] = "byte"]
    /\ rl' = [rl EXCEPT ![c] = r]
    /\ cost' = [cost EXCEPT ![c] = satmul32(n, r.byte_scale)]
    /\ UNCHANGED <<bucket, time, history>>

(* A cost of nothing conforms without touching the bucket. *)
ChargeBytes(c) ==
    /\ pc[c] = "byte"
    /\ IF cost[c] = 0
       THEN UNCHANGED <<bucket, history>>
       ELSE token_bucket_charge(rl[c].byte_tb, ts[c], cost[c])
    /\ pc' = [pc EXCEPT ![c] = "packet"]
    /\ UNCHANGED <<lock, time, rl, cost>>

ChargePacket(c) ==
    /\ pc[c] = "packet"
    /\ IF rl[c].packet_scale = 0
       THEN UNCHANGED <<bucket, history>>
       ELSE token_bucket_charge(rl[c].packet_tb, ts[c], rl[c].packet_scale)
    /\ lock' = FALSE
    /\ pc' = [pc EXCEPT ![c] = "idle"]
    /\ rl' = [rl EXCEPT ![c] = NoRule]
    /\ cost' = [cost EXCEPT ![c] = 0]
    /\ UNCHANGED time

Next ==
    \/ Tick
    \/ \E c \in CPU :
         \/ Prepare(c)
         \/ \E r \in Rule, n \in Length : Acquire(c, r, n)
         \/ ChargeBytes(c) \/ ChargePacket(c)

Spec == Init /\ [][Next]_vars

-----------------------------------------------------------------------------
(* Types: tokens, times and costs are 32-bit words whatever is charged.     *)
TypeOK ==
    /\ tokens \in [Meter -> U32] /\ last \in [Meter -> U32]
    /\ lock \in BOOLEAN
    /\ clock \in Nat /\ ts \in [CPU -> Nat]
    /\ pc \in [CPU -> {"idle", "byte", "packet"}]
    /\ rl \in [CPU -> Rule \cup {NoRule}]
    /\ cost \in [CPU -> U32]
    /\ seen \in [Meter -> Nat] /\ excess \in [Meter -> Nat]

(* The promise of a policer: in no interval do the charges that conform     *)
(* take more than what the meter gains in it plus the meter's capacity.     *)
(* (excess is the greatest such surplus over all intervals that end now.)   *)
(* With several CPUs a charge behind another's later one counts as a gain   *)
(* of one capacity: so much it gives away, and no more.                     *)
RateBound == \A m \in Meter : excess[m] <= Capacity[m]

(* token_bucket_charge caps what idle time may save up.                     *)
TokensCapped == \A m \in Meter : tokens[m] <= Capacity[m]

(* What makes RateBound inductive: a token is either still in the bucket or *)
(* was taken, and the stored time is that of the last charge, cut to 32     *)
(* bits.                                                                    *)
Balance ==
    \A m \in Meter : /\ tokens[m] + excess[m] <= Capacity[m]
                     /\ last[m] = seen[m] % Word
(* No time a CPU or a bucket keeps is ahead of the clock. *)
Sampled ==
    /\ \A c \in CPU : ts[c] <= clock
    /\ \A m \in Meter : seen[m] <= clock
MeterInv == TypeOK /\ Balance /\ Sampled

(* "Replenish bucket with tokens over delta" (token_bucket_charge): as long *)
(* as the milliseconds fit a word, the 32-bit arithmetic computes the       *)
(* bucket of unbounded integers exactly; and a charge behind the stored     *)
(* time replenishes over 2^32 ms less the difference.                       *)
Delta(m, now) ==
    IF Behind(m, now) THEN Word - (seen[m] - now) ELSE now - seen[m]
Exact(m, now, n) ==
    LET full == Least(Capacity[m], tokens[m] + Rate[m] * Delta(m, now))
    IN  tokens'[m] = IF full >= n THEN full - n ELSE 0
ReplenishesExactly ==
    [][clock < Word => \A c \in CPU :
         /\ ChargeBytes(c) /\ cost[c] # 0
              => Exact(rl[c].byte_tb, ts[c], cost[c])
         /\ ChargePacket(c) /\ rl[c].packet_scale # 0
              => Exact(rl[c].packet_tb, ts[c], rl[c].packet_scale)]_vars

=============================================================================
