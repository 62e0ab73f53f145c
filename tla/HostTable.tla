----------------------------- MODULE HostTable -----------------------------
(***************************************************************************)
(* One bucket of the ntfe host hash table (src/ntfe/host.cpp, ntfe.h) with  *)
(* the data-path code that drives it (ntfe_rx, ntfe_tx in ntfe.cpp) and the *)
(* part of ntfe_configure that touches it.  Buckets share nothing but the   *)
(* host pool counter, so one bucket shows every interaction of the CPUs.    *)
(*                                                                          *)
(* A CPU runs at dispatch level: it is never preempted, so it is a process  *)
(* that handles one frame at a time.  Readers take no lock; writers take    *)
(* the bucket lock (bit 31 of the first control word).                      *)
(***************************************************************************)
EXTENDS Integers, FiniteSets

CONSTANTS
    CPU,        \* processors that run the data path
    Addr,       \* host addresses that hash to this bucket
    NoAddr,     \* address 0, the key of a free entry
    TxDst,      \* destination addresses the local machine sends to
    CfgHost,    \* addresses a configuration authorises; 0 is not refused
    BktSz,      \* HTBL_BKT_SZ, entries per bucket (8)
    AgeMod,     \* 2^HTB_AGE_BITS, where the age field wraps
    PtrMod,     \* 2^HTB_PTR_BITS, where the state pointer field wraps
    MaxAllocs,  \* bound of the model: host states ever allocated
    MaxClock    \* bound of the model: ticks of ~1 s

ASSUME TableAssumption ==
    /\ NoAddr \notin Addr
    /\ TxDst \subseteq Addr \cup {NoAddr}
    /\ CfgHost \subseteq Addr \cup {NoAddr}
    /\ BktSz \in Nat \ {0}
    /\ AgeMod \in Nat \ {0}
    /\ PtrMod \in Nat \ {0}
    /\ MaxAllocs \in Nat
    /\ MaxClock \in Nat

Slots == 0 .. BktSz - 1
NoSlot == -1

HOST_PRI_NONE == 0
HOST_PRI_OUTAUTH == 1
HOST_PRI_DYNAUTH == 2
HOST_PRI_STATIC == 3
Priority == HOST_PRI_NONE .. HOST_PRI_STATIC

VARIABLES
    saddr, age, pri, ptr,  \* the entries, by slot
    lock, exhausted,       \* the two flag bits of the bucket
    hp_size,               \* host states handed out so far
    hlock,                 \* the spin lock of every host state
    clock, ts,             \* real time, and the time each CPU has cached
    mode,                  \* "run", or "config"/"failed" while suspended
    pc, key, want, hidx, sp, \* the frame each CPU is handling
    authd,                 \* history: addresses a caller asked to authorise
    born                   \* history: the time an entry was made, uncut

table == <<saddr, age, born, pri, ptr, lock, exhausted>>
pool == <<hp_size, hlock>>
time == <<clock, ts>>
frame == <<key, want, hidx, sp>>
vars == <<saddr, age, pri, ptr, lock, exhausted, hp_size, hlock, clock, ts,
          mode, pc, key, want, hidx, sp, authd, born>>

-----------------------------------------------------------------------------
(* probe_bucket: the lowest entry that holds the key, or none. *)
Hit(a, i) == saddr[i] = a /\ \A j \in Slots : j < i => saddr[j] # a
Miss(a) == \A j \in Slots : saddr[j] # a

(* Fault: the age is not inverted, so the youngest entry goes first. *)
DistNotInverted(now, i) == pri[i] * AgeMod + ((now - age[i]) % AgeMod)

(* The 13-bit eviction key: priority class above inverted age. *)
Dist(now, i) ==
    pri[i] * AgeMod + (AgeMod - 1 - ((now - age[i]) % AgeMod))

(* The entry the scan of allocate ends on: least key, lowest index. *)
IsVictim(now, i) ==
    \A j \in Slots : \/ Dist(now, i) < Dist(now, j)
                     \/ Dist(now, i) = Dist(now, j) /\ i <= j

(* host_insert and host_insert_authorized both call allocate with NONE. *)
AllocPriority == HOST_PRI_NONE

Filling == {"fill", "fill_ctrl", "fill_key", "fill_ptr"}
Holding == Filling \cup {"locked", "release"}
InFill(i) == \E c \in CPU : pc[c] \in Filling /\ hidx[c] = i

Goto(c, label) == pc' = [pc EXCEPT ![c] = label]

(* The frame is decided; the locals of the call are gone. *)
Done(c) ==
    /\ Goto(c, "idle")
    /\ key' = [key EXCEPT ![c] = NoAddr]
    /\ want' = [want EXCEPT ![c] = HOST_PRI_NONE]
    /\ hidx' = [hidx EXCEPT ![c] = NoSlot]
    /\ sp' = [sp EXCEPT ![c] = 0]

-----------------------------------------------------------------------------
Init ==
    /\ saddr = [i \in Slots |-> NoAddr]
    /\ age = [i \in Slots |-> 0]
    /\ pri = [i \in Slots |-> HOST_PRI_NONE]
    /\ ptr = [i \in Slots |-> 0]
    /\ lock = FALSE
    /\ exhausted = FALSE
    /\ hp_size = 0
    /\ hlock = [p \in 0 .. PtrMod - 1 |-> FALSE]
    /\ clock = 0
    /\ ts = [c \in CPU |-> 0]
    /\ mode = "run"
    /\ pc = [c \in CPU |-> "idle"]
    /\ key = [c \in CPU |-> NoAddr]
    /\ want = [c \in CPU |-> HOST_PRI_NONE]
    /\ hidx = [c \in CPU |-> NoSlot]
    /\ sp = [c \in CPU |-> 0]
    /\ authd = {}
    /\ born = [i \in Slots |-> 0]

-----------------------------------------------------------------------------
(* Time.  A CPU samples the clock once per batch of frames, so a cached     *)
(* value may lag behind the one another CPU holds.                          *)
Tick ==
    /\ clock < MaxClock
    /\ clock' = clock + 1
    /\ UNCHANGED <<table, pool, ts, mode, pc, frame, authd>>

Prepare(c) ==
    /\ mode = "run" /\ pc[c] = "idle"
    /\ ts' = [ts EXCEPT ![c] = clock]
    /\ UNCHANGED <<table, pool, clock, mode, pc, frame, authd>>

-----------------------------------------------------------------------------
(* ntfe_rx.  The lookup, the read of the priority and the read of the state *)
(* pointer are three separate unlocked reads of the bucket.                 *)
RxHit(c, a) ==
    /\ mode = "run" /\ pc[c] = "idle"
    /\ \E i \in Slots : Hit(a, i) /\ hidx' = [hidx EXCEPT ![c] = i]
    /\ key' = [key EXCEPT ![c] = a]
    /\ Goto(c, "rx_pri")
    /\ UNCHANGED <<table, pool, time, mode, want, sp, authd>>

RxMiss(c, a) ==
    /\ mode = "run" /\ pc[c] = "idle"
    /\ Miss(a)
    /\ key' = [key EXCEPT ![c] = a]
    /\ Goto(c, "rx_miss")
    /\ UNCHANGED <<table, pool, time, mode, want, hidx, sp, authd>>

(* The host looks authorised: the frame is accepted. *)
(* Fault: any known host is let through, whatever its priority. *)
RxAuthorizedAnyKnown(c) ==
    /\ pc[c] = "rx_pri"
    /\ Done(c)
    /\ UNCHANGED <<table, pool, time, mode, authd>>

RxAuthorized(c) ==
    /\ pc[c] = "rx_pri" /\ pri[hidx[c]] # HOST_PRI_NONE
    /\ Done(c)
    /\ UNCHANGED <<table, pool, time, mode, authd>>

(* No rule covers the frame: private traffic of an unknown host, dropped. *)
RxPrivate(c) ==
    /\ \/ pc[c] = "rx_pri" /\ pri[hidx[c]] = HOST_PRI_NONE
       \/ pc[c] = "rx_miss"
    /\ Done(c)
    /\ UNCHANGED <<table, pool, time, mode, authd>>

RxPublicHit(c) ==
    /\ pc[c] = "rx_pri" /\ pri[hidx[c]] = HOST_PRI_NONE
    /\ Goto(c, "state")
    /\ UNCHANGED <<table, pool, time, mode, frame, authd>>

(* host_insert gives up at once if the bucket is being written. *)
RxDeferred(c) ==
    /\ pc[c] = "rx_miss" /\ lock
    /\ Done(c)
    /\ UNCHANGED <<table, pool, time, mode, authd>>

Inserting == {c \in CPU : pc[c] \in Holding \cup {"acquire"}
                          /\ want[c] = HOST_PRI_NONE}

RxInsert(c) ==
    /\ pc[c] = "rx_miss" /\ ~lock
    /\ hp_size + Cardinality(Inserting) < MaxAllocs
    /\ Goto(c, "acquire")
    /\ UNCHANGED <<table, pool, time, mode, frame, authd>>

(* get_host_state, then host_charge_packet under the lock of the state.     *)
(* Whether the buckets conform (accept or drop) is module TokenBucket.      *)
RxGetState(c) ==
    /\ pc[c] = "state"
    /\ sp' = [sp EXCEPT ![c] = ptr[hidx[c]]]
    /\ Goto(c, "hl_wait")
    /\ UNCHANGED <<table, pool, time, mode, key, want, hidx, authd>>

(* Fault: the state is charged without waiting for its lock. *)
HostLockUntested(c) ==
    /\ pc[c] = "hl_wait"
    /\ hlock' = [hlock EXCEPT ![sp[c]] = TRUE]
    /\ Goto(c, "charge")
    /\ UNCHANGED <<table, hp_size, time, mode, frame, authd>>

HostLock(c) ==
    /\ pc[c] = "hl_wait" /\ ~hlock[sp[c]]
    /\ hlock' = [hlock EXCEPT ![sp[c]] = TRUE]
    /\ Goto(c, "charge")
    /\ UNCHANGED <<table, hp_size, time, mode, frame, authd>>

HostSpin(c) ==
    /\ pc[c] = "hl_wait" /\ hlock[sp[c]]
    /\ UNCHANGED vars

HostUnlock(c) ==
    /\ pc[c] = "charge"
    /\ hlock' = [hlock EXCEPT ![sp[c]] = FALSE]
    /\ Done(c)
    /\ UNCHANGED <<table, hp_size, time, mode, authd>>

-----------------------------------------------------------------------------
(* ntfe_tx: private traffic authorises its destination. *)
TxHit(c, a) ==
    /\ mode = "run" /\ pc[c] = "idle"
    /\ \E i \in Slots : Hit(a, i) /\ hidx' = [hidx EXCEPT ![c] = i]
    /\ key' = [key EXCEPT ![c] = a]
    /\ Goto(c, "tx_pri")
    /\ UNCHANGED <<table, pool, time, mode, want, sp, authd>>

TxMiss(c, a) ==
    /\ mode = "run" /\ pc[c] = "idle"
    /\ Miss(a)
    /\ key' = [key EXCEPT ![c] = a]
    /\ want' = [want EXCEPT ![c] = HOST_PRI_OUTAUTH]
    /\ authd' = authd \cup {a}
    /\ Goto(c, "acquire")
    /\ UNCHANGED <<table, pool, time, mode, hidx, sp>>

TxAlready(c) ==
    /\ pc[c] = "tx_pri" /\ pri[hidx[c]] >= HOST_PRI_OUTAUTH
    /\ Done(c)
    /\ UNCHANGED <<table, pool, time, mode, authd>>

TxRaise(c) ==
    /\ pc[c] = "tx_pri" /\ pri[hidx[c]] < HOST_PRI_OUTAUTH
    /\ want' = [want EXCEPT ![c] = HOST_PRI_OUTAUTH]
    /\ authd' = authd \cup {key[c]}
    /\ Goto(c, "acquire")
    /\ UNCHANGED <<table, pool, time, mode, key, hidx, sp>>

-----------------------------------------------------------------------------
(* The writers: host_insert (want = NONE) and host_insert_authorized.       *)
(* Fault: the lock bit is set without testing what it was. *)
AcquireUntested(c) ==
    /\ pc[c] = "acquire"
    /\ lock' = TRUE
    /\ Goto(c, "locked")
    /\ UNCHANGED <<saddr, age, born, pri, ptr, exhausted, pool, time, mode, frame,
                   authd>>

Acquire(c) ==
    /\ pc[c] = "acquire" /\ ~lock
    /\ lock' = TRUE
    /\ Goto(c, "locked")
    /\ UNCHANGED <<saddr, age, born, pri, ptr, exhausted, pool, time, mode, frame,
                   authd>>

(* The plain read a waiter repeats until the lock bit is clear. *)
Spin(c) ==
    /\ pc[c] = "acquire" /\ lock
    /\ UNCHANGED vars

(* Fault: the priority is overwritten, not raised. *)
FoundOverwrites(c) ==
    /\ pc[c] = "locked"
    /\ \E i \in Slots :
         /\ Hit(key[c], i)
         /\ hidx' = [hidx EXCEPT ![c] = i]
         /\ pri' = [pri EXCEPT ![i] = want[c]]
    /\ Goto(c, "release")
    /\ UNCHANGED <<saddr, age, born, ptr, lock, exhausted, pool, time, mode, key,
                   want, sp, authd>>

(* Another CPU inserted the key first; its priority may have to be raised. *)
Found(c) ==
    /\ pc[c] = "locked"
    /\ \E i \in Slots :
         /\ Hit(key[c], i)
         /\ hidx' = [hidx EXCEPT ![c] = i]
         /\ pri' = [pri EXCEPT ![i] = IF @ < want[c] THEN want[c] ELSE @]
    /\ Goto(c, "release")
    /\ UNCHANGED <<saddr, age, born, ptr, lock, exhausted, pool, time, mode, key,
                   want, sp, authd>>

(* Fault: the key is not looked up again under the lock. *)
TakeFreeNoReprobe(c) ==
    /\ pc[c] = "locked" /\ ~exhausted
    /\ \E i \in Slots :
         /\ Hit(NoAddr, i)
         /\ hidx' = [hidx EXCEPT ![c] = i]
         /\ exhausted' = (i = BktSz - 1)
    /\ Goto(c, "fill")
    /\ UNCHANGED <<saddr, age, born, pri, ptr, lock, pool, time, mode, key, want,
                   sp, authd>>

(* allocate, bucket not exhausted: the first free entry. *)
TakeFree(c) ==
    /\ pc[c] = "locked" /\ Miss(key[c]) /\ ~exhausted
    /\ \E i \in Slots :
         /\ Hit(NoAddr, i)
         /\ hidx' = [hidx EXCEPT ![c] = i]
         /\ exhausted' = (i = BktSz - 1)
    /\ Goto(c, "fill")
    /\ UNCHANGED <<saddr, age, born, pri, ptr, lock, pool, time, mode, key, want,
                   sp, authd>>

(* Fault: the victim's priority is not compared with the newcomer's. *)
EvictAnyone(c) ==
    /\ pc[c] = "locked" /\ Miss(key[c]) /\ exhausted
    /\ \E i \in Slots :
         /\ IsVictim(ts[c] % AgeMod, i)
         /\ hidx' = [hidx EXCEPT ![c] = i]
         /\ hlock' = [hlock EXCEPT ![ptr[i]] = FALSE]
    /\ Goto(c, "fill")
    /\ UNCHANGED <<table, hp_size, time, mode, key, want, sp, authd>>

(* allocate, bucket exhausted: evict, clearing the victim's host state      *)
(* together with the lock word inside it.                                   *)
Evict(c) ==
    /\ pc[c] = "locked" /\ Miss(key[c]) /\ exhausted
    /\ \E i \in Slots :
         /\ IsVictim(ts[c] % AgeMod, i)
         /\ pri[i] <= AllocPriority
         /\ hidx' = [hidx EXCEPT ![c] = i]
         /\ hlock' = [hlock EXCEPT ![ptr[i]] = FALSE]
    /\ Goto(c, "fill")
    /\ UNCHANGED <<table, hp_size, time, mode, key, want, sp, authd>>

(* Fault: a failed allocation returns with the bucket locked. *)
NoEntryKeepsLock(c) ==
    /\ pc[c] = "locked" /\ Miss(key[c])
    /\ \/ ~exhausted /\ Miss(NoAddr)
       \/ exhausted /\ \E i \in Slots : /\ IsVictim(ts[c] % AgeMod, i)
                                        /\ pri[i] > AllocPriority
    /\ Done(c)
    /\ UNCHANGED <<table, pool, time, mode, authd>>

(* allocate fails: not marked exhausted yet no entry is free, or every      *)
(* entry outranks the newcomer.                                             *)
NoEntry(c) ==
    /\ pc[c] = "locked" /\ Miss(key[c])
    /\ \/ ~exhausted /\ Miss(NoAddr)
       \/ exhausted /\ \E i \in Slots : /\ IsVictim(ts[c] % AgeMod, i)
                                        /\ pri[i] > AllocPriority
    /\ hidx' = [hidx EXCEPT ![c] = NoSlot]
    /\ Goto(c, "release")
    /\ UNCHANGED <<table, pool, time, mode, key, want, sp, authd>>

(* The stores that fill the entry.  They are plain stores, so a reader may  *)
(* see the key and the control word in either order; the pointer comes      *)
(* last, host_allocate being a full barrier.                                *)
StoreKey(c) ==
    /\ pc[c] \in {"fill", "fill_key"}
    /\ saddr' = [saddr EXCEPT ![hidx[c]] = key[c]]
    /\ Goto(c, IF pc[c] = "fill" THEN "fill_ctrl" ELSE "fill_ptr")
    /\ UNCHANGED <<age, born, pri, ptr, lock, exhausted, pool, time, mode, frame,
                   authd>>

(* Fault: the class of a reused entry is raised instead of set. *)
StoreCtrlRaises(c) ==
    /\ pc[c] \in {"fill", "fill_ctrl"}
    /\ age' = [age EXCEPT ![hidx[c]] = ts[c] % AgeMod]
    /\ born' = [born EXCEPT ![hidx[c]] = ts[c]]
    /\ pri' = [pri EXCEPT ![hidx[c]] = IF @ < want[c] THEN want[c] ELSE @]
    /\ Goto(c, IF pc[c] = "fill" THEN "fill_key" ELSE "fill_ptr")
    /\ UNCHANGED <<saddr, ptr, lock, exhausted, pool, time, mode, frame,
                   authd>>

StoreCtrl(c) ==
    /\ pc[c] \in {"fill", "fill_ctrl"}
    /\ age' = [age EXCEPT ![hidx[c]] = ts[c] % AgeMod]
    /\ born' = [born EXCEPT ![hidx[c]] = ts[c]]
    /\ pri' = [pri EXCEPT ![hidx[c]] = want[c]]
    /\ Goto(c, IF pc[c] = "fill" THEN "fill_key" ELSE "fill_ptr")
    /\ UNCHANGED <<saddr, ptr, lock, exhausted, pool, time, mode, frame,
                   authd>>

(* Fault: the value before the increment is used. *)
StorePtrOld(c) ==
    /\ pc[c] = "fill_ptr" /\ want[c] = HOST_PRI_NONE
    /\ hp_size' = hp_size + 1
    /\ ptr' = [ptr EXCEPT ![hidx[c]] = hp_size % PtrMod]
    /\ Goto(c, "release")
    /\ UNCHANGED <<saddr, age, born, pri, lock, exhausted, hlock, time, mode, frame,
                   authd>>

(* host_allocate: the pool hands out 1, 2, 3, ...; module HostPool has its  *)
(* growth.  Authorised hosts carry no state.                                *)
StorePtrNew(c) ==
    /\ pc[c] = "fill_ptr" /\ want[c] = HOST_PRI_NONE
    /\ hp_size' = hp_size + 1
    /\ ptr' = [ptr EXCEPT ![hidx[c]] = (hp_size + 1) % PtrMod]
    /\ Goto(c, "release")
    /\ UNCHANGED <<saddr, age, born, pri, lock, exhausted, hlock, time, mode, frame,
                   authd>>

StorePtrNone(c) ==
    /\ pc[c] = "fill_ptr" /\ want[c] # HOST_PRI_NONE
    /\ ptr' = [ptr EXCEPT ![hidx[c]] = 0]
    /\ Goto(c, "release")
    /\ UNCHANGED <<saddr, age, born, pri, lock, exhausted, pool, time, mode, frame,
                   authd>>

(* A public frame goes on to be charged; every other caller is done.  A     *)
(* failed insert drops the frame, or ends ntfe_configure with an error.     *)
ReleaseToCharge(c) ==
    /\ pc[c] = "release" /\ want[c] = HOST_PRI_NONE /\ hidx[c] # NoSlot
    /\ lock' = FALSE
    /\ Goto(c, "state")
    /\ UNCHANGED <<saddr, age, born, pri, ptr, exhausted, pool, time, mode, frame,
                   authd>>

ReleaseAndReturn(c) ==
    /\ pc[c] = "release" /\ (want[c] # HOST_PRI_NONE \/ hidx[c] = NoSlot)
    /\ lock' = FALSE
    /\ mode' = IF mode = "config" /\ hidx[c] = NoSlot THEN "failed" ELSE mode
    /\ Done(c)
    /\ UNCHANGED <<saddr, age, born, pri, ptr, exhausted, pool, time, authd>>

-----------------------------------------------------------------------------
(* The engine restart.  The driver has detached the data path, so no CPU    *)
(* handles a frame; the configuration thread runs alone until Resume.       *)
Quiet == \A c \in CPU : pc[c] = "idle"

ClearedSlots == {i \in Slots : pri[i] = HOST_PRI_STATIC}

(* Fault: the bucket stays marked full although entries became free. *)
ConfigureKeepsExhausted ==
    /\ mode = "run" /\ Quiet
    /\ mode' = "config"
    /\ saddr' = [i \in Slots |-> IF i \in ClearedSlots THEN NoAddr ELSE saddr[i]]
    /\ hlock' = [p \in 0 .. PtrMod - 1 |->
                   hlock[p] /\ \A i \in ClearedSlots : ptr[i] # p]
    /\ authd' = authd \ {saddr[i] : i \in ClearedSlots}
    /\ UNCHANGED <<age, born, pri, ptr, lock, exhausted, hp_size, time, pc, frame>>

(* Suspend, then host_clear_statically_authorized: the key, the exhausted   *)
(* flag and the host state go; the control word is left as it is.           *)
Configure ==
    /\ mode = "run" /\ Quiet
    /\ mode' = "config"
    /\ saddr' = [i \in Slots |-> IF i \in ClearedSlots THEN NoAddr ELSE saddr[i]]
    /\ exhausted' = (exhausted /\ ClearedSlots = {})
    /\ hlock' = [p \in 0 .. PtrMod - 1 |->
                   hlock[p] /\ \A i \in ClearedSlots : ptr[i] # p]
    /\ authd' = authd \ {saddr[i] : i \in ClearedSlots}
    /\ UNCHANGED <<age, born, pri, ptr, lock, hp_size, time, pc, frame>>

(* One statically authorised host of the configuration.  Nothing keeps it   *)
(* from being address 0, which the probe finds wherever an entry is free.   *)
CfgInsert(c, a) ==
    /\ mode = "config" /\ Quiet
    /\ key' = [key EXCEPT ![c] = a]
    /\ want' = [want EXCEPT ![c] = HOST_PRI_STATIC]
    /\ authd' = authd \cup {a}
    /\ Goto(c, "acquire")
    /\ UNCHANGED <<table, pool, time, mode, hidx, sp>>

Resume ==
    /\ mode # "run" /\ Quiet
    /\ mode' = "run"
    /\ UNCHANGED <<table, pool, time, pc, frame, authd>>

-----------------------------------------------------------------------------
Rx(c) ==
    \/ \E a \in Addr : RxHit(c, a) \/ RxMiss(c, a)
    \/ RxAuthorized(c) \/ RxPrivate(c) \/ RxPublicHit(c)
    \/ RxDeferred(c) \/ RxInsert(c)
    \/ RxGetState(c) \/ HostLock(c) \/ HostSpin(c) \/ HostUnlock(c)

Tx(c) ==
    \/ \E a \in TxDst : TxHit(c, a) \/ TxMiss(c, a)
    \/ TxAlready(c) \/ TxRaise(c)

Write(c) ==
    \/ Acquire(c) \/ Spin(c)
    \/ Found(c) \/ TakeFree(c) \/ Evict(c) \/ NoEntry(c)
    \/ StoreKey(c) \/ StoreCtrl(c) \/ StorePtrNew(c) \/ StorePtrNone(c)
    \/ ReleaseToCharge(c) \/ ReleaseAndReturn(c)

Next ==
    \/ Tick
    \/ \E c \in CPU : Prepare(c) \/ Rx(c) \/ Tx(c) \/ Write(c)
    \/ Configure
    \/ \E c \in CPU, a \in CfgHost : CfgInsert(c, a)
    \/ Resume

Spec == Init /\ [][Next]_vars

(* A CPU at dispatch level runs on until its frame is decided. *)
Continue(c) == pc[c] # "idle" /\ (Rx(c) \/ Tx(c) \/ Write(c))
FairSpec == Spec /\ \A c \in CPU : WF_vars(Continue(c))

-----------------------------------------------------------------------------
(* Every variable keeps its type; the pointer stays inside its bit field    *)
(* (ntfe.h, host_ctrl) although the pool counter does not.                  *)
TypeOK ==
    /\ saddr \in [Slots -> Addr \cup {NoAddr}]
    /\ age \in [Slots -> 0 .. AgeMod - 1] /\ born \in [Slots -> Nat]
    /\ pri \in [Slots -> Priority]
    /\ ptr \in [Slots -> 0 .. PtrMod - 1]
    /\ lock \in BOOLEAN /\ exhausted \in BOOLEAN
    /\ hp_size \in Nat
    /\ hlock \in [0 .. PtrMod - 1 -> BOOLEAN]
    /\ clock \in Nat /\ ts \in [CPU -> Nat]
    /\ mode \in {"run", "config", "failed"}
    /\ pc \in [CPU -> Holding \cup {"idle", "rx_pri", "rx_miss", "tx_pri",
                                    "acquire", "state", "hl_wait", "charge"}]
    /\ key \in [CPU -> Addr \cup {NoAddr}]
    /\ want \in [CPU -> Priority]
    /\ hidx \in [CPU -> Slots \cup {NoSlot}]
    /\ sp \in [CPU -> 0 .. PtrMod - 1]
    /\ authd \subseteq Addr \cup {NoAddr}

(* spin_acquire/spin_release (helper.cpp): one CPU at a time writes the     *)
(* bucket, and the lock bit is set exactly while one does.                  *)
BucketMutex ==
    /\ lock = (\E c \in CPU : pc[c] \in Holding)
    /\ \A c, d \in CPU : pc[c] \in Holding /\ pc[d] \in Holding => c = d

(* host_insert and host_insert_authorized look the key up again under the   *)
(* lock: no address ever has two entries, not even for a reader that looks  *)
(* between two stores.                                                      *)
NoDuplicateKeys ==
    \A i, j \in Slots : saddr[i] = saddr[j] /\ saddr[i] # NoAddr => i = j

(* allocate evicts only from a full bucket: while the exhausted bit is set  *)
(* every entry is in use, or is the one being filled.  A host 0 somebody    *)
(* asked to authorise (ntfe_tx and ntfe_configure take any address) looks   *)
(* like a free entry: it is the only one that does, and stays authorised.   *)
ExhaustedMeansFull ==
    exhausted => \A i \in Slots : saddr[i] = NoAddr =>
        /\ InFill(i) \/ (NoAddr \in authd /\ pri[i] # HOST_PRI_NONE)
        /\ \A j \in Slots : saddr[j] = NoAddr => i = j

(* An entry that shows an authorised class, once its bucket is not being    *)
(* written, belongs to an address some caller asked to authorise; a reused  *)
(* entry never lends its old class to the new key.                          *)
QuiescentAuth ==
    ~lock => \A i \in Slots :
        saddr[i] # NoAddr /\ pri[i] # HOST_PRI_NONE => saddr[i] \in authd

(* A complete entry of a host that pays for its traffic. *)
Unauthorised(i) ==
    saddr[i] # NoAddr /\ pri[i] = HOST_PRI_NONE /\ ~InFill(i)

(* Before the pointer field wraps, two unauthorised hosts never share the   *)
(* host state their traffic is charged to, and none uses the reserved 0.    *)
StatesNotShared ==
    hp_size < PtrMod =>
        \A i \in Slots : Unauthorised(i) =>
            /\ ptr[i] # 0
            /\ \A j \in Slots : Unauthorised(j) /\ ptr[i] = ptr[j] => i = j

(* allocate clears the state of its victim, the lock in it included, while  *)
(* a CPU that looked the victim up may be charging it (host.cpp:163): two   *)
(* CPUs charge one state at a time (ntfe.cpp:105) only if it is no host's   *)
(* any more.                                                                *)
ChargesApart ==
    hp_size < PtrMod =>
        \A c, d \in CPU :
            pc[c] = "charge" /\ pc[d] = "charge" /\ c # d /\ sp[c] = sp[d]
              => \A i \in Slots : Unauthorised(i) => ptr[i] # sp[c]

(* No path uses the index -1 of a failed lookup or insert.                  *)
IndexValid ==
    \A c \in CPU : pc[c] \in Filling \cup {"rx_pri", "tx_pri", "state"}
                     => hidx[c] \in Slots

(* What makes the invariants above inductive: the entry being filled is new *)
(* to the bucket until its key is stored, and shows its class from the      *)
(* store of the control word on; every writer asks for an authorisation it  *)
(* was told to give; the states in use are among those handed out.          *)
FillInv ==
    \A c \in CPU :
      /\ pc[c] \in {"fill", "fill_key"} => Miss(key[c])
      /\ pc[c] \in {"fill_ctrl", "fill_ptr"} => saddr[hidx[c]] = key[c]
      /\ pc[c] \in {"fill_key", "fill_ptr"} => pri[hidx[c]] = want[c]
AuthInv ==
    /\ \A c \in CPU :
         want[c] # HOST_PRI_NONE
           => pc[c] \in Holding \cup {"acquire"} /\ key[c] \in authd
    /\ \A i \in Slots :
         saddr[i] # NoAddr /\ pri[i] # HOST_PRI_NONE /\ ~InFill(i)
           => saddr[i] \in authd
PtrInv ==
    hp_size < PtrMod =>
        \A i \in Slots : Unauthorised(i) =>
            /\ ptr[i] \in 1 .. hp_size
            /\ \A j \in Slots : Unauthorised(j) /\ ptr[i] = ptr[j] => i = j

(* Why charges stay apart: no two entries name one state, a CPU charges a    *)
(* state that was handed out, and it holds the lock of that state for as     *)
(* long as an unauthorised host still names it.                              *)
Charged(p) == \E i \in Slots : Unauthorised(i) /\ ptr[i] = p
ChargeInv ==
    hp_size < PtrMod =>
        /\ \A i \in Slots : ptr[i] \in 0 .. hp_size
        /\ \A i, j \in Slots : ptr[i] = ptr[j] /\ ptr[i] # 0 => i = j
        /\ \A c \in CPU :
              pc[c] \in {"hl_wait", "charge"} => sp[c] \in 0 .. hp_size
        /\ \A c \in CPU :
              pc[c] = "charge" /\ Charged(sp[c]) => hlock[sp[c]]

(* The inductive invariant. *)
IInv ==
    /\ TypeOK /\ IndexValid /\ BucketMutex
    /\ NoDuplicateKeys /\ FillInv /\ AuthInv /\ PtrInv
    /\ ChargeInv /\ ChargesApart

(* The authorised hosts of the bucket. *)
AuthHosts ==
    {saddr[i] : i \in {k \in Slots : pri[k] # HOST_PRI_NONE /\ ~InFill(k)}}
      \ {NoAddr}

(* An authorised host stays authorised until the engine is reconfigured,    *)
(* whatever the data path does: it is never evicted and never downgraded.   *)
AuthorizedKept == [][mode' = mode => AuthHosts \subseteq AuthHosts']_vars

(* host_lookup's warning bounds the harm of its unlocked reads: a host that *)
(* nobody authorised is accepted only while a writer is at work, or because *)
(* the entry was reused after the lookup.                                   *)
SpuriousAcceptIsRacy ==
    [][\A c \in CPU : RxAuthorized(c) =>
          \/ key[c] \in authd
          \/ lock
          \/ saddr[hidx[c]] # key[c]]_vars

(* allocate: "evict the oldest entry (FIFO)" (host.cpp:143), by real time.  *)
(* For as much as the code keeps it: an unauthorised entry is passed over   *)
(* for a younger one only if its age has wrapped, or if the younger one was *)
(* made by a CPU whose time was ahead of the evicting one's.                *)
EvictsOldest ==
    [][\A c \in CPU : Evict(c) =>
          \A j \in Slots :
             /\ pri[j] = HOST_PRI_NONE
             /\ born[j] < born[hidx'[c]]
             => \/ ts[c] - born[j] >= AgeMod
                \/ born[hidx'[c]] > ts[c]]_vars

(* A CPU with no competitor decides every frame: no path returns with a     *)
(* lock held that the next frame would wait for.                            *)
FrameDecided == \A c \in CPU : pc[c] # "idle" ~> pc[c] = "idle"

(* "This will invalidate any currently authorized hosts" (ntfeusr.h:203, of *)
(* ntfe_configure): it begins with none of the hosts authorised before.     *)
ConfigureInvalidates == [][Configure => AuthHosts' = {}]_vars

(* The map a bucket stands for: an entry counts from its last store on. *)
Absent == -1
hosts ==
    [a \in Addr |->
        IF \E i \in Slots : saddr[i] = a /\ ~InFill(i)
        THEN pri[CHOOSE i \in Slots : saddr[i] = a /\ ~InFill(i)]
        ELSE Absent]
Map == INSTANCE HostMap WITH Capacity <- BktSz

(* host_lookup, host_insert and host_insert_authorized together implement    *)
(* HostMap: a bounded map that forgets nobody but unauthorised hosts.        *)
ImplementsHostMap == Map!Spec

=============================================================================
