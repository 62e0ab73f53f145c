----------------------------- MODULE HostPool ------------------------------
(***************************************************************************)
(* The growable pool of host states of the ntfe engine (src/ntfe/host.cpp,  *)
(* host_allocate and host_pool_grow).  A host_insert of any bucket takes an *)
(* index from it, so CPUs meet here although their buckets differ.  The     *)
(* counter is incremented atomically; the growth of the committed part is   *)
(* not, and is left to the CPU that draws an index in the middle of a block.*)
(***************************************************************************)
EXTENDS Integers, FiniteSets

CONSTANTS
    CPU,         \* processors that insert hosts
    HPOOL_GROW,  \* host states committed at a time (64)
    MaxAllocs    \* bound of the model: host states ever allocated

ASSUME PoolAssumption ==
    /\ IsFiniteSet(CPU)
    /\ HPOOL_GROW \in Nat /\ HPOOL_GROW > 0 /\ HPOOL_GROW % 2 = 0
    /\ MaxAllocs \in Nat

Half == HPOOL_GROW \div 2

(* The "buffer-zone" of the comment in host_allocate is half a block: it    *)
(* absorbs that many CPUs besides the one that grows the pool.              *)
FewCPUs == Cardinality(CPU) <= Half + 1

VARIABLES
    hp_size,    \* indices handed out
    hp_true_sz, \* size the engine believes committed
    backed,     \* indices with physical memory behind them
    starved,    \* history: RegionCommit has failed to find pages
    pc, idx,    \* the call of host_allocate each CPU is in, and its index
    base        \* hp_true_sz as the growing CPU last read it

memory == <<backed, starved>>
vars == <<hp_size, hp_true_sz, backed, starved, pc, idx, base>>

Growing == {"grow", "commit", "load", "store"}
Goto(c, label) == pc' = [pc EXCEPT ![c] = label]
Block(b) == b .. b + HPOOL_GROW - 1

(* Fault: growth comes twice as often. *)
ShortStrawTwice(i) == i % Half = 0

(* The index whose owner grows the pool: the middle of a block. *)
ShortStraw(i) == (i - Half) % HPOOL_GROW = 0

-----------------------------------------------------------------------------
(* ntfe_init has grown the pool once, with or without memory. *)
Init ==
    /\ hp_size = 0
    /\ hp_true_sz = HPOOL_GROW
    /\ \/ backed = Block(0) /\ starved = FALSE
       \/ backed = {} /\ starved = TRUE
    /\ pc = [c \in CPU |-> "idle"]
    /\ idx = [c \in CPU |-> 0]
    /\ base = [c \in CPU |-> 0]

(* _InterlockedIncrement. *)
Allocate(c) ==
    /\ pc[c] = "idle" /\ hp_size < MaxAllocs
    /\ hp_size' = hp_size + 1
    /\ idx' = [idx EXCEPT ![c] = hp_size + 1]
    /\ Goto(c, IF ShortStraw(hp_size + 1) THEN "grow" ELSE "wait")
    /\ UNCHANGED <<hp_true_sz, memory, base>>

(* Fault: the test lets the first index past the end through. *)
WaitedOffByOne(c) ==
    /\ pc[c] = "wait" /\ idx[c] <= hp_true_sz
    /\ Goto(c, "use")
    /\ UNCHANGED <<hp_size, hp_true_sz, memory, idx, base>>

(* The index is inside the committed part, at once or after a stall. *)
Waited(c) ==
    /\ pc[c] = "wait" /\ idx[c] < hp_true_sz
    /\ Goto(c, "use")
    /\ UNCHANGED <<hp_size, hp_true_sz, memory, idx, base>>

Pause(c) ==
    /\ pc[c] = "wait" /\ idx[c] >= hp_true_sz
    /\ UNCHANGED vars

(* host_pool_grow: the commit address is computed, the pages are committed  *)
(* (or not: the result is dropped), hp_true_sz is read again and stored.    *)
GrowAddress(c) ==
    /\ pc[c] = "grow"
    /\ base' = [base EXCEPT ![c] = hp_true_sz]
    /\ Goto(c, "commit")
    /\ UNCHANGED <<hp_size, hp_true_sz, memory, idx>>

(* Fault: the size is published before the pages are committed. *)
RegionCommitLate(c) ==
    /\ pc[c] = "commit"
    /\ hp_true_sz' = hp_true_sz + HPOOL_GROW
    /\ Goto(c, "load")
    /\ UNCHANGED <<hp_size, memory, idx, base>>

RegionCommit(c) ==
    /\ pc[c] = "commit"
    /\ backed' = backed \cup Block(base[c])
    /\ Goto(c, "load")
    /\ UNCHANGED <<hp_size, hp_true_sz, starved, idx, base>>

RegionCommitFails(c) ==
    /\ pc[c] = "commit"
    /\ starved' = TRUE
    /\ Goto(c, "load")
    /\ UNCHANGED <<hp_size, hp_true_sz, backed, idx, base>>

GrowLoad(c) ==
    /\ pc[c] = "load"
    /\ base' = [base EXCEPT ![c] = hp_true_sz]
    /\ Goto(c, "store")
    /\ UNCHANGED <<hp_size, hp_true_sz, memory, idx>>

(* Fault: the new size is not stored. *)
GrowStoreForgotten(c) ==
    /\ pc[c] = "store"
    /\ Goto(c, "use")
    /\ UNCHANGED <<hp_size, hp_true_sz, memory, idx, base>>

GrowStore(c) ==
    /\ pc[c] = "store"
    /\ hp_true_sz' = base[c] + HPOOL_GROW
    /\ Goto(c, "use")
    /\ UNCHANGED <<hp_size, memory, idx, base>>

(* The caller stores the index in its entry; the state it names is charged. *)
Return(c) ==
    /\ pc[c] = "use"
    /\ idx' = [idx EXCEPT ![c] = 0]
    /\ base' = [base EXCEPT ![c] = 0]
    /\ Goto(c, "idle")
    /\ UNCHANGED <<hp_size, hp_true_sz, memory>>

-----------------------------------------------------------------------------
Continue(c) ==
    \/ Waited(c) \/ Pause(c)
    \/ GrowAddress(c) \/ RegionCommit(c) \/ RegionCommitFails(c)
    \/ GrowLoad(c) \/ GrowStore(c)
    \/ Return(c)

Next == \E c \in CPU : Allocate(c) \/ Continue(c)

Spec == Init /\ [][Next]_vars

(* Dispatch level: a CPU inside host_allocate is never preempted. *)
FairSpec == Spec /\ \A c \in CPU : WF_vars(Continue(c))

-----------------------------------------------------------------------------
(* Types; sizes are counts of host states. *)
TypeOK ==
    /\ hp_size \in Nat /\ hp_true_sz \in Nat
    /\ backed \subseteq Nat /\ starved \in BOOLEAN
    /\ pc \in [CPU -> Growing \cup {"idle", "wait", "use"}]
    /\ idx \in [CPU -> Nat]
    /\ base \in [CPU -> Nat]

(* host_allocate never returns an index without memory behind it, although  *)
(* the CPU that grows the pool returns without comparing its own; unless    *)
(* RegionCommit ever failed, which host_pool_grow does not notice.          *)
IndexBacked ==
    ~starved => \A c \in CPU : pc[c] = "use" => idx[c] \in backed

(* eal.h:38 "User is responsible for required synchronization": one growth  *)
(* of the region at a time, without a lock around host_pool_grow.           *)
GrowersSerialised ==
    \A c, d \in CPU : pc[c] \in Growing /\ pc[d] \in Growing => c = d

(* _InterlockedIncrement: no two CPUs are ever given one host state (a part *)
(* of the invariant below).                                                 *)
IndexUnique ==
    \A c, d \in CPU :
        pc[c] # "idle" /\ pc[d] # "idle" /\ idx[c] = idx[d] => c = d

(* ntfe.h:187 "Current committed/physically-backed size, in elements",      *)
(* whenever no growth is under way.                                         *)
TrueSizeBacked ==
    ~starved /\ (\A c \in CPU : pc[c] \notin Growing)
      => backed = 0 .. hp_true_sz - 1

(* host.cpp:75 "we have to wait for a previous core to complete the pool    *)
(* growth": the wait ends.                                                  *)
WaitEnds == \A c \in CPU : pc[c] = "wait" ~> pc[c] # "wait"

-----------------------------------------------------------------------------
(* The inductive invariant: where the counter stands with respect to the    *)
(* committed size, with and without a growth under way, and that an index   *)
(* past that size still has its owner waiting.                              *)
OwnersInv ==
    /\ \A c \in CPU : pc[c] # "idle" => idx[c] \in 1 .. hp_size
    /\ \A c \in CPU : pc[c] = "use" => idx[c] < hp_true_sz
    /\ \A i \in hp_true_sz .. hp_size :
         \E c \in CPU : pc[c] = "wait" /\ idx[c] = i
GrowInv ==
    \A c \in CPU : pc[c] \in Growing =>
        /\ idx[c] = hp_true_sz - Half
        /\ hp_size \in hp_true_sz - Half .. hp_true_sz + Half - 1
        /\ pc[c] # "grow" /\ pc[c] # "load" => base[c] = hp_true_sz
        /\ ~starved =>
             backed = IF pc[c] \in {"load", "store"}
                      THEN 0 .. hp_true_sz + HPOOL_GROW - 1
                      ELSE 0 .. hp_true_sz - 1
RestInv ==
    (\A c \in CPU : pc[c] \notin Growing) =>
        /\ hp_size \in hp_true_sz - HPOOL_GROW - Half .. hp_true_sz - Half - 1
        /\ ~starved => backed = 0 .. hp_true_sz - 1
PoolInv ==
    /\ TypeOK /\ hp_true_sz % HPOOL_GROW = 0
    /\ GrowersSerialised /\ IndexUnique
    /\ OwnersInv /\ GrowInv /\ RestInv

=============================================================================
