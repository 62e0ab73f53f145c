# A formal model of ntfw

TLA+ specifications of ntfw, the host firewall for Windows whose source is in
`src/`: the engine `ntfe`, the NDIS filter driver `ntfwkm` and the configuration
program `ntfw`. TLC checks the models on small instances; the TLA+ proof system
proves the most important results for every value of the constants.
`PROJECT.json` lists the runs, the lines each definition stands for, the hazards
and the theorems.

```
tlc -workers 2 -config bucket_race.cfg HostTableMC     # any run of the table below
tlapm HostTableProofs.tla                              # the proofs of a component
```

## The system

A frame that a network adapter receives passes through the *driver*, which asks
the *engine*. Traffic a rule covers is public and is metered per source address;
everything else is private and is accepted from authorised addresses only. The
*configuration program* writes the rules, with the parameters of a perfect hash
for them, to a file, which the driver reads when it is told to restart the engine.

| Component | State | Operations | Interacts with |
|---|---|---|---|
| Host table (`ntfe/host.cpp`) | 2^18 buckets of 8 entries: address, age, class, pointer; a lock bit and an "exhausted" bit in the entries' words | `host_lookup` (no lock), `host_insert`, `host_insert_authorized`, `allocate`, `host_clear_statically_authorized` | every CPU's receive and transmit path; the pool; `ntfe_configure` |
| Host state pool (`ntfe/host.cpp`, `ntfwkm/eal.cpp`) | `hp_size`, `hp_true_sz`, committed pages | `host_allocate`, `host_pool_grow`, `RegionCommit` | `host_insert` of any bucket on any CPU |
| Traffic policing (`ntfe/ntfe.cpp`) | tokens and refill time per host and meter, a spin lock per host | `host_charge_packet`, `token_bucket_charge` | receive path; the time each CPU caches per batch |
| Rule table and configuration (`ntfe/ntfe.cpp`) | `gs.rules`, `rule_seed`, `rule_hashsz`, meters | `ntfe_validate_configuration`, `ntfe_configure`, `rule_insert`, `rule_lookup`, the verdicts of `ntfe_rx` and `ntfe_tx` | configuration file; host table |
| Rule hash search (`ntfw/phash.cpp`) | `record_bits`, `record_seed`, `cfg.quit_signal`, one trial per thread | `FindRuleMagic`, `ThreadEntry` | called when the file is saved |
| Rule editor (`ntfw/dlgrules.cpp`, `ntfw/ntfw.cpp`) | 32 rows, the 8 of them in the controls, the scroll position, the file | type, `Scroll`, `RulesUpload`, `RulesDownload`, load, save | rule search; the file |
| Driver control path (`ntfwkm/driver.cpp`) | filter modules and their states, two lists, `RunningModuleCount`, `SuspendSignal`, an event, a mutex, a spin lock | `DriverEntry`, `DriverUnload`; attach, detach, pause, restart; `Suspend`, `Resume`, `RequestDispatch`, `ConfigureFirewallEngine` | NDIS callbacks; user-mode requests; the engine |
| Driver data path (`ntfwkm/driver.cpp`) | none | `FilterReceive`, `FilterSend` | hands every frame on before any filtering code in this version |
| Ed25519 (`ntfe/ed25519/*.c`) | none of its own: key pairs and signatures in the caller's buffers | create a key pair, sign, verify, tweak by a scalar, exchange | NTFP authentication |
| NTFP authentication (`ntfe/ntfe.cpp`) | the public key | `ntfp_rx_process` | never reached: see below |

What is hard here, and what makes each part correct:

* **Host table.** Readers take no lock, writers publish an entry in several
  stores, entries are reused. No address has two entries; an authorised host is
  never evicted or downgraded; a stranger is taken for an authorised host only in
  the races `host_lookup` admits to; the -1 of a failure is never an index.
* **Pool.** Growth is not locked; it relies on half a block of lead. An index in
  use has memory behind it, growths never overlap, every wait ends.
* **Policing.** 32-bit saturating arithmetic on a clock each CPU caches for itself.
  No interval takes more than rate and capacity allow, but for what a charge behind
  another CPU's gives away, and that is one capacity.
* **Rules.** Threads race for a record of two words; a table is replaced in
  place and may fail half-way. The engine lets on what its rules cover, no more
  and no less.
* **Driver.** NDIS callbacks of several adapters interleave with a restart
  request. The engine is reconfigured only while nothing filters, no restart NDIS
  waits for is forgotten, the wait for the running modules ends, and the driver
  can be unloaded with adapters in any state.
* **Rule editor.** What is typed lives in eight controls, thirty-two rows and a
  file that is overwritten in place. No row is lost, displaced or read back as
  another rule.
* **Ed25519.** Lazy carries, signed digits, hashing in pieces, and two halves of a
  key pair that may be tweaked one without the other. Every call computes what the
  mathematics says, after any sequence of calls.

## Modules

| Module | Models | State and actions |
|---|---|---|
| `HostMap` | what a bucket promises: a bounded map from addresses to classes that forgets nobody but unauthorised hosts | one function; `Learn`, `Authorise`, `Forget`, `Withdraw` |
| `HostTable` | one bucket and the callers that drive it | the fields of the entries, the two flag bits, host-state locks, per CPU the frame it is in (`pc`, `key`, `want`, `hidx`, `sp`). `Rx*`/`Tx*` are the unlocked reads of `ntfe_rx`/`ntfe_tx` in their order; `Acquire` to `Release*` the critical section, one action per store to the bucket; `Configure`, `CfgInsert`, `Resume` the restart of the engine |
| `HostPool` | `host_allocate` and `host_pool_grow` | `GrowAddress`, `RegionCommit(Fails)`, `GrowLoad`, `GrowStore` are the four accesses of a growth |
| `TokenBucket` | the meters of one host | `Prepare` samples the time of a batch; `Acquire`, `ChargeBytes`, `ChargePacket` are `host_charge_packet`; `seen` (the time last charged with, not cut to a word) and `excess` are history |
| `FilterDriver` | the control path of the driver | one action per critical section under `DriverLock`; `ndis`, `context`, `reset` are NDIS |
| `DriverLoad` | the life of the driver; extends `FilterDriver` | `stage` and what it has acquired (`held`); one action per call of `DriverEntry` and `DriverUnload` that can fail or wait |
| `RuleSheet` | what the rule editor promises: a sheet of rows, all of them on the screen | `Edit`, `Save`, `Tear` (a write that stopped half-way), `Open`, `Close` |
| `RuleEditor` | the rule editor, its page and its file | `Rules`, `page`, `pos`, `file`; `Type`, `Scroll`, `Save`, `Quit`, `Load` |
| `Field25519` | field elements: the value and the size of the limbs | operators named like the functions of `fe.c` |
| `Group25519` | the representations of `ge.h`, both scalar multiplications with their recodings | as in `ge.c`; the tables of `precomp_data.h` from the affine law |
| `Scalar25519` | arithmetic modulo the group order, limb by limb | as in `sc.c` |
| `Sha512` | the streaming hash, its rounds a constant | as in `sha512.c` |
| `Ed25519` | the calls of the library | one action per function of `ed25519.h`; `lag`, `signed` are history |
| `Loops` | folds over numbers that TLC evaluates turn by turn | |
| `RuleMagic` | the search for the hash parameters | `Test`, `Try`, `Lower`, `Lost`, `StoreSeed` are the steps of a thread, `FindRuleMagic` to `Join` those of its caller |
| `RuleTable` | the way of a rule from the search to the data path; extends `RuleMagic` | `file` is what the header says and whatever is behind it, read as rules; `Save` writes all of it or stops after any rule, `SaveNoRules`, `ConfigureFirewallEngine`; the verdicts on a frame are operators, because they only read |
| `*MC` | instances for TLC | symmetry sets, rates, rules, frames |
| `LoopTheorems` | what a loop of `Loops`, or a recursion over numbers, keeps from turn to turn; instantiated once per loop of the code | |
| `*Proofs` | theorems | see below |

`RuleTable` composes the search, the file and the engine by extension.
`HostTable` implements `HostMap` (`Map == INSTANCE HostMap WITH ...`; the map it
stands for counts an entry from its last store on), and `RuleEditor` implements
`RuleSheet` (`Promise`; a row of the sheet is the rule its text says, whether the
text is in the controls or in the rows). `DriverLoad` implements `FilterDriver`,
which is proved. An action whose comment
begins with "Fault" is not part of a specification: it is what a plausible
mistake in the code would make of the action beside it, and serves to test that
the properties can fail.

Granularity. In `HostTable` every read a decision rests on and every store
another CPU can observe is an action. Stores that follow each other are seen in
order by other CPUs (x86), so one action per store is exact; age and class of an
entry are stored separately from its key and pointer. Critical sections of the
driver are one step, because every access to their state is under the lock.
The editor is one thread, and a message of the dialog is one step; so is a call of
the Ed25519 library, which shares nothing.

`Field25519` keeps of ten limbs what a caller can tell: the value, and how far the
limbs have grown since they were last carried, in hundredths of 2^25. An operation
whose argument is beyond what its 32-bit products take returns `Garbage`, and a
conversion to bytes beyond its estimate of the quotient returns `NoBytes`.

## Runs

| Run | Instance | What it shows |
|---|---|---|
| `bucket_race` | 2 CPUs, 3 addresses, a configuration with any of them and with address 0, 2 entries, pointer field of 3 values, 4 states allocated, clock still; symmetric | keys, exhausted bit, classes, states, charges apart, the inductive invariant; `AuthorizedKept`, `SpuriousAcceptIsRacy`; the bucket implements `HostMap` |
| `bucket_solo` | 1 CPU, 3 addresses, 2 destinations, a configuration with one of them and with address 0, clock to 3, ages of 2 values | `EvictsOldest` with ages that differ and that wrap; `FrameDecided` under fairness |
| `pool_grow` | 3 CPUs, blocks of 4, 14 indices | no index without memory, growths one at a time, `WaitEnds` |
| `meter_rate` | 2 CPUs, words of 6 values, 2 meters, 3 rules, 7 ms; symmetric | `RateBound` over every interval; exact arithmetic; charges in any order of the two CPUs' times; the time wraps |
| `driver_restart` | 3 adapters, 3 contexts, 2 requesting threads, any step of `DriverEntry` failing | count, lists, quiet suspension, remembered restarts, `SuspendEnds`, `UnloadEnds` |
| `rule_path` | 3 threads, 2 seeds, tables up to 8, 4 rules in 4 lists, 2 older files (3 rules; one with a static host), frames on both sides of every test | perfect seed unless raced, attained size, one step past the target at most, the receive path decides as the rules in force say, `ntfe_configure` fails with the old rules gone only on a file whose search was raced or whose write stopped half-way, or on a static host, `SearchEnds` |
| `rule_editor` | 4 rows, 2 on the page, 8 kinds of row, 2 rows typed, 2 older files (300 bytes with 2 rules, 20000 bytes with 5) | the editor implements `RuleSheet`; files saved in full fit, unless the older one was too large already; an overrun needs a file of another origin |
| `ed25519_api` | 2 parties, 2 seeds, 2 tweaks, 4 messages, 4 calls; the curve of 2^15 - 19 | key pairs, signatures, verdicts and secrets are what the affine law, the padding and the order say |
| `v_driver_running` | 2 adapters, 1 thread | *violated:* modules filter during the second reconfiguration |
| `v_magic_seed` | 2 threads | *violated:* the seed of one record with the size of another |
| `v_reload` | 1 thread | *violated:* a collision-free file is rejected |
| `v_configure` | 1 CPU, 1 address | *violated:* a host outgoing traffic authorised outlives a reconfiguration |

Every property of a passing run is violated when a definition is replaced by one
of the faults (`mutants` in `PROJECT.json`).

**Why the bounds are enough.** Two entries and three addresses give every
relation a bucket has: hit, miss with a free entry, last free entry, miss with an
eviction, a bucket of authorised hosts only. Two CPUs give every race of a reader
with a writer and of two writers, and the reader of one frame can be overtaken by
any number of writes of the other CPU. Four allocations wrap a pointer field of
three values. `pool_grow` has as many CPUs as the code's lead allows with blocks
of four (half a block and one) and crosses three growths. `meter_rate` lets the
time wrap, and lets one CPU charge with a time up to seven milliseconds behind the
other's. Three adapters and contexts allow one to attach, one to
restart and one to leave during a suspension. `rule_path` has two lists that a
small table holds, one that needs a large table with one seed and a smaller with
the other, and one with a duplicate that no table holds; three threads are what
it takes to overshoot twice; and an older file longer than some that are written over
it, with another seed, so that a write that stops leaves rules of both. `rule_editor` scrolls to positions beyond both ends,
its pages overlap, two rows are enough for a duplicate and for a malformed row
above a good one, and the rows are typed as a name of either layer, in capitals, as
a number, and as one that wraps; the files it starts from are longer than what it
writes, one with more rules than it has rows and too large for the driver. `MaxAllocs`, `MaxClock`,
`MaxSearches`, `MaxEdits` and `MaxCalls` bound the counters; each is named in the
guard it restricts.

**The small curve.** Multiplications modulo 2^255 - 19 are out of TLC's reach, so
`ed25519_api` runs the same definitions over 2^15 - 19: congruent to 5 modulo 8 as
the original, with a curve whose base point has the prime order 2^12 + 15 and
whose cofactor is 8, scalars of 16 bits in two limbs of 6 (twelve of 21), digits
of 4 bits and windows of 5 as in the code, blocks of 8 bytes with 2 for the
length. What depends on the sizes (that twelve limbs and 16 carries leave
a number below the order) it does not show, and is proved (`SignaturesReduced`); the order of the folds, the digits and
the limbs' growth between carries it does, and that the growth is harmless is proved
for the constants of the code as for these (`LimbsCorrect`; of the curve it assumes
the sizes, that -1 has a root modulo the prime, and coordinates of the base point
below the prime). One tweak has the highest bit, which
`ed25519_add_scalar` clears, and one is -1 modulo the order; the messages end before,
at and past the end of a block.

**Deadlock** is checked except in `pool_grow`, whose counter stops at
`MaxAllocs`, in `ed25519_api`, whose calls stop at `MaxCalls`, and in the driver's
runs: `FilterAttach` returns with the driver lock held when no context is free, and
then everything does stop, as it does once the driver is gone.

**Fairness.** The data path runs at dispatch level, so a CPU in the middle of a
frame is never preempted: weak fairness of each CPU's next step (`HostTable`,
`HostPool`). Nothing says that a spinning CPU ever wins the lock, so progress of
one waiter among several is not claimed; `FrameDecided` is about a CPU alone.
NDIS carries out the restarts it was asked for and a thread in the kernel runs
on (`FilterDriver`); a driver NDIS was asked to deregister has its modules paused
and detached, and the thread that unloads it runs on (`FairLoadSpec` of
`DriverLoad`; nothing says that a driver is ever unloaded). Windows schedules every thread, and the first wait of
`FindRuleMagic` has a limit of five seconds (`Scheduled`); a search whose thread
indexes outside its table is excepted from `SearchEnds`.

## Proofs

| Module | Theorems | Assumptions beyond those of the constants |
|---|---|---|
| `HostTableProofs` | `Inductive`, `TypeCorrect`, `IndexCorrect`, `MutexCorrect`, `KeysUnique`, `AuthCorrect`, `StatesCorrect`, `ChargesCorrect`, `AuthorizedStay`, `ImplementsMap`; `FullCorrect`, `SpuriousAccepts`, `OldestEvicted` | none |
| `HostPoolProofs` | `PoolInductive`, `GrowersCorrect`, `IndexCorrectlyBacked`, `TrueSizeCorrect` | `FewCPUs`: at most half a block and one |
| `TokenBucketProofs` | `TypeCorrect`, `CapCorrect`; `MeterInductive`, `RateCorrect`, `ArithmeticCorrect` | none |
| `FilterDriverProofs` | `DriverInductive`, `CountCorrect`, `ModulesKeptApart`, `SuspensionQuiet`, `RestartsKept`; `LoadImplementsDriver`, `LoadQuiet` | none |
| `RuleTableProofs` | `MagicInductive`, `SeedCorrect`, `SizeCorrect`, `OvershootBounded`; `FileInductive`, `FailureSpoiled`; `EngineInductive`, `RulesEnforced` | none; the hash function is any function |
| `RuleEditorProofs` | `EditorInductive`, `SavedFilesFit`, `OverrunForeign`, `EditorIsSheet` | none |
| `LoopTheorems` | `Unfolded`, `Recursed`, `Looped` | what a turn keeps |
| `Ed25519Proofs` | `LimbsInductive`, `LimbsCorrect`, `VerificationFits`; `PairsInductive` | none |
| | `NoncesApart` | the hash has no collision among the digests that become prefixes (`NoCollision`, which TLC checks of the instance) |
| | `DigestReduced`, `ProductReduced` | `CodeSizes`: the sizes of `sc.c` and its six multiples |
| | `SignatureExact`, `SignaturesReduced` | `CodeSizes`, and that a digest is as long as two scalars (`DigestSizes`) |

The inductive invariants, and what they add to the properties they prove:

* `IInv` (`HostTable`): keys are unique only because a key being filled in is
  still absent (`FillInv`), which rests on the second probe and the lock; classes
  are right because a writer carries an authorisation somebody asked for
  (`AuthInv`); states are not shared because pointers in use are among those
  handed out (`PtrInv`); two charges meet on one state only after the entry that
  owned it was evicted under a charge, and then nobody owns it (`ChargeInv`).
* `PoolInv`: where `hp_size` stands relative to `hp_true_sz` with and without a
  growth under way, and that every index past the committed size has an owner
  that waits (`OwnersInv`). With at most half a block and one CPUs those owners
  cannot reach the middle of the next block: a pigeonhole on the CPUs.
  For `FullCorrect` it is joined by `KeyInv` (which entries may look free while the
  bucket is marked exhausted: the one being filled, or that of an authorised host 0),
  for `OldestEvicted` by `AgeInv` (an age is the time its entry was made, cut to the
  field; `ModDistance` compares two such).
* `MeterInv`: a token is in the bucket or was taken (`tokens + excess <=
  capacity`), the stored time is that of the last charge cut to a word, and no time
  a CPU or a meter keeps is ahead of the clock. Times may run backwards from one
  charge to the next: the difference is then almost a word, more than fills any
  meter (`DeltaExact`), and `Gain` counts it as one capacity. The facts about `%` it
  needs are lemmas of the module.
* `DriverInv`: who owns the mutex, what the signal and the event mean, and how a
  module's state relates to what NDIS believes. `LoadStep` shows that loading and
  unloading leave its state alone, so that it holds throughout the driver's life.
* `MagicInv`: the pair each thread holds is perfect for the size it tried; without
  a race the one thread about to store its seed is the one whose size is the
  record. `FileInv` carries this through the file to the engine: a write that is not
  torn puts all rules of the list in front of whatever the older file held
  (`Overwritten`). `WildInv` adds that
  a thread leaves its table only when the record is 0. That the record goes at most
  one bit past the target is then a pigeonhole and the monotonicity of the powers of
  two: n rules do not fit a perfect table of fewer than n slots.
* `EngineInv`: every rule in force is in the slot its signature hashes to, and every
  other slot is free. It needs the order in which `ntfe_configure` clears, seeds
  and fills the table, and that a rejected file leaves it as it was.
* `EditorInv`: rows and controls hold text that was typed or was written by the
  program itself, the page lies where the scroll position says, and a file of the
  program reads back as the rules it was written from (`Readable`). That a number
  printed in hexadecimal is read back as the same number, digit by digit and with
  the cut to 16 bits, is what this rests on (`Reads`, `OneDigit` to `FourDigits`).

* `LimbsInv`: bytes that leave the library are a number. The step is the same for
  every call: an element is in `Fe(k)` if its limbs are at most k hundredths of 2^25,
  a product leaves `Fe(101)`, a sum of two `Fe(202)`, one of three `Fe(303)`, and
  `ge_p2` to `ge_cached` say how far each coordinate of a representation of `ge.h`
  may have grown when a function of `ge.c` hands it on. What products take (330) and
  what `fe_tobytes` and `fe_mul121666` take (220) is never exceeded; the tightest
  places are the third sum of `ge_add` and of `ge_p2_dbl` (303), and in the ladder
  the difference `fe_mul121666` takes (202). The digits of `slide` are shown to be odd
  or zero and below sixteen, so that no index leaves the tables of odd multiples.
* `HeldInv`: every pair that is held, or that a signature was made with, came from a
  seed by fewer tweaks than there were calls (`Held`). Two pairs with the same prefix
  then have the same history (`PrefixDecides`): take the one with the fewest tweaks;
  if neither is fresh from its seed, what both were tweaked from has one prefix too
  and was tweaked by the same scalar. So no nonce is ever used with two scalars.
* `ReducedInv`: the scalar of a pair is a number of any size, as a tweak of 256 bits
  may leave it, and S is below the order. The step for `ed25519_sign` is the argument
  about `sc.c` that follows.

**The arithmetic of `sc.c`** is exact for every digest and every three scalars, with
the sizes of the code (`CodeSizes`), where TLC sees two limbs of six bits. `Whole` is
the number that 24 limbs stand for. A carry leaves it alone (`CarryKeeps`); a fold
changes it by a multiple of the order (`FoldKeeps`), because the six multiples are
the limbs of 2^252 less the order (`OrderSplits`, from `OrderAssumption`, which TLC
evaluates for its instance). So the number stays the same modulo the order from the
load (`LoadedIs`) to the store, if the store drops nothing. For that the limbs are
bounded at each stage of `Lowered` (`UpperFits` to `LoweredFits`: at most 2^55 before
the first carries, 2^59 before the second, 2^60 after the last fold, so that no
limb outgrows the 64 bits of the code, whose integers the model has unbounded);
what is left is within 2^252 of zero (`LoweredNear`), the next carries leave a
quotient of 0 or -1 in limb 12 (`QuotientLeft`), and folding it makes a negative
number one below the order (`ReducedIs`). The limbs of a product are at most 2^50
before they are carried (`RowTurn`, `ProductCarried`).

**Induction.** The provers cannot use the induction theorems of the library, which
take a formula as a parameter. `LoopTheorems` has its parameters as constants
instead and is instantiated for each loop (`OddTurns`, `LadderTurns`, `Descent`, ...)
with the states a turn may leave (`Kept`, which may depend on the turn). It proves
that a recursion over numbers has a solution and that the solution stays in `Kept`:
a smallest turn at which it did not would contradict the turn (`Least`, from the
well-foundedness of the numbers). The provers know no power of two but those of
literals; that they are positive is that the subsets of a set are counted by one
(`TwoPowers`).

**Refinements.** `ImplementsMap` takes each store of the bucket to a step of
`HostMap` or a stutter: only the last store of an insert learns a host
(`CompleteMaps`), an eviction forgets one nobody authorised (`EvictMaps`), and by a
pigeonhole the map never has more hosts than the bucket entries (`PresentBound`).
`EditorIsSheet` does the same for the editor: `Meanings` is what the rows on and off
the page say, a scroll leaves it alone, what is typed changes one row, and a save
writes the filled rows above the first malformed one in their order. The rows a
save keeps are stated by their rank (`Nth`, `Used`), not by a recursion, so that they
can be reasoned about.

Only model-checked: what holds under fairness (`FrameDecided`, `WaitEnds`,
`SuspendEnds`, `UnloadEnds`, `SearchEnds`), which is out of the prover's reach, and of
Ed25519 `KeyPairConsistent`, `SignedVerifies`, `VerifyExact`, `ExchangeExact` and
`ExchangeAgrees`. That a signature verifies, that keys stay consistent and that two
parties agree rests on the group law being associative, on the primality of the
prime and of the order, and on the base point lying on the curve; the provers know
nothing of curves, and these hold of the constants of the code, not of every value.
`SignatureExact` is the part of `SignedVerifies` that is about scalars.
Every other property of the runs is proved.

## What the code does and its comments do not say

Four disagreements are runs of their own (`v_*`, quoted in `PROJECT.json`), among them
that a reconfiguration clears static hosts only, where `ntfeusr.h:203` says any
authorised host is invalidated. Others
met while modelling, which the models contain but no run isolates:

* A bucket may be full without the exhausted mark: `host_clear_statically_authorized`
  clears it (`host.cpp:303`), `allocate` sets it in the last slot only. Then every
  insert fails, although `host.cpp:135` speaks of entries "we know to exist".
* A CPU whose batch began before another CPU charged the host computes a time
  difference of almost 2^32 ms (`ntfe.cpp:80`) and fills the meter: the rate alone is
  not kept by several CPUs. `RateBound` counts such a charge as a gain of one capacity,
  and `ReplenishesExactly` says what it replenishes.
* `host_insert_authorized` can fail, in a bucket of authorised hosts only
  (`host.cpp:238` says it cannot): it evicts for class NONE, not for its own.
* `allocate` zeroes the state of its victim, the lock included, while another CPU
  may hold it; charges to that state then overlap (`ntfe.cpp:105`), and only then
  (`ChargesApart`).
* `ntfe_tx` encodes the ethertype as `(u8) (proto >> 7)` (`ntfe.cpp:337`), without the
  top bit every rule of the table has: no rule is ever found, and public traffic
  authorises its destinations too, although `ntfe.cpp:364` speaks of "private
  traffic". (The destinations of `HostTable` are therefore any addresses.)
* With more than 33 CPUs (64 are allowed) two CPUs can grow the pool at once; the
  result of `RegionCommit` is dropped; no index is compared with `HPOOL_SIZE`.
* A frame sent to address 0, or a static host 0 of a configuration (`ntfe.cpp:527`; only
  `ntfe_rx` refuses the address), is found wherever an entry is free, or enters the
  mark of a free entry as a key; `ExhaustedMeansFull` has it as its one exception.
* FIFO eviction is off after an age wraps (35 minutes) or between CPUs whose
  cached times differ; host-state pointers wrap to 0 and are shared after 2^18.
* A host silent for a multiple of 2^32 ms is not refilled.
* A valid configuration is not always accepted by `ntfe_configure`
  (`ntfeusr.h:192`), because rules of one file are never compared with each other.
* The NTFP hook compares with a constant that lacks the top bit every computed
  signature has, so that authentication messages are treated as any other frame.
* Saving without rules writes a table size of 0, which the engine rejects.
* With one rule the search may reach size 0 and, with three threads, a size of
  2^32 - 1, whose mask no longer bounds the index.
* `Resume` completes restarts for modules in state Suspended whether or not one is
  pending.
* The rules after a malformed row vanish from the saved file: `RulesDownload` reports
  the row and returns false, and `SaveNtfeConfiguration` goes on (`ntfw.cpp:317`). It
  also writes zeros for the meters, the hosts and the key of a file.
* A file whose writing stopped half-way has the new header and some of the new rules
  (`ntfw.cpp:357` writes over the old file and does not cut it). If the file is now
  shorter than the header says, the driver rejects it; if the older file was longer,
  it is as long as it should be, and the rules behind the new ones are older ones, hashed with
  another seed: the driver may load them, reject them, or fail half-way
  (`FailsOnlySpoiled`; `SavedFits` is about files written in full).
* `ntfe_validate_configuration` tests a shifted table size (`ntfe.cpp:448`): 31 makes a
  negative number, which passes, and from 32 on the shift is undefined. No file the
  program writes has such a size, and `OldFiles` have none.
* If `DriverEntry` fails past `ntfe_init`, the pool stays allocated; if it fails to open
  its configuration, the filter stays registered; if it fails to register its device,
  the configuration stays open. `DriverUnload` frees the pool before it deregisters the
  filter, which is harmless only as long as the data path does not use the engine.
* A configuration file whose buffer cannot be allocated is reported as applied
  (`driver.cpp:764`).
* `ge_p2_dbl` subtracts limbs larger than the bound documented for `fe_sub`; what
  follows still takes them (`LimbsFit`).
* `ed25519_verify` bounds S by the bits of the order (`verify.c:54`), not by the order:
  a second S passes for some signatures (`VerifyExact` states it).
* A key that `ed25519_add_scalar` tweaked is not clamped, and `ed25519_key_exchange`
  clamps it: the two parties agree only on untouched keys (`ExchangeAgrees`).
* `ed25519_add_scalar` does not look at whether the public key could be unpacked.
* `gs.pkey` is zeroed by `ntfe_configure` (`ntfe.cpp:496`) and never loaded.

## What is not modelled, and why

* The NDIS data path of the driver: it returns before any filtering code.
* NTFP authentication: unreachable, as above. `HOST_PRI_DYNAUTH` is therefore a
  class no action of `HostTable` gives.
* Lengths, versions and meters of the configuration file as the engine tests and
  loads them; the editor writes zeros for the meters. Planned.
* Threads left behind when `CreateThread` fails, more than 64 processor cores.
* Of Ed25519, the rounds of `sha512_compress` (a constant function), the generator of
  seeds, the width of the sums of `fe.c` in bits (their limbs are
  counted, `LimbsFit`; those of `sc.c` are bounded in the lemmas), and timing.
* The dialogs without state and the message loop of the configuration program; what
  it does after it overran its rows, and the driver after its image was removed.
* The test program, the user-mode environment, project and installation files; the
  programs `ntfwum` and `ntfwd`, which the README of the
  repository names and the repository does not have.
* NDIS is external: it serialises the callbacks of an adapter and follows the
  filter module states of its documentation. The hardware clock and the scheduler
  are external, too. `OldFiles` are files of earlier sessions, or of another
  author with static hosts, and hold a perfect seed; what follows their rules may be
  anything. A write that stops does so between two rules and after the header, which
  is less than a sector.
* In `HostTable` the CPU that reconfigures the engine is alone, as `Suspend`
  intends; that it may not be is shown by `v_driver_running`.

## Plan

Done, in order of importance: host table, pool, policing, driver with loading and
unloading, rule path, rule editor, Ed25519. Next:

1. Proofs: that the streaming hash compresses the blocks of the padded message; that
   `ge_p3_tobytes` and its inverse agree, from the primality of the prime.
2. `EngineConfig`: `ntfe_validate_configuration` and `ntfe_configure` in full, with
   lengths, meters (three bits index four meters) and the static hosts themselves, composed with
   `RuleTable` and `HostMap`.
3. `Ntfp`: `ntfp_rx_process` over `Ed25519` and `Authorise` of `HostMap`, with delayed
   and repeated messages within the time window, under the assumption that the hook
   fires.

A new run replaces one that asks a lesser question: the set of runs is kept
small enough to be rerun on every change.
