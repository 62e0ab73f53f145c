----------------------------- MODULE RuleMagic ------------------------------
(***************************************************************************)
(* The search for a perfect hash of the rule table (FindRuleMagic and its   *)
(* threads, src/ntfw/phash.cpp).  Every thread draws seeds and tries them   *)
(* on a table half as large as the record; the record, a size and a seed,   *)
(* is two separate words: the size is lowered by a compare-exchange, the    *)
(* seed is stored after it.                                                 *)
(***************************************************************************)
EXTENDS Integers, Sequences

CONSTANTS
    Worker,    \* the threads, one per processor core
    Seed,      \* seeds; 0 is what record_seed starts from
    RuleLists, \* rule sequences a user can set up
    HashFn,    \* rule_hashfn: a 16-bit value for a seed and a signature
    MaxBits,   \* _bsr(NTFE_MAX_RULES), 7
    MaxSearches \* bound of the model: searches

-----------------------------------------------------------------------------
(* ETHER_LE16_TO_FS: one byte of the swapped ethertype, its top bit set.    *)
Swapped(e) == (e % 256) * 256 + (e \div 256)
ETHER_LE16_TO_FS(e) == 128 + ((Swapped(e) \div 128) % 128)

(* ntfe_flowsig of a rule.  (Ports are kept in network order throughout.)   *)
Signature(r) ==
    [ether |-> ETHER_LE16_TO_FS(r.ether), proto |-> r.proto, dport |-> r.dport]

(* Hash functions are total on whatever the rules encode to.  The largest   *)
(* table has NTFE_MAX_RULES = 128 entries, the editor 32 rows.              *)
ASSUME MagicAssumption ==
    /\ 0 \in Seed
    /\ MaxBits \in 1 .. 7 /\ MaxSearches \in Nat
    /\ \A l \in RuleLists : /\ l \in Seq([ether : Nat, proto : Nat, dport : Nat])
                            /\ l # << >> /\ Len(l) <= 2^MaxBits
    /\ \A s \in Seed, l \in RuleLists : \A i \in DOMAIN l :
         HashFn[s][Signature(l[i])] \in Nat

VARIABLES
    list,        \* cfg.rules
    quit_signal,
    record_bits, record_seed,
    gui,         \* where FindRuleMagic is, or what it returned
    pc, seed, bits, \* the trial each thread is in
    raced,       \* history: two threads were about to store a seed at once
    searches     \* history: searches begun

record == <<record_bits, record_seed>>
trial == <<seed, bits>>
mvars == <<list, quit_signal, record_bits, record_seed, gui, pc, seed, bits,
           raced, searches>>

(* _bsr: the index of the highest bit set. *)
Bsr(n) == CHOOSE k \in 0 .. MaxBits : 2^k <= n /\ n < 2^(k + 1)
TargetBits == Bsr(Len(list)) + 1

(* No two rules meet in a table of 2^b entries. *)
Slot(s, g, b) == HashFn[s][g] % 2^b
Perfect(l, s, b) ==
    \A i, j \in DOMAIN l :
        Slot(s, Signature(l[i]), b) = Slot(s, Signature(l[j]), b) => i = j

Searching == {"spawn", "wait", "join"}
Results == {"found", "not_found", "failed"}

Goto(w, label) == pc' = [pc EXCEPT ![w] = label]
Drop(w) ==
    /\ seed' = [seed EXCEPT ![w] = 0]
    /\ bits' = [bits EXCEPT ![w] = 0]

-----------------------------------------------------------------------------
MagicInit ==
    /\ list = << >> /\ quit_signal = FALSE
    /\ record_bits = 0 /\ record_seed = 0
    /\ gui = "idle"
    /\ pc = [w \in Worker |-> "none"]
    /\ seed = [w \in Worker |-> 0]
    /\ bits = [w \in Worker |-> 0]
    /\ raced = FALSE /\ searches = 0

(* FindRuleMagic begins. *)
FindRuleMagic(l) ==
    /\ gui \in {"idle", "found", "not_found"}
    /\ searches < MaxSearches /\ searches' = searches + 1
    /\ list' = l
    /\ quit_signal' = FALSE
    /\ record_bits' = MaxBits + 1 /\ record_seed' = 0
    /\ gui' = "spawn"
    /\ pc' = [w \in Worker |-> "none"]
    /\ raced' = FALSE
    /\ UNCHANGED trial

CreateThread(w) ==
    /\ gui = "spawn" /\ pc[w] = "none"
    /\ Goto(w, "test")
    /\ gui' = IF \A v \in Worker : v # w => pc[v] # "none" THEN "wait" ELSE gui
    /\ UNCHANGED <<list, quit_signal, record, trial, raced, searches>>

(* The threads that were created are left to themselves, with rules on a    *)
(* stack frame that is gone.  (The model does not follow them.)             *)
CreateThreadFails ==
    /\ gui = "spawn"
    /\ gui' = "failed"
    /\ UNCHANGED <<list, quit_signal, record, pc, trial, raced, searches>>

(* The first wait ends with the first thread, or when the time is up. *)
Quit ==
    /\ gui = "wait"
    /\ quit_signal' = TRUE
    /\ gui' = "join"
    /\ UNCHANGED <<list, record, pc, trial, raced, searches>>

(* Fault: the second wait is for any thread, too. *)
JoinAny ==
    /\ gui = "join" /\ \E w \in Worker : pc[w] = "ended"
    /\ gui' = IF record_bits > MaxBits THEN "not_found" ELSE "found"
    /\ UNCHANGED <<list, quit_signal, record, pc, trial, raced, searches>>

Join ==
    /\ gui = "join" /\ \A w \in Worker : pc[w] = "ended"
    /\ gui' = IF record_bits > MaxBits THEN "not_found" ELSE "found"
    /\ UNCHANGED <<list, quit_signal, record, pc, trial, raced, searches>>

-----------------------------------------------------------------------------
(* ThreadEntry: the test of the loop (both words only ever move one way, so *)
(* the two reads are as good as one), then a trial, which reads the record  *)
(* a second time.                                                           *)
(* Fault: the signal to quit is not looked at. *)
TestRecordOnly(w) ==
    /\ pc[w] = "test"
    /\ Goto(w, IF record_bits > TargetBits THEN "try" ELSE "ended")
    /\ UNCHANGED <<list, quit_signal, record, gui, trial, raced, searches>>

Test(w) ==
    /\ pc[w] = "test"
    /\ Goto(w, IF ~quit_signal /\ record_bits > TargetBits THEN "try"
               ELSE "ended")
    /\ UNCHANGED <<list, quit_signal, record, gui, trial, raced, searches>>

(* Fault: the last rule is not tried. *)
TryButLast(w) ==
    /\ pc[w] = "try" /\ record_bits > 0
    /\ \E s \in Seed :
         IF Perfect(SubSeq(list, 1, Len(list) - 1), s, record_bits - 1)
         THEN /\ seed' = [seed EXCEPT ![w] = s]
              /\ bits' = [bits EXCEPT ![w] = record_bits - 1]
              /\ Goto(w, "cas")
         ELSE UNCHANGED trial /\ Goto(w, "test")
    /\ UNCHANGED <<list, quit_signal, record, gui, raced, searches>>

Try(w) ==
    /\ pc[w] = "try" /\ record_bits > 0
    /\ \E s \in Seed :
         IF Perfect(list, s, record_bits - 1)
         THEN /\ seed' = [seed EXCEPT ![w] = s]
              /\ bits' = [bits EXCEPT ![w] = record_bits - 1]
              /\ Goto(w, "cas")
         ELSE UNCHANGED trial /\ Goto(w, "test")
    /\ UNCHANGED <<list, quit_signal, record, gui, raced, searches>>

(* The record is zero: bits wraps, the mask no longer bounds the index, and *)
(* the store of the mark is outside the table.                              *)
TryWild(w) ==
    /\ pc[w] = "try" /\ record_bits = 0
    /\ Goto(w, "wild")
    /\ UNCHANGED <<list, quit_signal, record, gui, trial, raced, searches>>

(* Fault: a thread that lost the comparison stores its seed all the same. *)
LoserStores(w) ==
    /\ pc[w] = "cas" /\ record_bits # bits[w] + 1
    /\ Goto(w, "store")
    /\ UNCHANGED <<list, quit_signal, record, gui, trial, raced, searches>>

(* _InterlockedCompareExchange. *)
Lower(w) ==
    /\ pc[w] = "cas" /\ record_bits = bits[w] + 1
    /\ record_bits' = bits[w]
    /\ raced' = (raced \/ \E v \in Worker : v # w /\ pc[v] = "store")
    /\ Goto(w, "store")
    /\ UNCHANGED <<list, quit_signal, record_seed, gui, trial, searches>>

Lost(w) ==
    /\ pc[w] = "cas" /\ record_bits # bits[w] + 1
    /\ Goto(w, "test")
    /\ Drop(w)
    /\ UNCHANGED <<list, quit_signal, record, gui, raced, searches>>

StoreSeed(w) ==
    /\ pc[w] = "store"
    /\ record_seed' = seed[w]
    /\ Goto(w, "test")
    /\ Drop(w)
    /\ UNCHANGED <<list, quit_signal, record_bits, gui, raced, searches>>

-----------------------------------------------------------------------------
ThreadEntry(w) ==
    /\ gui \in Searching
    /\ \/ Test(w) \/ Try(w) \/ TryWild(w)
       \/ Lower(w) \/ Lost(w) \/ StoreSeed(w)

MagicNext ==
    \/ \E l \in RuleLists : FindRuleMagic(l)
    \/ \E w \in Worker : CreateThread(w) \/ ThreadEntry(w)
    \/ CreateThreadFails \/ Quit \/ Join

MagicSpec == MagicInit /\ [][MagicNext]_mvars

(* Windows schedules every thread, and the first wait has a time limit. *)
Scheduled ==
    /\ \A w \in Worker : WF_mvars(ThreadEntry(w))
    /\ WF_mvars(Quit) /\ WF_mvars(Join)

-----------------------------------------------------------------------------
(* Types; the record never leaves the range of table sizes. *)
MagicTypeOK ==
    /\ list \in RuleLists \cup {<< >>}
    /\ quit_signal \in BOOLEAN /\ raced \in BOOLEAN /\ searches \in Nat
    /\ record_bits \in 0 .. MaxBits + 1 /\ record_seed \in Seed
    /\ gui \in Searching \cup Results \cup {"idle"}
    /\ pc \in [Worker -> {"none", "test", "try", "wild", "cas", "store",
                          "ended"}]
    /\ seed \in [Worker -> Seed]
    /\ bits \in [Worker -> 0 .. MaxBits]

(* FindRuleMagic's comment, "Find perfect hash [seed] for rule table", as   *)
(* far as the code keeps it: unless two threads were between lowering the   *)
(* size and storing the seed at once, the pair it returns is perfect.       *)
SeedPerfectUnlessRaced ==
    gui = "found" /\ ~raced => Perfect(list, record_seed, record_bits)

(* Whatever races, the size returned is one some seed was found for; it is  *)
(* the seed that may belong to another size.                                *)
SizeAttained ==
    gui \in Searching \cup {"found"} /\ record_bits <= MaxBits =>
        \E s \in Seed : Perfect(list, s, record_bits)

(* The second read of the record lets threads pass the target by one, never *)
(* by more: with two rules or more no thread's table index gets out of hand.*)
OvershootByOne ==
    gui \in Searching \cup {"found"} =>
        /\ record_bits >= TargetBits - 1
        /\ Len(list) > 1 => \A w \in Worker : pc[w] # "wild"

(* A search comes to an end once its threads run. *)
SearchEnds ==
    gui = "wait" ~> gui \in Results \/ \E w \in Worker : pc[w] = "wild"

(* What makes SeedPerfectUnlessRaced inductive. *)
TrialInv ==
    \A w \in Worker :
        /\ pc[w] \in {"cas", "store"} => Perfect(list, seed[w], bits[w])
        /\ pc[w] = "cas" => bits[w] < MaxBits + 1
        /\ pc[w] = "store" /\ ~raced =>
             /\ bits[w] = record_bits
             /\ \A v \in Worker : pc[v] = "store" => v = w
RecordInv ==
    /\ (\A w \in Worker : pc[w] # "store") /\ ~raced /\ record_bits <= MaxBits
         => Perfect(list, record_seed, record_bits)
    /\ record_bits <= MaxBits => \E s \in Seed : Perfect(list, s, record_bits)
MagicInv ==
    /\ MagicTypeOK
    /\ gui \in {"found", "not_found"} =>
         \A w \in Worker : pc[w] \in {"none", "ended"}
    /\ gui = "found" => record_bits <= MaxBits
    /\ gui \in Searching \cup {"found"} => TrialInv /\ RecordInv

(* What makes OvershootByOne inductive: a search has rules, and only the    *)
(* trial of a table of one entry lets the next one run wild.                *)
WildInv ==
    /\ gui # "idle" => list # << >>
    /\ gui \in Searching \cup {"found"} =>
         \A w \in Worker : pc[w] = "wild" => record_bits = 0

-----------------------------------------------------------------------------
(* phash.cpp:3 "Find perfect hash [seed] for rule table".                   *)
SeedPerfect == gui = "found" => Perfect(list, record_seed, record_bits)

=============================================================================
