-------------------------- MODULE RuleTableProofs ---------------------------
(***************************************************************************)
(* Proofs about RuleMagic and RuleTable: what FindRuleMagic returns, for    *)
(* any number of threads and any hash function, when ntfe_configure can     *)
(* fail half-way, and what is looked up after it.                           *)
(***************************************************************************)
EXTENDS RuleTable, SequenceTheorems, FiniteSetTheorems, TLAPS

(* The part of the assumptions that the steps need. *)
LEMMA Parameters ==
    /\ 0 \in Seed /\ MaxBits \in Nat /\ MaxSearches \in Nat
    /\ 0 \in 0 .. MaxBits + 1 /\ 0 \in 0 .. MaxBits
    /\ MaxBits + 1 \in 0 .. MaxBits + 1
<1>1. 0 \in Seed /\ MaxBits \in Nat /\ MaxSearches \in Nat
    BY MagicAssumption
<1> QED BY <1>1

(* The sizes of the tables there are: 1 to 128 entries, and twice that for  *)
(* the record a search begins with.                                         *)
LEMMA Powers ==
    ASSUME NEW b \in 0 .. 8, NEW c \in 0 .. 8
    PROVE  /\ 2^b \in Nat \ {0}
           /\ b < c => 2 * 2^b <= 2^c
<1> DEFINE P == [n \in 0 .. 8 |-> 2^n]
<1>1. /\ P[0] = 1 /\ P[1] = 2 /\ P[2] = 4 /\ P[3] = 8 /\ P[4] = 16
      /\ P[5] = 32 /\ P[6] = 64 /\ P[7] = 128 /\ P[8] = 256
    OBVIOUS
<1>2. P[b] = 2^b /\ P[c] = 2^c
    OBVIOUS
<1> HIDE DEF P
<1>3. b \in {0, 1, 2, 3, 4, 5, 6, 7, 8} /\ c \in {0, 1, 2, 3, 4, 5, 6, 7, 8}
    OBVIOUS
<1>4. P[b] \in Nat \ {0}
    BY <1>1, <1>3
<1>5. ASSUME b < c PROVE 2 * P[b] <= P[c]
    BY <1>1, <1>3, <1>5
<1> QED BY <1>2, <1>4, <1>5

(* A larger table has more entries. *)
LEMMA PowersGrow ==
    ASSUME NEW b \in 0 .. 8, NEW c \in 0 .. 8
    PROVE  2^b <= 2^c <=> b <= c
<1> DEFINE B == 2^b
           C == 2^c
<1>1. /\ B \in Nat \ {0} /\ C \in Nat \ {0}
      /\ b < c => 2 * B <= C
      /\ c < b => 2 * C <= B
    BY Powers
<1>2. b = c => B = C
    OBVIOUS
<1> HIDE DEF B, C
<1>3. B <= C <=> b <= c
    BY <1>1, <1>2
<1> QED BY <1>3 DEF B, C

(* The hash of a signature, reduced, is an entry of the table. *)
LEMMA SlotRange ==
    ASSUME NEW s, NEW g, HashFn[s][g] \in Nat, NEW b \in 0 .. 8
    PROVE  Slot(s, g, b) \in 0 .. 2^b - 1
<1>1. \A n \in Nat, m \in Nat \ {0} : n % m \in 0 .. m - 1
    OBVIOUS
<1> QED BY <1>1, Powers DEF Slot

(* A perfect hash has room for the rules. *)
LEMMA PerfectFits ==
    ASSUME NEW l \in RuleLists, NEW s \in Seed, NEW b \in 0 .. 8,
           Perfect(l, s, b)
    PROVE  Len(l) <= 2^b
<1> DEFINE R == [ether : Nat, proto : Nat, dport : Nat]
           D == 1 .. Len(l)
           T == 0 .. 2^b - 1
           f == [i \in D |-> Slot(s, Signature(l[i]), b)]
<1>1. l \in Seq(R) /\ Len(l) \in Nat /\ DOMAIN l = D
    BY MagicAssumption
<1>2. \A i \in D : Slot(s, Signature(l[i]), b) \in T
    BY <1>1, MagicAssumption, SlotRange
<1>3. f \in Injection(D, T)
  <2>1. f \in [D -> T]
      BY <1>2
  <2>2. \A i, j \in D : f[i] = f[j] => i = j
      BY <1>1 DEF Perfect
  <2> QED BY <2>1, <2>2 DEF Injection, IsInjective
<1>4. 2^b \in Nat \ {0}
    BY Powers
<1>5. /\ IsFiniteSet(D) /\ Cardinality(D) = Len(l)
      /\ IsFiniteSet(T) /\ Cardinality(T) = 2^b
  <2>1. \A n \in Nat : IsFiniteSet(1 .. n) /\ Cardinality(1 .. n) = n
    <3> SUFFICES ASSUME NEW n \in Nat
                 PROVE  IsFiniteSet(1 .. n) /\ Cardinality(1 .. n) = n
        OBVIOUS
    <3>1. 1 \in Int /\ n \in Int
        OBVIOUS
    <3>2. /\ IsFiniteSet(1 .. n)
          /\ Cardinality(1 .. n) = IF 1 > n THEN 0 ELSE n - 1 + 1
        BY <3>1, FS_Interval, Zenon
    <3> QED BY <3>2
  <2>2. \A n \in Nat \ {0} : /\ IsFiniteSet(0 .. n - 1)
                             /\ Cardinality(0 .. n - 1) = n
    <3> SUFFICES ASSUME NEW n \in Nat \ {0}
                 PROVE  /\ IsFiniteSet(0 .. n - 1)
                        /\ Cardinality(0 .. n - 1) = n
        OBVIOUS
    <3>1. 0 \in Int /\ n - 1 \in Int
        OBVIOUS
    <3>2. /\ IsFiniteSet(0 .. n - 1)
          /\ Cardinality(0 .. n - 1) = IF 0 > n - 1 THEN 0 ELSE n - 1 - 0 + 1
        BY <3>1, FS_Interval, Zenon
    <3> QED BY <3>2
  <2> QED BY <1>1, <1>4, <2>1, <2>2
<1> HIDE DEF D, T, f
<1>6. Cardinality(D) <= Cardinality(T)
    BY <1>3, <1>5, FS_Injection
<1> QED BY <1>5, <1>6

(* _bsr: the highest bit of a number that the largest table has room for. *)
LEMMA HighestBit ==
    ASSUME NEW n \in Nat \ {0}, n <= 2^MaxBits
    PROVE  Bsr(n) \in 0 .. MaxBits /\ 2^Bsr(n) <= n /\ n < 2^(Bsr(n) + 1)
<1>0. MaxBits \in 1 .. 7
    BY MagicAssumption
<1> DEFINE P == [k \in 0 .. 8 |-> 2^k]
<1>1. /\ P[0] = 1 /\ P[1] = 2 /\ P[2] = 4 /\ P[3] = 8 /\ P[4] = 16
      /\ P[5] = 32 /\ P[6] = 64 /\ P[7] = 128 /\ P[8] = 256
    OBVIOUS
<1>2. \A k \in 0 .. 8 : P[k] = 2^k
    OBVIOUS
<1> HIDE DEF P
<1>3. n < 256
  <2>0. MaxBits \in 0 .. 8 /\ MaxBits \in {1, 2, 3, 4, 5, 6, 7}
      BY <1>0
  <2>1. MaxBits \in {1, 2, 3, 4, 5, 6, 7} /\ P[MaxBits] = 2^MaxBits
      BY <1>2, <2>0
  <2>2. P[MaxBits] \in Nat /\ P[MaxBits] <= 128
      BY <1>1, <2>1
  <2>3. n <= P[MaxBits]
      BY <2>1
  <2> QED BY <2>2, <2>3
<1>4. \E k \in {0, 1, 2, 3, 4, 5, 6, 7} : P[k] <= n /\ n < P[k + 1]
  <2>1. \/ (1 <= n /\ n < 2) \/ (2 <= n /\ n < 4) \/ (4 <= n /\ n < 8)
        \/ (8 <= n /\ n < 16) \/ (16 <= n /\ n < 32) \/ (32 <= n /\ n < 64)
        \/ (64 <= n /\ n < 128) \/ (128 <= n /\ n < 256)
      BY <1>3
  <2>2. /\ 0 + 1 = 1 /\ 1 + 1 = 2 /\ 2 + 1 = 3 /\ 3 + 1 = 4
        /\ 4 + 1 = 5 /\ 5 + 1 = 6 /\ 6 + 1 = 7 /\ 7 + 1 = 8
      OBVIOUS
  <2>3. /\ P[0 + 1] = 2 /\ P[1 + 1] = 4 /\ P[2 + 1] = 8 /\ P[3 + 1] = 16
        /\ P[4 + 1] = 32 /\ P[5 + 1] = 64 /\ P[6 + 1] = 128
        /\ P[7 + 1] = 256
      BY <1>1, <2>2
  <2>4. CASE n < 16
      BY <1>1, <2>1, <2>3, <2>4
  <2>5. CASE n >= 16
      BY <1>1, <2>1, <2>3, <2>5
  <2> QED BY <2>4, <2>5
<1>5. PICK k \in 0 .. 7 : 2^k <= n /\ n < 2^(k + 1)
  <2>1. PICK k \in {0, 1, 2, 3, 4, 5, 6, 7} : P[k] <= n /\ n < P[k + 1]
      BY <1>4
  <2>2. k \in 0 .. 7 /\ k \in 0 .. 8 /\ k + 1 \in 0 .. 8
      OBVIOUS
  <2>3. P[k] = 2^k /\ P[k + 1] = 2^(k + 1)
      BY <1>2, <2>2
  <2> QED BY <2>1, <2>2, <2>3
<1>6. k <= MaxBits
  <2>1. k \in 0 .. 8 /\ MaxBits \in 0 .. 8
      BY <1>0
  <2>2. 2^k \in Nat
      BY <2>1, Powers
  <2>3. 2^MaxBits \in Nat
      BY <2>1, Powers
  <2>4. 2^k <= 2^MaxBits
      BY <1>5, <2>2, <2>3
  <2> QED BY <2>1, <2>4, PowersGrow
<1>7. k \in 0 .. MaxBits
    BY <1>0, <1>6
<1> QED BY <1>5, <1>7 DEF Bsr

(* Before any search. *)
LEMMA MagicStart == ASSUME MagicInit PROVE MagicInv
<1>1. /\ list \in RuleLists \cup {<< >>}
      /\ quit_signal \in BOOLEAN /\ raced \in BOOLEAN /\ searches \in Nat
      /\ gui \in Searching \cup Results \cup {"idle"}
    BY DEF MagicInit
<1>2. /\ record_bits \in 0 .. MaxBits + 1 /\ record_seed \in Seed
      /\ seed \in [Worker -> Seed]
      /\ bits \in [Worker -> 0 .. MaxBits]
    BY Parameters DEF MagicInit
<1>3. pc \in [Worker -> {"none", "test", "try", "wild", "cas", "store",
                        "ended"}]
    BY DEF MagicInit
<1>4. MagicTypeOK
    BY <1>1, <1>2, <1>3 DEF MagicTypeOK
<1> QED BY <1>4 DEF MagicInit, MagicInv, Searching

(* The caller's side of a search. *)
LEMMA CallerStep ==
    ASSUME MagicInv,
           \/ \E l \in RuleLists : FindRuleMagic(l)
           \/ \E w \in Worker : CreateThread(w)
           \/ CreateThreadFails \/ Quit \/ Join
    PROVE  MagicInv'
<1> USE Parameters DEF Searching, Results, record, trial
<1>1. CASE \E l \in RuleLists : FindRuleMagic(l)
  <2>1. PICK l \in RuleLists : FindRuleMagic(l)
      BY <1>1
  <2>2. MagicTypeOK'
    <3>1. list' \in RuleLists \cup {<< >>}
        BY <2>1 DEF FindRuleMagic
    <3>4. searches' \in Nat
        BY <2>1 DEF FindRuleMagic, MagicInv, MagicTypeOK
    <3>5. /\ quit_signal' \in BOOLEAN /\ raced' \in BOOLEAN
          /\ gui' \in Searching \cup Results \cup {"idle"}
        BY <2>1 DEF FindRuleMagic
    <3>2. /\ record_bits' \in 0 .. MaxBits + 1 /\ record_seed' \in Seed
          /\ seed' \in [Worker -> Seed]
          /\ bits' \in [Worker -> 0 .. MaxBits]
        BY <2>1 DEF FindRuleMagic, MagicInv, MagicTypeOK
    <3>3. pc' \in [Worker -> {"none", "test", "try", "wild", "cas", "store",
                             "ended"}]
        BY <2>1 DEF FindRuleMagic
    <3> QED BY <3>1, <3>2, <3>3, <3>4, <3>5 DEF MagicTypeOK
  <2>3. TrialInv' /\ RecordInv'
      BY <2>1 DEF FindRuleMagic, TrialInv, RecordInv
  <2> QED BY <2>1, <2>2, <2>3 DEF FindRuleMagic, MagicInv
<1>2. CASE \E w \in Worker : CreateThread(w)
  <2>1. PICK w \in Worker : CreateThread(w)
      BY <1>2
  <2>2. MagicTypeOK'
      BY <2>1 DEF CreateThread, Goto, MagicInv, MagicTypeOK
  <2>3. TrialInv' /\ RecordInv'
      BY <2>1 DEF CreateThread, Goto, MagicInv, MagicTypeOK, TrialInv,
                  RecordInv, Perfect, Slot
  <2> QED BY <2>1, <2>2, <2>3 DEF CreateThread, Goto, MagicInv
<1>3. CASE CreateThreadFails \/ Quit \/ Join
  <2>1. MagicTypeOK'
      BY <1>3 DEF CreateThreadFails, Quit, Join, MagicInv, MagicTypeOK
  <2>2. gui \in {"spawn", "wait", "join"} /\ TrialInv /\ RecordInv
      BY <1>3 DEF CreateThreadFails, Quit, Join, MagicInv
  <2>3. TrialInv' /\ RecordInv'
      BY <1>3, <2>2 DEF CreateThreadFails, Quit, Join, TrialInv, RecordInv,
                  Perfect, Slot
  <2> QED BY <1>3, <2>1, <2>2, <2>3
          DEF CreateThreadFails, Quit, Join, MagicInv, MagicTypeOK
<1> QED BY <1>1, <1>2, <1>3

(* A thread's side of it. *)
LEMMA ThreadStep ==
    ASSUME MagicInv, NEW w \in Worker, ThreadEntry(w)
    PROVE  MagicInv'
<1> USE Parameters DEF Searching, Results, record, trial
<1>0. /\ MagicTypeOK /\ TrialInv /\ RecordInv
      /\ gui \in Searching /\ UNCHANGED <<list, quit_signal, gui, searches>>
    BY DEF ThreadEntry, MagicInv, Test, Try, TryWild, Lower, Lost, StoreSeed
<1>1. CASE Test(w)
  <2>1. MagicTypeOK'
      BY <1>0, <1>1 DEF Test, Goto, MagicTypeOK
  <2>2. \A v \in Worker : /\ pc'[v] = "store" <=> pc[v] = "store"
                          /\ pc'[v] = "cas" <=> pc[v] = "cas"
    <3>1. pc[w] = "test" /\ pc'[w] \in {"try", "ended"}
        BY <1>0, <1>1 DEF Test, Goto, MagicTypeOK
    <3>2. \A v \in Worker : v # w => pc'[v] = pc[v]
        BY <1>0, <1>1 DEF Test, Goto, MagicTypeOK
    <3> QED BY <3>1, <3>2
  <2>5. /\ list' = list /\ raced' = raced /\ seed' = seed /\ bits' = bits
        /\ record_bits' = record_bits /\ record_seed' = record_seed
      BY <1>1 DEF Test
  <2>3. TrialInv'
      BY <1>0, <2>2, <2>5 DEF TrialInv, Perfect, Slot
  <2>4. RecordInv'
      BY <1>0, <2>2, <2>5 DEF RecordInv, Perfect, Slot
  <2> QED BY <1>0, <2>1, <2>3, <2>4 DEF MagicInv
<1>2. CASE Try(w)
  <2>1. PICK s \in Seed :
          IF Perfect(list, s, record_bits - 1)
          THEN /\ seed' = [seed EXCEPT ![w] = s]
               /\ bits' = [bits EXCEPT ![w] = record_bits - 1]
               /\ Goto(w, "cas")
          ELSE UNCHANGED trial /\ Goto(w, "test")
      BY <1>2 DEF Try
  <2>2. record_bits - 1 \in 0 .. MaxBits
      BY <1>0, <1>2 DEF Try, MagicTypeOK
  <2>3. MagicTypeOK'
      BY <1>0, <1>2, <2>1, <2>2 DEF Try, Goto, MagicTypeOK
  <2>4. \A v \in Worker : v # w => /\ pc'[v] = pc[v] /\ seed'[v] = seed[v]
                                   /\ bits'[v] = bits[v]
      BY <1>0, <2>1 DEF Goto, MagicTypeOK
  <2>5. /\ pc'[w] \in {"cas", "test"}
        /\ pc'[w] = "cas" => /\ Perfect(list, seed'[w], bits'[w])
                             /\ bits'[w] = record_bits - 1
      BY <1>0, <2>1 DEF Goto, MagicTypeOK
  <2>6. /\ UNCHANGED <<list, record_bits, record_seed, raced>>
        /\ pc[w] = "try"
      BY <1>2 DEF Try
  <2>7. \A v \in Worker : pc'[v] \in {"cas", "store"}
                            => Perfect(list, seed'[v], bits'[v])
      BY <1>0, <2>4, <2>5 DEF TrialInv
  <2>8. TrialInv'
      BY <1>0, <2>2, <2>4, <2>5, <2>6, <2>7
      DEF TrialInv, MagicTypeOK, Perfect, Slot
  <2>9. RecordInv'
      BY <1>0, <2>4, <2>5, <2>6 DEF RecordInv, Perfect, Slot
  <2> QED BY <1>0, <2>3, <2>8, <2>9 DEF MagicInv
<1>3. CASE TryWild(w)
  <2>1. MagicTypeOK'
      BY <1>0, <1>3 DEF TryWild, Goto, MagicTypeOK
  <2>2. TrialInv' /\ RecordInv'
      BY <1>0, <1>3 DEF TryWild, Goto, MagicTypeOK, TrialInv, RecordInv,
                        Perfect, Slot
  <2> QED BY <1>0, <2>1, <2>2 DEF MagicInv
<1>4. CASE Lower(w)
  <2>1. MagicTypeOK'
      BY <1>0, <1>4 DEF Lower, Goto, MagicTypeOK
  <2>4. /\ pc[w] = "cas" /\ record_bits = bits[w] + 1 /\ record_bits' = bits[w]
        /\ UNCHANGED <<list, seed, bits>>
        /\ raced' = (raced \/ \E v \in Worker : v # w /\ pc[v] = "store")
      BY <1>4 DEF Lower
  <2>5. pc'[w] = "store" /\ \A v \in Worker : v # w => pc'[v] = pc[v]
      BY <1>0, <1>4 DEF Lower, Goto, MagicTypeOK
  <2>6. ASSUME NEW v \in Worker
        PROVE  /\ pc'[v] \in {"cas", "store"} => Perfect(list, seed[v], bits[v])
               /\ pc'[v] = "cas" => bits[v] < MaxBits + 1
      BY <1>0, <2>4, <2>5 DEF TrialInv
  <2>7. ASSUME NEW v \in Worker, pc'[v] = "store", ~raced'
        PROVE  v = w
      BY <2>4, <2>5, <2>7
  <2>8. \A v \in Worker : Perfect(list, seed[v], bits[v])'
                             <=> Perfect(list, seed[v], bits[v])
      BY <2>4 DEF Perfect, Slot
  <2>2. TrialInv'
      BY <2>4, <2>6, <2>7, <2>8 DEF TrialInv
  <2>3. RecordInv'
      BY <1>0, <1>4 DEF Lower, Goto, MagicTypeOK, TrialInv, RecordInv,
                        Perfect, Slot
  <2> QED BY <1>0, <2>1, <2>2, <2>3 DEF MagicInv
<1>5. CASE Lost(w)
  <2>1. MagicTypeOK'
      BY <1>0, <1>5 DEF Lost, Drop, Goto, MagicTypeOK
  <2>2. TrialInv' /\ RecordInv'
      BY <1>0, <1>5 DEF Lost, Drop, Goto, MagicTypeOK, TrialInv, RecordInv,
                        Perfect, Slot
  <2> QED BY <1>0, <2>1, <2>2 DEF MagicInv
<1>6. CASE StoreSeed(w)
  <2>1. MagicTypeOK'
      BY <1>0, <1>6 DEF StoreSeed, Drop, Goto, MagicTypeOK
  <2>2. TrialInv'
      BY <1>0, <1>6 DEF StoreSeed, Drop, Goto, MagicTypeOK, TrialInv,
                        Perfect, Slot
  <2>3. RecordInv'
      BY <1>0, <1>6 DEF StoreSeed, Drop, Goto, MagicTypeOK, TrialInv,
                        RecordInv, Perfect, Slot
  <2> QED BY <1>0, <2>1, <2>2, <2>3 DEF MagicInv
<1> QED BY <1>1, <1>2, <1>3, <1>4, <1>5, <1>6 DEF ThreadEntry

(* The file and the engine do not disturb a search; a saved result ends it. *)
LEMMA FileStep ==
    ASSUME MagicInv, Save \/ SaveNoRules \/ ConfigureFirewallEngine
    PROVE  MagicInv'
<1> USE DEF Searching, Results, record, trial
<1>1. CASE Save
  <2>1. MagicTypeOK'
      BY <1>1 DEF Save, MagicInv, MagicTypeOK
  <2> QED BY <1>1, <2>1 DEF Save, MagicInv
<1>2. CASE UNCHANGED mvars
    BY <1>2 DEF mvars, MagicInv, MagicTypeOK, TrialInv, RecordInv,
                Perfect, Slot
<1> QED BY <1>1, <1>2 DEF SaveNoRules, ConfigureFirewallEngine,
           ntfe_configure, Rejected, vars, mvars

(* FindRuleMagic: the invariant of the search is inductive, for any number  *)
(* of threads, any rules and any hash function.                             *)
THEOREM MagicInductive == Spec => []MagicInv
<1>1. Init => MagicInv
    BY MagicStart DEF Init
<1>2. MagicInv /\ [Next]_vars => MagicInv'
  <2> SUFFICES ASSUME MagicInv, [Next]_vars PROVE MagicInv'
      OBVIOUS
  <2>1. CASE MagicNext
      BY <2>1, CallerStep, ThreadStep DEF MagicNext
  <2>2. CASE Save \/ SaveNoRules \/ ConfigureFirewallEngine
      BY <2>2, FileStep
  <2>3. CASE UNCHANGED vars
      BY <2>3 DEF vars, record, trial, MagicInv, MagicTypeOK, TrialInv,
                  RecordInv, Perfect, Slot
  <2> QED BY <2>1, <2>2, <2>3 DEF Next
<1> QED BY <1>1, <1>2, PTL DEF Spec

(* FindRuleMagic returns a perfect seed unless two record holders raced.    *)
THEOREM SeedCorrect == Spec => []SeedPerfectUnlessRaced
<1>1. MagicInv => SeedPerfectUnlessRaced
    BY DEF MagicInv, RecordInv, SeedPerfectUnlessRaced, Searching
<1> QED BY <1>1, MagicInductive, PTL

(* record_bits is always a size some seed was found for.                    *)
THEOREM SizeCorrect == Spec => []SizeAttained
<1>1. MagicInv => SizeAttained
    BY DEF MagicInv, RecordInv, SizeAttained, Searching
<1> QED BY <1>1, MagicInductive, PTL

(* What lets a trial run wild. *)
LEMMA WildStep ==
    ASSUME MagicInv, WildInv, [Next]_vars
    PROVE  WildInv'
<1> USE DEF MagicInv, MagicTypeOK, WildInv, Searching, Results, Goto, Drop,
        record, trial
<1>1. CASE \E l \in RuleLists : FindRuleMagic(l)
    BY <1>1, MagicAssumption DEF FindRuleMagic
<1>2. CASE \E w \in Worker : CreateThread(w)
    BY <1>2 DEF CreateThread
<1>3. CASE CreateThreadFails \/ Quit \/ Join
    BY <1>3 DEF CreateThreadFails, Quit, Join
<1>4. ASSUME NEW w \in Worker, ThreadEntry(w) PROVE WildInv'
  <2>1. gui' = gui /\ list' = list /\ gui \in Searching
      BY <1>4 DEF ThreadEntry, Test, Try, TryWild, Lower, Lost, StoreSeed
  <2>2. CASE Test(w)
      BY <2>1, <2>2 DEF Test
  <2>3. CASE Try(w)
    <3>1. pc'[w] \in {"cas", "test"} /\ record_bits' = record_bits
        BY <2>3 DEF Try
    <3>2. \A v \in Worker : v # w => pc'[v] = pc[v]
        BY <2>3 DEF Try
    <3> QED BY <2>1, <3>1, <3>2
  <2>4. CASE TryWild(w)
      BY <2>1, <2>4 DEF TryWild
  <2>5. CASE Lower(w)
    <3>1. record_bits = bits[w] + 1 /\ bits[w] \in 0 .. MaxBits
        BY <2>5 DEF Lower
    <3>2. record_bits # 0
        BY <3>1, Parameters
    <3> QED BY <2>1, <2>5, <3>2 DEF Lower
  <2>6. CASE Lost(w)
      BY <2>1, <2>6 DEF Lost
  <2>7. CASE StoreSeed(w)
      BY <2>1, <2>7 DEF StoreSeed
  <2> QED BY <1>4, <2>2, <2>3, <2>4, <2>5, <2>6, <2>7 DEF ThreadEntry
<1>5. CASE Save
    BY <1>5 DEF Save
<1>6. CASE UNCHANGED mvars
    BY <1>6 DEF mvars
<1> QED BY <1>1, <1>2, <1>3, <1>4, <1>5, <1>6
        DEF Next, MagicNext, SaveNoRules, ConfigureFirewallEngine,
            ntfe_configure, Rejected, vars, mvars

(* The threads read the record a second time without looking whether the    *)
(* target was reached meanwhile, and may pass it: but only by one bit, for  *)
(* a smaller table has no room for the rules, and so no table of two rules  *)
(* or more is ever indexed without its mask.                                *)
THEOREM OvershootBounded == Spec => []OvershootByOne
<1>1. Init => WildInv
    BY DEF Init, MagicInit, WildInv, Searching
<1>2. MagicInv /\ WildInv /\ [Next]_vars => WildInv'
    BY WildStep
<1>3. MagicInv /\ WildInv => OvershootByOne
  <2> SUFFICES ASSUME MagicInv, WildInv, gui \in Searching \cup {"found"}
               PROVE  /\ record_bits >= TargetBits - 1
                      /\ Len(list) > 1 => \A w \in Worker : pc[w] # "wild"
      BY DEF OvershootByOne
  <2>1. list \in RuleLists
      BY DEF MagicInv, MagicTypeOK, WildInv, Searching
  <2>2. /\ Len(list) \in Nat \ {0} /\ Len(list) <= 2^MaxBits
        /\ MaxBits \in 1 .. 7
      BY <2>1, MagicAssumption, EmptySeq
  <2>3. /\ Bsr(Len(list)) \in 0 .. MaxBits
        /\ 2^Bsr(Len(list)) <= Len(list) /\ Len(list) < 2^(Bsr(Len(list)) + 1)
      BY <2>2, HighestBit
  <2>4. record_bits \in 0 .. MaxBits + 1
      BY DEF MagicInv, MagicTypeOK
  <2>5. Bsr(Len(list)) <= record_bits
    <3>1. CASE record_bits = MaxBits + 1
        BY <2>2, <2>3, <3>1
    <3>2. CASE record_bits <= MaxBits
      <4>1. PICK s \in Seed : Perfect(list, s, record_bits)
          BY <3>2 DEF MagicInv, RecordInv
      <4>2. record_bits \in 0 .. 8 /\ Bsr(Len(list)) \in 0 .. 8
          BY <2>2, <2>3, <2>4
      <4>3. Len(list) <= 2^record_bits
          BY <2>1, <4>1, <4>2, PerfectFits
      <4>4. 2^record_bits \in Nat /\ 2^Bsr(Len(list)) \in Nat
          BY <4>2, Powers
      <4>5. 2^Bsr(Len(list)) <= 2^record_bits
          BY <2>2, <2>3, <4>3, <4>4
      <4> QED BY <4>2, <4>5, PowersGrow
    <3> QED BY <2>2, <2>4, <3>1, <3>2
  <2>6. record_bits >= TargetBits - 1
      BY <2>2, <2>3, <2>4, <2>5 DEF TargetBits
  <2>7. ASSUME Len(list) > 1, NEW w \in Worker PROVE pc[w] # "wild"
    <3>1. Bsr(Len(list)) # 0
      <4> DEFINE h == Bsr(Len(list))
      <4>1. 2^(0 + 1) = 2
          OBVIOUS
      <4>2. h = 0 => 2^(h + 1) = 2
          BY <4>1
      <4>3. Len(list) < 2^(h + 1) /\ Len(list) \in Nat
          BY <2>2, <2>3
      <4> HIDE DEF h
      <4> DEFINE p == 2^(h + 1)
      <4> HIDE DEF p
      <4>4. (h = 0 => p = 2) /\ Len(list) < p
          BY <4>2, <4>3 DEF p
      <4>5. h # 0
          BY <2>7, <4>3, <4>4
      <4> QED BY <4>5 DEF h
    <3>2. record_bits # 0
        BY <2>2, <2>3, <2>4, <2>5, <3>1
    <3> QED BY <3>2 DEF WildInv
  <2> QED BY <2>6, <2>7
<1> QED BY <1>1, <1>2, <1>3, MagicInductive, PTL DEF Spec

(* What can be in a file is read as rules the hash is defined on.           *)
LEMMA KnownRules ==
    ASSUME NEW l \in RuleLists \cup {f.ect : f \in OldFiles}
    PROVE  l \in Seq(AnyRule)
<1>1. l \in Seq([ether : Nat, proto : Nat, dport : Nat])
    BY MagicAssumption, TableAssumption
<1>2. \A i \in DOMAIN l : l[i] \in AnyRule
    BY DEF AnyRule
<1>3. l \in [1 .. Len(l) -> AnyRule] /\ Len(l) \in Nat
    BY <1>1, <1>2
<1> QED BY <1>3

(* SaveNtfeConfiguration: the rules that are written are read back, when    *)
(* all of them were.                                                        *)
LEMMA Overwritten ==
    ASSUME NEW R, NEW l \in Seq(R), NEW s \in Seq(R), NEW k \in 0 .. Len(l)
    PROVE  LET ect == SubSeq(l, 1, k) \o SubSeq(s, k + 1, Len(s))
           IN  /\ ect \in Seq(R)
               /\ k = Len(l) => Len(l) <= Len(ect) /\ SubSeq(ect, 1, Len(l)) = l
<1> DEFINE a == SubSeq(l, 1, k)
           b == SubSeq(s, k + 1, Len(s))
<1>1. a \in Seq(R) /\ (k = Len(l) => a = l)
  <2>1. a \in Seq(R)
      OBVIOUS
  <2>2. SubSeq(l, 1, Len(l)) = l
      OBVIOUS
  <2> QED BY <2>1, <2>2
<1>2. b \in Seq(R)
    OBVIOUS
<1> HIDE DEF a, b
<1>3. a \o b \in Seq(R) /\ Len(a) <= Len(a \o b)
    BY <1>1, <1>2
<1>4. SubSeq(a \o b, 1, Len(a)) = a
  <2>1. Len(a) \in Nat /\ Len(a \o b) = Len(a) + Len(b) /\ Len(b) \in Nat
      BY <1>1, <1>2
  <2>2. \A i \in 1 .. Len(a) : (a \o b)[i] = a[i]
      BY <1>1, <1>2
  <2> DEFINE c == a \o b
  <2>3. c \in Seq(R) /\ Len(a) \in 0 .. Len(c) /\ \A i \in 1 .. Len(a) : c[i] = a[i]
      BY <1>3, <2>1, <2>2
  <2> HIDE DEF c
  <2>4. /\ SubSeq(c, 1, Len(a)) \in Seq(R)
        /\ Len(SubSeq(c, 1, Len(a))) = Len(a)
        /\ \A i \in 1 .. Len(a) : SubSeq(c, 1, Len(a))[i] = c[i]
      BY <2>3
  <2> DEFINE d == SubSeq(c, 1, Len(a))
  <2> HIDE DEF d
  <2>5. d \in Seq(R) /\ Len(d) = Len(a) /\ \A i \in 1 .. Len(a) : d[i] = a[i]
      BY <2>3, <2>4 DEF d
  <2>6. d = a
      BY <1>1, <2>5, SeqEqual
  <2> QED BY <2>6 DEF c, d
<1> QED BY <1>1, <1>3, <1>4 DEF a, b

(* A file whose search was not raced and that was not left half-written     *)
(* over a longer one holds a perfect seed for its rules, whatever is saved, *)
(* loaded or searched for in the meantime.                                  *)
THEOREM FileInductive == Spec => []FileInv
<1>1. Init => FileInv
  <2> SUFFICES ASSUME Init PROVE FileInv
      OBVIOUS
  <2>1. CASE file = NoFile
    <3>1. file.ect = << >> /\ file.count = 0
        BY <2>1 DEF NoFile
    <3>2. Listed(file) = << >>
        BY <3>1 DEF Listed
    <3> QED BY <3>1, <3>2 DEF FileInv, Perfect
  <2>2. CASE file \in OldFiles
      BY <2>2, TableAssumption, KnownRules DEF FileInv
  <2> QED BY <2>1, <2>2 DEF Init
<1>2. FileInv /\ MagicInv /\ [Next]_vars => FileInv'
  <2> SUFFICES ASSUME FileInv, MagicInv, [Next]_vars PROVE FileInv'
      OBVIOUS
  <2>1. CASE Save
    <3>1. PICK k \in 0 .. Len(list) :
            file' = [ect |-> SubSeq(list, 1, k)
                               \o SubSeq(file.ect, k + 1, Len(file.ect)),
                     count |-> Len(list), seed |-> record_seed,
                     hashsz |-> record_bits, hosts |-> FALSE, raced |-> raced,
                     torn |-> k < Len(list)]
        BY <2>1 DEF Save
    <3>2. list \in Seq(AnyRule) /\ file.ect \in Seq(AnyRule)
      <4>1. << >> \in Seq(AnyRule)
          OBVIOUS
      <4>2. list \in RuleLists \cup {<< >>}
          BY DEF MagicInv, MagicTypeOK
      <4>3. list \in Seq(AnyRule)
          BY <4>1, <4>2, KnownRules
      <4> QED BY <4>3 DEF FileInv
    <3>3. Len(list) \in Nat
        BY <3>2
    <3>4. /\ file'.ect \in Seq(AnyRule)
          /\ k = Len(list) => /\ Len(list) <= Len(file'.ect)
                              /\ SubSeq(file'.ect, 1, Len(list)) = list
        BY <3>1, <3>2, Overwritten
    <3>5. ~raced => Perfect(list, record_seed, record_bits)
        BY <2>1 DEF Save, MagicInv, RecordInv, Searching
    <3>6. /\ file'.count = Len(list) /\ file'.raced = raced
          /\ file'.seed = record_seed /\ file'.hashsz = record_bits
          /\ ~file'.torn => k = Len(list)
      <4>1. ~(k < Len(list)) => k = Len(list)
          BY <3>3
      <4>2. file'.torn = (k < Len(list))
          BY <3>1, Zenon
      <4>3. /\ file'.count = Len(list) /\ file'.raced = raced
            /\ file'.seed = record_seed /\ file'.hashsz = record_bits
          BY <3>1, Zenon
      <4> QED BY <4>1, <4>2, <4>3
    <3>7. ~file'.raced /\ ~file'.torn
            => Listed(file') = list /\ Perfect(list, file'.seed, file'.hashsz)
        BY <3>4, <3>5, <3>6 DEF Listed
    <3> QED BY <3>3, <3>4, <3>6, <3>7 DEF FileInv, Perfect, Slot, Listed
  <2>2. CASE SaveNoRules
    <3>1. file'.ect = file.ect /\ file'.count = 0
        BY <2>2 DEF SaveNoRules, NoFile
    <3>2. file'.ect \in Seq(AnyRule) /\ Len(file'.ect) \in Nat
        BY <3>1 DEF FileInv
    <3>3. DOMAIN SubSeq(file'.ect, 1, 0) = {}
        BY <3>2
    <3> QED BY <3>1, <3>2, <3>3 DEF FileInv, Perfect, Slot, Listed
  <2>3. CASE file' = file
      BY <2>3 DEF FileInv, Perfect, Slot, Listed
  <2> QED BY <2>1, <2>2, <2>3
      DEF Next, ConfigureFirewallEngine, ntfe_configure, Rejected, vars
<1> QED BY <1>1, <1>2, MagicInductive, PTL DEF Spec

(* A seed that is perfect for a list is perfect for the list's beginning.   *)
LEMMA PerfectPrefix ==
    ASSUME NEW R, NEW l \in Seq(R), NEW s, NEW b, NEW m \in 0 .. Len(l),
           Perfect(SubSeq(l, 1, m), s, b), NEW n \in 0 .. m
    PROVE  Perfect(SubSeq(l, 1, n), s, b)
<1>1. /\ DOMAIN SubSeq(l, 1, n) = 1 .. n
      /\ \A i \in 1 .. n : SubSeq(l, 1, n)[i] = l[i]
    OBVIOUS
<1>2. /\ DOMAIN SubSeq(l, 1, m) = 1 .. m
      /\ \A i \in 1 .. m : SubSeq(l, 1, m)[i] = l[i]
    OBVIOUS
<1>3. 1 .. n \subseteq 1 .. m
    OBVIOUS
<1> QED BY <1>1, <1>2, <1>3 DEF Perfect

(* ntfe_configure fails, with the old rules gone, only on a file whose      *)
(* search was raced or that was left half-written over a longer one; or on  *)
(* a static host, all rules of the file being in force by then.             *)
THEOREM FailureSpoiled == Spec => FailsOnlySpoiled
<1>1. FileInv /\ [Next]_vars
        => [ntfe_configure /\ failed' =>
              file.raced \/ file.torn \/ (file.hosts /\ active' = Listed(file))]_vars
  <2> SUFFICES ASSUME FileInv, ntfe_configure, failed', ~file.raced, ~file.torn
               PROVE  file.hosts /\ active' = Listed(file)
      OBVIOUS
  <2>1. /\ file.ect \in Seq(AnyRule) /\ file.count \in Nat
        /\ file.count <= Len(file.ect) /\ Len(file.ect) \in Nat
        /\ Perfect(SubSeq(file.ect, 1, file.count), file.seed, file.hashsz)
      BY DEF FileInv, Listed
  <2>2. PICK k \in 0 .. file.count : EnterRules(k)
      BY DEF ntfe_configure
  <2>3. ~(k < file.count)
    <3> SUFFICES ASSUME k < file.count PROVE FALSE
        OBVIOUS
    <3>1. k + 1 \in 0 .. file.count /\ file.count \in 0 .. Len(file.ect)
        BY <2>1
    <3>2. Perfect(SubSeq(file.ect, 1, k + 1), file.seed, file.hashsz)
        BY <2>1, <3>1, PerfectPrefix
    <3> QED BY <2>2, <3>2 DEF EnterRules, Enters
  <2>4. k = file.count
      BY <2>1, <2>3
  <2> QED BY <2>2, <2>3, <2>4 DEF EnterRules, Listed
<1> QED BY <1>1, FileInductive, PTL DEF Spec, FailsOnlySpoiled

(* The ethertype of a flow signature has its top bit set: no signature is   *)
(* taken for a free slot, or for the authentication port's.                 *)
LEMMA SignatureMarked ==
    ASSUME NEW e \in Nat
    PROVE  ETHER_LE16_TO_FS(e) \in Nat /\ ETHER_LE16_TO_FS(e) >= 128
<1> DEFINE n == Swapped(e) \div 128
<1>1. Swapped(e) \in Nat
    BY DEF Swapped
<1>2. n \in Nat
    BY <1>1
<1> HIDE DEF n
<1>3. n % 128 \in Nat
    BY <1>2
<1> QED BY <1>3 DEF ETHER_LE16_TO_FS, n

(* A table size in force is one that gs.rules has room for. *)
LEMMA SlotExists ==
    ASSUME NEW s, NEW g, HashFn[s][g] \in Nat, NEW b \in 0 .. MaxBits
    PROVE  Slot(s, g, b) \in Slots
<1>1. MaxBits \in 1 .. 7 /\ b \in 0 .. 8 /\ MaxBits \in 0 .. 8 /\ b <= MaxBits
    BY MagicAssumption
<1>2. 2^b \in Nat
    BY <1>1, Powers
<1>3. 2^MaxBits \in Nat
    BY <1>1, Powers
<1>4. 2^b <= 2^MaxBits
    BY <1>1, PowersGrow
<1>5. Slot(s, g, b) \in 0 .. 2^b - 1
    BY <1>1, SlotRange
<1> QED BY <1>2, <1>3, <1>4, <1>5 DEF Slots, MAX_RULES

(* rule_insert, rule by rule: the table holds what was entered.             *)
LEMMA TableStep ==
    ASSUME FileInv, EngineInv, ntfe_configure
    PROVE  EngineInv'
<1> DEFINE l == file.ect
           s == file.seed
           b == file.hashsz
<1>1. PICK k \in 0 .. file.count : EnterRules(k)
    BY DEF ntfe_configure
<1>2. UNCHANGED file /\ rule_seed' = s /\ rule_hashsz' = b
    BY DEF ntfe_configure
<1>3. s \in Seed /\ b \in 0 .. MaxBits
    BY DEF EngineInv
<1>4. l \in Seq(AnyRule) /\ k \in 0 .. Len(l)
  <2>1. /\ l \in Seq(AnyRule) /\ file.count \in Nat
        /\ Len(l) \in Nat /\ file.count <= Len(l)
      BY DEF FileInv, ntfe_configure, ntfe_validate_configuration
  <2> QED BY <2>1
<1>5. /\ active' \in Seq(AnyRule) /\ DOMAIN active' = 1 .. k
      /\ \A i \in 1 .. k : i \in DOMAIN l /\ active'[i] = l[i]
  <2>1. ASSUME NEW R, NEW q \in Seq(R), NEW n \in 0 .. Len(q)
        PROVE  /\ SubSeq(q, 1, n) \in Seq(R) /\ DOMAIN SubSeq(q, 1, n) = 1 .. n
               /\ \A i \in 1 .. n : i \in DOMAIN q /\ SubSeq(q, 1, n)[i] = q[i]
    <3>1. DOMAIN q = 1 .. Len(q) /\ Len(q) \in Nat
        OBVIOUS
    <3>2. \A i \in 1 .. n : i \in DOMAIN q
        BY <3>1
    <3>3. DOMAIN SubSeq(q, 1, n) = 1 .. n
        OBVIOUS
    <3>4. \A i \in 1 .. n : SubSeq(q, 1, n)[i] = q[i]
        OBVIOUS
    <3>5. SubSeq(q, 1, n) \in Seq(R)
        OBVIOUS
    <3> QED BY <3>2, <3>3, <3>4, <3>5
  <2> QED BY <1>1, <1>4, <2>1 DEF EnterRules
<1> DEFINE at(i) == Slot(s, Signature(l[i]), b)
<1>6. \A i \in 1 .. k : at(i) \in Slots
  <2> SUFFICES ASSUME NEW i \in 1 .. k PROVE at(i) \in Slots
      OBVIOUS
  <2>1. l[i] \in AnyRule
      BY <1>4, <1>5
  <2>2. HashFn[s][Signature(l[i])] \in Nat
      BY <1>3, <2>1, TableAssumption
  <2> QED BY <1>3, <2>2, SlotExists
<1>7. \A i, j \in 1 .. k : at(i) = at(j) => i = j
    BY <1>1, <1>5 DEF EnterRules, Enters, Perfect
<1>8. \A x \in Slots :
        rules'[x] = IF \E i \in 1 .. k : at(i) = x
                    THEN Signature(l[CHOOSE i \in 1 .. k : at(i) = x])
                    ELSE Free
    BY <1>1 DEF EnterRules, Table
<1> HIDE DEF at, l, s, b
<1>9. \A i \in 1 .. k : rules'[at(i)] = Signature(l[i])
  <2> SUFFICES ASSUME NEW i \in 1 .. k PROVE rules'[at(i)] = Signature(l[i])
      OBVIOUS
  <2> DEFINE c == CHOOSE j \in 1 .. k : at(j) = at(i)
  <2>1. c \in 1 .. k /\ at(c) = at(i)
      OBVIOUS
  <2>2. c = i
      BY <1>7, <2>1
  <2> QED BY <1>6, <1>8, <2>2
<1>10. \A x \in Slots : \/ rules'[x] = Free
                        \/ \E i \in 1 .. k : rules'[x] = Signature(l[i])
  <2> SUFFICES ASSUME NEW x \in Slots, NEW i \in 1 .. k, at(i) = x
               PROVE  \E j \in 1 .. k : rules'[x] = Signature(l[j])
      BY <1>8
  <2> QED BY <1>9
<1>11. \A i \in 1 .. k : ActiveSlot(i)' = at(i)
    BY <1>2, <1>5 DEF ActiveSlot, at, Slot, s, b
<1>12. \A i \in DOMAIN active' : rules'[ActiveSlot(i)'] = Signature(active'[i])
    BY <1>5, <1>9, <1>11
<1>13. \A x \in Slots :
         \/ rules'[x] = Free
         \/ \E i \in DOMAIN active' : rules'[x] = Signature(active'[i])
    BY <1>5, <1>10
<1>14. file' = file
    BY <1>2
<1> QED BY <1>2, <1>3, <1>5, <1>12, <1>13, <1>14 DEF EngineInv, s, b

(* What is in the table is what the engine was last left with, under the    *)
(* hash it was entered with, whatever is searched for and saved meanwhile.  *)
THEOREM EngineInductive == Spec => []EngineInv
<1>1. Init => EngineInv
  <2> SUFFICES ASSUME Init PROVE EngineInv
      OBVIOUS
  <2>1. file.seed \in Seed /\ file.hashsz \in 0 .. MaxBits
    <3>1. CASE file = NoFile
        BY <3>1, Parameters DEF NoFile
    <3>2. CASE file \in OldFiles
      <4>1. file.seed \in Seed /\ file.hashsz \in 1 .. MaxBits
          BY <3>2, TableAssumption
      <4>2. 1 .. MaxBits \subseteq 0 .. MaxBits
          BY Parameters
      <4> QED BY <4>1, <4>2
    <3> QED BY <3>1, <3>2 DEF Init
  <2>2. rule_seed \in Seed /\ rule_hashsz \in 0 .. MaxBits
      BY Parameters DEF Init
  <2>3. active = << >> /\ \A x \in Slots : rules[x] = Free
      BY DEF Init, Blank
  <2> QED BY <2>1, <2>2, <2>3 DEF EngineInv
<1>2. EngineInv /\ FileInv /\ MagicInv /\ [Next]_vars => EngineInv'
  <2> SUFFICES ASSUME EngineInv, FileInv, MagicInv, [Next]_vars
               PROVE  EngineInv'
      OBVIOUS
  <2>1. CASE ntfe_configure
      BY <2>1, TableStep
  <2>2. CASE UNCHANGED engine
    <3>1. file'.seed \in Seed /\ file'.hashsz \in 0 .. MaxBits
      <4>1. CASE Save
        <5>1. file'.seed = record_seed /\ file'.hashsz = record_bits
            BY <4>1 DEF Save
        <5>2. /\ record_seed \in Seed /\ record_bits \in 0 .. MaxBits + 1
              /\ record_bits <= MaxBits
            BY <4>1 DEF Save, MagicInv, MagicTypeOK
        <5> QED BY <5>1, <5>2, Parameters
      <4>2. CASE SaveNoRules
          BY <4>2, Parameters DEF SaveNoRules, NoFile
      <4>3. CASE file' = file
          BY <4>3 DEF EngineInv
      <4> QED BY <2>1, <4>1, <4>2, <4>3
          DEF Next, ConfigureFirewallEngine, ntfe_configure, Rejected, vars
    <3>2. \A i : ActiveSlot(i)' = ActiveSlot(i)
        BY <2>2 DEF engine, ActiveSlot, Slot
    <3> QED BY <2>2, <3>1, <3>2 DEF engine, EngineInv
  <2> QED BY <2>1, <2>2
      DEF Next, Save, SaveNoRules, ConfigureFirewallEngine, Rejected, vars,
          engine
<1> QED BY <1>1, <1>2, FileInductive, MagicInductive, PTL DEF Spec

(* A rule covers a frame exactly if the two have one signature.             *)
LEMMA CoversBySignature ==
    ASSUME NEW r, NEW f
    PROVE  Covers(r, f) <=> Signature(r) = Masked(ETHER_LE16_TO_FS(f.ether), f)
BY DEF Covers, Signature, Masked

(* rule_lookup of a frame's signature finds the rules that cover it.        *)
LEMMA LookupFindsActive ==
    ASSUME EngineInv, NEW f \in Frames
    PROVE  rule_lookup(Masked(ETHER_LE16_TO_FS(f.ether), f)) <=> Covered(active, f)
<1> DEFINE g == Masked(ETHER_LE16_TO_FS(f.ether), f)
           x == Slot(rule_seed, g, rule_hashsz)
<1>1. g # Free
  <2>1. g.ether >= 128 /\ g.ether \in Nat
      BY FrameAssumption, SignatureMarked DEF Masked
  <2> QED BY <2>1 DEF Free
<1>2. x \in Slots
    BY FrameAssumption, SlotExists DEF EngineInv
<1>3. \A i \in DOMAIN active : Signature(active[i]) = g => ActiveSlot(i) = x
    BY DEF ActiveSlot
<1>4. Covered(active, f) <=> \E i \in DOMAIN active : Signature(active[i]) = g
    BY CoversBySignature DEF Covered
<1>5. rule_lookup(g) <=> rules[x] = g
    BY DEF rule_lookup
<1> HIDE DEF g, x
<1>6. rules[x] = g <=> \E i \in DOMAIN active : Signature(active[i]) = g
    BY <1>1, <1>2, <1>3 DEF EngineInv
<1>7. rule_lookup(g) <=> Covered(active, f)
    BY <1>4, <1>5, <1>6
<1> QED BY <1>7 DEF g

(* Perfect hashing loses and invents no rule: for any hash function, any    *)
(* rules and any frames, ntfe_rx lets a stranger's well-formed frame on     *)
(* exactly if a rule the engine was last left with covers it.               *)
THEOREM RulesEnforced == Spec => []EnforcesActive
<1>1. EngineInv => EnforcesActive
  <2> SUFFICES ASSUME EngineInv, NEW f \in Frames,
                      f.ether # ETH_P_IP \/ ~Malformed(f)
               PROVE  ntfe_rx(f, FALSE) \in {"accept", "charge"}
                        <=> Covered(active, f)
      BY DEF EnforcesActive
  <2>1. CASE f.ether # ETH_P_IP
      BY <2>1, LookupFindsActive DEF ntfe_rx
  <2>2. CASE f.ether = ETH_P_IP /\ ~Malformed(f)
    <3>1. Signature(f) # NTFP
      <4>1. Signature(f).ether >= 128 /\ Signature(f).ether \in Nat
          BY FrameAssumption, SignatureMarked DEF Signature
      <4> QED BY <4>1 DEF NTFP
    <3> QED BY <2>2, <3>1, LookupFindsActive DEF ntfe_rx
  <2> QED BY <2>1, <2>2
<1> QED BY <1>1, EngineInductive, PTL

=============================================================================
