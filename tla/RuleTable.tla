----------------------------- MODULE RuleTable ------------------------------
(***************************************************************************)
(* The way of a rule: set up by the user, hashed by FindRuleMagic, saved to *)
(* the configuration file (src/ntfw/ntfw.cpp), loaded by the driver         *)
(* (src/ntfwkm/driver.cpp), validated and entered in the rule table by the  *)
(* engine (src/ntfe/ntfe.cpp), and looked up for every frame.               *)
(*                                                                          *)
(* The engine is configured while the data path is suspended, so loading is *)
(* one step; a lookup reads the table only, and is an operator.             *)
(***************************************************************************)
EXTENDS RuleMagic

CONSTANTS
    Frames,   \* frames on the wire
    OldFiles  \* what earlier sessions may have left on disk

VARIABLES
    file,     \* the configuration file
    rules,    \* gs.rules, the flow signatures by slot
    rule_seed, rule_hashsz,
    active,   \* history: the rules the engine was last left with
    failed    \* what ntfe_configure last returned was an error

engine == <<rules, rule_seed, rule_hashsz, active, failed>>
vars == <<list, quit_signal, record_bits, record_seed, gui, pc, seed, bits,
          raced, searches, file, rules, rule_seed, rule_hashsz, active, failed>>

MAX_RULES == 2^MaxBits
Slots == 0 .. MAX_RULES - 1

(* A zeroed signature marks a free slot. *)
Free == [ether |-> 0, proto |-> 0, dport |-> 0]
Blank == [x \in Slots |-> Free]

(* A file: what it holds behind its header, read as rules, how many of them *)
(* the header says are its own, and their hash.  Static hosts would follow  *)
(* them; the configuration program writes none.  (History: whether the      *)
(* search of the hash was raced, and the write stopped half-way.)           *)
Listed(f) == SubSeq(f.ect, 1, f.count)
NoFile == [ect |-> << >>, count |-> 0, seed |-> 0, hashsz |-> 0,
           hosts |-> FALSE, raced |-> FALSE, torn |-> FALSE]

(* Whatever may come to be read as a rule. *)
AnyRule ==
    UNION {{l[i] : i \in DOMAIN l} : l \in RuleLists \cup {f.ect : f \in OldFiles}}

(* An earlier session, or the author of a file with hosts, left the result  *)
(* of a search; what follows the rules in the file may be anything.         *)
ASSUME TableAssumption ==
    /\ \A f \in OldFiles :
         /\ f \in [ect : Seq([ether : Nat, proto : Nat, dport : Nat]), count : Nat,
                   seed : Seed, hashsz : 1 .. MaxBits, hosts : BOOLEAN,
                   raced : {FALSE}, torn : {FALSE}]
         /\ f.count <= Len(f.ect) /\ Perfect(Listed(f), f.seed, f.hashsz)
    /\ \A s \in Seed, r \in AnyRule : HashFn[s][Signature(r)] \in Nat

(* The driver is loaded: no rules are in force. *)
Init ==
    /\ MagicInit
    /\ file \in {NoFile} \cup OldFiles
    /\ rules = Blank /\ rule_seed = 0 /\ rule_hashsz = 0
    /\ active = << >> /\ failed = FALSE

-----------------------------------------------------------------------------
(* SaveNtfeConfiguration: the result of the search goes to disk, over the   *)
(* file there is, which is not cut.  The user may cancel, or the file not   *)
(* open: then nothing is saved.  If the write stops half-way, the header    *)
(* (less than a sector) and the first k rules stand before older ones.      *)
Save ==
    /\ gui = "found"
    /\ \E k \in 0 .. Len(list) :
         file' = [ect |-> SubSeq(list, 1, k) \o SubSeq(file.ect, k + 1, Len(file.ect)),
                  count |-> Len(list), seed |-> record_seed, hashsz |-> record_bits,
                  hosts |-> FALSE, raced |-> raced, torn |-> k < Len(list)]
    /\ gui' = "idle"
    /\ UNCHANGED <<list, quit_signal, record, pc, trial, raced, searches, engine>>

(* A user without rules saves a header alone, without a search. *)
SaveNoRules ==
    /\ gui \in {"idle", "found", "not_found"}
    /\ file' = [NoFile EXCEPT !.ect = file.ect]
    /\ UNCHANGED <<mvars, engine>>

(* rule_insert, as a test: the slot of every rule is free. *)
Insertable(t, f) ==
    \A i \in 1 .. f.count :
        t[Slot(f.seed, Signature(f.ect[i]), f.hashsz)] = Free

(* ntfe_validate_configuration: the file is as long as its header says, and *)
(* the rules fit in the table in force, against which they are tested.  (A  *)
(* table size of 31 makes the test's shift negative, and passes; from 32 on *)
(* the shift is undefined.  No file here has such a size: TableAssumption.) *)
ntfe_validate_configuration(f) ==
    /\ f.count <= Len(f.ect)
    /\ f.count <= MAX_RULES /\ f.hashsz \notin {0} \cup MaxBits + 1 .. 30
    /\ Insertable(rules, f)

(* rule_insert, in earnest: the first k rules are entered, and the next one *)
(* finds its slot taken.                                                    *)
Enters(f, k) ==
    /\ Perfect(SubSeq(f.ect, 1, k), f.seed, f.hashsz)
    /\ k < f.count => ~Perfect(SubSeq(f.ect, 1, k + 1), f.seed, f.hashsz)
Table(f, k) ==
    [x \in Slots |->
        IF \E i \in 1 .. k : Slot(f.seed, Signature(f.ect[i]), f.hashsz) = x
        THEN Signature(f.ect[CHOOSE i \in 1 .. k :
                 Slot(f.seed, Signature(f.ect[i]), f.hashsz) = x])
        ELSE Free]

(* The first k rules are in force.  It is an error if that is not all of    *)
(* them, or if a static host, which comes after them, finds no entry.       *)
EnterRules(k) ==
    /\ Enters(file, k)
    /\ rules' = Table(file, k)
    /\ active' = SubSeq(file.ect, 1, k)
    /\ failed' \in {k < file.count, k < file.count \/ file.hosts}

(* Fault: the hash parameters of the previous table stay in force.          *)
ConfigureOldHash ==
    /\ ntfe_validate_configuration(file)
    /\ \E k \in 0 .. file.count : EnterRules(k)
    /\ UNCHANGED <<mvars, file, rule_seed, rule_hashsz>>

(* ntfe_configure, called by ConfigureFirewallEngine after the validation.  *)
(* On an error it leaves what has been entered.                             *)
ntfe_configure ==
    /\ ntfe_validate_configuration(file)
    /\ \E k \in 0 .. file.count : EnterRules(k)
    /\ rule_seed' = file.seed /\ rule_hashsz' = file.hashsz
    /\ UNCHANGED <<mvars, file>>

(* The file cannot be read, or is not valid: the engine keeps its rules. *)
Rejected == UNCHANGED vars

ConfigureFirewallEngine == ntfe_configure \/ Rejected

-----------------------------------------------------------------------------
Next ==
    \/ MagicNext /\ UNCHANGED <<file, engine>>
    \/ Save \/ SaveNoRules
    \/ ConfigureFirewallEngine

Spec == Init /\ [][Next]_vars
FairSpec == Spec /\ Scheduled

-----------------------------------------------------------------------------
(* The data path.  A frame is a record of the header fields it is judged    *)
(* by, its ethertype and port as in a rule.                                 *)
ETH_P_IP == 2048
Ported == {6, 17, 136}    \* TCP, UDP, LDP: a destination port follows
NTFP == [ether |-> 0, proto |-> 17, dport |-> 5662]

rule_lookup(g) == rules[Slot(rule_seed, g, rule_hashsz)] = g

Malformed(f) ==
    ~f.ihl_min \/ ~f.saddr \/ f.frag \/ (f.proto \in Ported /\ f.dport = 0)

(* The signature under the mask of the frame's kind. *)
Masked(ether, f) ==
    [ether |-> ether,
     proto |-> IF f.ether = ETH_P_IP THEN f.proto ELSE 0,
     dport |-> IF f.ether = ETH_P_IP /\ f.proto \in Ported THEN f.dport ELSE 0]

(* The hash function is total on whatever the frames encode to. *)
ASSUME FrameAssumption ==
    \A f \in Frames :
        /\ f.ether \in Nat
        /\ \A s \in Seed :
             HashFn[s][Masked(ETHER_LE16_TO_FS(f.ether), f)] \in Nat

(* ntfe_rx: what becomes of a frame from a host that is authorised, or not. *)
ntfe_rx(f, authorised) ==
    CASE f.ether # ETH_P_IP ->
           IF rule_lookup(Masked(ETHER_LE16_TO_FS(f.ether), f))
           THEN "accept" ELSE "drop"
      [] f.ether = ETH_P_IP /\ Malformed(f) -> "drop"
      [] f.ether = ETH_P_IP /\ ~Malformed(f) ->
           IF authorised THEN "accept"
           ELSE IF Signature(f) = NTFP THEN "authenticate"
           ELSE IF rule_lookup(Masked(ETHER_LE16_TO_FS(f.ether), f))
           THEN "charge" ELSE "drop"

-----------------------------------------------------------------------------
(* Types; the table size in force is one the table has room for.            *)
TypeOK ==
    /\ MagicTypeOK
    /\ file \in [ect : Seq(AnyRule), count : Nat, seed : Seed, hashsz : 0 .. MaxBits,
                hosts : BOOLEAN, raced : BOOLEAN, torn : BOOLEAN]
    /\ rules \in [Slots -> {Free} \cup {Signature(r) : r \in AnyRule}]
    /\ rule_seed \in Seed /\ rule_hashsz \in 0 .. MaxBits
    /\ active \in Seq(AnyRule) /\ failed \in BOOLEAN

(* A rule covers a frame if it agrees in what the frame is judged by.  A    *)
(* rule that has a port for a protocol without (the editor takes one, for   *)
(* ICMP) covers nothing.                                                    *)
Covers(r, f) ==
    /\ ETHER_LE16_TO_FS(r.ether) = ETHER_LE16_TO_FS(f.ether)
    /\ IF f.ether = ETH_P_IP
       THEN r.proto = f.proto /\ r.dport = IF f.proto \in Ported THEN f.dport ELSE 0
       ELSE r.proto = 0 /\ r.dport = 0
Covered(l, f) == \E i \in DOMAIN l : Covers(l[i], f)

(* Through every sequence of searches, saves and restarts, accepted or not, *)
(* ntfe_rx lets a stranger's well-formed frame on exactly if a rule the     *)
(* engine was last left with covers it: perfect hashing loses and invents   *)
(* none.                                                                    *)
EnforcesActive ==
    \A f \in Frames :
        f.ether # ETH_P_IP \/ ~Malformed(f) =>
            (ntfe_rx(f, FALSE) \in {"accept", "charge"} <=> Covered(active, f))

(* ntfe_configure fails (ntfe.cpp:507, 527), with the old rules gone, only  *)
(* on a file whose search was raced or whose write stopped half-way over a  *)
(* longer one; or on a static host, and then all rules are in force.        *)
FailsOnlySpoiled ==
    [][ntfe_configure /\ failed' =>
          file.raced \/ file.torn \/ (file.hosts /\ active' = Listed(file))]_vars

(* What makes it so: a file neither raced nor torn holds a perfect seed for *)
(* its rules.                                                               *)
FileInv ==
    /\ file.ect \in Seq(AnyRule) /\ file.count \in Nat
    /\ ~file.raced /\ ~file.torn =>
         /\ file.count <= Len(file.ect)
         /\ Perfect(Listed(file), file.seed, file.hashsz)

(* What makes EnforcesActive inductive: the hash in force, whatever became  *)
(* of the file since, has no two active rules meet, and the table holds     *)
(* each of them at its slot and nothing else.                               *)
ActiveSlot(i) == Slot(rule_seed, Signature(active[i]), rule_hashsz)
EngineInv ==
    /\ file.seed \in Seed /\ file.hashsz \in 0 .. MaxBits
    /\ rule_seed \in Seed /\ rule_hashsz \in 0 .. MaxBits
    /\ active \in Seq(AnyRule)
    /\ \A i \in DOMAIN active : rules[ActiveSlot(i)] = Signature(active[i])
    /\ \A x \in Slots :
         \/ rules[x] = Free
         \/ \E i \in DOMAIN active : rules[x] = Signature(active[i])

-----------------------------------------------------------------------------
(* ntfe.cpp:454 "Verify there's no rule table collisions": a file that has  *)
(* its rules, none of which collide, is valid.                              *)
CollisionFreeValid ==
    /\ file.hashsz > 0 /\ file.count <= Len(file.ect)
    /\ Perfect(Listed(file), file.seed, file.hashsz)
    => ntfe_validate_configuration(file)

=============================================================================
