----------------------------- MODULE RuleEditor -----------------------------
(***************************************************************************)
(* The rule editor of the configuration program (src/ntfw/dlgrules.cpp),   *)
(* with the file it loads and saves (src/ntfw/ntfw.cpp).                   *)
(*                                                                         *)
(* The program keeps MAX_RULES rows and shows a page of them in controls;  *)
(* what is typed stays in the controls until the page is scrolled or the   *)
(* rules are saved.  The text of a protocol is a name or a sequence of     *)
(* hexadecimal digits; the numbers of a row stand for one cost and one     *)
(* meter each.                                                             *)
(***************************************************************************)
EXTENDS Integers, Sequences, Functions, FiniteSetsExt

CONSTANTS
    MAX_RULES, RULE_PAGE_SZ,
    str_to_l4, str_to_l3,  \* the numbers of the protocols, by name
    Folded,                \* the names in small letters
    Typed,                 \* what the user may type in a row
    Foreign,               \* files of another origin
    HeaderSize, RuleSize,  \* sizeof(ntfe_config), sizeof(ntfe_rule)
    MAX_NTFE_CFG_SZ,
    MaxEdits               \* bound: rows typed

VARIABLES
    Rules,    \* the rows kept
    page,     \* the rows shown, as they are in the controls
    pos,      \* the scroll bar: how many rows are above the page
    file,
    open,     \* the program runs
    overrun,  \* it wrote past the end of Rules
    edits     \* rows typed

vars == <<Rules, page, pos, file, open, overrun, edits>>

Row == 1 .. MAX_RULES
ETH_P_IP == 2048
NoName == ""
Empty == [Proto |-> [name |-> NoName, digits |-> << >>], Port |-> 0, Cost |-> 0, Meter |-> 0]
Unused == [ether |-> 0, proto |-> 0, dport |-> 0, scale |-> 0, tb |-> 0]

u16 == {n \in Nat : n < 65536}
u8 == {n \in Nat : n < 256}
Rule == [ether : u16, proto : u8, dport : u16, scale : u16, tb : u8]
Text == [name : DOMAIN Folded, digits : Seq(0 .. 15)]

(* Every row fits in the largest file there is.  A file of another origin   *)
(* may be of any size.                                                      *)
ASSUME EditorAssumption ==
    /\ MAX_RULES \in Nat /\ RULE_PAGE_SZ \in 1 .. MAX_RULES
    /\ HeaderSize \in Nat /\ RuleSize \in Nat /\ MAX_NTFE_CFG_SZ \in Nat
    /\ HeaderSize + MAX_RULES * RuleSize <= MAX_NTFE_CFG_SZ
    /\ Typed \subseteq [Proto : Text, Port : Nat, Cost : Nat, Meter : Nat]
    /\ Foreign \subseteq [size : Nat, length : Nat, rule_count : Nat,
                          ect : Seq(Rule), own : {FALSE}]

(* The tables have no name in common.  Small letters stay what they are.    *)
ASSUME NamesAssumption ==
    /\ str_to_l4 \in [DOMAIN str_to_l4 -> u8]
    /\ str_to_l3 \in [DOMAIN str_to_l3 -> u16]
    /\ DOMAIN str_to_l4 \cap DOMAIN str_to_l3 = {}
    /\ Folded \in [DOMAIN Folded -> DOMAIN Folded]
    /\ NoName \in DOMAIN Folded \ (DOMAIN str_to_l4 \cup DOMAIN str_to_l3)
    /\ \A n \in DOMAIN Folded :
         Folded[Folded[n]] = Folded[n] /\ (Folded[n] = NoName <=> n = NoName)
    /\ \A n \in DOMAIN str_to_l4 \cup DOMAIN str_to_l3 :
         n \in DOMAIN Folded /\ Folded[n] = n

-----------------------------------------------------------------------------
(* A control, as it is stored: the numbers in 16 bits, the meter in 2. *)
Cut16(n) == n % 65536
Cut2(n) == n % 4
Stored(c) == [Proto |-> c.Proto, Port |-> Cut16(c.Port), Cost |-> Cut16(c.Cost),
              Meter |-> Cut2(c.Meter)]

(* Hexadecimal digits; the fifth from the right is shifted out of 16 bits.  *)
Value(d) ==
    LET Digit(k) == IF k <= Len(d) THEN d[Len(d) + 1 - k] ELSE 0
    IN  Digit(1) + 16 * Digit(2) + 256 * Digit(3) + 4096 * Digit(4)
Digits(n) ==
    LET d1 == n % 16
        d2 == (n \div 16) % 16
        d3 == (n \div 256) % 16
    IN  CASE n < 16 -> <<d1>>
          [] n >= 16 /\ n < 256 -> <<d2, d1>>
          [] n >= 256 /\ n < 4096 -> <<d3, d2, d1>>
          [] n >= 4096 -> <<n \div 4096, d3, d2, d1>>

Named(n) == [name |-> n, digits |-> << >>]
Hex(n) == [name |-> NoName, digits |-> Digits(n)]

(* The protocol a text means.  A number of one or two digits is one of IP. *)
IsName(t) == Folded[t.name] \in DOMAIN str_to_l4 \cup DOMAIN str_to_l3
Malformed(t) == ~IsName(t) /\ (t.name # NoName \/ Len(t.digits) > 5)
Protocol(t) ==
    LET n == Folded[t.name]
        v == Value(t.digits)
    IN  CASE n \in DOMAIN str_to_l4 -> <<ETH_P_IP, str_to_l4[n]>>
          [] n \in DOMAIN str_to_l3 -> <<str_to_l3[n], 0>>
          [] OTHER -> IF v < 256 THEN <<ETH_P_IP, v>> ELSE <<v, 0>>

(* A row as a rule; only protocols of IP that have a name keep their port. *)
Compiled(r) ==
    [ether |-> Protocol(r.Proto)[1], proto |-> Protocol(r.Proto)[2],
     dport |-> IF Folded[r.Proto.name] \in DOMAIN str_to_l4 THEN r.Port ELSE 0,
     scale |-> r.Cost, tb |-> r.Meter]

(* A rule as a row. *)
Shown(e) ==
    LET table == IF e.ether = ETH_P_IP THEN str_to_l4 ELSE str_to_l3
        number == IF e.ether = ETH_P_IP THEN e.proto ELSE e.ether
        names == {n \in DOMAIN table : table[n] = number}
    IN  [Proto |-> IF names # {} THEN Named(CHOOSE n \in names : TRUE) ELSE Hex(number),
         Port |-> e.dport, Cost |-> e.scale, Meter |-> Cut2(e.tb)]

-----------------------------------------------------------------------------
(* Synchronize: the controls of the page are stored in the rows under them, *)
(* or filled from them.                                                     *)
OnPage(i) == i - pos \in 1 .. RULE_PAGE_SZ
SynchronizeDown(rs) == [i \in Row |-> IF OnPage(i) THEN Stored(page[i - pos]) ELSE rs[i]]
SynchronizeUp(rs, p) == [k \in 1 .. RULE_PAGE_SZ |-> rs[p + k]]

(* The rules of a file; what it does not hold was zeroed before reading. *)
Contents(f) ==
    [i \in 1 .. f.rule_count |-> IF i \in DOMAIN f.ect THEN f.ect[i] ELSE Unused]

Uploaded(f) ==
    [i \in Row |-> IF i <= f.rule_count THEN Shown(Contents(f)[i]) ELSE Empty]

(* RulesDownload: up to the first malformed row, the rows that are not      *)
(* empty become rules, and their text is turned to small letters.           *)
Read(rs) ==
    {i \in Row : \A j \in Row : Malformed(rs[j].Proto) => i < j}
Used(rs) == {i \in Read(rs) : rs[i].Proto # Empty.Proto}
Nth(S, k) == CHOOSE i \in S : Cardinality({j \in S : j <= i}) = k
RulesDownload(rs) ==
    [k \in 1 .. Cardinality(Used(rs)) |-> Compiled(rs[Nth(Used(rs), k)])]
Lowered(rs) ==
    [i \in Row |-> IF \A j \in 1 .. i - 1 : j \in Read(rs)
                   THEN [rs[i] EXCEPT !.Proto.name = Folded[@]] ELSE rs[i]]
-----------------------------------------------------------------------------
(* The program has not been started yet. *)
NoFile == [size |-> 0, length |-> 0, rule_count |-> 0, ect |-> << >>, own |-> FALSE]

Init ==
    /\ Rules = [i \in Row |-> Empty]
    /\ page = [k \in 1 .. RULE_PAGE_SZ |-> Empty] /\ pos = 0
    /\ file \in Foreign \cup {NoFile}
    /\ open = FALSE /\ overrun = FALSE /\ edits = 0

(* LoadNtfeConfiguration and RulesUpload, at the start of the program.  A   *)
(* file that cannot be read leaves the rows empty.  One with more rules     *)
(* than there are rows overruns them: what the program does then is         *)
(* undefined, and it is not followed any further.                           *)
Load ==
    /\ ~open
    /\ \/ /\ ~overrun
          /\ \/ file.rule_count <= MAX_RULES /\ Rules' = Uploaded(file)
             \/ Rules' = [i \in Row |-> Empty]
          /\ page' = SynchronizeUp(Rules', 0) /\ pos' = 0
          /\ open' = TRUE /\ UNCHANGED overrun
       \/ /\ file.rule_count > MAX_RULES
          /\ overrun' = TRUE /\ UNCHANGED <<Rules, page, pos, open>>
    /\ UNCHANGED <<file, edits>>

(* The user types in the controls of a row. *)
Type ==
    /\ open /\ edits < MaxEdits
    /\ \E k \in 1 .. RULE_PAGE_SZ, c \in Typed : page' = [page EXCEPT ![k] = c]
    /\ edits' = edits + 1
    /\ UNCHANGED <<Rules, pos, file, open, overrun>>

(* Fault: the page is not stored before it is left. *)
ScrollForgets(p) ==
    /\ open
    /\ pos' = Min({Max({p, 0}), MAX_RULES - RULE_PAGE_SZ})
    /\ page' = SynchronizeUp(Rules, pos')
    /\ UNCHANGED <<Rules, file, open, overrun, edits>>

(* Scroll: a line, a page, a turn of the wheel, or the thumb. *)
Scroll(p) ==
    /\ open
    /\ pos' = Min({Max({p, 0}), MAX_RULES - RULE_PAGE_SZ})
    /\ Rules' = SynchronizeDown(Rules) /\ page' = SynchronizeUp(Rules', pos')
    /\ UNCHANGED <<file, open, overrun, edits>>

(* Faults: the length counts no rules; the rules left behind are counted.   *)
WrittenShort(l, k) ==
    LET length == HeaderSize
        ect == SubSeq(l, 1, k) \o SubSeq(file.ect, k + 1, Len(file.ect))
    IN  [size |-> Max({file.size, HeaderSize + k * RuleSize}), length |-> length,
         rule_count |-> Len(l), ect |-> ect, own |-> k = Len(l)]
WrittenAll(l, k) ==
    LET length == HeaderSize + Len(l) * RuleSize
        ect == SubSeq(l, 1, k) \o SubSeq(file.ect, k + 1, Len(file.ect))
    IN  [size |-> Max({file.size, HeaderSize + k * RuleSize}), length |-> length,
         rule_count |-> Len(ect), ect |-> ect, own |-> k = Len(l)]

(* The file after its header and k of the rules l were written over it: it  *)
(* is not cut, so that what it held beyond them stays.                      *)
Written(l, k) ==
    LET length == HeaderSize + Len(l) * RuleSize
        ect == SubSeq(l, 1, k) \o SubSeq(file.ect, k + 1, Len(file.ect))
    IN  [size |-> Max({file.size, HeaderSize + k * RuleSize}), length |-> length,
         rule_count |-> Len(l), ect |-> ect, own |-> k = Len(l)]

(* SaveNtfeConfiguration.  It does not ask whether RulesDownload read all   *)
(* rows.  It may end without a file: the user declines to save without      *)
(* rules or without ARP, no seed is found (as when a rule is there twice),  *)
(* or the file cannot be opened; or the disk takes a part of it only.       *)
Save ==
    LET l == RulesDownload(SynchronizeDown(Rules))
        Seeded == IsInjective([k \in DOMAIN l |-> <<l[k].ether, l[k].proto, l[k].dport>>])
    IN  /\ open
        /\ Rules' = Lowered(SynchronizeDown(Rules))
        /\ \/ UNCHANGED file
           \/ Seeded /\ \E k \in 0 .. Len(l) : file' = Written(l, k)
        /\ UNCHANGED <<page, pos, open, overrun, edits>>

(* IDCANCEL. *)
Quit == open /\ open' = FALSE /\ UNCHANGED <<Rules, page, pos, file, overrun, edits>>

Next ==
    \/ Load \/ Type \/ Save \/ Quit
    \/ \E p \in -RULE_PAGE_SZ .. MAX_RULES : Scroll(p)

Spec == Init /\ [][Next]_vars

-----------------------------------------------------------------------------
(* The sheet the user has in mind: what is on the page, as it is stored,    *)
(* and the rows above and below it; a row is the rule it says.              *)
NoRow == [row |-> "empty"]
BadRow == [row |-> "malformed"]
Meaning(r) ==
    CASE r.Proto = Empty.Proto -> NoRow
      [] r.Proto # Empty.Proto /\ Malformed(r.Proto) -> BadRow
      [] OTHER -> Compiled(r)
Sheet ==
    LET rs == SynchronizeDown(Rules) IN [i \in Row |-> Meaning(rs[i])]

Promise == INSTANCE RuleSheet WITH
    MaxRules <- MAX_RULES, sheet <- Sheet, stored <- Contents(file), intact <- file.own

(* Through every sequence of typing, scrolling, saving and starting again   *)
(* the program is a sheet of rows: Scroll (dlgrules.cpp:127) loses and      *)
(* displaces none, RulesDownload writes them in order down to the first     *)
(* malformed one, and RulesUpload shows the same rules again, whichever     *)
(* form their protocol was typed in.                                        *)
ImplementsSheet == Promise!Spec

(* What SaveNtfeConfiguration wrote in full over any older file passes the  *)
(* driver's tests of sizes (ntfe.cpp:418-430, driver.cpp:758), although the *)
(* file is not cut and keeps the older one's size: unless that one was too  *)
(* large already, and then no saving will ever mend it.  If the write       *)
(* stopped half-way over a file that was shorter, it does not pass.         *)
Consistent(f) ==
    /\ HeaderSize <= f.size /\ f.length <= f.size
    /\ f.length >= HeaderSize + f.rule_count * RuleSize
SavedFits ==
    file.own =>
        /\ Consistent(file)
        /\ file.size <= MAX_NTFE_CFG_SZ \/ \E f \in Foreign : f.size = file.size

(* A program that overruns its rows (dlgrules.cpp:157) was given a file of  *)
(* another origin: no file it wrote, over whatever file, has more rules     *)
(* than it has rows.                                                        *)
OverrunOnlyForeign == overrun => ~file.own /\ file \in Foreign

-----------------------------------------------------------------------------
(* Types: a row kept has numbers that fit, one in the controls any.         *)
StoredRow == [Proto : Text, Port : u16, Cost : u16, Meter : 0 .. 3]
TypeOK ==
    /\ Rules \in [Row -> StoredRow] /\ pos \in 0 .. MAX_RULES - RULE_PAGE_SZ
    /\ page \in [1 .. RULE_PAGE_SZ -> [Proto : Text, Port : Nat, Cost : Nat, Meter : Nat]]
    /\ file \in [size : Nat, length : Nat, rule_count : Nat, ect : Seq(Rule), own : BOOLEAN]
    /\ open \in BOOLEAN /\ overrun \in BOOLEAN

(* What makes the three properties inductive: a file that was not written   *)
(* here is as it came, one that was has no more rules than there are rows,  *)
(* and each of them reads as a row that says the same.                      *)
Readable(e) == Meaning(Stored(Shown(e))) = e
FileInv ==
    /\ file.rule_count <= MAX_RULES \/ file \in Foreign
    /\ file.size <= MAX_NTFE_CFG_SZ \/ \E f \in Foreign : f.size = file.size
    /\ file.own =>
         /\ Consistent(file) /\ file.rule_count <= MAX_RULES
         /\ \A i \in 1 .. file.rule_count :
              i \in DOMAIN file.ect /\ Readable(file.ect[i])
EditorInv ==
    /\ TypeOK /\ FileInv
    /\ overrun => ~open /\ file.rule_count > MAX_RULES

=============================================================================
