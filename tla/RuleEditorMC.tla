---------------------------- MODULE RuleEditorMC ----------------------------
(***************************************************************************)
(* Model checking of RuleEditor: four rows, two of them on the page.  The   *)
(* rows typed have a protocol by each kind of text (a name of IP's, also    *)
(* in capitals, a name of Ethernet's, a number of Ethernet's, one that      *)
(* wraps to one of IP's, no text, and none that can be read) and numbers    *)
(* that do not fit.                                                         *)
(***************************************************************************)
EXTENDS RuleEditor

MCstr_to_l4 == [n \in {"tcp", "udp"} |-> IF n = "tcp" THEN 6 ELSE 17]
MCstr_to_l3 == [n \in {"ip", "arp"} |-> IF n = "ip" THEN 2048 ELSE 2054]
MCFolded ==
    [n \in {"", "TCP", "tcp", "udp", "ip", "arp", ">> l4"} |->
        IF n = "TCP" THEN "tcp" ELSE n]

MCRow(name, digits, port, meter) ==
    [Proto |-> [name |-> name, digits |-> digits], Port |-> port, Cost |-> 1, Meter |-> meter]
MCTyped ==
    {MCRow("TCP", << >>, 80, 1), MCRow("tcp", << >>, 65616, 5),
     MCRow("arp", << >>, 80, 2), MCRow("ip", << >>, 0, 1),
     MCRow("", <<1, 0, 0, 1, 1>>, 80, 4),
     MCRow("", <<8, 8, 12, 12>>, 0, 1), MCRow("", << >>, 80, 0),
     MCRow(">> l4", << >>, 0, 0)}

MCRule(e, p, d) == [ether |-> e, proto |-> p, dport |-> d, scale |-> 1, tb |-> 1]

(* A file of two rules and as much else; one with more rules than rows,     *)
(* and larger than the driver reads.                                        *)
MCForeign ==
    LET rules == <<MCRule(2048, 17, 53), MCRule(2054, 0, 0), MCRule(66, 0, 0),
                   MCRule(2048, 99, 7), MCRule(34525, 0, 0)>>
    IN  {[size |-> IF n = 5 THEN 20000 ELSE 300, length |-> 230, rule_count |-> n,
          ect |-> rules, own |-> FALSE] : n \in {2, 5}}
=============================================================================
