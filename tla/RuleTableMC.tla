---------------------------- MODULE RuleTableMC -----------------------------
(***************************************************************************)
(* Model checking of RuleTable: four rules, hashed by two seeds (one that   *)
(* needs a large table, one that a small one will do for), and frames on    *)
(* both sides of every test of the receive path.                            *)
(***************************************************************************)
EXTENDS RuleTable

Rule(e, p, d) == [ether |-> e, proto |-> p, dport |-> d]
arp == Rule(2054, 0, 0)
http == Rule(2048, 6, 80)
https == Rule(2048, 6, 443)
icmp == Rule(2048, 1, 0)
ping == Rule(2048, 1, 80)

MCRuleLists == {<<arp>>, <<arp, ping>>, <<http, https, icmp>>, <<icmp, icmp>>}

(* A value per rule; every other signature falls in with one of the rules.  *)
Hashes(s, g) ==
    LET i == CASE g = Signature(arp) -> 1 [] g = Signature(http) -> 2
               [] g = Signature(https) -> 3 [] OTHER -> 4
    IN  CASE s = 0 -> <<1, 4, 2, 6>>[i]
          [] s = 1 -> <<0, 1, 2, 3>>[i]

(* A file of an earlier session, longer than some that may be written over  *)
(* it, and one with a static host, whose bytes would read as rules.         *)
Old(ect, count, hosts) ==
    [ect |-> ect, count |-> count, seed |-> 1, hashsz |-> 2, hosts |-> hosts,
     raced |-> FALSE, torn |-> FALSE]
MCOldFiles ==
    {Old(<<arp, ping, http>>, 3, FALSE), Old(<<arp, arp, icmp>>, 1, TRUE)}

Signatures ==
    [ether : {0, 128, 140}, proto : {0, 1, 6, 17}, dport : {0, 80, 443, 5662}]
MCHashFn == [s \in Seed |-> [g \in Signatures |-> Hashes(s, g)]]

(* 2182 (0x0886) shares the code of ARP, 16384 (0x4000) that of IP.          *)
Ethernet(e, p, d) ==
    [ether |-> e, ihl_min |-> TRUE, saddr |-> TRUE, frag |-> FALSE,
     proto |-> p, dport |-> d]
MCFrames ==
    {Ethernet(e, p, d) :
        e \in {2048, 2054, 2182, 16384}, p \in {1, 6}, d \in {0, 80}}
      \cup {Ethernet(2048, 6, 443), Ethernet(2048, 17, 5662)}
      \cup [ether : {2048}, ihl_min : BOOLEAN, saddr : BOOLEAN,
            frag : BOOLEAN, proto : {6}, dport : {80}]
=============================================================================
