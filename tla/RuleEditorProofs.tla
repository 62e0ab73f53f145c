-------------------------- MODULE RuleEditorProofs --------------------------
(***************************************************************************)
(* Proofs about RuleEditor, for any number of rows, any page, any tables of *)
(* names and any files of another origin.                                   *)
(***************************************************************************)
EXTENDS RuleEditor, FiniteSetTheorems, TLAPS

Control == [Proto : Text, Port : Nat, Cost : Nat, Meter : Nat]

(* A number fits in the field it is stored in.                              *)
LEMMA Remainders ==
    ASSUME NEW n \in Nat
    PROVE  /\ Cut16(n) \in u16 /\ Cut2(n) \in 0 .. 3
           /\ n \in u16 => Cut16(n) = n
           /\ n \in 0 .. 3 => Cut2(n) = n
<1>1. ASSUME NEW m \in Nat \ {0}
      PROVE  n % m \in Nat /\ n % m < m /\ (n < m => n % m = n)
    BY Z3
<1>2. n % 65536 \in Nat /\ n % 65536 < 65536 /\ (n < 65536 => n % 65536 = n)
    BY <1>1
<1>3. n % 4 \in Nat /\ n % 4 < 4 /\ (n < 4 => n % 4 = n)
    BY <1>1
<1> QED BY <1>2, <1>3 DEF u16, Cut16, Cut2

(* Synchronize: what is stored of a control fits, and is stored again as it *)
(* is.                                                                      *)
LEMMA StoredFits ==
    ASSUME NEW c \in Control
    PROVE  /\ Stored(c) \in StoredRow /\ Stored(c).Proto = c.Proto
           /\ c \in StoredRow => Stored(c) = c
<1>1. /\ c.Proto \in Text /\ c.Port \in Nat /\ c.Cost \in Nat /\ c.Meter \in Nat
      /\ c = [Proto |-> c.Proto, Port |-> c.Port, Cost |-> c.Cost, Meter |-> c.Meter]
    BY DEF Control
<1>2. Stored(c) = [Proto |-> c.Proto, Port |-> Cut16(c.Port),
                   Cost |-> Cut16(c.Cost), Meter |-> Cut2(c.Meter)]
    BY DEF Stored
<1>3. /\ Cut16(c.Port) \in u16 /\ (c.Port \in u16 => Cut16(c.Port) = c.Port)
      /\ Cut16(c.Cost) \in u16 /\ (c.Cost \in u16 => Cut16(c.Cost) = c.Cost)
      /\ Cut2(c.Meter) \in 0 .. 3
      /\ c.Meter \in 0 .. 3 => Cut2(c.Meter) = c.Meter
    BY <1>1, Remainders
<1>5. Stored(c) \in StoredRow /\ Stored(c).Proto = c.Proto
    BY <1>1, <1>2, <1>3 DEF StoredRow
<1>6. ASSUME c \in StoredRow PROVE Stored(c) = c
  <2>1. c.Port \in u16 /\ c.Cost \in u16 /\ c.Meter \in 0 .. 3
      BY <1>6 DEF StoredRow
  <2> QED BY <1>1, <1>2, <1>3, <2>1
<1> QED BY <1>5, <1>6

(* A row that is kept can be put in a control.                              *)
LEMMA RowsShow == StoredRow \subseteq Control
<1> SUFFICES ASSUME NEW c \in StoredRow PROVE c \in Control
    OBVIOUS
<1>1. /\ c = [Proto |-> c.Proto, Port |-> c.Port, Cost |-> c.Cost, Meter |-> c.Meter]
      /\ c.Proto \in Text /\ c.Port \in u16 /\ c.Cost \in u16 /\ c.Meter \in 0 .. 3
    BY DEF StoredRow
<1>2. c.Port \in Nat /\ c.Cost \in Nat /\ c.Meter \in Nat
    BY <1>1 DEF u16
<1> QED BY <1>1, <1>2 DEF Control

(* sscanf of what the user typed, in 16 bits.                               *)
LEMMA ValueFits ==
    ASSUME NEW d \in Seq(0 .. 15)
    PROVE  Value(d) \in u16
<1> DEFINE Digit(k) == IF k <= Len(d) THEN d[Len(d) + 1 - k] ELSE 0
<1>1. \A k \in 1 .. 4 : Digit(k) \in 0 .. 15
  <2> SUFFICES ASSUME NEW k \in 1 .. 4, k <= Len(d)
               PROVE  d[Len(d) + 1 - k] \in 0 .. 15
      OBVIOUS
  <2>1. Len(d) + 1 - k \in 1 .. Len(d)
      OBVIOUS
  <2> QED BY <2>1
<1>2. /\ Digit(1) \in 0 .. 15 /\ Digit(2) \in 0 .. 15
      /\ Digit(3) \in 0 .. 15 /\ Digit(4) \in 0 .. 15
    BY <1>1
<1>3. Value(d) = Digit(1) + 16 * Digit(2) + 256 * Digit(3) + 4096 * Digit(4)
    BY DEF Value
<1> DEFINE d1 == Digit(1)
           d2 == Digit(2)
           d3 == Digit(3)
           d4 == Digit(4)
<1>4. /\ d1 \in 0 .. 15 /\ d2 \in 0 .. 15 /\ d3 \in 0 .. 15 /\ d4 \in 0 .. 15
      /\ Value(d) = d1 + 16 * d2 + 256 * d3 + 4096 * d4
    BY <1>2, <1>3
<1> HIDE DEF Digit, d1, d2, d3, d4
<1> QED BY <1>4, SMT DEF u16

(* A number by its digits; a text that is read (sscanf) as the number v, and *)
(* has one to four of them.                                                 *)
Number(a, b, c, d) == d + 16 * c + 256 * b + 4096 * a
Reads(t, v) == t \in Seq(0 .. 15) /\ Len(t) \in 1 .. 4 /\ Value(t) = v

LEMMA OneDigit ==
    ASSUME NEW d \in 0 .. 15
    PROVE  Reads(<<d>>, d)
<1>1. <<d>> \in Seq(0 .. 15) /\ Len(<<d>>) = 1
    BY SMT
<1>2. Value(<<d>>) = d
    BY SMT DEF Value
<1> QED BY <1>1, <1>2, SMT DEF Reads

(* Two digits are read as the number they are.                             *)
LEMMA TwoDigits ==
    ASSUME NEW c \in 0 .. 15, NEW d \in 0 .. 15
    PROVE  Reads(<<c, d>>, d + 16 * c)
<1>1. <<c, d>> \in Seq(0 .. 15) /\ Len(<<c, d>>) = 2
    BY SMT
<1>2. Value(<<c, d>>) = d + 16 * c
    BY SMT DEF Value
<1> QED BY <1>1, <1>2, SMT DEF Reads

(* Three digits are read as the number they are.                           *)
LEMMA ThreeDigits ==
    ASSUME NEW b \in 0 .. 15, NEW c \in 0 .. 15, NEW d \in 0 .. 15
    PROVE  Reads(<<b, c, d>>, d + 16 * c + 256 * b)
<1>1. <<b, c, d>> \in Seq(0 .. 15) /\ Len(<<b, c, d>>) = 3
    BY SMT
<1>2. Value(<<b, c, d>>) = d + 16 * c + 256 * b
    BY SMT DEF Value
<1> QED BY <1>1, <1>2, SMT DEF Reads

(* Four digits are read as the number they are.                            *)
LEMMA FourDigits ==
    ASSUME NEW a \in 0 .. 15, NEW b \in 0 .. 15, NEW c \in 0 .. 15, NEW d \in 0 .. 15
    PROVE  Reads(<<a, b, c, d>>, Number(a, b, c, d))
<1>1. <<a, b, c, d>> \in Seq(0 .. 15) /\ Len(<<a, b, c, d>>) = 4
    BY SMT
<1>2. Value(<<a, b, c, d>>) = Number(a, b, c, d)
    BY SMT DEF Value, Number
<1> QED BY <1>1, <1>2, SMT DEF Reads

(* What "%X" prints of a number of 16 bits.                                 *)
LEMMA Printed ==
    ASSUME NEW n \in u16
    PROVE  /\ Digits(n) \in Seq(0 .. 15)
           /\ Len(Digits(n)) \in 1 .. 4
           /\ Value(Digits(n)) = n
<1> DEFINE a == n \div 16
           b == n \div 256
           d4 == n \div 4096
           d3 == b % 16
           d2 == a % 16
           d1 == n % 16
<1>1. /\ n = 16 * a + d1 /\ a \in Nat /\ d1 \in 0 .. 15
      /\ a = 16 * b + d2 /\ b \in Nat /\ d2 \in 0 .. 15
      /\ b = 16 * d4 + d3 /\ d4 \in Nat /\ d3 \in 0 .. 15
  <2>1. ASSUME NEW m \in Nat
        PROVE  m = 16 * (m \div 16) + (m % 16) /\ m \div 16 \in Nat /\ m % 16 \in 0 .. 15
      BY SMT
  <2>2. a \div 16 = b /\ b \div 16 = d4 /\ n \in Nat
      BY SMT DEF u16
  <2>3. a \in Nat /\ b \in Nat
      BY <2>1, <2>2
  <2> QED BY <2>1, <2>2, <2>3
<1>2. n \in Nat /\ n < 65536
    BY SMT DEF u16
<1>3. /\ n < 16 => Digits(n) = <<d1>>
      /\ n >= 16 /\ n < 256 => Digits(n) = <<d2, d1>>
      /\ n >= 256 /\ n < 4096 => Digits(n) = <<d3, d2, d1>>
      /\ n >= 4096 => Digits(n) = <<d4, d3, d2, d1>>
    BY <1>2, SMT DEF Digits
<1> HIDE DEF a, b, d1, d2, d3, d4
<1>4. n = d1 + 16 * d2 + 256 * d3 + 4096 * d4 /\ d4 \in 0 .. 15
    BY <1>1, <1>2, SMT
<1>5. \/ Digits(n) = <<d1>> /\ d4 = 0 /\ d3 = 0 /\ d2 = 0
      \/ Digits(n) = <<d2, d1>> /\ d4 = 0 /\ d3 = 0
      \/ Digits(n) = <<d3, d2, d1>> /\ d4 = 0
      \/ Digits(n) = <<d4, d3, d2, d1>>
    BY <1>1, <1>2, <1>3, <1>4, SMT
<1>6. d1 \in 0 .. 15 /\ d2 \in 0 .. 15 /\ d3 \in 0 .. 15 /\ d4 \in 0 .. 15
    BY <1>1, <1>4
<1>7. Reads(<<d1>>, d1)
    BY <1>6, OneDigit
<1>8. Reads(<<d2, d1>>, d1 + 16 * d2)
    BY <1>6, TwoDigits
<1>9. Reads(<<d3, d2, d1>>, d1 + 16 * d2 + 256 * d3)
    BY <1>6, ThreeDigits
<1>10. Reads(<<d4, d3, d2, d1>>, Number(d4, d3, d2, d1))
    BY <1>6, FourDigits, Zenon
<1>11. /\ d4 = 0 /\ d3 = 0 /\ d2 = 0 => n = d1
       /\ d4 = 0 /\ d3 = 0 => n = d1 + 16 * d2
       /\ d4 = 0 => n = d1 + 16 * d2 + 256 * d3
       /\ n = Number(d4, d3, d2, d1)
    BY <1>4, <1>6 DEF Number
<1>12. Reads(Digits(n), n)
    BY <1>4, <1>5, <1>7, <1>8, <1>9, <1>10, <1>11
<1> QED BY <1>12 DEF Reads

(* The text of a protocol is found in a table, or read as a number.         *)
LEMMA ProtocolCases ==
    ASSUME NEW t \in Text
    PROVE  LET n == Folded[t.name]
           IN  /\ n \in DOMAIN str_to_l4 =>
                    /\ Protocol(t) = <<ETH_P_IP, str_to_l4[n]>>
                    /\ str_to_l4[n] \in u8 /\ n \notin DOMAIN str_to_l3
               /\ n \in DOMAIN str_to_l3 =>
                    /\ Protocol(t) = <<str_to_l3[n], 0>>
                    /\ str_to_l3[n] \in u16 /\ n \notin DOMAIN str_to_l4
               /\ n \notin DOMAIN str_to_l4 \cup DOMAIN str_to_l3 =>
                    \/ /\ Value(t.digits) \in u8
                       /\ Protocol(t) = <<ETH_P_IP, Value(t.digits)>>
                    \/ /\ Value(t.digits) \in u16 /\ Value(t.digits) >= 256
                       /\ Protocol(t) = <<Value(t.digits), 0>>
<1> DEFINE n == Folded[t.name]
           v == Value(t.digits)
<1>1. t.digits \in Seq(0 .. 15)
    BY DEF Text
<1>2. v \in u16
    BY <1>1, ValueFits
<1>3. v < 256 => v \in u8
    BY <1>2, SMT DEF u16, u8
<1>4. v \in Nat
    BY <1>2, SMT DEF u16
<1>5. n \in DOMAIN str_to_l4 => str_to_l4[n] \in u8 /\ n \notin DOMAIN str_to_l3
    BY NamesAssumption
<1>6. n \in DOMAIN str_to_l3 => str_to_l3[n] \in u16 /\ n \notin DOMAIN str_to_l4
    BY NamesAssumption
<1>7. CASE n \in DOMAIN str_to_l4
    BY <1>5, <1>7 DEF Protocol
<1>8. CASE n \in DOMAIN str_to_l3
    BY <1>6, <1>8 DEF Protocol
<1>9. CASE n \notin DOMAIN str_to_l4 \cup DOMAIN str_to_l3
  <2>1. Protocol(t) = IF v < 256 THEN <<ETH_P_IP, v>> ELSE <<v, 0>>
      BY <1>9 DEF Protocol
  <2> HIDE DEF v
  <2>2. CASE v < 256
      BY <1>3, <1>9, <2>1, <2>2 DEF v
  <2>3. CASE v >= 256
      BY <1>2, <1>4, <1>9, <2>1, <2>3 DEF v
  <2> QED BY <1>4, <2>2, <2>3
<1> QED BY <1>7, <1>8, <1>9

(* What a rule that RulesDownload writes is like.                           *)
Writable(e) ==
    /\ e \in Rule /\ e.tb \in 0 .. 3
    /\ \/ e.ether = ETH_P_IP
       \/ /\ e.proto = 0 /\ e.dport = 0
          /\ e.ether >= 256 \/ \E n \in DOMAIN str_to_l3 : str_to_l3[n] = e.ether
    /\ e.dport = 0 \/ \E n \in DOMAIN str_to_l4 : str_to_l4[n] = e.proto

LEMMA Ethertypes ==
    ETH_P_IP \in u16 /\ 0 \in u16 /\ 0 \in u8 /\ 0 .. 3 \subseteq u8
BY SMT DEF ETH_P_IP, u16, u8

(* RulesDownload, of a row.                                                 *)
LEMMA CompiledWritable ==
    ASSUME NEW r \in StoredRow
    PROVE  Writable(Compiled(r))
<1> DEFINE t == r.Proto
           n == Folded[t.name]
           e == Compiled(r)
<1>1. /\ t \in Text /\ r.Port \in u16 /\ r.Cost \in u16 /\ r.Meter \in 0 .. 3
    BY DEF StoredRow
<1>2. /\ e.ether = Protocol(t)[1] /\ e.proto = Protocol(t)[2]
      /\ e.dport = IF n \in DOMAIN str_to_l4 THEN r.Port ELSE 0
      /\ e.scale = r.Cost /\ e.tb = r.Meter
      /\ e = [ether |-> e.ether, proto |-> e.proto, dport |-> e.dport,
              scale |-> e.scale, tb |-> e.tb]
    BY DEF Compiled
<1> HIDE DEF e
<1>3. /\ e.ether \in u16 /\ e.proto \in u8
      /\ \/ e.ether = ETH_P_IP
         \/ /\ e.proto = 0 /\ n \notin DOMAIN str_to_l4
            /\ e.ether >= 256 \/ \E m \in DOMAIN str_to_l3 : str_to_l3[m] = e.ether
      /\ n \in DOMAIN str_to_l4 => str_to_l4[n] = e.proto
  <2>1. CASE n \in DOMAIN str_to_l4
      BY <1>1, <1>2, <2>1, ProtocolCases, Ethertypes
  <2>2. CASE n \in DOMAIN str_to_l3
      BY <1>1, <1>2, <2>2, ProtocolCases, Ethertypes
  <2>3. CASE n \notin DOMAIN str_to_l4 \cup DOMAIN str_to_l3
      BY <1>1, <1>2, <2>3, ProtocolCases, Ethertypes
  <2> QED BY <2>1, <2>2, <2>3
<1>4. e.dport \in u16 /\ e.scale \in u16 /\ e.tb \in u8
    BY <1>1, <1>2, Ethertypes
<1>5. e \in Rule
    BY <1>2, <1>3, <1>4 DEF Rule
<1>6. e.dport = 0 \/ \E m \in DOMAIN str_to_l4 : str_to_l4[m] = e.proto
    BY <1>2, <1>3
<1> QED BY <1>1, <1>2, <1>3, <1>5, <1>6 DEF Writable, e

(* RulesUpload, of a rule: its row fits what is kept, and has the name of   *)
(* the protocol if there is one.                                            *)
LEMMA ShownFits ==
    ASSUME NEW e \in Rule
    PROVE  LET table == IF e.ether = ETH_P_IP THEN str_to_l4 ELSE str_to_l3
               number == IF e.ether = ETH_P_IP THEN e.proto ELSE e.ether
           IN  /\ Shown(e) \in StoredRow
               /\ Shown(e).Port = e.dport /\ Shown(e).Cost = e.scale
               /\ Shown(e).Meter = Cut2(e.tb)
               /\ number \in u16
               /\ \/ \E n \in DOMAIN table : /\ table[n] = number
                                             /\ Shown(e).Proto = Named(n)
                  \/ /\ \A n \in DOMAIN table : table[n] # number
                     /\ Shown(e).Proto = Hex(number)
<1> DEFINE table == IF e.ether = ETH_P_IP THEN str_to_l4 ELSE str_to_l3
           number == IF e.ether = ETH_P_IP THEN e.proto ELSE e.ether
           names == {n \in DOMAIN table : table[n] = number}
<1>1. /\ e.ether \in u16 /\ e.proto \in u8 /\ e.dport \in u16 /\ e.scale \in u16
      /\ e.tb \in u8
    BY DEF Rule
<1>2. number \in u16 /\ e.tb \in Nat
    BY <1>1, SMT DEF u16, u8
<1>3. DOMAIN table \subseteq DOMAIN Folded
    BY NamesAssumption
<1>4. Shown(e) = [Proto |-> IF names # {} THEN Named(CHOOSE n \in names : TRUE)
                            ELSE Hex(number),
                  Port |-> e.dport, Cost |-> e.scale, Meter |-> Cut2(e.tb)]
    BY DEF Shown
<1> HIDE DEF table, number
<1>5. \/ \E n \in DOMAIN table : table[n] = number /\ Shown(e).Proto = Named(n)
      \/ /\ \A n \in DOMAIN table : table[n] # number
         /\ Shown(e).Proto = Hex(number)
  <2> DEFINE c == CHOOSE n \in names : TRUE
  <2>1. Shown(e).Proto = IF names # {} THEN Named(c) ELSE Hex(number)
      BY <1>4
  <2>2. names # {} => c \in names
      OBVIOUS
  <2> HIDE DEF c
  <2> QED BY <2>1, <2>2
<1>6. Shown(e).Proto \in Text
  <2>1. CASE \E n \in DOMAIN table : Shown(e).Proto = Named(n)
    <3>1. << >> \in Seq(0 .. 15)
        OBVIOUS
    <3> QED BY <1>3, <2>1, <3>1 DEF Named, Text
  <2>2. CASE Shown(e).Proto = Hex(number)
    <3>1. NoName \in DOMAIN Folded
        BY NamesAssumption
    <3>2. Digits(number) \in Seq(0 .. 15)
        BY <1>2, Printed
    <3> QED BY <2>2, <3>1, <3>2 DEF Hex, Text
  <2> QED BY <1>5, <2>1, <2>2
<1>7. Cut2(e.tb) \in 0 .. 3
    BY <1>2, Remainders
<1>8. Shown(e) \in StoredRow
    BY <1>1, <1>4, <1>6, <1>7 DEF StoredRow
<1> QED BY <1>2, <1>4, <1>5, <1>8 DEF table, number

(* RulesUpload undoes RulesDownload: a rule that a row was written as is    *)
(* shown as a row that would be written as the same rule, whichever form    *)
(* its protocol was typed in.                                               *)
LEMMA WritableReadable ==
    ASSUME NEW e, Writable(e)
    PROVE  Readable(e)
<1> DEFINE s == Shown(e)
           t == s.Proto
           n == Folded[t.name]
<1>1. /\ e \in Rule /\ e.tb \in 0 .. 3 /\ e.tb \in Nat
      /\ e = [ether |-> e.ether, proto |-> e.proto, dport |-> e.dport,
              scale |-> e.scale, tb |-> e.tb]
    BY DEF Writable, Rule
<1>2. s \in StoredRow /\ s.Port = e.dport /\ s.Cost = e.scale /\ s.Meter = e.tb
    BY <1>1, ShownFits, Remainders
<1>3. Stored(s) = s
    BY <1>2, StoredFits, RowsShow
<1>4. e.ether \in u16 /\ e.proto \in u8 /\ e.ether \in Nat /\ e.proto < 256
    BY <1>1 DEF Rule, u16, u8
<1>5. t \in Text
    BY <1>2 DEF StoredRow
<1>6. /\ t # Empty.Proto /\ ~Malformed(t)
      /\ Protocol(t) = <<e.ether, e.proto>>
      /\ n \in DOMAIN str_to_l4 \/ e.dport = 0
  <2>1. CASE e.ether = ETH_P_IP /\ \E m \in DOMAIN str_to_l4 :
               str_to_l4[m] = e.proto /\ t = Named(m)
    <3>1. PICK m \in DOMAIN str_to_l4 : str_to_l4[m] = e.proto /\ t = Named(m)
        BY <2>1
    <3>2. t.name = m /\ m # NoName /\ n = m
        BY <3>1, NamesAssumption DEF Named
    <3>3. Protocol(t) = <<ETH_P_IP, e.proto>>
        BY <1>5, <3>1, <3>2, ProtocolCases
    <3>4. t # Empty.Proto
        BY <3>2 DEF Empty
    <3> QED BY <2>1, <3>2, <3>3, <3>4 DEF Malformed, IsName
  <2>2. CASE e.ether # ETH_P_IP /\ \E m \in DOMAIN str_to_l3 :
               str_to_l3[m] = e.ether /\ t = Named(m)
    <3>1. PICK m \in DOMAIN str_to_l3 : str_to_l3[m] = e.ether /\ t = Named(m)
        BY <2>2
    <3>2. t.name = m /\ m # NoName /\ n = m
        BY <3>1, NamesAssumption DEF Named
    <3>3. Protocol(t) = <<e.ether, 0>>
        BY <1>5, <3>1, <3>2, ProtocolCases
    <3>4. t # Empty.Proto
        BY <3>2 DEF Empty
    <3>5. e.proto = 0 /\ e.dport = 0
        BY <2>2 DEF Writable
    <3> QED BY <3>2, <3>3, <3>4, <3>5 DEF Malformed, IsName
  <2>3. ASSUME NEW v \in u16, t = Hex(v)
        PROVE  /\ t # Empty.Proto /\ ~Malformed(t)
               /\ n = NoName
               /\ v \in u8 => Protocol(t) = <<ETH_P_IP, v>>
               /\ v >= 256 => Protocol(t) = <<v, 0>>
    <3>1. t.name = NoName /\ t.digits = Digits(v)
        BY <2>3 DEF Hex
    <3>2. n = NoName /\ n \notin DOMAIN str_to_l4 \cup DOMAIN str_to_l3
      <4>1. NoName \in DOMAIN Folded \ (DOMAIN str_to_l4 \cup DOMAIN str_to_l3)
          BY NamesAssumption
      <4>2. Folded[NoName] = NoName
          BY <4>1, NamesAssumption
      <4> QED BY <3>1, <4>1, <4>2
    <3>3. Len(t.digits) \in 1 .. 4 /\ Value(t.digits) = v
        BY <3>1, Printed
    <3>4. t.digits # << >>
        BY <3>3
    <3>5. t # Empty.Proto
        BY <3>4 DEF Empty
    <3>6. ~Malformed(t)
      <4> DEFINE l == Len(t.digits)
      <4>1. l \in 1 .. 4
          BY <3>3
      <4> HIDE DEF l
      <4>2. ~(l > 5)
          BY <4>1
      <4> QED BY <3>1, <4>2 DEF Malformed, l
    <3>7. v \in Nat /\ (v \in u8 => v < 256)
        BY DEF u16, u8
    <3>8. \/ v \in u8 /\ Protocol(t) = <<ETH_P_IP, v>>
          \/ v >= 256 /\ Protocol(t) = <<v, 0>>
        BY <1>5, <3>2, <3>3, ProtocolCases
    <3> QED BY <3>2, <3>5, <3>6, <3>7, <3>8
  <2>4. CASE /\ e.ether = ETH_P_IP
             /\ \A m \in DOMAIN str_to_l4 : str_to_l4[m] # e.proto
             /\ t = Hex(e.proto)
    <3>1. e.dport = 0
        BY <2>4 DEF Writable
    <3>2. e.proto \in u16
        BY <1>4 DEF u16, u8
    <3> QED BY <1>4, <2>3, <2>4, <3>1, <3>2
  <2>5. CASE /\ e.ether # ETH_P_IP
             /\ \A m \in DOMAIN str_to_l3 : str_to_l3[m] # e.ether
             /\ t = Hex(e.ether)
    <3>1. e.proto = 0 /\ e.dport = 0 /\ e.ether >= 256
        BY <2>5 DEF Writable
    <3> QED BY <1>4, <2>3, <2>5, <3>1
  <2> QED BY <1>1, <2>1, <2>2, <2>4, <2>5, ShownFits
<1>7. Compiled(s) = [ether |-> e.ether, proto |-> e.proto,
                     dport |-> IF n \in DOMAIN str_to_l4 THEN e.dport ELSE 0,
                     scale |-> e.scale, tb |-> e.tb]
    BY <1>2, <1>6 DEF Compiled
<1>8. Compiled(s) = e
    BY <1>1, <1>6, <1>7
<1> QED BY <1>3, <1>6, <1>8 DEF Readable, Meaning

(* The rows of a set, from the top down: there is a k-th row of it as long  *)
(* as k does not exceed their number, which MAX_RULES bounds.               *)
LEMMA NthRow ==
    ASSUME NEW n \in Nat, NEW S \in SUBSET (1 .. n)
    PROVE  /\ Cardinality(S) \in Nat /\ Cardinality(S) <= n
           /\ \A k \in 1 .. Cardinality(S) : Nth(S, k) \in S
<1>1. \A m \in Nat : IsFiniteSet(1 .. m) /\ Cardinality(1 .. m) = m
  <2> SUFFICES ASSUME NEW m \in Nat
               PROVE  IsFiniteSet(1 .. m) /\ Cardinality(1 .. m) = m
      OBVIOUS
  <2>1. 1 \in Int /\ m \in Int
      OBVIOUS
  <2>2. /\ IsFiniteSet(1 .. m)
        /\ Cardinality(1 .. m) = IF 1 > m THEN 0 ELSE m - 1 + 1
      BY <2>1, FS_Interval, Zenon
  <2> QED BY <2>2
<1> DEFINE c == Cardinality(S)
           Upto(i) == {j \in S : j <= i}
           rank == [i \in S |-> Cardinality(Upto(i))]
<1>2. IsFiniteSet(S) /\ c \in Nat /\ c <= n
  <2>1. IsFiniteSet(S) /\ Cardinality(S) <= Cardinality(1 .. n)
      BY <1>1, FS_Subset
  <2> QED BY <1>1, <2>1, FS_CardinalityType
<1>3. ASSUME NEW i \in S
      PROVE  /\ IsFiniteSet(Upto(i)) /\ Cardinality(Upto(i)) \in 1 .. c
  <2>1. Upto(i) \in SUBSET S
      OBVIOUS
  <2>2. IsFiniteSet(Upto(i)) /\ Cardinality(Upto(i)) <= c
      BY <1>2, <2>1, FS_Subset
  <2>3. i \in Upto(i)
      OBVIOUS
  <2>4. Cardinality(Upto(i)) # 0
      BY <2>2, <2>3, FS_EmptySet
  <2>5. Cardinality(Upto(i)) \in Nat
      BY <2>2, FS_CardinalityType
  <2> HIDE DEF Upto, c
  <2> QED BY <1>2, <2>2, <2>4, <2>5
<1>4. ASSUME NEW i \in S, NEW j \in S, i < j
      PROVE  Cardinality(Upto(i)) # Cardinality(Upto(j))
  <2>0. i \in Int /\ j \in Int /\ \A k \in S : k \in Int
      OBVIOUS
  <2>1. Upto(i) \in SUBSET Upto(j)
    <3> SUFFICES ASSUME NEW k \in S, k <= i PROVE k <= j
        OBVIOUS
    <3> QED BY <1>4, <2>0
  <2>2. j \in Upto(j) /\ j \notin Upto(i)
      BY <1>4, <2>0
  <2>3. IsFiniteSet(Upto(j))
      BY <1>3
  <2> HIDE DEF Upto
  <2> QED BY <2>1, <2>2, <2>3, FS_Subset
<1>5. rank \in Injection(S, 1 .. c)
  <2>1. rank \in [S -> 1 .. c]
      BY <1>3
  <2>2. \A i, j \in S : rank[i] = rank[j] => i = j
    <3> SUFFICES ASSUME NEW i \in S, NEW j \in S, rank[i] = rank[j], i # j
                 PROVE  FALSE
        OBVIOUS
    <3>1. i \in Int /\ j \in Int
        OBVIOUS
    <3>2. i < j \/ j < i
        BY <3>1
    <3>3. rank[i] = Cardinality(Upto(i)) /\ rank[j] = Cardinality(Upto(j))
        OBVIOUS
    <3> QED BY <1>4, <3>2, <3>3
  <2> HIDE DEF rank, c
  <2> QED BY <2>1, <2>2 DEF Injection, IsInjective
<1>6. rank \in Surjection(S, 1 .. c)
  <2>1. IsFiniteSet(1 .. c) /\ Cardinality(1 .. c) = c
      BY <1>1, <1>2
  <2> HIDE DEF rank
  <2> QED BY <1>5, <2>1, FS_Injection
<1>7. ASSUME NEW k \in 1 .. c
      PROVE  Nth(S, k) \in S
  <2>1. \E i \in S : rank[i] = k
    <3> HIDE DEF rank, c
    <3> QED BY <1>6 DEF Surjection
  <2>2. \E i \in S : Cardinality({j \in S : j <= i}) = k
      BY <2>1
  <2> QED BY <2>2 DEF Nth
<1> QED BY <1>2, <1>7

(* The dimensions of the rows and the page.                                 *)
LEMMA Dimensions ==
    /\ MAX_RULES \in Nat /\ RULE_PAGE_SZ \in 1 .. MAX_RULES /\ RULE_PAGE_SZ \in Nat
    /\ HeaderSize \in Nat /\ RuleSize \in Nat /\ MAX_NTFE_CFG_SZ \in Nat
    /\ HeaderSize + MAX_RULES * RuleSize <= MAX_NTFE_CFG_SZ
    /\ Typed \subseteq Control
    /\ \A f \in Foreign : /\ f \in [size : Nat, length : Nat, rule_count : Nat,
                                    ect : Seq(Rule), own : {FALSE}]
                          /\ f.own = FALSE
<1>1. \A f \in Foreign : /\ f \in [size : Nat, length : Nat, rule_count : Nat,
                                    ect : Seq(Rule), own : {FALSE}]
                          /\ f.own = FALSE
    BY EditorAssumption
<1>2. RULE_PAGE_SZ \in Nat /\ MAX_RULES \in Nat
    BY EditorAssumption
<1>3. Typed \subseteq Control
    BY EditorAssumption, Zenon DEF Control
<1> QED BY <1>1, <1>2, <1>3, EditorAssumption, Zenon

(* An empty row is one to keep.                                             *)
LEMMA EmptyRow == Empty \in StoredRow /\ Stored(Empty) = Empty
<1>1. NoName \in DOMAIN Folded
    BY NamesAssumption
<1>2. << >> \in Seq(0 .. 15)
    OBVIOUS
<1>3. 0 \in u16 /\ 0 \in 0 .. 3
    BY DEF u16
<1>4. Empty \in StoredRow
    BY <1>1, <1>2, <1>3 DEF Empty, StoredRow, Text
<1> QED BY <1>4, StoredFits, RowsShow

(* Synchronize, both ways.                                                  *)
LEMMA SynchronizeFits ==
    ASSUME TypeOK
    PROVE  /\ SynchronizeDown(Rules) \in [Row -> StoredRow]
           /\ \A rs \in [Row -> StoredRow], p \in 0 .. MAX_RULES - RULE_PAGE_SZ :
                /\ SynchronizeUp(rs, p) \in [1 .. RULE_PAGE_SZ -> StoredRow]
                /\ SynchronizeUp(rs, p) \in [1 .. RULE_PAGE_SZ -> Control]
<1>1. SynchronizeDown(Rules) \in [Row -> StoredRow]
  <2> SUFFICES ASSUME NEW i \in Row
               PROVE  (IF OnPage(i) THEN Stored(page[i - pos]) ELSE Rules[i])
                        \in StoredRow
      BY DEF SynchronizeDown
  <2>1. CASE OnPage(i)
    <3>1. page[i - pos] \in Control
        BY <2>1 DEF OnPage, TypeOK, Control
    <3> QED BY <2>1, <3>1, StoredFits
  <2>2. CASE ~OnPage(i)
      BY <2>2 DEF TypeOK
  <2> QED BY <2>1, <2>2
<1>2. ASSUME NEW rs \in [Row -> StoredRow],
             NEW p \in 0 .. MAX_RULES - RULE_PAGE_SZ
      PROVE  SynchronizeUp(rs, p) \in [1 .. RULE_PAGE_SZ -> StoredRow]
  <2>1. \A k \in 1 .. RULE_PAGE_SZ : p + k \in Row
      BY Dimensions DEF Row
  <2> QED BY <2>1 DEF SynchronizeUp
<1>3. ASSUME NEW q \in [1 .. RULE_PAGE_SZ -> StoredRow]
      PROVE  q \in [1 .. RULE_PAGE_SZ -> Control]
    BY RowsShow
<1> QED BY <1>1, <1>2, <1>3

(* RulesDownload: there are no more rules than rows, and each is the rule   *)
(* of a row.                                                                *)
LEMMA DownloadFits ==
    ASSUME NEW rs \in [Row -> StoredRow]
    PROVE  /\ RulesDownload(rs) \in Seq(Rule)
           /\ Len(RulesDownload(rs)) \in 0 .. MAX_RULES
           /\ \A k \in 1 .. Len(RulesDownload(rs)) : Readable(RulesDownload(rs)[k])
<1> DEFINE S == Used(rs)
           c == Cardinality(S)
           l == RulesDownload(rs)
<1>1. S \in SUBSET (1 .. MAX_RULES)
    BY DEF Used, Read, Row
<1>2. c \in Nat /\ c <= MAX_RULES /\ \A k \in 1 .. c : Nth(S, k) \in S
    BY <1>1, NthRow, Dimensions
<1>3. l = [k \in 1 .. c |-> Compiled(rs[Nth(S, k)])]
    BY DEF RulesDownload
<1>4. ASSUME NEW k \in 1 .. c
      PROVE  Compiled(rs[Nth(S, k)]) \in Rule /\ Readable(Compiled(rs[Nth(S, k)]))
  <2>1. rs[Nth(S, k)] \in StoredRow
    <3>1. Nth(S, k) \in Row
        BY <1>1, <1>2 DEF Row
    <3> QED BY <3>1
  <2>2. Writable(Compiled(rs[Nth(S, k)]))
      BY <2>1, CompiledWritable
  <2> QED BY <2>2, WritableReadable DEF Writable
<1> DEFINE g(k) == Compiled(rs[Nth(S, k)])
<1>5. l = [k \in 1 .. c |-> g(k)] /\ \A k \in 1 .. c : g(k) \in Rule /\ Readable(g(k))
    BY <1>3, <1>4
<1> HIDE DEF g, S, c, l
<1>6. l \in Seq(Rule) /\ Len(l) = c
    BY <1>2, <1>5
<1>7. \A k \in 1 .. c : Readable(l[k])
    BY <1>5
<1>8. c \in 0 .. MAX_RULES
    BY <1>2, Dimensions
<1> QED BY <1>6, <1>7, <1>8 DEF l

(* Of two sizes, the larger.                                                *)
LEMMA LargerSize ==
    ASSUME NEW a \in Nat, NEW b \in Nat
    PROVE  /\ Max({a, b}) \in {a, b} /\ Max({a, b}) >= a /\ Max({a, b}) >= b
           /\ Max({a, b}) \in Nat
<1>1. \E x \in {a, b} : \A y \in {a, b} : x >= y
  <2>1. CASE a >= b
      BY <2>1
  <2>2. CASE b >= a
      BY <2>2
  <2> QED BY <2>1, <2>2
<1> QED BY <1>1 DEF Max

(* Fewer rules take less of the file.                                       *)
LEMMA FewerRules ==
    ASSUME NEW a \in Nat, NEW b \in Nat, a <= b, NEW z \in Nat
    PROVE  a * z \in Nat /\ a * z <= b * z
<1>1. b - a \in Nat
    OBVIOUS
<1>2. (b - a) * z \in Nat /\ a * z \in Nat /\ b * z \in Nat
    BY <1>1
<1>3. b * z = a * z + (b - a) * z
    BY Z3
<1> QED BY <1>2, <1>3

(* Of a sequence, what is written, followed by what stays of another.       *)
LEMMA Overwritten ==
    ASSUME NEW R, NEW l \in Seq(R), NEW s \in Seq(R), NEW k \in 0 .. Len(l)
    PROVE  LET ect == SubSeq(l, 1, k) \o SubSeq(s, k + 1, Len(s))
           IN  /\ ect \in Seq(R)
               /\ \A i \in 1 .. k : i \in DOMAIN ect /\ ect[i] = l[i]
<1> DEFINE a == SubSeq(l, 1, k)
           b == SubSeq(s, k + 1, Len(s))
<1>1. a \in Seq(R) /\ Len(a) = k /\ \A i \in 1 .. k : a[i] = l[i]
  <2>1. a \in Seq(R)
      OBVIOUS
  <2>2. Len(a) = k
      OBVIOUS
  <2>3. \A i \in 1 .. k : a[i] = l[i]
      OBVIOUS
  <2> QED BY <2>1, <2>2, <2>3
<1>2. b \in Seq(R)
    OBVIOUS
<1>3. k \in Nat
    OBVIOUS
<1> HIDE DEF a, b
<1>4. a \o b \in Seq(R)
    BY <1>1, <1>2
<1>5. ASSUME NEW i \in 1 .. k
      PROVE  i \in DOMAIN (a \o b) /\ (a \o b)[i] = l[i]
    BY <1>1, <1>2, <1>3
<1> QED BY <1>4, <1>5 DEF a, b

(* SaveNtfeConfiguration: the file after the header and k rules.            *)
LEMMA WrittenFits ==
    ASSUME TypeOK, FileInv, NEW l \in Seq(Rule), Len(l) \in 0 .. MAX_RULES,
           \A i \in 1 .. Len(l) : Readable(l[i]),
           NEW k \in 0 .. Len(l), file' = Written(l, k)
    PROVE  /\ file' \in [size : Nat, length : Nat, rule_count : Nat,
                         ect : Seq(Rule), own : BOOLEAN]
           /\ file'.rule_count <= MAX_RULES /\ FileInv'
<1> DEFINE ect == SubSeq(l, 1, k) \o SubSeq(file.ect, k + 1, Len(file.ect))
           part == HeaderSize + k * RuleSize
           whole == HeaderSize + Len(l) * RuleSize
           size == Max({file.size, part})
<1>1. /\ file.size \in Nat /\ file.ect \in Seq(Rule)
      /\ file.size <= MAX_NTFE_CFG_SZ \/ \E f \in Foreign : f.size = file.size
    BY DEF TypeOK, FileInv
<1>2. file' = [size |-> size, length |-> whole, rule_count |-> Len(l),
               ect |-> ect, own |-> k = Len(l)]
    BY DEF Written
<1>3. ect \in Seq(Rule) /\ \A i \in 1 .. k : i \in DOMAIN ect /\ ect[i] = l[i]
    BY <1>1, Overwritten, ZenonT(60)
<1>4. /\ part \in Nat /\ whole \in Nat
      /\ part >= HeaderSize /\ part <= MAX_NTFE_CFG_SZ
      /\ k = Len(l) => part = whole
  <2>1. k \in Nat /\ Len(l) \in Nat /\ k <= MAX_RULES
      BY Dimensions
  <2>2. /\ k * RuleSize \in Nat /\ k * RuleSize <= MAX_RULES * RuleSize
        /\ Len(l) * RuleSize \in Nat /\ MAX_RULES * RuleSize \in Nat
      BY <2>1, Dimensions, FewerRules
  <2>3. k = Len(l) => k * RuleSize = Len(l) * RuleSize
      OBVIOUS
  <2> DEFINE x == k * RuleSize
             y == Len(l) * RuleSize
             z == MAX_RULES * RuleSize
  <2> HIDE DEF x, y, z
  <2>4. x \in Nat /\ x <= z /\ y \in Nat /\ z \in Nat /\ (k = Len(l) => x = y)
      BY <2>2, <2>3 DEF x, y, z
  <2>5. HeaderSize + z <= MAX_NTFE_CFG_SZ
      BY Dimensions DEF z
  <2>6. part = HeaderSize + x /\ whole = HeaderSize + y
      BY DEF x, y
  <2> HIDE DEF part, whole
  <2> QED BY <2>4, <2>5, <2>6, Dimensions
<1> HIDE DEF ect, part, whole
<1>5. /\ size \in {file.size, part} /\ size >= part /\ size \in Nat
    BY <1>1, <1>4, LargerSize
<1> HIDE DEF size
<1>6. /\ file'.size = size /\ file'.length = whole /\ file'.rule_count = Len(l)
      /\ file'.ect = ect /\ file'.own = (k = Len(l))
      /\ Len(l) \in Nat /\ Len(l) <= MAX_RULES
    BY <1>2, Dimensions
<1>7. file' \in [size : Nat, length : Nat, rule_count : Nat,
                 ect : Seq(Rule), own : BOOLEAN]
  <2>1. (k = Len(l)) \in BOOLEAN
      OBVIOUS
  <2> QED BY <1>2, <1>3, <1>4, <1>5, <1>6, <2>1
<1>8. file'.size <= MAX_NTFE_CFG_SZ \/ \E f \in Foreign : f.size = file'.size
    BY <1>1, <1>4, <1>5, <1>6
<1>9. ASSUME file'.own
      PROVE  /\ Consistent(file')
             /\ \A i \in 1 .. file'.rule_count :
                  i \in DOMAIN file'.ect /\ Readable(file'.ect[i])
  <2>1. k = Len(l) /\ whole = part
      BY <1>4, <1>6, <1>9
  <2>2. /\ HeaderSize <= size /\ whole <= size
        /\ whole >= HeaderSize + Len(l) * RuleSize
      BY <1>4, <1>5, <2>1, Dimensions DEF whole
  <2>3. Consistent(file')
      BY <1>6, <2>2 DEF Consistent
  <2> QED BY <1>3, <1>6, <2>1, <2>3
<1> QED BY <1>6, <1>7, <1>8, <1>9 DEF FileInv

(* The scroll bar stays where a page fits below it.                         *)
LEMMA ScrollRange ==
    ASSUME NEW p \in -RULE_PAGE_SZ .. MAX_RULES
    PROVE  Min({Max({p, 0}), MAX_RULES - RULE_PAGE_SZ}) \in 0 .. MAX_RULES - RULE_PAGE_SZ
<1> DEFINE a == Max({p, 0})
           b == MAX_RULES - RULE_PAGE_SZ
<1>1. b \in Nat /\ p \in Int
    BY Dimensions
<1>2. a \in Nat
  <2>1. \E x \in {p, 0} : \A y \in {p, 0} : x >= y
    <3>1. CASE p >= 0
        BY <1>1, <3>1
    <3>2. CASE 0 >= p
        BY <1>1, <3>2
    <3> QED BY <1>1, <3>1, <3>2
  <2>2. a \in {p, 0} /\ a >= 0
      BY <2>1 DEF Max
  <2> QED BY <1>1, <2>2
<1> HIDE DEF a, b
<1>3. Min({a, b}) \in {a, b} /\ Min({a, b}) <= b
  <2>1. \E x \in {a, b} : \A y \in {a, b} : x <= y
    <3>1. CASE a <= b
        BY <1>1, <1>2, <3>1
    <3>2. CASE b <= a
        BY <1>1, <1>2, <3>2
    <3> QED BY <1>1, <1>2, <3>1, <3>2
  <2> QED BY <2>1 DEF Min
<1>4. Min({a, b}) \in 0 .. b
    BY <1>1, <1>2, <1>3
<1> QED BY <1>4 DEF a, b

(* LoadNtfeConfiguration: the rules of a file are rules, also where it ends *)
(* before them.                                                             *)
LEMMA ContentsFit ==
    ASSUME NEW f \in [size : Nat, length : Nat, rule_count : Nat, ect : Seq(Rule),
                      own : BOOLEAN]
    PROVE  /\ Contents(f) \in [1 .. f.rule_count -> Rule] /\ f.rule_count \in Nat
           /\ Contents(f) \in Seq(Rule)
<1>1. Unused \in Rule
    BY DEF Unused, Rule, u16, u8
<1>2. f.ect \in Seq(Rule) /\ f.rule_count \in Nat
    OBVIOUS
<1>3. \A i \in DOMAIN f.ect : f.ect[i] \in Rule
    BY <1>2
<1>4. Contents(f) \in [1 .. f.rule_count -> Rule]
    BY <1>1, <1>3 DEF Contents
<1>5. Contents(f) \in Seq(Rule)
    BY <1>2, <1>4
<1> QED BY <1>2, <1>4, <1>5

(* RulesUpload: the rows of a file.                                         *)
LEMMA UploadFits ==
    ASSUME TypeOK
    PROVE  /\ Contents(file) \in [1 .. file.rule_count -> Rule]
           /\ Uploaded(file) \in [Row -> StoredRow]
<1>2. file.rule_count \in Nat
    BY DEF TypeOK
<1>4. Contents(file) \in [1 .. file.rule_count -> Rule]
    BY ContentsFit DEF TypeOK
<1>5. ASSUME NEW i \in Row
      PROVE  (IF i <= file.rule_count THEN Shown(Contents(file)[i]) ELSE Empty)
               \in StoredRow
  <2>1. CASE i <= file.rule_count
    <3>1. i \in 1 .. file.rule_count
        BY <1>2, <2>1 DEF Row
    <3> QED BY <1>4, <2>1, <3>1, ShownFits
  <2>2. CASE ~(i <= file.rule_count)
      BY <2>2, EmptyRow
  <2> QED BY <2>1, <2>2
<1> QED BY <1>4, <1>5 DEF Uploaded

(* Turning a text to small letters leaves it a text.                        *)
LEMMA LoweredFits ==
    ASSUME NEW rs \in [Row -> StoredRow]
    PROVE  Lowered(rs) \in [Row -> StoredRow]
<1> SUFFICES ASSUME NEW i \in Row
             PROVE  [rs[i] EXCEPT !.Proto.name = Folded[@]] \in StoredRow
    BY DEF Lowered
<1> DEFINE r == rs[i]
<1>1. r \in StoredRow
    OBVIOUS
<1> HIDE DEF r
<1>2. r.Proto.name \in DOMAIN Folded /\ r.Proto \in Text
    BY <1>1 DEF StoredRow, Text
<1>3. Folded[r.Proto.name] \in DOMAIN Folded
    BY <1>2, NamesAssumption
<1>4. [r EXCEPT !.Proto.name = Folded[@]] \in StoredRow
    BY <1>1, <1>2, <1>3 DEF StoredRow, Text
<1> QED BY <1>4 DEF r

(* The rows, the page and the file, through every step of the user.         *)
LEMMA EditorStep ==
    ASSUME EditorInv, [Next]_vars
    PROVE  EditorInv'
<1> DEFINE File == [size : Nat, length : Nat, rule_count : Nat, ect : Seq(Rule),
                    own : BOOLEAN]
<1>0. /\ TypeOK /\ FileInv /\ (overrun => ~open /\ file.rule_count > MAX_RULES)
      /\ Rules \in [Row -> StoredRow] /\ pos \in 0 .. MAX_RULES - RULE_PAGE_SZ
      /\ page \in [1 .. RULE_PAGE_SZ -> Control] /\ file \in File
      /\ open \in BOOLEAN /\ overrun \in BOOLEAN
    BY DEF EditorInv, TypeOK, Control
<1> DEFINE Typed2(rs, p, q, f, o, v) ==
              /\ rs \in [Row -> StoredRow] /\ q \in 0 .. MAX_RULES - RULE_PAGE_SZ
              /\ p \in [1 .. RULE_PAGE_SZ -> Control] /\ f \in File
              /\ o \in BOOLEAN /\ v \in BOOLEAN
<1>a. Typed2(Rules', page', pos', file', open', overrun') => TypeOK'
    BY DEF TypeOK, Control
<1>b. file' = file => FileInv'
    BY <1>0 DEF FileInv, Consistent
<1>c. 0 \in 0 .. MAX_RULES - RULE_PAGE_SZ
    BY Dimensions
<1>1. CASE Load
  <2>1. ~open /\ file' = file
      BY <1>1 DEF Load
  <2>2. CASE /\ ~overrun /\ Rules' \in {Uploaded(file), [i \in Row |-> Empty]}
             /\ page' = SynchronizeUp(Rules', 0) /\ pos' = 0
             /\ open' = TRUE /\ overrun' = overrun
    <3>1. Rules' \in [Row -> StoredRow]
        BY <1>0, <2>2, UploadFits, EmptyRow
    <3>2. page' \in [1 .. RULE_PAGE_SZ -> Control]
        BY <1>0, <1>c, <2>2, <3>1, SynchronizeFits
    <3>3. TypeOK'
        BY <1>0, <1>a, <1>c, <2>1, <2>2, <3>1, <3>2
    <3> QED BY <1>b, <2>1, <2>2, <3>3 DEF EditorInv
  <2>3. CASE /\ file.rule_count > MAX_RULES /\ overrun' = TRUE
             /\ UNCHANGED <<Rules, page, pos, open>>
    <3>1. TypeOK'
        BY <1>0, <1>a, <2>1, <2>3
    <3> QED BY <1>b, <2>1, <2>3, <3>1 DEF EditorInv
  <2> QED BY <1>1, <2>2, <2>3 DEF Load
<1>2. CASE Type
  <2>1. PICK k \in 1 .. RULE_PAGE_SZ, c \in Typed : page' = [page EXCEPT ![k] = c]
      BY <1>2 DEF Type
  <2>2. UNCHANGED <<Rules, pos, file, open, overrun>>
      BY <1>2 DEF Type
  <2>3. page' \in [1 .. RULE_PAGE_SZ -> Control]
      BY <1>0, <2>1, Dimensions
  <2>4. TypeOK'
      BY <1>0, <1>a, <2>2, <2>3
  <2> QED BY <1>0, <1>b, <2>2, <2>4 DEF EditorInv
<1>3. ASSUME NEW p \in -RULE_PAGE_SZ .. MAX_RULES, Scroll(p)
      PROVE  EditorInv'
  <2>1. /\ pos' \in 0 .. MAX_RULES - RULE_PAGE_SZ
        /\ Rules' = SynchronizeDown(Rules) /\ page' = SynchronizeUp(Rules', pos')
        /\ UNCHANGED <<file, open, overrun>>
      BY <1>3, ScrollRange DEF Scroll
  <2>2. Rules' \in [Row -> StoredRow]
      BY <1>0, <2>1, SynchronizeFits
  <2>3. page' \in [1 .. RULE_PAGE_SZ -> Control]
      BY <1>0, <2>1, <2>2, SynchronizeFits
  <2>4. TypeOK'
      BY <1>0, <1>a, <2>1, <2>2, <2>3
  <2> QED BY <1>0, <1>b, <2>1, <2>4 DEF EditorInv
<1>4. CASE Save
  <2> DEFINE rs == SynchronizeDown(Rules)
             l == RulesDownload(rs)
  <2>1. /\ open /\ Rules' = Lowered(rs) /\ UNCHANGED <<page, pos, open, overrun>>
        /\ file' = file \/ \E k \in 0 .. Len(l) : file' = Written(l, k)
      BY <1>4 DEF Save
  <2>2. rs \in [Row -> StoredRow]
      BY <1>0, SynchronizeFits
  <2>3. Rules' \in [Row -> StoredRow]
      BY <2>1, <2>2, LoweredFits
  <2>4. ~overrun
      BY <1>0, <2>1
  <2>5. file' \in File /\ FileInv'
    <3>1. CASE file' = file
        BY <1>0, <1>b, <3>1
    <3>2. CASE \E k \in 0 .. Len(l) : file' = Written(l, k)
      <4>1. /\ l \in Seq(Rule) /\ Len(l) \in 0 .. MAX_RULES
            /\ \A k \in 1 .. Len(l) : Readable(l[k])
          BY <2>2, DownloadFits
      <4> HIDE DEF l
      <4> QED BY <1>0, <3>2, <4>1, WrittenFits
    <3> QED BY <2>1, <3>1, <3>2
  <2>6. TypeOK'
      BY <1>0, <1>a, <2>1, <2>3, <2>5
  <2> QED BY <2>1, <2>4, <2>5, <2>6 DEF EditorInv
<1>5. CASE Quit
  <2>1. open' = FALSE /\ UNCHANGED <<Rules, page, pos, file, overrun>>
      BY <1>5 DEF Quit
  <2>2. TypeOK'
      BY <1>0, <1>a, <2>1
  <2> QED BY <1>0, <1>b, <2>1, <2>2 DEF EditorInv
<1>6. CASE UNCHANGED vars
  <2>1. UNCHANGED <<Rules, page, pos, file, open, overrun>>
      BY <1>6 DEF vars
  <2>2. TypeOK'
      BY <1>0, <1>a, <2>1
  <2> QED BY <1>0, <1>b, <2>1, <2>2 DEF EditorInv
<1> QED BY <1>1, <1>2, <1>3, <1>4, <1>5, <1>6 DEF Next

(* Before the program is started, whatever file there is.                   *)
LEMMA EditorStart ==
    ASSUME Init
    PROVE  EditorInv
<1>1. Rules \in [Row -> StoredRow] /\ page \in [1 .. RULE_PAGE_SZ -> Control]
    BY EmptyRow, RowsShow DEF Init
<1>2. pos \in 0 .. MAX_RULES - RULE_PAGE_SZ /\ open = FALSE /\ overrun = FALSE
    BY Dimensions DEF Init
<1>3. /\ file \in [size : Nat, length : Nat, rule_count : Nat, ect : Seq(Rule),
                   own : BOOLEAN]
      /\ ~file.own
      /\ file.rule_count <= MAX_RULES \/ file \in Foreign
      /\ file.size <= MAX_NTFE_CFG_SZ \/ \E f \in Foreign : f.size = file.size
  <2>1. CASE file = NoFile
      BY <2>1, Dimensions DEF NoFile
  <2>2. CASE file \in Foreign
      BY <2>2, Dimensions
  <2> QED BY <2>1, <2>2 DEF Init
<1>4. TypeOK
    BY <1>1, <1>2, <1>3 DEF TypeOK, Control
<1> QED BY <1>2, <1>3, <1>4 DEF EditorInv, FileInv

(* The invariant of the editor, before it is started and ever after.        *)
THEOREM EditorInductive == Spec => []EditorInv
<1>1. Init => EditorInv
    BY EditorStart
<1> QED BY <1>1, EditorStep, PTL DEF Spec

(* SaveNtfeConfiguration writes files that pass the driver's tests of their *)
(* sizes, over whatever file.                                               *)
THEOREM SavedFilesFit == Spec => []SavedFits
<1>1. EditorInv => SavedFits
    BY DEF EditorInv, FileInv, SavedFits
<1> QED BY <1>1, EditorInductive, PTL

(* RulesUpload runs past its rows only on a file of another origin.         *)
THEOREM OverrunForeign == Spec => []OverrunOnlyForeign
<1>1. EditorInv => OverrunOnlyForeign
  <2> SUFFICES ASSUME EditorInv, overrun PROVE ~file.own /\ file \in Foreign
      BY DEF OverrunOnlyForeign
  <2>1. file.rule_count > MAX_RULES /\ file.rule_count \in Nat /\ MAX_RULES \in Nat
      BY Dimensions DEF EditorInv, TypeOK
  <2>2. ~(file.rule_count <= MAX_RULES)
      BY <2>1
  <2> QED BY <2>2, Dimensions DEF EditorInv, FileInv
<1> QED BY <1>1, EditorInductive, PTL

-----------------------------------------------------------------------------
(* The sheet of what is kept, shown and scrolled to (Synchronize).          *)
Down(rs, p, q) ==
    [i \in Row |-> IF i - q \in 1 .. RULE_PAGE_SZ THEN Stored(p[i - q]) ELSE rs[i]]
Meanings(rs) == [i \in Row |-> Meaning(rs[i])]

(* The sheet is what the rows say once the page is stored under them.       *)
LEMMA SheetDown ==
    /\ SynchronizeDown(Rules) = Down(Rules, page, pos)
    /\ Sheet = Meanings(Down(Rules, page, pos))
    /\ Sheet' = Meanings(Down(Rules', page', pos'))
<1>1. SynchronizeDown(Rules) = Down(Rules, page, pos)
    BY DEF SynchronizeDown, Down, OnPage
<1>2. SynchronizeDown(Rules)' = Down(Rules', page', pos')
    BY DEF SynchronizeDown, Down, OnPage
<1>3. Sheet = Meanings(SynchronizeDown(Rules))
    BY DEF Sheet, Meanings
<1>4. Sheet' = Meanings(SynchronizeDown(Rules)')
    BY DEF Sheet, Meanings
<1> QED BY <1>1, <1>2, <1>3, <1>4

(* A row says nothing, or cannot be read, or says a rule (RulesDownload).   *)
LEMMA MeaningKind ==
    ASSUME NEW r \in StoredRow
    PROVE  /\ Meaning(r) \in Rule \cup {NoRow, BadRow}
           /\ Meaning(r) = NoRow <=> r.Proto = Empty.Proto
           /\ Meaning(r) = BadRow <=> Malformed(r.Proto)
           /\ ~Malformed(r.Proto) /\ r.Proto # Empty.Proto => Meaning(r) = Compiled(r)
           /\ Compiled(r) \in Rule
<1>1. Compiled(r) \in Rule
    BY CompiledWritable DEF Writable
<1>2. NoRow \notin Rule /\ BadRow \notin Rule /\ NoRow # BadRow
  <2>1. NoRow # BadRow
      BY DEF NoRow, BadRow
  <2>2. \A e \in Rule : DOMAIN e = {"ether", "proto", "dport", "scale", "tb"}
      BY DEF Rule
  <2>3. DOMAIN NoRow = {"row"} /\ DOMAIN BadRow = {"row"}
      BY DEF NoRow, BadRow
  <2>4. {"row"} # {"ether", "proto", "dport", "scale", "tb"}
      OBVIOUS
  <2> QED BY <2>1, <2>2, <2>3, <2>4
<1>3. ~Malformed(Empty.Proto)
  <2>1. Empty.Proto.name = NoName /\ Empty.Proto.digits = << >>
      BY DEF Empty
  <2> QED BY <2>1 DEF Malformed
<1>4. /\ r.Proto = Empty.Proto => Meaning(r) = NoRow
      /\ r.Proto # Empty.Proto /\ Malformed(r.Proto) => Meaning(r) = BadRow
      /\ r.Proto # Empty.Proto /\ ~Malformed(r.Proto) => Meaning(r) = Compiled(r)
    BY DEF Meaning
<1> QED BY <1>1, <1>2, <1>3, <1>4

(* Rows that fit say something each.                                        *)
LEMMA MeaningsFit ==
    ASSUME NEW rs \in [Row -> StoredRow], NEW i \in Row
    PROVE  /\ Meanings(rs)[i] = Meaning(rs[i]) /\ rs[i] \in StoredRow
           /\ Meanings(rs)[i] \in Rule \cup {NoRow, BadRow}
BY MeaningKind DEF Meanings

(* What the promise calls the filled rows are those RulesDownload reads.    *)
LEMMA FilledUsed ==
    ASSUME TypeOK
    PROVE  Promise!Filled = Used(SynchronizeDown(Rules))
<1> DEFINE rs == SynchronizeDown(Rules)
<1>1. rs \in [Row -> StoredRow] /\ Sheet = Meanings(rs)
    BY SynchronizeFits, SheetDown
<1> HIDE DEF rs
<1>2. \A i \in Row : /\ Sheet[i] = NoRow <=> rs[i].Proto = Empty.Proto
                     /\ Sheet[i] = BadRow <=> Malformed(rs[i].Proto)
  <2> SUFFICES ASSUME NEW i \in Row
               PROVE  /\ Sheet[i] = NoRow <=> rs[i].Proto = Empty.Proto
                      /\ Sheet[i] = BadRow <=> Malformed(rs[i].Proto)
      OBVIOUS
  <2> QED BY <1>1, MeaningsFit, MeaningKind
<1>3. Promise!Filled = {i \in Row : Sheet[i] # NoRow /\ \A j \in 1 .. i : Sheet[j] # BadRow}
    BY DEF Promise!Filled, Row
<1>4. Used(rs) = {i \in Row : /\ rs[i].Proto # Empty.Proto
                              /\ \A j \in Row : Malformed(rs[j].Proto) => i < j}
    BY DEF Used, Read
<1>5. ASSUME NEW i \in Row
      PROVE  (\A j \in 1 .. i : Sheet[j] # BadRow)
               <=> (\A j \in Row : Malformed(rs[j].Proto) => i < j)
  <2>1. i \in Int /\ \A j \in Row : j \in Int /\ (i < j <=> j \notin 1 .. i)
      BY Dimensions DEF Row
  <2>2. \A j \in 1 .. i : j \in Row
      BY Dimensions DEF Row
  <2> QED BY <1>2, <2>1, <2>2
<1>6. ASSUME NEW i
      PROVE  i \in Promise!Filled <=> i \in Used(rs)
    BY <1>2, <1>3, <1>4, <1>5
<1> QED BY <1>6 DEF rs


(* The rules of the promise are those RulesDownload writes.                 *)
LEMMA RulesAgree ==
    ASSUME TypeOK
    PROVE  Promise!Rules = RulesDownload(SynchronizeDown(Rules))
<1> DEFINE rs == SynchronizeDown(Rules)
           S == Used(rs)
           c == Cardinality(S)
<1>1. rs \in [Row -> StoredRow] /\ Sheet = Meanings(rs)
    BY SynchronizeFits, SheetDown
<1>2. Promise!Filled = S
    BY FilledUsed
<1>3. S \in SUBSET (1 .. MAX_RULES)
    BY DEF Used, Read, Row
<1>4. c \in Nat /\ \A k \in 1 .. c : Nth(S, k) \in S
    BY <1>3, NthRow, Dimensions
<1>5. \A T : Promise!Cardinality(T) = Cardinality(T)
    BY DEF Promise!Cardinality, Cardinality
<1>6. \A T, k : Promise!Nth(T, k) = Nth(T, k)
    BY <1>5 DEF Promise!Nth, Nth
<1>7. Promise!Rules = [k \in 1 .. c |-> Sheet[Nth(S, k)]]
    BY <1>2, <1>5, <1>6 DEF Promise!Rules
<1>8. ASSUME NEW k \in 1 .. c
      PROVE  Sheet[Nth(S, k)] = Compiled(rs[Nth(S, k)])
  <2> DEFINE i == Nth(S, k)
  <2>1. i \in S
      BY <1>4
  <2> HIDE DEF i
  <2>2. i \in Row /\ rs[i].Proto # Empty.Proto /\ ~Malformed(rs[i].Proto)
    <3>1. i \in Row /\ rs[i].Proto # Empty.Proto /\ (Malformed(rs[i].Proto) => i < i)
        BY <2>1 DEF Used, Read
    <3>2. ~(i < i)
        BY <3>1, Dimensions DEF Row
    <3> QED BY <3>1, <3>2
  <2> HIDE DEF rs
  <2>3. Sheet[i] = Compiled(rs[i])
      BY <1>1, <2>2, MeaningsFit, MeaningKind
  <2> QED BY <2>3 DEF i
<1>9. RulesDownload(rs) = [k \in 1 .. c |-> Compiled(rs[Nth(S, k)])]
    BY DEF RulesDownload
<1> HIDE DEF rs, S, c
<1>10. Promise!Rules = RulesDownload(rs)
    BY <1>7, <1>8, <1>9
<1> QED BY <1>10 DEF rs

(* Rules with different signatures are different (SaveNtfeConfiguration).   *)
LEMMA SeededDiffer ==
    ASSUME NEW l \in Seq(Rule),
           IsInjective([k \in DOMAIN l |-> <<l[k].ether, l[k].proto, l[k].dport>>])
    PROVE  Promise!IsInjective(l)
<1> DEFINE s == [k \in DOMAIN l |-> <<l[k].ether, l[k].proto, l[k].dport>>]
<1>1. \A a, b \in DOMAIN s : s[a] = s[b] => a = b
    BY DEF IsInjective
<1>2. ASSUME NEW a \in DOMAIN l, NEW b \in DOMAIN l, l[a] = l[b]
      PROVE  a = b
  <2>1. s[a] = s[b]
      BY <1>2
  <2> HIDE DEF s
  <2>2. DOMAIN s = DOMAIN l
      BY DEF s
  <2> QED BY <1>1, <2>1, <2>2
<1> QED BY <1>2 DEF Promise!IsInjective

(* A file written in full holds what was written, whatever stays behind it. *)
LEMMA WrittenContents ==
    ASSUME TypeOK, NEW l \in Seq(Rule), file' = Written(l, Len(l))
    PROVE  Contents(file') = l /\ file'.own = TRUE
<1> DEFINE n == Len(l)
           ect == SubSeq(l, 1, n) \o SubSeq(file.ect, n + 1, Len(file.ect))
<1>1. file'.ect = ect /\ file'.rule_count = n /\ file'.own = (n = Len(l))
    BY DEF Written
<1>2. n \in Nat /\ n \in 0 .. Len(l) /\ file.ect \in Seq(Rule)
    BY DEF TypeOK
<1>3. \A i \in 1 .. n : i \in DOMAIN ect /\ ect[i] = l[i]
    BY <1>2, Overwritten, ZenonT(60)
<1> HIDE DEF ect
<1>4. Contents(file') = [i \in 1 .. n |-> l[i]]
    BY <1>1, <1>3 DEF Contents
<1>5. l = [i \in 1 .. n |-> l[i]]
    OBVIOUS
<1> QED BY <1>1, <1>4, <1>5

(* Turning its text to small letters does not change what a row says.       *)
LEMMA LoweredMeaning ==
    ASSUME NEW rs \in [Row -> StoredRow], NEW i \in Row
    PROVE  Meaning(Lowered(rs)[i]) = Meaning(rs[i])
<1> DEFINE r == rs[i]
           t == r.Proto
           n == t.name
           low == [name |-> Folded[n], digits |-> t.digits]
           s == [Proto |-> low, Port |-> r.Port, Cost |-> r.Cost, Meter |-> r.Meter]
<1>1. /\ r \in StoredRow /\ t \in Text /\ n \in DOMAIN Folded
      /\ t = [name |-> n, digits |-> t.digits]
      /\ r = [Proto |-> t, Port |-> r.Port, Cost |-> r.Cost, Meter |-> r.Meter]
    BY DEF StoredRow, Text
<1>2. Lowered(rs)[i] = r \/ Lowered(rs)[i] = s
  <2>1. [r EXCEPT !.Proto.name = Folded[@]] = s
    <3> HIDE DEF r
    <3> QED BY <1>1
  <2>2. Lowered(rs)[i] = r \/ Lowered(rs)[i] = [rs[i] EXCEPT !.Proto.name = Folded[@]]
      BY DEF Lowered
  <2> QED BY <2>1, <2>2
<1>3. /\ Folded[n] \in DOMAIN Folded /\ Folded[Folded[n]] = Folded[n]
      /\ Folded[n] = NoName <=> n = NoName
    BY <1>1, NamesAssumption
<1>4. low = Empty.Proto <=> t = Empty.Proto
  <2>1. Empty.Proto = [name |-> NoName, digits |-> << >>]
      BY DEF Empty
  <2>2. low.name = Folded[n] /\ low.digits = t.digits
      OBVIOUS
  <2> DEFINE d == t.digits
  <2>3. low = [name |-> Folded[n], digits |-> d] /\ t = [name |-> n, digits |-> d]
      BY <1>1
  <2> HIDE DEF low, t, n, d
  <2>4. low = Empty.Proto <=> Folded[n] = NoName /\ d = << >>
      BY <2>1, <2>3
  <2>5. t = Empty.Proto <=> n = NoName /\ d = << >>
      BY <2>1, <2>3
  <2> QED BY <1>3, <2>4, <2>5
<1>5. Malformed(low) <=> Malformed(t)
    BY <1>3 DEF Malformed, IsName
<1>6. Protocol(low) = Protocol(t)
    BY <1>3 DEF Protocol
<1>7. Compiled(s) = Compiled(r)
  <2>1. /\ s.Proto = low /\ s.Port = r.Port /\ s.Cost = r.Cost /\ s.Meter = r.Meter
        /\ low.name = Folded[n]
      OBVIOUS
  <2> HIDE DEF low, s
  <2> QED BY <1>3, <1>6, <2>1 DEF Compiled
<1>8. s.Proto = low
    OBVIOUS
<1> HIDE DEF low, s
<1>9. Meaning(s) = Meaning(r)
    BY <1>4, <1>5, <1>7, <1>8 DEF Meaning
<1> QED BY <1>2, <1>9


(* Load: the rows of a file that was saved in full are its rules.           *)
LEMMA LoadOpens ==
    ASSUME EditorInv, Load
    PROVE  Promise!Open \/ UNCHANGED Promise!vars
<1>1. TypeOK /\ FileInv /\ ~open /\ file' = file
    BY DEF EditorInv, Load
<1>2. CASE overrun' = TRUE /\ UNCHANGED <<Rules, page, pos, open>>
  <2>1. Sheet' = Sheet
      BY <1>2, SheetDown
  <2>2. Contents(file') = Contents(file) /\ file'.own = file.own
      BY <1>1
  <2> QED BY <1>2, <2>1, <2>2 DEF Promise!vars
<1>3. CASE /\ \/ file.rule_count <= MAX_RULES /\ Rules' = Uploaded(file)
              \/ Rules' = [i \in Row |-> Empty]
           /\ page' = SynchronizeUp(Rules', 0) /\ pos' = 0 /\ open' = TRUE
  <2> DEFINE Stays(i) == IF i \in DOMAIN Contents(file) THEN Contents(file)[i] ELSE NoRow
  <2>1. Rules' \in [Row -> StoredRow]
      BY <1>1, <1>3, UploadFits, EmptyRow
  <2>2. Down(Rules', page', pos') = Rules'
    <3>1. ASSUME NEW i \in Row
          PROVE  (IF i - 0 \in 1 .. RULE_PAGE_SZ
                  THEN Stored(SynchronizeUp(Rules', 0)[i - 0]) ELSE Rules'[i]) = Rules'[i]
      <4>1. i - 0 = i /\ 0 + i = i
          BY Dimensions DEF Row
      <4>2. i \in 1 .. RULE_PAGE_SZ => SynchronizeUp(Rules', 0)[i] = Rules'[i]
          BY <4>1 DEF SynchronizeUp
      <4>3. Stored(Rules'[i]) = Rules'[i]
          BY <2>1, StoredFits, RowsShow
      <4> QED BY <4>1, <4>2, <4>3
    <3>2. Rules' = [i \in Row |-> Rules'[i]]
        BY <2>1
    <3> QED BY <1>3, <3>1, <3>2 DEF Down
  <2>3. Sheet' = Meanings(Rules')
      BY <2>2, SheetDown
  <2>4. CASE Rules' = [i \in Row |-> Empty]
    <3>1. Meaning(Empty) = NoRow
        BY EmptyRow, MeaningKind
    <3>2. Sheet' = Promise!Blank
        BY <2>3, <2>4, <3>1 DEF Promise!Blank, Meanings, Row
    <3> QED BY <1>1, <1>3, <3>2 DEF Promise!Open
  <2>5. CASE Rules' = Uploaded(file) /\ file.own
    <3>1. /\ file.rule_count \in Nat
          /\ \A i \in 1 .. file.rule_count :
               i \in DOMAIN file.ect /\ Readable(file.ect[i])
        BY <1>1, <2>5 DEF FileInv, TypeOK
    <3>2. ASSUME NEW i \in Row
          PROVE  Meaning(Uploaded(file)[i]) = Stays(i)
      <4>1. i \in 1 .. file.rule_count <=> i <= file.rule_count
          BY <3>1, Dimensions DEF Row
      <4>2. CASE i <= file.rule_count
        <5>1. Stays(i) = file.ect[i]
            BY <3>1, <4>1, <4>2 DEF Contents
        <5>2. Uploaded(file)[i] = Shown(file.ect[i])
            BY <3>1, <4>1, <4>2 DEF Uploaded, Contents
        <5>3. Stored(Uploaded(file)[i]) = Uploaded(file)[i]
            BY <2>1, <2>5, StoredFits, RowsShow
        <5> HIDE DEF Stays
        <5> QED BY <3>1, <4>1, <4>2, <5>1, <5>2, <5>3 DEF Readable
      <4>3. CASE ~(i <= file.rule_count)
        <5>1. Stays(i) = NoRow
            BY <4>1, <4>3 DEF Contents
        <5>2. Uploaded(file)[i] = Empty
            BY <4>3 DEF Uploaded
        <5> HIDE DEF Stays
        <5> QED BY <5>1, <5>2, EmptyRow, MeaningKind
      <4> QED BY <4>2, <4>3
    <3>3. Sheet' = [i \in 1 .. MAX_RULES |-> Stays(i)]
      <4>1. Meanings(Rules') = [i \in Row |-> Meaning(Uploaded(file)[i])]
          BY <2>5 DEF Meanings
      <4> HIDE DEF Stays
      <4> QED BY <2>3, <3>2, <4>1 DEF Row
    <3> QED BY <1>1, <1>3, <3>3 DEF Promise!Open
  <2>6. CASE ~file.own
      BY <1>1, <1>3, <2>6 DEF Promise!Open
  <2> QED BY <1>3, <2>4, <2>5, <2>6
<1> QED BY <1>2, <1>3 DEF Load

(* Type: one row of the sheet is typed over.                                *)
LEMMA TypeEdits ==
    ASSUME TypeOK, Type
    PROVE  Promise!Edit
<1>1. PICK k \in 1 .. RULE_PAGE_SZ, c \in Typed : page' = [page EXCEPT ![k] = c]
    BY DEF Type
<1>2. open /\ UNCHANGED <<Rules, pos, file, open, overrun>>
    BY DEF Type
<1>3. /\ page \in [1 .. RULE_PAGE_SZ -> Control] /\ c \in Control
      /\ Rules \in [Row -> StoredRow] /\ pos \in 0 .. MAX_RULES - RULE_PAGE_SZ
    BY Dimensions DEF TypeOK, Control
<1> DEFINE i == pos + k
           old == Down(Rules, page, pos)
           new == Down(Rules, page', pos)
<1>4. i \in Row /\ i \in Int /\ pos \in Int /\ i - pos = k
    BY <1>3, Dimensions DEF Row
<1>5. \A j \in Row : j - pos = k => j = i
    BY <1>3, Dimensions DEF Row
<1>6. ASSUME NEW j \in Row, j # i
      PROVE  new[j] = old[j]
    BY <1>1, <1>3, <1>5, <1>6 DEF Down
<1>7. new[i] = Stored(c)
    BY <1>1, <1>3, <1>4 DEF Down
<1>8. Meaning(Stored(c)) \in Rule \cup {NoRow, BadRow}
    BY <1>3, StoredFits, MeaningKind
<1>9. Sheet = Meanings(old) /\ Sheet' = Meanings(new)
    BY <1>2, SheetDown
<1> HIDE DEF i, old, new
<1>10. \A j \in (1 .. MAX_RULES) \ {i} : Sheet'[j] = Sheet[j]
  <2> SUFFICES ASSUME NEW j \in Row, j # i PROVE Meanings(new)[j] = Meanings(old)[j]
      BY <1>9 DEF Row
  <2> QED BY <1>6 DEF Meanings
<1>11. Sheet'[i] \in Rule \cup {NoRow, BadRow}
    BY <1>4, <1>7, <1>8, <1>9 DEF Meanings
<1>12. i \in 1 .. MAX_RULES
    BY <1>4 DEF Row
<1> QED BY <1>2, <1>10, <1>11, <1>12 DEF Promise!Edit

(* Scroll: no row of the sheet is lost or displaced.                        *)
LEMMA ScrollKeeps ==
    ASSUME TypeOK, NEW p \in -RULE_PAGE_SZ .. MAX_RULES, Scroll(p)
    PROVE  UNCHANGED Promise!vars
<1> DEFINE rs == Down(Rules, page, pos)
<1>1. /\ Rules' = rs /\ page' = SynchronizeUp(rs, pos') /\ UNCHANGED <<file, open>>
    BY SheetDown DEF Scroll
<1>2. rs \in [Row -> StoredRow] /\ pos' \in 0 .. MAX_RULES - RULE_PAGE_SZ
    BY SynchronizeFits, SheetDown, ScrollRange DEF Scroll
<1>3. Sheet = Meanings(rs) /\ Sheet' = Meanings(Down(Rules', page', pos'))
    BY SheetDown
<1> HIDE DEF rs
<1>4. ASSUME NEW i \in Row
      PROVE  (IF i - pos' \in 1 .. RULE_PAGE_SZ THEN Stored(page'[i - pos']) ELSE Rules'[i])
               = rs[i]
  <2>1. pos' + (i - pos') = i
    <3>1. i \in Int /\ pos' \in Int
        BY <1>2, Dimensions DEF Row
    <3> DEFINE q == pos'
    <3>2. q \in Int
        BY <3>1
    <3> HIDE DEF q
    <3>3. q + (i - q) = i
        BY <3>1, <3>2
    <3> QED BY <3>3 DEF q
  <2> DEFINE k == i - pos'
  <2>2. k \in 1 .. RULE_PAGE_SZ => page'[k] = rs[i]
    <3>1. pos' + k = i
        BY <2>1
    <3>2. page' = [m \in 1 .. RULE_PAGE_SZ |-> rs[pos' + m]]
        BY <1>1 DEF SynchronizeUp
    <3> HIDE DEF k
    <3> QED BY <3>1, <3>2
  <2>3. Stored(rs[i]) = rs[i]
      BY <1>2, StoredFits, RowsShow
  <2> QED BY <1>1, <2>2, <2>3
<1>5. Down(Rules', page', pos') = rs
  <2>1. rs = [i \in Row |-> rs[i]]
      BY <1>2
  <2> QED BY <1>4, <2>1 DEF Down
<1> QED BY <1>1, <1>3, <1>5 DEF Promise!vars


(* Save: the sheet stays, and the file has its rules or is torn.            *)
LEMMA SaveSaves ==
    ASSUME EditorInv, Save
    PROVE  Promise!Save \/ Promise!Tear \/ UNCHANGED Promise!vars
<1> DEFINE rs == Down(Rules, page, pos)
           l == RulesDownload(rs)
           new == Down(Rules', page', pos')
           Seeded == IsInjective([k \in DOMAIN l |-> <<l[k].ether, l[k].proto, l[k].dport>>])
<1>1. TypeOK /\ TypeOK'
    BY EditorStep DEF EditorInv, Next
<1>2. /\ open /\ open' = open /\ page' = page /\ pos' = pos
      /\ Rules' = Lowered(rs)
      /\ file' = file \/ (Seeded /\ \E k \in 0 .. Len(l) : file' = Written(l, k))
    BY SheetDown DEF Save
<1>3. rs \in [Row -> StoredRow] /\ Sheet = Meanings(rs) /\ Sheet' = Meanings(new)
    BY <1>1, SynchronizeFits, SheetDown
<1>4. Sheet' = Sheet
  <2>1. ASSUME NEW i \in Row
        PROVE  Meaning(new[i]) = Meaning(rs[i])
    <3>1. CASE i - pos \in 1 .. RULE_PAGE_SZ
      <4>1. new[i] = rs[i]
          BY <1>2, <3>1 DEF Down
      <4> QED BY <4>1
    <3>2. CASE i - pos \notin 1 .. RULE_PAGE_SZ
      <4>1. new[i] = Lowered(rs)[i]
          BY <1>2, <3>2 DEF Down
      <4> HIDE DEF rs, new
      <4> QED BY <1>3, <4>1, LoweredMeaning
    <3> QED BY <3>1, <3>2
  <2> HIDE DEF rs, new
  <2> QED BY <1>3, <2>1 DEF Meanings
<1>5. l \in Seq(Rule) /\ Len(l) \in Nat /\ Promise!Rules = l
    BY <1>1, <1>3, DownloadFits, RulesAgree, SheetDown
<1>6. CASE file' = file
    BY <1>2, <1>4, <1>6 DEF Promise!vars
<1>7. ASSUME Seeded, NEW k \in 0 .. Len(l), file' = Written(l, k)
      PROVE  Promise!Save \/ Promise!Tear
  <2> HIDE DEF rs, l
  <2>1. CASE k = Len(l)
    <3>1. Contents(file') = l /\ file'.own = TRUE
        BY <1>1, <1>5, <1>7, <2>1, WrittenContents
    <3>2. Promise!IsInjective(l)
        BY <1>5, <1>7, SeededDiffer
    <3> QED BY <1>2, <1>4, <1>5, <3>1, <3>2 DEF Promise!Save
  <2>2. CASE k # Len(l)
    <3>1. ~file'.own
        BY <1>7, <2>2 DEF Written
    <3>2. Contents(file') \in Seq(Rule)
        BY <1>1, ContentsFit DEF TypeOK
    <3> QED BY <1>2, <1>4, <3>1, <3>2 DEF Promise!Tear
  <2> QED BY <2>1, <2>2
<1> QED BY <1>2, <1>6, <1>7

(* The rule editor is a sheet of rows, whatever is typed, scrolled, saved   *)
(* and loaded again.                                                        *)
THEOREM EditorIsSheet == Spec => ImplementsSheet
<1>1. Init => Promise!Init
  <2> SUFFICES ASSUME Init PROVE Promise!Init
      OBVIOUS
  <2>1. TypeOK /\ ~file.own
    <3>1. EditorInv
        BY EditorStart
    <3>2. file = NoFile \/ file \in Foreign
        BY DEF Init
    <3>3. NoFile.own = FALSE
        BY DEF NoFile
    <3>4. ~file.own
        BY <3>2, <3>3, Dimensions
    <3> QED BY <3>1, <3>4 DEF EditorInv
  <2>2. Sheet = Promise!Blank
    <3>1. ASSUME NEW i \in Row
          PROVE  Down(Rules, page, pos)[i] = Empty
      <4> DEFINE k == i - pos
      <4>1. page = [m \in 1 .. RULE_PAGE_SZ |-> Empty] /\ Rules = [j \in Row |-> Empty]
          BY DEF Init
      <4>2. Down(Rules, page, pos)[i]
              = IF k \in 1 .. RULE_PAGE_SZ THEN Stored(page[k]) ELSE Rules[i]
          BY DEF Down
      <4> HIDE DEF k
      <4>3. k \in 1 .. RULE_PAGE_SZ => page[k] = Empty
          BY <4>1
      <4>4. Rules[i] = Empty
          BY <4>1
      <4> QED BY <4>2, <4>3, <4>4, EmptyRow
    <3>2. Meaning(Empty) = NoRow
        BY EmptyRow, MeaningKind
    <3> QED BY <3>1, <3>2, SheetDown DEF Meanings, Promise!Blank, Row
  <2>3. Contents(file) \in Seq(Rule)
      BY <2>1, ContentsFit DEF TypeOK
  <2> QED BY <2>1, <2>2, <2>3 DEF Init, Promise!Init
<1>2. EditorInv /\ [Next]_vars => [Promise!Next]_(Promise!vars)
  <2> SUFFICES ASSUME EditorInv, [Next]_vars PROVE Promise!Next \/ UNCHANGED Promise!vars
      OBVIOUS
  <2>1. TypeOK
      BY DEF EditorInv
  <2>2. CASE Load
      BY <2>2, LoadOpens DEF Promise!Next
  <2>3. CASE Type
      BY <2>1, <2>3, TypeEdits DEF Promise!Next
  <2>4. ASSUME NEW p \in -RULE_PAGE_SZ .. MAX_RULES, Scroll(p)
        PROVE  UNCHANGED Promise!vars
      BY <2>1, <2>4, ScrollKeeps
  <2>5. CASE Save
      BY <2>5, SaveSaves DEF Promise!Next
  <2>6. CASE Quit
    <3>1. open /\ open' = FALSE /\ UNCHANGED <<Rules, page, pos, file>>
        BY <2>6 DEF Quit
    <3>2. Sheet' = Sheet
        BY <3>1, SheetDown
    <3> QED BY <3>1, <3>2 DEF Promise!Close, Promise!Next
  <2>7. CASE UNCHANGED vars
    <3>1. UNCHANGED <<Rules, page, pos, file, open>>
        BY <2>7 DEF vars
    <3>2. Sheet' = Sheet
        BY <3>1, SheetDown
    <3> QED BY <3>1, <3>2 DEF Promise!vars
  <2> QED BY <2>2, <2>3, <2>4, <2>5, <2>6, <2>7 DEF Next
<1> QED BY <1>1, <1>2, EditorInductive, PTL DEF Spec, ImplementsSheet, Promise!Spec

=============================================================================
