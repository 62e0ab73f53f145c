----------------------------- MODULE RuleSheet ------------------------------
(***************************************************************************)
(* What the rule editor promises its user: a sheet of rows, as if all of   *)
(* them were on the screen.  Opening fills it from the file, and saving    *)
(* writes it, from the top down to the first row that is malformed, and    *)
(* without the rows that are empty.                                        *)
(***************************************************************************)
EXTENDS Naturals, Sequences, FiniteSets, Functions

CONSTANTS MaxRules, Rule, NoRow, BadRow

VARIABLES
    sheet,
    stored,   \* the rules in the file
    intact,   \* it was saved here, in full
    open      \* the program runs

vars == <<sheet, stored, intact, open>>

Blank == [i \in 1 .. MaxRules |-> NoRow]

(* The rows that are saved, and the k-th of them from the top. *)
Filled == {i \in 1 .. MaxRules :
             sheet[i] # NoRow /\ \A j \in 1 .. i : sheet[j] # BadRow}
Nth(S, k) == CHOOSE i \in S : Cardinality({j \in S : j <= i}) = k
Rules == [k \in 1 .. Cardinality(Filled) |-> sheet[Nth(Filled, k)]]

Init == sheet = Blank /\ stored \in Seq(Rule) /\ ~intact /\ ~open

(* A row is typed over. *)
Edit ==
    /\ open
    /\ \E i \in 1 .. MaxRules :
         /\ \A j \in 1 .. MaxRules \ {i} : sheet'[j] = sheet[j]
         /\ sheet'[i] \in Rule \cup {NoRow, BadRow}
    /\ UNCHANGED <<stored, intact, open>>

(* The file is written, if no rule is there twice; or the writing fails     *)
(* half-way, and nothing is known of the file.                              *)
Save ==
    /\ open /\ IsInjective(Rules)
    /\ stored' = Rules /\ intact'
    /\ UNCHANGED <<sheet, open>>
Tear == open /\ ~intact' /\ stored' \in Seq(Rule) /\ UNCHANGED <<sheet, open>>

(* The file is read, or cannot be. *)
Open ==
    /\ ~open /\ open'
    /\ intact => sheet' \in {Blank, [i \in 1 .. MaxRules |->
                                       IF i \in DOMAIN stored THEN stored[i] ELSE NoRow]}
    /\ UNCHANGED <<stored, intact>>
Close == open /\ ~open' /\ UNCHANGED <<sheet, stored, intact>>

Next == Edit \/ Save \/ Tear \/ Open \/ Close
Spec == Init /\ [][Next]_vars
=============================================================================
