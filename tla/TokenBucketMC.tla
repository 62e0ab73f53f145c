--------------------------- MODULE TokenBucketMC ----------------------------
(***************************************************************************)
(* Model checking of TokenBucket: two meters of different rates, a rule     *)
(* that charges both, one that charges a single meter twice, and one that   *)
(* charges packets only.  Two CPUs take turns on the host: while one is     *)
(* between two samples of the clock, the other may charge with a later one. *)
(***************************************************************************)
EXTENDS TokenBucket, TLC

CONSTANTS m1, m2

MCRate == m1 :> 1 @@ m2 :> 2
MCCapacity == m1 :> 4 @@ m2 :> 5
MCLevel == m1 :> 1 @@ m2 :> 0
MCRule == {
    [byte_scale |-> 1, packet_scale |-> 1, byte_tb |-> m1, packet_tb |-> m2],
    [byte_scale |-> 2, packet_scale |-> 1, byte_tb |-> m2, packet_tb |-> m2],
    [byte_scale |-> 0, packet_scale |-> 2, byte_tb |-> m2, packet_tb |-> m1]}

Symmetry == Permutations(CPU)
=============================================================================
