---------------------------- MODULE HostPoolMC -----------------------------
(***************************************************************************)
(* Model checking of HostPool.  CPUs are interchangeable.                   *)
(***************************************************************************)
EXTENDS HostPool, TLC

Symmetry == Permutations(CPU)
=============================================================================
