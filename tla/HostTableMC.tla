---------------------------- MODULE HostTableMC ----------------------------
(***************************************************************************)
(* Model checking of HostTable.  CPUs and addresses are interchangeable.    *)
(***************************************************************************)
EXTENDS HostTable, TLC

Symmetry == Permutations(CPU) \cup Permutations(Addr)
=============================================================================
