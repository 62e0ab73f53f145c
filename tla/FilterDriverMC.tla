-------------------------- MODULE FilterDriverMC ---------------------------
(***************************************************************************)
(* Model checking of FilterDriver.                                          *)
(***************************************************************************)
EXTENDS FilterDriver, TLC

Symmetry == Permutations(Adapter) \cup Permutations(Module)
              \cup Permutations(Thread)
=============================================================================
