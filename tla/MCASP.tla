-------------------------------- MODULE MCASP --------------------------------
(* A small instance of ASPModel for TLC. *)
EXTENDS ASPModel, TLC

\* Values for the uninitialised min_clock_.
GarbageClocks == {-7, 5}

Symmetry == Permutations(Tid) \cup Permutations(Key)
=============================================================================
