-------------------------------- MODULE MCBSP --------------------------------
(* Small instances of BSPModel for TLC. *)
EXTENDS BSPModel, TLC

\* Values for the uninitialised min_clock_: below, at and above real clocks.
GarbageClocks == {-7, 0, 5}

Symmetry == Permutations(Tid) \cup Permutations(Key)
=============================================================================
