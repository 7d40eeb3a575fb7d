-------------------------------- MODULE MCSSP --------------------------------
(***************************************************************************)
(* SSPModel for TLC.                                                       *)
(***************************************************************************)
EXTENDS SSPModel, TLC

GarbageClocks == {-7, 0, 5}

Symmetry == Permutations(Tid)
=============================================================================
