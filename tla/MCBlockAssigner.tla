--------------------------- MODULE MCBlockAssigner ---------------------------
(* A small instance of BlockAssigner for TLC. *)
EXTENDS BlockAssigner, TLC

CONSTANTS l1, l2, l3, h1, h2

\* The master and two more nodes, which share a machine.
SharedHost == l1 :> h1 @@ l2 :> h2 @@ l3 :> h2
=============================================================================
