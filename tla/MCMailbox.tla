------------------------------ MODULE MCMailbox ------------------------------
(* A small instance of Mailbox for TLC. *)
EXTENDS Mailbox
=============================================================================
