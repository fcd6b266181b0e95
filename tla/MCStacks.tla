------------------------------ MODULE MCStacks ------------------------------
(* Small instances of Stacks for TLC. *)
EXTENDS Stacks, TLC
=============================================================================
