------------------------------ MODULE MCPanics ------------------------------
(* A small instance of Panics for TLC. *)
EXTENDS Panics, TLC
=============================================================================
