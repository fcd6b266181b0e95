------------------------------ MODULE MCFibers ------------------------------
(* Small instances of Fibers for TLC. *)
EXTENDS Fibers, TLC

Program(arities, disciplined, loses, fibers, calls) ==
    [arities |-> arities, disciplined |-> disciplined, loses |-> loses, fibers |-> fibers, calls |-> calls]

MCPrograms ==
    {Program({0, 1}, FALSE, "any", 2, 2),       \* does whatever it likes
     Program({0, 1}, TRUE, "idle", 3, 2),       \* keeps to the rules
     Program({0}, TRUE, "idle", 3, 3)}          \* keeps to them, and gives no values

MCStalePrograms == {Program({0}, FALSE, "none", 4, 2)}
=============================================================================
