---------------------------- MODULE MCCollector ----------------------------
(* Small instances of Collector for TLC. *)
EXTENDS Collector, TLC

CONSTANTS f1, f2, h1, h2, g

(* The handle of f2, and addresses at the start and at the end of heap       *)
(* memory, the end being beyond the end once the memory has been split.      *)
MCWords == [to : {f2}, offset : {0}] \cup [to : Heap, offset : {0, Size}]

Alike == Permutations(Heap)

MCLeftovers == {{}, MCWords}
=============================================================================
