----------------------------- MODULE MCModules -----------------------------
(* Small instances of Modules for TLC: threads that look for literals in one *)
(* module, globals of several modules, and functions of several modules.     *)
EXTENDS Modules, TLC

MCDataSize(d) == 1

CONSTANTS One, Two    \* a thread that is alone, and two that are not

Bound(threads, modules, processes, data, globals_, functions_, linked) ==
    [threads |-> threads, modules |-> modules, processes |-> processes, data |-> data,
     globals |-> globals_, functions |-> functions_, linked |-> linked]

MCBounds ==
    {Bound(Two, {Main}, {}, Data, 3, 0, 0),             \* literals of one module
     Bound(One, Modules, Processes, {}, 3, 0, 2),       \* globals of several modules
     Bound(One, Modules, {}, {}, 0, 3, 2),              \* functions of several modules
     Bound(Two, {Main}, {}, {}, 0, 2, 0)}               \* functions of one module

Symmetry == Permutations(Processes) \cup Permutations(Submodules) \cup Permutations(Two) \cup Permutations(Data)
=============================================================================
