---------------------------- MODULE Reachability ----------------------------
(***************************************************************************)
(* What lauf_runtime_gc promises (include/lauf/runtime/memory.h): it frees *)
(* all heap allocations and fibers that are not reachable, and nothing     *)
(* else.  The state is the graph of who refers to whom, however the        *)
(* implementation represents it, and a collection is a single step.        *)
(***************************************************************************)
CONSTANTS
    Entries,        \* slots of the allocation table
    Collectable     \* those for heap memory and for fibers

VARIABLES
    live,       \* entries that have been created and not been freed
    split,      \* entries that are a piece of an allocation
    pinned,     \* entries that are reachable by declaration, or always
    held,       \* entries referred to by the current fiber and the stacks of all fibers
    refs,       \* entries referred to by the memory of each entry, none if it is weak
    collecting  \* gc has been called and has not returned

vars == <<live, split, pinned, held, refs, collecting>>

Init ==
    /\ live \in SUBSET Entries
    /\ split = {}
    /\ pinned \in SUBSET Entries
    /\ held \in SUBSET Entries
    /\ refs \in [Entries -> SUBSET Entries]
    /\ collecting = FALSE

(* The sets of entries a program that starts in roots never leaves.          *)
ClosedFrom(roots) ==
    {S \in SUBSET Entries : roots \subseteq S /\ \A e \in S : refs[e] \cap live \subseteq S}

Reachable == {e \in Entries : \A S \in ClosedFrom((held \cup pinned) \cap live) : e \in S}

Garbage == ((live \cap Collectable) \ split) \ Reachable

(* The program writes to memory, creates an entry, frees one, and so on.     *)
Program ==
    /\ ~collecting
    /\ \E e \in Entries : live' \in {live, live \cup {e}, live \ {e}}
    /\ split' \in SUBSET Entries
    /\ pinned' \in SUBSET Entries
    /\ held' \in SUBSET Entries
    /\ refs' \in [Entries -> SUBSET Entries]
    /\ collecting' = FALSE

Begin ==
    /\ ~collecting
    /\ collecting' = TRUE
    /\ UNCHANGED <<live, split, pinned, held, refs>>

(* The garbage goes, with the stacks of the fibers in it, and the memory of  *)
(* the other entries is untouched.                                           *)
Collect ==
    /\ collecting
    /\ live' = live \ Garbage
    /\ held' \in SUBSET held
    /\ refs' \in [Entries -> SUBSET Entries]
    /\ \A e \in live' : refs'[e] = refs[e]
    /\ collecting' = FALSE
    /\ UNCHANGED <<split, pinned>>

Next == Program \/ Begin \/ Collect

Spec == Init /\ [][Next]_vars
=============================================================================
