----------------------------- MODULE Collector -----------------------------
(***************************************************************************)
(* The garbage collector: lauf_runtime_gc of runtime/memory.cpp, with the  *)
(* declarations that direct it, and what a program does between two        *)
(* collections as far as the collector sees it.                            *)
(*                                                                         *)
(* Memory is what it holds of the words that could be addresses.  A word   *)
(* is an index of the table and an offset; one of another generation       *)
(* refers to nothing, like one that is no address, and is left out.  The   *)
(* stack of a fiber is its value stack together with its frames, and so    *)
(* with its local variables.  Poisoned entries count as allocated.         *)
(***************************************************************************)
EXTENDS Integers, FiniteSets, Sequences

CONSTANTS
    Fibers,     \* slots of the table for fibers
    Heap,       \* slots for heap memory
    Static,     \* slots for globals
    Main,       \* the fiber the process starts with
    Size,       \* size of a global and of a heap allocation
    Words,      \* addresses that the program keeps in memory
    SplitOffsets,   \* offsets at which it splits heap memory
    Leftovers,  \* what the collector may find at a suspension point that is out of date
    MaxWords,   \* bound: addresses in memory
    MaxFlags,   \* bound: declarations in effect
    MaxNested   \* bound: activations of the interpreter below the current one

None == "none"

ASSUME CollectorAssumption ==
    /\ Fibers \cap Heap = {}
    /\ Fibers \cap Static = {}
    /\ Heap \cap Static = {}
    /\ Main \in Fibers
    /\ Size \in Nat
    /\ Words \subseteq [to : Fibers \cup Heap \cup Static, offset : Nat]
    /\ SplitOffsets \subseteq Nat \ {0}
    /\ Leftovers \subseteq SUBSET Words
    /\ None \notin Heap

VARIABLES
    status,     \* allocation::status, and the status of the fiber
    size,       \* allocation::size, 0 for fibers
    next,       \* the piece after each piece of a heap allocation
    gc,         \* allocation::gc
    weak,       \* entries with allocation::is_gc_weak
    words,      \* addresses in the memory of each entry, for a fiber in its stack
    point,      \* addresses on the stack up to the suspension point of each fiber, but cur
    cur,        \* process->cur_fiber
    below,      \* activations that wait, innermost first: caller and callee
    phase,      \* where lauf_runtime_gc is, "run" outside of it
    pending     \* pending_allocations

vars == <<status, size, next, gc, weak, words, point, cur, below, phase, pending>>

Entries   == Fibers \cup Heap \cup Static
Addresses == [to : Entries, offset : Nat]

HeapStatuses  == {"absent", "allocated", "freed"}
FiberStatuses == {"absent", "ready", "suspended", "running", "done", "freed"}

Init ==
    /\ status = [e \in Entries |-> IF e = Main THEN "running"
                                   ELSE IF e \in Static THEN "allocated" ELSE "absent"]
    /\ size = [e \in Entries |-> IF e \in Fibers THEN 0 ELSE Size]
    /\ next = [h \in Heap |-> None]
    /\ gc = [e \in Entries |-> IF e \in Static THEN "reachable_explicit" ELSE "unreachable"]
    /\ weak = {}
    /\ words = [e \in Entries |-> {}]
    /\ point = [f \in Fibers |-> {}]
    /\ cur = Main
    /\ below = <<>>
    /\ phase = "run"
    /\ pending = {}

Exists(e) == status[e] \notin {"absent", "freed"}

IsSplit(h) == next[h] # None \/ \E g \in Heap : next[g] = h

Pinned == {e \in Entries : gc[e] = "reachable_explicit"}

Address(e) == [to |-> e, offset |-> 0]

(* Bounds of the program. *)
WordsInMemory == {m \in Entries \X Words : m[2] \in words[m[1]]}
MayStore      == Cardinality(WordsInMemory) < MaxWords
MayDeclare    == Cardinality(weak) + Cardinality(Pinned \cap Heap) < MaxFlags

-----------------------------------------------------------------------------
(* The program, between two collections *)

(* heap.alloc, which pushes the address.                                     *)
Allocate(h) ==
    /\ phase = "run"
    /\ status[h] = "absent"
    /\ MayStore
    /\ status' = [status EXCEPT ![h] = "allocated"]
    /\ words' = [words EXCEPT ![cur] = @ \cup {Address(h)}]
    /\ UNCHANGED <<size, next, gc, weak, point, cur, below, phase, pending>>

(* heap.free and leak, of an address that may have been computed.            *)
FreeHeap(h) ==
    /\ phase = "run"
    /\ status[h] = "allocated"
    /\ ~IsSplit(h)
    /\ status' = [status EXCEPT ![h] = "freed"]
    /\ words' = [words EXCEPT ![h] = {}]
    /\ UNCHANGED <<size, next, gc, weak, point, cur, below, phase, pending>>

(* The current fiber can write to any memory, and pushes and pops its stack. *)
Accessible == {cur} \cup {e \in Heap \cup Static : Exists(e)}

Store(e, w) ==
    /\ phase = "run"
    /\ e \in Accessible
    /\ status[w.to] # "absent"
    /\ MayStore
    /\ words' = [words EXCEPT ![e] = @ \cup {w}]
    /\ UNCHANGED <<status, size, next, gc, weak, point, cur, below, phase, pending>>

Erase(e, w) ==
    /\ phase = "run"
    /\ e \in Accessible
    /\ w \in words[e]
    /\ words' = [words EXCEPT ![e] = @ \ {w}]
    /\ UNCHANGED <<status, size, next, gc, weak, point, cur, below, phase, pending>>

SplitSizes_swapped(h, p, o) == [size EXCEPT ![h] = o, ![p] = o - size[h]]   \* mutant
SplitSizes(h, p, o) == [size EXCEPT ![h] = o, ![p] = size[h] - o]

(* lauf_runtime_split_allocation at offset o: the new entry p is a copy and  *)
(* gets the words that are behind o.                                         *)
Split(h, p, o, behind) ==
    /\ phase = "run"
    /\ status[h] = "allocated"
    /\ status[p] = "absent"
    /\ o < size[h]
    /\ h \in weak \/ gc[h] = "reachable_explicit" => MayDeclare
    /\ status' = [status EXCEPT ![p] = "allocated"]
    /\ size' = SplitSizes(h, p, o)
    /\ next' = [next EXCEPT ![h] = p, ![p] = next[h]]
    /\ gc' = [gc EXCEPT ![p] = gc[h]]
    /\ weak' = IF h \in weak THEN weak \cup {p} ELSE weak
    /\ words' = [words EXCEPT ![h] = @ \ behind, ![p] = behind]
    /\ UNCHANGED <<point, cur, below, phase, pending>>

(* lauf_runtime_merge_allocation of h and the piece after it, which is freed.*)
Merge(h) ==
    /\ phase = "run"
    /\ next[h] # None
    /\ LET p == next[h]
       IN  /\ status' = [status EXCEPT ![p] = "freed"]
           /\ size' = [size EXCEPT ![h] = size[h] + size[p]]
           /\ next' = [next EXCEPT ![h] = next[p], ![p] = None]
           /\ words' = [words EXCEPT ![h] = @ \cup words[p], ![p] = {}]
    /\ UNCHANGED <<gc, weak, point, cur, below, phase, pending>>

(* The four declarations look at the source of an entry, not at its status.  *)
DeclareReachable(h) ==
    /\ phase = "run"
    /\ status[h] # "absent"
    /\ MayDeclare
    /\ gc' = [gc EXCEPT ![h] = "reachable_explicit"]
    /\ UNCHANGED <<status, size, next, weak, words, point, cur, below, phase, pending>>

UndeclareReachable(h) ==
    /\ phase = "run"
    /\ status[h] # "absent"
    /\ gc' = [gc EXCEPT ![h] = "unreachable"]
    /\ UNCHANGED <<status, size, next, weak, words, point, cur, below, phase, pending>>

DeclareWeak(e) ==
    /\ phase = "run"
    /\ status[e] # "absent"
    /\ MayDeclare
    /\ weak' = weak \cup {e}
    /\ UNCHANGED <<status, size, next, gc, words, point, cur, below, phase, pending>>

UndeclareWeak(e) ==
    /\ phase = "run"
    /\ weak' = weak \ {e}
    /\ UNCHANGED <<status, size, next, gc, words, point, cur, below, phase, pending>>

-----------------------------------------------------------------------------
(* Fibers: which of them has its registers where *)

Callers == {below[i].caller : i \in 1..Len(below)}
Callees == {below[i].callee : i \in 1..Len(below)}

(* fiber_create, which pushes the handle.                                    *)
CreateFiber(f) ==
    /\ phase = "run"
    /\ status[f] = "absent"
    /\ MayStore
    /\ status' = [status EXCEPT ![f] = "ready"]
    /\ words' = [words EXCEPT ![cur] = @ \cup {Address(f)}]
    /\ UNCHANGED <<size, next, gc, weak, point, cur, below, phase, pending>>

(* lauf_runtime_destroy_fiber *)
DestroyFiber(f) ==
    /\ phase = "run"
    /\ status[f] \in {"ready", "suspended", "done"}
    /\ status' = [status EXCEPT ![f] = "freed"]
    /\ words' = [words EXCEPT ![f] = {}]
    /\ point' = [point EXCEPT ![f] = {}]
    /\ UNCHANGED <<size, next, gc, weak, cur, below, phase, pending>>

(* lauf_runtime_fiber::suspend.                                              *)
SuspensionPoint_old(f) == point[f]      \* mutant
SuspensionPoint(f) == words[f]

(* fiber_resume, fiber_transfer, fiber_suspend: the current fiber suspends   *)
(* and f goes on, from where its suspension point will be out of date.       *)
Switch(f) ==
    /\ phase = "run"
    /\ status[f] \in {"ready", "suspended"}
    /\ status' = [status EXCEPT ![cur] = "suspended", ![f] = "running"]
    /\ point' = [point EXCEPT ![cur] = SuspensionPoint(cur), ![f] = {}]
    /\ cur' = f
    /\ UNCHANGED <<size, next, gc, weak, words, below, phase, pending>>

(* exit: control goes to the parent f.  The suspension point is not updated. *)
Exit(f, leftover) ==
    /\ phase = "run"
    /\ cur \notin {Main} \cup Callees
    /\ status[f] = "suspended"
    /\ status' = [status EXCEPT ![cur] = "done", ![f] = "running"]
    /\ words' = [words EXCEPT ![cur] = {}]
    /\ point' = [point EXCEPT ![cur] = leftover, ![f] = {}]
    /\ cur' = f
    /\ UNCHANGED <<size, next, gc, weak, below, phase, pending>>

(* lauf_runtime_call by a builtin: the registers of the current fiber are    *)
(* kept on the native stack, and it does not suspend.                        *)
CallNested(f, leftover) ==
    /\ phase = "run"
    /\ Len(below) < MaxNested
    /\ status[f] = "absent"
    /\ status' = [status EXCEPT ![f] = "running"]
    /\ below' = <<[caller |-> cur, callee |-> f]>> \o below
    /\ point' = [point EXCEPT ![cur] = leftover]
    /\ cur' = f
    /\ UNCHANGED <<size, next, gc, weak, words, phase, pending>>

(* lauf_runtime_call returns, unless the collector has destroyed the caller. *)
ReturnNested ==
    /\ phase = "run"
    /\ below # <<>>
    /\ LET top == Head(below)
       IN  /\ cur = top.callee
           /\ status[top.caller] = "running"
           /\ status' = [status EXCEPT ![cur] = "freed"]
           /\ words' = [words EXCEPT ![cur] = {}]
           /\ point' = [point EXCEPT ![cur] = {}, ![top.caller] = {}]
           /\ cur' = top.caller
           /\ below' = Tail(below)
    /\ UNCHANGED <<size, next, gc, weak, phase, pending>>

Program ==
    \/ \E h \in Heap : Allocate(h) \/ FreeHeap(h) \/ Merge(h)
    \/ \E h \in Heap : DeclareReachable(h) \/ UndeclareReachable(h)
    \/ \E h, p \in Heap, o \in SplitOffsets : \E behind \in SUBSET words[h] : Split(h, p, o, behind)
    \/ \E e \in Entries, w \in Words : Store(e, w) \/ Erase(e, w)
    \/ \E e \in Entries : DeclareWeak(e) \/ UndeclareWeak(e)
    \/ \E f \in Fibers : CreateFiber(f) \/ DestroyFiber(f) \/ Switch(f)
    \/ \E f \in Fibers, leftover \in Leftovers : Exit(f, leftover) \/ CallNested(f, leftover)
    \/ ReturnNested

-----------------------------------------------------------------------------
(* lauf_runtime_gc *)

(* The entries the words refer to: try_get, and an offset that is not beyond *)
(* the end.                                                                  *)
Refers(ws) == {e \in Entries : \E w \in ws : w.to = e /\ w.offset <= size[e]}

(* process_reachable_memory: fibers have size 0, weak entries are left out.  *)
Traced_weak(e) == IF e \in Fibers THEN {} ELSE Refers(words[e])     \* mutant
Traced(e) == IF e \in Fibers \cup weak THEN {} ELSE Refers(words[e])

(* The stack the collector walks: from the registers, or the suspension      *)
(* point.                                                                    *)
Scanned(f) == IF f = cur THEN words[f] ELSE point[f]

(* mark_reachable *)
Fresh_again(targets) == {e \in targets : Exists(e) /\ gc[e] # "reachable_explicit"}     \* mutant
Fresh(targets) == {e \in targets : Exists(e) /\ gc[e] = "unreachable"}

MarkReachable_noPush(targets, rest) ==      \* mutant
    /\ gc' = [e \in Entries |-> IF e \in Fresh(targets) THEN "reachable" ELSE gc[e]]
    /\ pending' = rest

MarkReachable(targets, rest) ==
    /\ gc' = [e \in Entries |-> IF e \in Fresh(targets) THEN "reachable" ELSE gc[e]]
    /\ pending' = rest \cup Fresh(targets)

Memory == <<status, size, next, weak, words, point, cur, below>>

(* The current fiber, then the stacks of all fibers.                         *)
MarkStacks ==
    /\ phase = "run"
    /\ MarkReachable({cur} \cup UNION {Refers(Scanned(f)) : f \in {f \in Fibers : Exists(f)}}, {})
    /\ phase' = "explicit"
    /\ UNCHANGED Memory

(* The memory of entries that are explicitly reachable.                      *)
MarkExplicit ==
    /\ phase = "explicit"
    /\ MarkReachable(UNION {Traced(e) : e \in {e \in Pinned : Exists(e)}}, pending)
    /\ phase' = "drain"
    /\ UNCHANGED Memory

(* One pending entry, in any order where the code takes the last.            *)
MarkPending(e) ==
    /\ phase = "drain"
    /\ e \in pending
    /\ MarkReachable(Traced(e), pending \ {e})
    /\ UNCHANGED <<Memory, phase>>

Doomed ==
    {e \in Entries : /\ Exists(e)
                     /\ gc[e] = "unreachable"
                     /\ e \in Fibers \/ (e \in Heap /\ ~IsSplit(e))}

(* Heap memory is freed and fibers are destroyed; the marks are reset.       *)
Sweep ==
    /\ phase = "drain"
    /\ pending = {}
    /\ status' = [e \in Entries |-> IF e \in Doomed THEN "freed" ELSE status[e]]
    /\ words' = [e \in Entries |-> IF e \in Doomed THEN {} ELSE words[e]]
    /\ point' = [f \in Fibers |-> IF f \in Doomed THEN {} ELSE point[f]]
    /\ gc' = [e \in Entries |-> IF gc[e] = "reachable_explicit" THEN gc[e] ELSE "unreachable"]
    /\ phase' = "run"
    /\ UNCHANGED <<size, next, weak, cur, below, pending>>

Collection == MarkStacks \/ MarkExplicit \/ (\E e \in Entries : MarkPending(e)) \/ Sweep

Next == Program \/ Collection

Spec == Init /\ [][Next]_vars

-----------------------------------------------------------------------------
(* Properties *)

TypeOK ==
    /\ status \in [Entries -> HeapStatuses \cup FiberStatuses]
    /\ \A e \in Entries : status[e] \in IF e \in Fibers THEN FiberStatuses ELSE HeapStatuses
    /\ size \in [Entries -> Nat]
    /\ next \in [Heap -> Heap \cup {None}]
    /\ gc \in [Entries -> {"unreachable", "reachable", "reachable_explicit"}]
    /\ weak \in SUBSET Entries
    /\ words \in [Entries -> SUBSET Addresses]
    /\ point \in [Fibers -> SUBSET Addresses]
    /\ cur \in Fibers
    /\ below \in Seq([caller : Fibers, callee : Fibers])
    /\ phase \in {"run", "explicit", "drain"}
    /\ pending \in SUBSET Entries

(* While pending entries are processed, one that is marked and no longer     *)
(* pending refers to marked entries only, and so when none is pending,       *)
(* everything reachable is marked.                                           *)
MarkedReferToMarked ==
    phase = "drain" =>
    \A e \in Entries \ pending : Exists(e) /\ gc[e] # "unreachable" =>
        \A t \in Traced(e) : Exists(t) => gc[t] # "unreachable"

Existing == {e \in Entries : Exists(e)}
Pieces   == {h \in Heap : IsSplit(h)}
Edges    == [e \in Entries |-> IF e \in Fibers \cup weak THEN {} ELSE Refers(words[e])]
OnStacks == {cur} \cup UNION {Refers(words[f]) : f \in Fibers \cap Existing}
InReach  == {cur} \cup UNION {Refers(Scanned(f)) : f \in Fibers \cap Existing}

Graph == INSTANCE Reachability WITH
    Collectable <- Fibers \cup Heap, live <- Existing, split <- Pieces, pinned <- Pinned,
    held <- InReach, refs <- Edges, collecting <- (phase # "run")

Needed == INSTANCE Reachability WITH
    Collectable <- Fibers \cup Heap, live <- Existing, split <- Pieces, pinned <- Pinned,
    held <- OnStacks, refs <- Edges, collecting <- (phase # "run")

(* A collection, marking and sweeping, is one step that frees the heap       *)
(* memory and the fibers that are not reachable from what the collector      *)
(* walks, and nothing else.                                                  *)
CollectsGarbage == Graph!Spec

(* What the program can reach from the stacks as they are survives, provided *)
(* that no fiber waits below a nested call, without a suspension point.      *)
LiveKept == [][phase = "drain" /\ below = <<>> => \A e \in Needed!Reachable : Exists(e)']_vars

(* The loop over the pending entries ends, whatever cycles the memory has:   *)
(* with each of them the unmarked entries become fewer, or the pending ones. *)
Unmarked == {e \in Existing : gc[e] = "unreachable"}

MarkingEnds ==
    [][phase = "drain" /\ phase' = "drain" =>
          \/ Unmarked' \subseteq Unmarked /\ Unmarked' # Unmarked
          \/ Unmarked' = Unmarked /\ pending' \subseteq pending /\ pending' # pending]_vars
=============================================================================
