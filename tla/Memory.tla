------------------------------- MODULE Memory -------------------------------
(***************************************************************************)
(* The memory of a process: the allocation table of runtime/memory.hpp,    *)
(* the operations of runtime/memory.cpp and lib/heap.cpp on it, and the    *)
(* instructions of vm_execute.cpp and the functions of process.cpp that    *)
(* add entries to it, free them and trim it.                               *)
(*                                                                         *)
(* The table is an array that only grows and shrinks at its end, so the    *)
(* index of an entry is stable, and an address is an index and the low     *)
(* bits of the generation the entry was created in.  Fibers interleave at  *)
(* instruction boundaries; which of them runs is not this module's concern *)
(* (see Fibers), so any live fiber may take the next step.                 *)
(*                                                                         *)
(* Slots count from 1 here and from 0 in the code.                         *)
(***************************************************************************)
EXTENDS Integers, Sequences

CONSTANTS
    Fibers,         \* fibers that can exist at the same time
    Generations,    \* number of values of memory::_cur_generation (2^8)
    AddrGens,       \* generations an address tells apart (2^2)
    PageEntries,    \* entries of the table that fit a page (4096 / 16)
    SparePages,     \* extra pages a cached block may have
    Globals,        \* "defined" or "undefined" for each global of the program
    HeapSizes,      \* sizes of heap allocations
    StaticSizes,    \* sizes of static allocations that the host adds
    LocalSize,      \* size of a local variable
    LocalCounts,    \* numbers of local variables of the functions
    SplitOffsets,   \* offsets at which the program splits
    SplitSources,   \* sources of the allocations the program splits
    InOrder,        \* whether the program merges pieces in the order of the split
    PoisonSources,  \* sources of the allocations the program poisons
    CollectFibers,  \* whether a fiber may be unreachable when gc() runs
    MaxEntries,     \* bound: length of the table
    MaxEpoch,       \* bound: how often the table is trimmed
    MaxDepth        \* bound: frames with local allocations in a fiber

ASSUME MemoryAssumption ==
    /\ AddrGens \in Nat \ {0}
    /\ Generations \in Nat \ {0}
    /\ Generations % AddrGens = 0       \* the low bits survive the wrap of the counter
    /\ PageEntries \in Nat \ {0}
    /\ SparePages \subseteq Nat
    /\ Globals \in Seq({"defined", "undefined"})
    /\ HeapSizes \subseteq Nat
    /\ StaticSizes \subseteq Nat
    /\ LocalSize \in Nat
    /\ LocalCounts \subseteq Nat \ {0}  \* no setup_local_alloc without a local
    /\ SplitOffsets \subseteq Nat
    /\ SplitSources \subseteq {"static", "local", "heap"}
    /\ InOrder \in BOOLEAN
    /\ PoisonSources \subseteq {"static", "local", "heap"}
    /\ CollectFibers \in BOOLEAN

VARIABLES
    table,      \* memory::_allocations
    curGen,     \* memory::_cur_generation
    capacity,   \* capacity of _allocations
    fibers,     \* per fiber: status, handle and the frames that have local allocations
    calling,    \* the setup_local_alloc that is being executed, or Idle
    ended,      \* the process has been destroyed
    fault,      \* assertion that failed, or misuse of the heap allocator
    heapLive,   \* (history) heap blocks the process owns
    epoch,      \* (history) number of times the table has been trimmed
    retired     \* (history) addresses of entries that have been trimmed

vars == <<table, curGen, capacity, fibers, calling, ended, fault, heapLive, epoch, retired>>

-----------------------------------------------------------------------------
(* Entries of the table *)

Sources  == {"static", "local", "heap", "fiber"}
Statuses == {"allocated", "freed", "poison"}
Splits   == {"unsplit", "split_first", "split_middle", "split_last"}

(* The native memory behind an entry: the slot and epoch that got it first,  *)
(* and its size.  No two allocations ever have the same slot and epoch.      *)
Blocks == [slot : Nat, born : Nat, size : Nat]

Entries == [src : Sources, status : Statuses, split : Splits, gen : 0..Generations - 1,
            blk : Blocks, off : Nat, size : Nat, born : Nat]

NewEntry(src, status, slot, gen, size) ==
    [src |-> src, status |-> status, split |-> "unsplit", gen |-> gen,
     blk |-> [slot |-> slot, born |-> epoch, size |-> size],
     off |-> 0, size |-> size, born |-> epoch]

(* allocation::can_be_freed and is_usable *)
CanBeFreed(e) == e.status # "freed"
IsUsable(e)   == e.status = "allocated"

(* An entry that split_allocation() appended: its generation is copied.      *)
IsPiece(slot, e) == e.blk.slot # slot \/ e.blk.born # e.born

(* Whether the generation of an entry is the one that was current. *)
Kind(slot, e) == IF e.src = "fiber" THEN "fiber" ELSE IF IsPiece(slot, e) THEN "piece" ELSE "plain"

Addresses == [slot : 1..MaxEntries, gen : 0..AddrGens - 1]

(* memory::try_get: does the address resolve to the entry at its slot? *)
Resolves(a) ==
    /\ a.slot \in 1..Len(table)
    /\ table[a.slot].gen % AddrGens = a.gen

Idle == [fiber |-> "none", count |-> 0]

Absent == [status |-> "absent", handle |-> 0, frames |-> <<>>]

FrameLocals(fr) == fr.first..fr.first + fr.count - 1

(* The interpreter is between two instructions and the process is alive. *)
Running == calling = Idle /\ ~ended /\ fault = "none"

-----------------------------------------------------------------------------
(* The array that holds the table *)

RoundToPages(n) == ((n + PageEntries - 1) \div PageEntries) * PageEntries

Larger(m, n) == IF m < n THEN n ELSE m

(* array::reserve: the capacities the array may have afterwards.  A block    *)
(* from the cache of the page allocator may be larger than asked for.        *)
Reserve(n) ==
    IF n <= capacity
    THEN {capacity}
    ELSE {RoundToPages(Larger(2 * capacity, n)) + s * PageEntries : s \in SparePages}

Push(e) ==
    /\ Len(table) < MaxEntries
    /\ table' = Append(table, e)
    /\ capacity' \in Reserve(Len(table) + 1)

NeedsToGrow_orEqual(n) == Len(table) + n >= capacity   \* mutant

NeedsToGrow(n) == Len(table) + n > capacity

Retire(t, slot) ==
    [slot |-> slot, gen |-> t[slot].gen % AddrGens, born |-> t[slot].born,
     kind |-> Kind(slot, t[slot])]

NextGeneration_same == curGen           \* mutant
NextGeneration_unbounded == curGen + 1  \* mutant

NextGeneration == (curGen + 1) % Generations

(* Mutant: also closes the gaps between the entries that stay.               *)
RemoveFreed_compacts(t) ==
    /\ table' = SelectSeq(t, CanBeFreed)
    /\ epoch < MaxEpoch
    /\ epoch' = epoch + 1
    /\ curGen' = NextGeneration
    /\ UNCHANGED retired

(* memory::remove_freed on the table t: pop the freed entries at the end,    *)
(* and start a new generation if there were any.                             *)
RemoveFreed(t) ==
    \E n \in 0..Len(t) :
        /\ n > 0 => CanBeFreed(t[n])
        /\ \A i \in n + 1..Len(t) : ~CanBeFreed(t[i])
        /\ table' = SubSeq(t, 1, n)
        /\ retired' = retired \cup {Retire(t, i) : i \in n + 1..Len(t)}
        /\ IF n = Len(t)
           THEN UNCHANGED <<curGen, epoch>>
           ELSE /\ epoch < MaxEpoch
                /\ epoch' = epoch + 1
                /\ curGen' = NextGeneration

MarkFreed(slots) ==
    [i \in 1..Len(table) |-> IF i \in slots THEN [table[i] EXCEPT !.status = "freed"]
                                            ELSE table[i]]

-----------------------------------------------------------------------------
(* Initial state: the globals of the program; an extern global that nobody   *)
(* defined is entered as freed.                                              *)

GlobalEntry(i) ==
    IF Globals[i] = "defined"
    THEN NewEntry("static", "allocated", i, 0, LocalSize)
    ELSE NewEntry("static", "freed", i, 0, 0)

Init ==
    /\ epoch = 0
    /\ table = [i \in 1..Len(Globals) |-> GlobalEntry(i)]
    /\ capacity = RoundToPages(Len(Globals))
    /\ curGen = 0
    /\ fibers = [f \in Fibers |-> Absent]
    /\ calling = Idle
    /\ ended = FALSE
    /\ fault = "none"
    /\ heapLive = {}
    /\ retired = {}

-----------------------------------------------------------------------------
(* Static and heap allocations *)

(* lauf_runtime_add_static_{const,mut}_allocation *)
AddStatic(size) ==
    /\ Running
    /\ Push(NewEntry("static", "allocated", Len(table) + 1, curGen, size))
    /\ UNCHANGED <<curGen, fibers, calling, ended, fault, heapLive, epoch, retired>>

PushHeap(size) ==
    LET e == NewEntry("heap", "allocated", Len(table) + 1, curGen, size)
    IN  /\ Push(e)
        /\ heapLive' = heapLive \cup {e.blk}

(* lauf.heap.alloc, lauf_runtime_add_heap_allocation *)
HeapAlloc(size) ==
    /\ Running
    /\ PushHeap(size)
    /\ UNCHANGED <<curGen, fibers, calling, ended, fault, epoch, retired>>

(* lauf.heap.transfer_local: a heap copy of a local variable *)
TransferLocal(a) ==
    /\ Running
    /\ Resolves(a)
    /\ IsUsable(table[a.slot])
    /\ table[a.slot].src = "local"
    /\ PushHeap(table[a.slot].size)
    /\ UNCHANGED <<curGen, fibers, calling, ended, fault, epoch, retired>>

(* free_alloc() of the host's allocator is right for the entry: a block that *)
(* is still allocated, and its beginning.                                    *)
FreeIsValid(e) == e.blk \in heapLive /\ e.off = 0

FreeNative(slots) ==
    /\ heapLive' = heapLive \ {table[i].blk : i \in slots}
    /\ fault' = IF \A i \in slots : /\ FreeIsValid(table[i])
                                    /\ \A j \in slots \ {i} : table[i].blk # table[j].blk
                THEN "none"
                ELSE "bad free"

(* lauf.heap.free; lauf_runtime_leak_heap_allocation is the same, except     *)
(* that the caller gets the block instead of the allocator.                  *)
HeapFree(a) ==
    /\ Running
    /\ Resolves(a)
    /\ LET e == table[a.slot]
       IN  /\ CanBeFreed(e)
           /\ e.src = "heap"
           /\ e.split = "unsplit"
    /\ table' = MarkFreed({a.slot})
    /\ FreeNative({a.slot})
    /\ UNCHANGED <<curGen, capacity, fibers, calling, ended, epoch, retired>>

DestroyAll_none(handles) == fibers      \* mutant

DestroyAll(handles) ==
    [f \in Fibers |-> IF fibers[f].status # "absent" /\ fibers[f].handle \in handles
                      THEN Absent ELSE fibers[f]]

(* lauf_runtime_gc: frees unsplit heap entries and destroys fibers among the *)
(* unreachable entries; the marking that decides which are unreachable is    *)
(* module Collector's.  A fiber's entry is freed, those of its locals are    *)
(* not touched, and the table is not trimmed.                                *)
Collect(unreachable) ==
    /\ Running
    /\ \A i \in unreachable :
          /\ CanBeFreed(table[i])
          /\ \/ table[i].src = "heap" /\ table[i].split = "unsplit"
             \/ table[i].src = "fiber" /\ CollectFibers
    /\ \E f \in Fibers : fibers[f].status = "live" /\ fibers[f].handle \notin unreachable
    /\ table' = MarkFreed(unreachable)
    /\ FreeNative({i \in unreachable : table[i].src = "heap"})
    /\ fibers' = DestroyAll(unreachable)
    /\ UNCHANGED <<curGen, capacity, calling, ended, epoch, retired>>

-----------------------------------------------------------------------------
(* Poison, split and merge *)

(* lauf_runtime_poison_allocation *)
Poison(a) ==
    /\ Running
    /\ Resolves(a)
    /\ IsUsable(table[a.slot])
    /\ table[a.slot].src \in PoisonSources
    /\ table' = [table EXCEPT ![a.slot].status = "poison"]
    /\ UNCHANGED <<curGen, capacity, fibers, calling, ended, fault, heapLive, epoch, retired>>

(* lauf_runtime_unpoison_allocation *)
Unpoison(a) ==
    /\ Running
    /\ Resolves(a)
    /\ table[a.slot].status = "poison"
    /\ table[a.slot].src # "fiber"
    /\ table' = [table EXCEPT ![a.slot].status = "allocated"]
    /\ UNCHANGED <<curGen, capacity, fibers, calling, ended, fault, heapLive, epoch, retired>>

TailPiece_whole(e, offset) == [e EXCEPT !.split = "split_last", !.born = epoch]     \* mutant

TailPiece(e, offset) ==
    [e EXCEPT !.off   = @ + offset,
              !.size  = @ - offset,
              !.split = IF @ \in {"unsplit", "split_last"} THEN "split_last" ELSE "split_middle",
              !.born  = epoch]

HeadPiece_end(e, offset) ==                                                         \* mutant
    [e EXCEPT !.off = @ + offset, !.size = @ - offset, !.split = "split_first"]

HeadPiece(e, offset) ==
    [e EXCEPT !.size  = offset,
              !.split = IF @ \in {"unsplit", "split_first"} THEN "split_first" ELSE "split_middle"]

(* lauf_runtime_split_allocation.  The function keeps a pointer to the entry *)
(* while it appends the new one.  If the append moves the array, the entry   *)
(* is shrunk in the old pages, which the page allocator keeps mapped.        *)
Split(a, offset, moved) ==
    /\ Running
    /\ Resolves(a)
    /\ LET e == table[a.slot]
       IN  /\ IsUsable(e)
           /\ offset < e.size
           /\ e.src \in SplitSources
           /\ Len(table) < MaxEntries
           /\ moved => NeedsToGrow(1)
           /\ table' = Append(IF moved THEN table
                              ELSE [table EXCEPT ![a.slot] = HeadPiece(e, offset)],
                              TailPiece(e, offset))
           /\ capacity' \in Reserve(Len(table) + 1)
    /\ UNCHANGED <<curGen, fibers, calling, ended, fault, heapLive, epoch, retired>>

Adjacent(e1, e2) == e1.off + e1.size = e2.off

Grown_notAtAll(e1, e2) == [e1 EXCEPT !.split = e2.split]                            \* mutant

Grown(e1, e2) ==
    [e1 EXCEPT !.size  = @ + e2.size,
               !.split = IF e2.split # "split_last" THEN @
                         ELSE IF @ = "split_first" THEN "unsplit"
                         ELSE "split_last"]

(* lauf_runtime_merge_allocation.  Its documentation asks for two addresses  *)
(* that come from a call to split: two entries of one block.  The second of  *)
(* them is never the beginning of the block, but nothing checks that: an     *)
(* empty beginning is adjacent to the piece after it in both orders.         *)
Merge(a1, a2) ==
    /\ Running
    /\ Resolves(a1)
    /\ Resolves(a2)
    /\ LET e1 == table[a1.slot]
           e2 == table[a2.slot]
       IN  /\ a1.slot # a2.slot
           /\ e1.blk = e2.blk
           /\ IsUsable(e1)
           /\ IsUsable(e2)
           /\ e1.split # "unsplit"
           /\ e2.split # "unsplit"
           /\ Adjacent(e1, e2)
           /\ InOrder => e2.split # "split_first"
           /\ table' = [table EXCEPT ![a1.slot] = Grown(e1, e2), ![a2.slot].status = "freed"]
    /\ UNCHANGED <<curGen, capacity, fibers, calling, ended, fault, heapLive, epoch, retired>>

-----------------------------------------------------------------------------
(* Fibers and the local variables of their frames *)

(* lauf_runtime_fiber::create: the entry has generation 0, whatever the      *)
(* current one is.                                                           *)
CreateFiber(f) ==
    /\ Running
    /\ fibers[f].status = "absent"
    /\ Push(NewEntry("fiber", "poison", Len(table) + 1, 0, 0))
    /\ fibers' = [fibers EXCEPT ![f] = [status |-> "live", handle |-> Len(table) + 1, frames |-> <<>>]]
    /\ UNCHANGED <<curGen, calling, ended, fault, heapLive, epoch, retired>>

(* The call of a function whose first instruction is setup_local_alloc n.    *)
Call(f, n) ==
    /\ Running
    /\ fibers[f].status = "live"
    /\ Len(fibers[f].frames) < MaxDepth
    /\ Len(table) + n <= MaxEntries
    /\ calling' = [fiber |-> f, count |-> n]
    /\ UNCHANGED <<table, curGen, capacity, fibers, ended, fault, heapLive, epoch, retired>>

(* setup_local_alloc, first branch: grow_allocation_array calls memory::grow *)
(* and executes the instruction again.                                       *)
GrowTable ==
    /\ calling # Idle
    /\ NeedsToGrow(calling.count)
    /\ capacity' \in Reserve(Len(table) + 1)
    /\ UNCHANGED <<table, curGen, fibers, calling, ended, fault, heapLive, epoch, retired>>

FirstLocal_last == Len(table)           \* mutant

FirstLocal == Len(table) + 1

(* setup_local_alloc, second branch, and the local_allocs that follow it.    *)
(* A frame keeps the bits of the generation that an address has.             *)
SetupLocals ==
    /\ calling # Idle
    /\ ~NeedsToGrow(calling.count)
    /\ LET f     == calling.fiber
           gen   == curGen % AddrGens
           frame == [first |-> FirstLocal, count |-> calling.count, gen |-> gen, born |-> epoch]
       IN  /\ table' = table \o [k \in 1..calling.count |->
                                    NewEntry("local", "allocated", Len(table) + k, gen, LocalSize)]
           /\ fibers' = [fibers EXCEPT ![f].frames = Append(@, frame)]
    /\ calling' = Idle
    /\ UNCHANGED <<curGen, capacity, ended, fault, heapLive, epoch, retired>>

TopFrame(f) == fibers[f].frames[Len(fibers[f].frames)]

SplitLocals_ignored(f) == {}                            \* mutant

SplitLocals(f) == {i \in FrameLocals(TopFrame(f)) : table[i].split # "unsplit"}

(* return_free: frees the locals of the frame in order and trims the table;  *)
(* at a split one it panics, with the earlier ones already freed.            *)
ReturnFree(f) ==
    /\ Running
    /\ fibers[f].status = "live"
    /\ fibers[f].frames # <<>>
    /\ LET locals == FrameLocals(TopFrame(f))
           split  == SplitLocals(f)
       IN  \/ /\ split = {}
              /\ RemoveFreed(MarkFreed(locals))
              /\ fibers' = [fibers EXCEPT ![f].frames = SubSeq(@, 1, Len(@) - 1)]
           \/ \E i \in split :
                 /\ \A j \in split : i <= j
                 /\ table' = MarkFreed({j \in locals : j < i})
                 /\ fibers' = [fibers EXCEPT ![f].status = "panicked"]
                 /\ UNCHANGED <<curGen, epoch, retired>>
    /\ UNCHANGED <<capacity, calling, ended, fault, heapLive>>

(* The locals of a fiber as pairs of frame and slot, and the order in which  *)
(* lauf_runtime_destroy_fiber visits them: from the newest frame.            *)
Visited(f) == {p \in (1..Len(fibers[f].frames)) \X (1..Len(table)) :
                 p[2] \in FrameLocals(fibers[f].frames[p[1]])}

Cancelled_handle(f) == {fibers[f].handle}               \* mutant
Cancelled_locals(f) == {p[2] : p \in Visited(f)}         \* mutant

Cancelled(f) == {p[2] : p \in Visited(f)} \cup {fibers[f].handle}

Before(p, q) == p[1] > q[1] \/ (p[1] = q[1] /\ p[2] < q[2])

(* lauf_runtime_destroy_fiber: cancels a fiber that is not done by freeing   *)
(* the locals of its frames; asserts that each is an unfreed local, panics   *)
(* at a split one.                                                           *)
DestroyFiber(f) ==
    /\ Running
    /\ fibers[f].status # "absent"
    /\ LET asserts == {p \in Visited(f) : table[p[2]].src # "local" \/ ~CanBeFreed(table[p[2]])}
           panics  == {p \in Visited(f) : table[p[2]].split # "unsplit"}
       IN  \/ /\ asserts \cup panics = {}
              /\ RemoveFreed(MarkFreed(Cancelled(f)))
              /\ fibers' = [fibers EXCEPT ![f] = Absent]
              /\ UNCHANGED fault
           \/ \E p \in asserts \cup panics :
                 /\ \A q \in (asserts \cup panics) \ {p} : Before(p, q)
                 /\ table' = MarkFreed({q[2] : q \in {r \in Visited(f) : Before(r, p)}})
                 /\ fault' = IF p \in asserts THEN "assertion" ELSE fault
                 /\ UNCHANGED <<fibers, curGen, epoch, retired>>
    /\ UNCHANGED <<capacity, calling, ended, heapLive>>

Leaked_unsplit ==                                       \* mutant
    {i \in 1..Len(table) : CanBeFreed(table[i]) /\ table[i].src = "heap" /\ table[i].split = "unsplit"}

(* The entries whose memory do_cleanup gives to the allocator.               *)
Leaked ==
    {i \in 1..Len(table) : /\ CanBeFreed(table[i])
                           /\ table[i].src = "heap"
                           /\ table[i].split \in {"unsplit", "split_first"}}

(* lauf_runtime_process::do_cleanup: frees what the program leaked.          *)
Cleanup ==
    /\ Running
    /\ FreeNative(Leaked)
    /\ table' = <<>>
    /\ fibers' = [f \in Fibers |-> Absent]
    /\ ended' = TRUE
    /\ UNCHANGED <<curGen, capacity, calling, epoch, retired>>

-----------------------------------------------------------------------------

Next ==
    \/ \E size \in StaticSizes : AddStatic(size)
    \/ \E size \in HeapSizes : HeapAlloc(size)
    \/ \E a \in Addresses :
          \/ TransferLocal(a)
          \/ HeapFree(a)
          \/ Poison(a)
          \/ Unpoison(a)
          \/ \E offset \in SplitOffsets, moved \in BOOLEAN : Split(a, offset, moved)
          \/ \E a2 \in Addresses : Merge(a, a2)
    \/ \E unreachable \in SUBSET (1..Len(table)) : Collect(unreachable)
    \/ \E f \in Fibers :
          \/ CreateFiber(f)
          \/ DestroyFiber(f)
          \/ ReturnFree(f)
          \/ \E n \in LocalCounts : Call(f, n)
    \/ GrowTable
    \/ SetupLocals
    \/ Cleanup

Spec == Init /\ [][Next]_vars

(* The interpreter does not stop in the middle of an instruction. *)
FairSpec == Spec /\ WF_vars(GrowTable) /\ WF_vars(SetupLocals)
-----------------------------------------------------------------------------
(* Properties *)

Frames == [first : Nat \ {0}, count : LocalCounts, gen : 0..AddrGens - 1, born : Nat]

FiberRecords == [status : {"absent", "live", "panicked"}, handle : Nat, frames : Seq(Frames)]

Retired == [slot : Nat, gen : 0..AddrGens - 1, born : Nat, kind : {"fiber", "piece", "plain"}]

(* Every variable has its type. *)
TypeOK ==
    /\ table \in Seq(Entries)
    /\ curGen \in 0..Generations - 1
    /\ capacity \in Nat
    /\ fibers \in [Fibers -> FiberRecords]
    /\ calling \in {Idle} \cup [fiber : Fibers, count : LocalCounts]
    /\ ended \in BOOLEAN
    /\ fault \in {"none", "assertion", "bad free"}
    /\ heapLive \subseteq Blocks
    /\ epoch \in Nat
    /\ retired \subseteq Retired

(* The address of an allocation that has left the table does not resolve to  *)
(* its successor at the same index before the table has been trimmed         *)
(* AddrGens more times: the counter in remove_freed and the two bits of an   *)
(* address keep use after free detectable that long.  Excepted are entries   *)
(* whose generation is not the current one, those of fibers and of pieces.   *)
StaleAddressesStayDead ==
    \A r \in retired :
        r.kind = "plain" /\ Resolves(r) /\ Kind(r.slot, table[r.slot]) = "plain"
        => table[r.slot].born >= r.born + AddrGens

LocalBlock(fr, i) == [slot |-> i, born |-> fr.born, size |-> LocalSize]

(* The local variables of every frame on every fiber's stack are where       *)
(* local_addr, return_free and destroy_fiber look for them, first_local_alloc*)
(* plus their number, whatever the other fibers allocate, free and trim, and *)
(* no two frames share an entry.                                             *)
LocalsInPlace ==
    \A f \in Fibers : \A d \in 1..Len(fibers[f].frames) :
        LET fr == fibers[f].frames[d]
        IN  \A i \in FrameLocals(fr) :
               /\ i \in 1..Len(table)
               /\ table[i].src = "local"
               /\ table[i].blk = LocalBlock(fr, i)
               /\ table[i].gen = fr.gen
               /\ table[i].off = 0
               /\ \A g \in Fibers : \A c \in 1..Len(fibers[g].frames) :
                     i \in FrameLocals(fibers[g].frames[c]) => f = g /\ c = d

(* The blocks of local variables of frames that have not returned. *)
LiveLocals ==
    UNION {UNION {{LocalBlock(fr, i) : i \in FrameLocals(fr)} :
                  fr \in {fibers[f].frames[d] : d \in 1..Len(fibers[f].frames)}} :
           f \in {g \in Fibers : fibers[g].status = "live"}}

Pieces(b) == {i \in 1..Len(table) : table[i].blk = b /\ CanBeFreed(table[i])}

(* However an allocation has been split and merged, every byte of it belongs *)
(* to exactly one entry, and exactly one entry says it is the beginning,     *)
(* which is what the cleanup of the process and return_free rely on.         *)
PiecesTileBlock ==
    ~ended /\ fault = "none" =>
    \A b \in heapLive \cup {l \in LiveLocals : Pieces(l) # {}} :
        /\ \A x \in 0..b.size - 1 :
              \E i \in Pieces(b) :
                 /\ table[i].off <= x /\ x < table[i].off + table[i].size
                 /\ \A j \in Pieces(b) \ {i} :
                       ~(table[j].off <= x /\ x < table[j].off + table[j].size)
        /\ \E i \in Pieces(b) :
              /\ table[i].split \in {"unsplit", "split_first"}
              /\ table[i].off = 0
              /\ table[i].split = "unsplit" => table[i].size = b.size
              /\ \A j \in Pieces(b) \ {i} : table[j].split \in {"split_middle", "split_last"}

(* An entry that passes the checks of deref_const and deref_mut stands for   *)
(* memory that exists: a heap block the process owns, or a local variable of *)
(* a frame on the stack of a fiber that has not been destroyed.              *)
NoDanglingEntry ==
    \A i \in 1..Len(table) :
        IsUsable(table[i]) /\ table[i].size > 0 =>
            /\ table[i].src = "heap" => table[i].blk \in heapLive
            /\ table[i].src = "local" =>
                  \E f \in Fibers : \E d \in 1..Len(fibers[f].frames) :
                      LET fr == fibers[f].frames[d]
                      IN  /\ table[i].blk.slot \in FrameLocals(fr)
                          /\ table[i].blk = LocalBlock(fr, table[i].blk.slot)

(* The unfreed fiber entries are the handles of the fibers that exist. *)
HandlesMatchFibers ==
    ~ended =>
    /\ \A f \in Fibers : fibers[f].status # "absent" =>
          /\ fibers[f].handle \in 1..Len(table)
          /\ table[fibers[f].handle].src = "fiber"
          /\ table[fibers[f].handle].status = "poison"
          /\ \A g \in Fibers \ {f} : fibers[g].handle # fibers[f].handle \/ fibers[g].status = "absent"
    /\ \A i \in 1..Len(table) : table[i].src = "fiber" /\ CanBeFreed(table[i]) =>
          \E f \in Fibers : fibers[f].status # "absent" /\ fibers[f].handle = i

(* Every heap block is given back to the allocator once: by its beginning,   *)
(* while it is allocated, and at the latest when the process is destroyed    *)
(* ("Memory that hasn't been freed will be automatically freed", heap.h).    *)
FreedExactlyOnce == fault # "bad free" /\ (ended => heapLive = {})

(* The assertions of lauf_runtime_destroy_fiber hold: what it frees is a     *)
(* local variable that has not been freed.                                   *)
NoAssertionFails == fault # "assertion"

(* An address stays good: an unfreed entry keeps its index, generation and   *)
(* memory in every step that does not end the life of what it stands for,    *)
(* however the step grows, trims or frees other parts of the table.          *)
LiveEntriesStay ==
    [][\A i \in 1..Len(table) : CanBeFreed(table[i]) /\ ~ended' =>
          \/ /\ i \in 1..Len(table')
             /\ table'[i].gen = table[i].gen
             /\ table'[i].blk = table[i].blk
             /\ table'[i].off = table[i].off
          \/ table[i].src = "heap" /\ table[i].blk \notin heapLive'
          \/ table[i].src = "local" /\ table[i].blk \notin LiveLocals'
          \/ table[i].src = "fiber" /\ \A f \in Fibers : fibers'[f].handle # i]_vars

(* A call gets its local variables: the retry of setup_local_alloc ends.     *)
CallCompletes == calling # Idle ~> calling = Idle
=============================================================================
