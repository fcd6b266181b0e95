---------------------------- MODULE PageAllocator ----------------------------
(***************************************************************************)
(* The page allocator of a VM (support/page_allocator.cpp): a cache of     *)
(* blocks of pages in front of the operating system.  The call stacks and  *)
(* value stacks of fibers and the array of the allocation table share it,  *)
(* and take one another's blocks out of the cache.                         *)
(*                                                                         *)
(* Its state is one record, and an operation is a function from a state to *)
(* its outcomes: a handler of the code calls the allocator several times.  *)
(* This module lets any client allocate, extend and deallocate; Stacks is  *)
(* the real one.  Sizes count pages, and addresses are page numbers.       *)
(***************************************************************************)
EXTENDS Integers, Sequences, FiniteSets

CONSTANT MaxPage    \* bound: the pages of the address space are 1..MaxPage

ASSUME PageAssumption == MaxPage \in Nat

VARIABLE pages      \* the state of the allocator, see States

Blocks == [start : 1..MaxPage, size : 1..MaxPage]

PagesOf(b) == b.start..b.start + b.size - 1

(* free:     _free_list, from the front; each node is in the block it         *)
(*           describes, and dangles after release                             *)
(* bytes:    _allocated_bytes, in pages                                       *)
(* mapped:   (operating system) the pages that are mapped                     *)
(* owned:    (history) the blocks that clients hold                           *)
(* released: (history) release has been called                                *)
States == [free : Seq(Blocks), bytes : Nat, mapped : SUBSET (1..MaxPage), owned : SUBSET Blocks,
           released : BOOLEAN]

NoPages == [free |-> <<>>, bytes |-> 0, mapped |-> {}, owned |-> {}, released |-> FALSE]

-----------------------------------------------------------------------------

(* Mutant: the block stays in the list.                                      *)
Unlinked_kept(free, i) == free

(* The list without its i-th node. *)
Unlinked(free, i) == [j \in 1..Len(free) - 1 |-> IF j < i THEN free[j] ELSE free[j + 1]]

(* mmap: fresh pages anywhere. *)
Mappable(s, n) ==
    {b \in Blocks : b.size = n /\ PagesOf(b) \subseteq 1..MaxPage /\ PagesOf(b) \cap s.mapped = {}}

FirstFit(free, n) ==
    {i \in 1..Len(free) : free[i].size >= n /\ \A j \in 1..i - 1 : free[j].size < n}

(* page_allocator::allocate: the whole of the first cached block that is     *)
(* large enough, or new pages.                                               *)
Allocated(s, n) ==
    {[block |-> s.free[i],
      state |-> [free |-> Unlinked(s.free, i), bytes |-> s.bytes, mapped |-> s.mapped,
                 owned |-> s.owned \cup {s.free[i]}, released |-> s.released]] : i \in FirstFit(s.free, n)}
    \cup
    {[block |-> b,
      state |-> [free |-> s.free, bytes |-> s.bytes + n, mapped |-> s.mapped \cup PagesOf(b),
                 owned |-> s.owned \cup {b}, released |-> s.released]] :
        b \in IF FirstFit(s.free, n) = {} THEN Mappable(s, n) ELSE {}}

ExtendedBytes_size(s, b, n) == s.bytes + n      \* mutant

ExtendedBytes(s, b, n) == s.bytes + n - b.size

(* page_allocator::try_extend, when mremap succeeds: the pages that follow   *)
(* are free.  It may also fail.  No client asks for less than it has.        *)
Extensions(s, b, n) ==
    {big \in Blocks : /\ big.start = b.start
                      /\ big.size = n
                      /\ n >= b.size
                      /\ PagesOf(big) \subseteq 1..MaxPage
                      /\ (PagesOf(big) \ PagesOf(b)) \cap s.mapped = {}}

Extended(s, b, n) ==
    {[block |-> big,
      state |-> [free |-> s.free, bytes |-> ExtendedBytes(s, b, n),
                 mapped |-> s.mapped \cup PagesOf(big),
                 owned |-> (s.owned \ {b}) \cup {big}, released |-> s.released]] : big \in Extensions(s, b, n)}

(* The nodes of the list that end where b begins, the first one only.        *)
MergesWith(free, b) ==
    {i \in 1..Len(free) : /\ free[i].start + free[i].size = b.start
                          /\ \A j \in 1..i - 1 : free[j].start + free[j].size # b.start}

(* page_allocator::deallocate: the block joins the first node that ends      *)
(* where it begins, or becomes the first node of the list.                   *)
FreeWith(free, b) ==
    IF MergesWith(free, b) = {}
    THEN <<b>> \o free
    ELSE [i \in 1..Len(free) |-> IF i \in MergesWith(free, b)
                                 THEN [free[i] EXCEPT !.size = @ + b.size]
                                 ELSE free[i]]

Deallocated(s, b) ==
    [free |-> FreeWith(s.free, b), bytes |-> s.bytes, mapped |-> s.mapped, owned |-> s.owned \ {b},
     released |-> s.released]

(* The size of all blocks in the list. *)
CachedSize(free) ==
    LET sum[i \in 0..Len(free)] == IF i = 0 THEN 0 ELSE sum[i - 1] + free[i].size IN sum[Len(free)]

(* page_allocator::release: unmaps what is in the cache.  The list keeps     *)
(* pointing to the nodes that were in it.                                    *)
Released(s) ==
    [free |-> s.free, bytes |-> s.bytes - CachedSize(s.free),
     mapped |-> s.mapped \ UNION {PagesOf(s.free[i]) : i \in 1..Len(s.free)}, owned |-> s.owned,
     released |-> TRUE]

-----------------------------------------------------------------------------
(* Any client that gives back what it got.  The one call of release is in    *)
(* the destructor of lauf_vm, and the allocator is not used again: allocate  *)
(* would hand out nodes of the list, whose pages are unmapped.               *)

AllocInit == pages = NoPages

Allocate ==
    /\ ~pages.released
    /\ \E n \in 1..MaxPage : \E r \in Allocated(pages, n) : pages' = r.state

TryExtend ==
    /\ ~pages.released
    /\ \E b \in pages.owned, n \in 1..MaxPage : \E r \in Extended(pages, b, n) : pages' = r.state

Deallocate ==
    /\ ~pages.released
    /\ \E b \in pages.owned : pages' = Deallocated(pages, b)

Release ==
    /\ ~pages.released
    /\ pages.owned = {}
    /\ pages' = Released(pages)

AllocNext == Allocate \/ TryExtend \/ Deallocate \/ Release

AllocSpec == AllocInit /\ [][AllocNext]_pages

-----------------------------------------------------------------------------
(* Properties *)

FreeBlocks(s) == {s.free[i] : i \in 1..Len(s.free)}

(* No page is in two places: two nodes of the cache, two blocks that clients *)
(* hold, or one of each, after whatever was split off, merged and extended.  *)
(* So release unmaps no page twice.                                          *)
NoPageTwice ==
    /\ \A i, j \in 1..Len(pages.free) :
          i # j => PagesOf(pages.free[i]) \cap PagesOf(pages.free[j]) = {}
    /\ \A b, c \in pages.owned : b # c => PagesOf(b) \cap PagesOf(c) = {}
    /\ \A b \in pages.owned, i \in 1..Len(pages.free) :
          PagesOf(b) \cap PagesOf(pages.free[i]) = {}

(* No page is lost: what is mapped is in the cache or with a client, and     *)
(* _allocated_bytes counts exactly that; after release nothing is mapped,    *)
(* and the count is zero, as the destructor of lauf_vm asserts.              *)
NoPageLost ==
    IF pages.released
    THEN pages.mapped = {} /\ pages.bytes = 0
    ELSE /\ pages.mapped = UNION {PagesOf(b) : b \in FreeBlocks(pages) \cup pages.owned}
         /\ pages.bytes = Cardinality(pages.mapped)
=============================================================================
