-------------------------------- MODULE Stacks --------------------------------
(***************************************************************************)
(* The stacks of fibers (runtime/stack.hpp), the calls that grow them      *)
(* (vm_execute.cpp), and the other client of the page allocator, the array *)
(* of the allocation table (support/array.hpp), from the start of a VM to  *)
(* its end.                                                                *)
(*                                                                         *)
(* A call stack is a list of chunks, each a page that belongs to a block   *)
(* of pages; a frame lies in one chunk.  A value stack is one block, which *)
(* is replaced when it is too small.  A call that lacks room grows a stack *)
(* and is executed again.  Sizes in a page count units.                    *)
(***************************************************************************)
EXTENDS PageAllocator

CONSTANTS
    Fibers,         \* fibers that can exist at the same time
    PageSize,       \* units of the call stack in a page
    ChunkHeader,    \* sizeof(chunk)
    FiberSize,      \* sizeof(lauf_runtime_fiber), which is in its first chunk
    TrampolineAt,   \* offset of its trampoline_frame
    FrameSizes,     \* max_cstack_size of the functions
    Needs,          \* max_vstack_size of the functions
    ValuesPerPage,  \* values in a page of the value stack
    Reserved,       \* values kept free for a builtin (UINT8_MAX)
    InitialChunks,  \* initial_cstack_size, in pages
    InitialValues,  \* initial_vstack_size, in pages
    MaxChunks,      \* max_cstack_size, in pages
    MaxValues,      \* max_vstack_size, in values
    MaxDepth        \* bound: frames of a fiber

ASSUME StacksAssumption ==
    /\ PageSize \in Nat /\ ChunkHeader \in Nat /\ FiberSize \in Nat
    /\ FrameSizes \subseteq Nat \ {0}
    /\ Needs \subseteq Nat
    /\ ValuesPerPage \in Nat \ {0} /\ Reserved \in Nat
    /\ InitialChunks \in Nat \ {0} /\ InitialValues \in Nat \ {0}
    /\ MaxChunks \in Nat /\ MaxValues \in Nat
    /\ MaxDepth \in Nat
    /\ TrampolineAt \in 0..FiberSize
    /\ ChunkHeader + FiberSize <= PageSize

VARIABLES
    stacks,     \* per fiber: status, chunks, capacity, frames and block of values
    array,      \* the block of the allocation table, or NoBlock
    calling,    \* the call that is being executed, or Idle
    ended       \* the VM has been destroyed

vars == <<pages, stacks, array, calling, ended>>

-----------------------------------------------------------------------------

Idle    == [fiber |-> "none", size |-> 0, need |-> 0, used |-> 0]
NoBlock == [start |-> 0, size |-> 0]

Absent == [status |-> "absent", chunks |-> <<>>, capacity |-> 0, frames |-> <<>>, values |-> NoBlock]

Running == calling = Idle /\ ~ended

(* The chunks of a block: the first one knows the size of the block.         *)
ChunksOf(b) ==
    [k \in 1..b.size |-> [page |-> b.start + k - 1, block |-> IF k = 1 THEN b.size ELSE 0]]

(* The frame of the trampoline is in the fiber, and reaches to its end. *)
Trampoline == [chunk |-> 1, at |-> ChunkHeader + TrampolineAt, size |-> FiberSize - TrampolineAt,
               depth |-> 0, need |-> 0]

TopFrame(f) == stacks[f].frames[Len(stacks[f].frames)]

Capacity(f) == stacks[f].values.size * ValuesPerPage

-----------------------------------------------------------------------------

Init ==
    /\ AllocInit
    /\ stacks = [f \in Fibers |-> Absent]
    /\ array = NoBlock
    /\ calling = Idle
    /\ ended = FALSE

(* array::reserve for one entry more, when the capacity does not suffice: it *)
(* is doubled, in place or by moving.  The array never shrinks.              *)
ArrayGrown(s) ==
    IF array = NoBlock
    THEN Allocated(s, 1)
    ELSE Extended(s, array, 2 * array.size)
         \cup {[r EXCEPT !.state = Deallocated(@, array)] : r \in Allocated(s, 2 * array.size)}

(* Any operation that adds an entry to the full table. *)
GrowArray ==
    /\ Running
    /\ \E r \in ArrayGrown(pages) : pages' = r.state /\ array' = r.block
    /\ UNCHANGED <<stacks, calling, ended>>

(* lauf_runtime_fiber::create: the chunks with the fiber in them, its entry  *)
(* in the table, which may be full, and the value stack.                     *)
CreateFiber(f) ==
    /\ Running
    /\ stacks[f].status = "absent"
    /\ \E c \in Allocated(pages, InitialChunks) :
       \E a \in {[block |-> array, state |-> c.state]} \cup ArrayGrown(c.state) :
       \E v \in Allocated(a.state, InitialValues) :
          /\ pages' = v.state
          /\ array' = a.block
          /\ stacks' = [stacks EXCEPT ![f] =
                [status |-> "live", chunks |-> ChunksOf(c.block), capacity |-> InitialChunks,
                 frames |-> <<Trampoline>>, values |-> v.block]]
    /\ UNCHANGED <<calling, ended>>

(* The call of a function by a frame that has some values on the stack.      *)
Call(f, size, need, used) ==
    /\ Running
    /\ stacks[f].status = "live"
    /\ Len(stacks[f].frames) <= MaxDepth
    /\ used <= TopFrame(f).need
    /\ calling' = [fiber |-> f, size |-> size, need |-> need, used |-> TopFrame(f).depth + used]
    /\ UNCHANGED <<pages, stacks, array, ended>>

LacksValues_unreserved == calling.need > Capacity(calling.fiber) - calling.used      \* mutant

(* The function needs more than what is left above vstack::limit().          *)
LacksValues == calling.need > Capacity(calling.fiber) - Reserved - calling.used

GrownValues_same(f) == stacks[f].values.size                                       \* mutant
GrownValues(f) == 2 * stacks[f].values.size

(* The assertion of allocate that mmap has not failed. *)
OutOfPages(n) ==
    /\ Allocated(pages, n) = {}
    /\ calling' = Idle
    /\ ended' = TRUE
    /\ UNCHANGED <<pages, stacks>>

(* allocate_more_vstack_space: vstack::grow copies the values to a new       *)
(* block; the overflow is noticed afterwards.                                *)
GrowValues ==
    /\ calling # Idle
    /\ LacksValues
    /\ LET f == calling.fiber
       IN  \/ \E r \in Allocated(pages, GrownValues(f)) :
                 /\ pages' = Deallocated(r.state, stacks[f].values)
                 /\ stacks' = [stacks EXCEPT ![f].values = r.block,
                                             ![f].status = IF r.block.size * ValuesPerPage > MaxValues
                                                           THEN "overflow" ELSE @]
                 /\ calling' = IF r.block.size * ValuesPerPage > MaxValues THEN Idle ELSE calling
                 /\ UNCHANGED ended
           \/ OutOfPages(GrownValues(f))
    /\ UNCHANGED array

LacksChunk_inFrame(frame) == calling.size > PageSize - frame.at                    \* mutant

(* new_call_frame: does the new frame have to go to the next chunk?  The     *)
(* check counts the size of the current frame twice.                         *)
LacksChunk(frame) == frame.size + calling.size > PageSize - (frame.at + frame.size)

NewFrame(chunk, at) ==
    [chunk |-> chunk, at |-> at, size |-> calling.size, depth |-> calling.used, need |-> calling.need]

(* A frame that fits no chunk.  Neither the builder nor new_call_frame       *)
(* checks it: the frame overruns its page, which is undefined.               *)
Oversized == ChunkHeader + calling.size > PageSize

(* The call, with the prologue of the function that takes the local          *)
(* variables from the frame.  The model ends with a frame that overruns.     *)
EnterFunction ==
    /\ calling # Idle
    /\ ~LacksValues
    /\ LET f     == calling.fiber
           frame == TopFrame(f)
       IN  /\ LacksChunk(frame) => frame.chunk < Len(stacks[f].chunks)
           /\ \/ /\ ~Oversized
                 /\ stacks' = [stacks EXCEPT ![f].frames =
                                  Append(@, IF LacksChunk(frame)
                                            THEN NewFrame(frame.chunk + 1, ChunkHeader)
                                            ELSE NewFrame(frame.chunk, frame.at + frame.size))]
                 /\ UNCHANGED ended
              \/ /\ Oversized
                 /\ ended' = TRUE
                 /\ UNCHANGED stacks
    /\ calling' = Idle
    /\ UNCHANGED <<pages, array>>

(* allocate_more_cstack_space: cstack::grow appends a block of at least one  *)
(* page, and counts one.                                                     *)
GrowChunks ==
    /\ calling # Idle
    /\ ~LacksValues
    /\ LET f == calling.fiber
       IN  /\ LacksChunk(TopFrame(f))
           /\ TopFrame(f).chunk = Len(stacks[f].chunks)
           /\ \/ \E r \in Allocated(pages, 1) :
                    /\ pages' = r.state
                    /\ stacks' = [stacks EXCEPT ![f].chunks = @ \o ChunksOf(r.block),
                                                ![f].capacity = @ + 1,
                                                ![f].status = IF stacks[f].capacity + 1 > MaxChunks
                                                              THEN "overflow" ELSE @]
                    /\ calling' = IF stacks[f].capacity + 1 > MaxChunks THEN Idle ELSE calling
                    /\ UNCHANGED ended
              \/ OutOfPages(1)
    /\ UNCHANGED array

(* return and return_free: the chunks stay.                                  *)
Return(f) ==
    /\ Running
    /\ stacks[f].status = "live"
    /\ Len(stacks[f].frames) > 1
    /\ stacks' = [stacks EXCEPT ![f].frames = SubSeq(@, 1, Len(@) - 1)]
    /\ UNCHANGED <<pages, array, calling, ended>>

BlockAt_page(c) == [start |-> c.page, size |-> 1]    \* mutant

(* The block that begins with the chunk c, and the chunks that begin one.    *)
BlockAt(c) == [start |-> c.page, size |-> c.block]
Firsts(chunks) == {i \in 1..Len(chunks) : chunks[i].block # 0}

(* lauf_runtime_fiber::destroy: the value stack, and then the chunks, in the *)
(* order of the list and a block at a time.                                  *)
DestroyFiber(f) ==
    /\ Running
    /\ stacks[f].status # "absent"
    /\ LET chunks == stacks[f].chunks
           after[i \in 0..Len(chunks)] ==
               IF i = 0 THEN Deallocated(pages, stacks[f].values)
               ELSE IF i \in Firsts(chunks) THEN Deallocated(after[i - 1], BlockAt(chunks[i]))
               ELSE after[i - 1]
       IN  pages' = after[Len(chunks)]
    /\ stacks' = [stacks EXCEPT ![f] = Absent]
    /\ UNCHANGED <<array, calling, ended>>

(* ~lauf_vm, after its processes: array::shrink_to_fit and release.          *)
DestroyVM ==
    /\ Running
    /\ \A f \in Fibers : stacks[f].status = "absent"
    /\ pages' = Released(IF array = NoBlock THEN pages ELSE Deallocated(pages, array))
    /\ array' = NoBlock
    /\ ended' = TRUE
    /\ UNCHANGED <<stacks, calling>>

Next ==
    \/ GrowArray
    \/ \E f \in Fibers :
          \/ CreateFiber(f)
          \/ Return(f)
          \/ DestroyFiber(f)
          \/ \E size \in FrameSizes, need \in Needs, used \in Needs : Call(f, size, need, used)
    \/ GrowValues
    \/ GrowChunks
    \/ EnterFunction
    \/ DestroyVM

Spec == Init /\ [][Next]_vars

(* The interpreter does not stop in the middle of a call. *)
FairSpec == Spec /\ WF_vars(GrowValues) /\ WF_vars(GrowChunks) /\ WF_vars(EnterFunction)

-----------------------------------------------------------------------------
(* Properties *)

Live == {f \in Fibers : stacks[f].status # "absent"}

BlocksOf(f) == {BlockAt(stacks[f].chunks[i]) : i \in Firsts(stacks[f].chunks)} \cup {stacks[f].values}

(* The clients hold exactly the blocks they have been given, with the size   *)
(* they have been given: no block is forgotten when a stack grows, shares    *)
(* pages with the next block of a list of chunks, or is destroyed, and none  *)
(* is given back twice or in part.                                           *)
HeldIsOwned ==
    /\ pages.owned = (UNION {BlocksOf(f) : f \in Live}) \cup ({array} \ {NoBlock})
    /\ \A f, g \in Live : f # g => BlocksOf(f) \cap BlocksOf(g) = {}

(* Every frame, with its local variables, lies inside a page of its fiber's  *)
(* call stack, after the header, and no two frames of a fiber overlap: also  *)
(* after returns, when a chunk is used again, and until a function is called *)
(* whose frame fits no chunk.                                                *)
FramesInChunks ==
    \A f \in Live : \A d \in 1..Len(stacks[f].frames) :
        LET fr == stacks[f].frames[d]
        IN  /\ fr.chunk <= Len(stacks[f].chunks)
            /\ fr.at >= ChunkHeader
            /\ fr.at + fr.size <= PageSize
            /\ \A e \in d + 1..Len(stacks[f].frames) :
                  LET up == stacks[f].frames[e]
                  IN  up.chunk > fr.chunk \/ (up.chunk = fr.chunk /\ up.at >= fr.at + fr.size)

(* A function that executes has room on the value stack for the values it    *)
(* may push, and a builtin it calls for another UINT8_MAX, without a check   *)
(* at each push.                                                             *)
ValuesFit ==
    \A f \in Live : \A d \in 2..Len(stacks[f].frames) :
        LET fr == stacks[f].frames[d] IN fr.depth + fr.need + Reserved <= Capacity(f)

(* A call that grows a stack and is executed again enters the function at    *)
(* last, or panics, or is the end of the model.                              *)
CallCompletes == calling # Idle ~> calling = Idle
=============================================================================
