# lauf in TLA+

lauf is a bytecode virtual machine with a C API. This directory models its runtime (the memory of
a process, its fibers, its stacks, the pages they share, panics and limits), the builder that turns
what a frontend asks for into bytecode, with the interpreter and the builtins that execute it, and
the modules that are linked to a program. It states what makes them correct,
checks that on small instances with TLC, and proves some of it for every instance with TLAPS.
`PROJECT.json` maps every definition to the lines it models, and lists the runs, the hazards, the
theorems and the places where the code disagrees with its own text.

## The system

| Component | State | Operations | Correct means |
|---|---|---|---|
| Allocation table (`runtime/memory.*`, `lib/heap.cpp`) | array of entries, generation counter | add, free, split, merge, poison, trim, clean up | an address denotes one allocation as long as it lives, and use after free is noticed; every block is given back once |
| Fibers and process (`runtime/process.*`, `lib/fiber.cpp`, `vm.cpp`, fiber instructions of `vm_execute.cpp`) | fibers with status, parent, expected values; the current fiber; activations on the native stack | create, resume, transfer, suspend, exit, panic, destroy; call and resume by the host or by a builtin | one fiber executes, control returns to whoever waits, no destroyed fiber is used |
| Garbage collector (`lauf_runtime_gc`) | marks, declarations and weakness of entries | declare, mark from roots, trace, sweep | frees what is unreachable and nothing else, and ends |
| Stacks (`runtime/stack.hpp`) | chunks and frames; block of values | call, grow, return, destroy | frames do not overlap, a function has the values it was promised |
| Page allocator (`support/page_allocator.*`) | free list of blocks, number of mapped bytes | allocate, extend, deallocate, release | a page has one owner, none is lost |
| Array of pages (`support/array.hpp`) | block, size, capacity | reserve, push, shrink | never smaller than asked for |
| Panics and the step limit (`lauf_runtime_panic`, `lib/test.cpp`, `lib/limits.cpp`) | panic handler of each VM, message of the thread, remaining steps | panic, assert_panic, set, step | a panic reaches who waits for it; a process takes no more steps than it may |
| Interpreter (`vm_execute.cpp`) | instruction, frame and value pointers | the instructions | as the builder expects |
| Builder (`asm/builder.cpp`) | blocks, a picture of the value stack with constants and addresses, locals | one function for every instruction, which may fold, promote and take back others; finish | the code emitted means what was built; the limits it computes are bounds |
| Modules and programs (`asm/module.cpp`, `asm/program.cpp`) | functions, globals, submodules, definitions | add, define, look for a literal, link, start | what is extern gets its definition; a global is found where instructions look for it; concurrent building is safe |
| Integer, bit and address builtins (`lib/int.cpp`, `lib/bits.cpp`, `lib/memory.cpp`) | none | overflow variants, shifts, address arithmetic | the integer, the flag, the saturated or the panicking result |
| Arena, array list, text frontend, backends, debugging | | | containers, parsing and printing: not modelled |

A VM has one page allocator and one process. Fibers share the allocation table: each has one entry
for itself and one for every local variable of its frames. The entries are found by index: from an
address that the program holds, from a frame (`first_local_alloc`), or from a fiber
(`handle_allocation`). Fibers run one at a time and switch when they say so, so the concurrency of a
VM is the interleaving of fibers at instruction boundaries, plus the nesting of activations: a
builtin may call `lauf_runtime_call`, which runs the interpreter again above a fiber that is in the
middle of an instruction. Only the building of modules is multi-threaded.

What is hard:

* entries are only popped from the end of the table, their indices are used again, and an address
  keeps two bits of the generation that tells old from new;
* an operation that panics half way (`return_free`, `lauf_runtime_destroy_fiber`) leaves what it has
  done;
* a pointer or handle is kept across something that moves the table or destroys the fiber;
* control moves in six ways between fibers that are known by handles and by pointers;
* instructions that grow something are executed again, and must make progress;
* blocks of pages come out of a cache larger than asked for, and go back merged with others;
* the builder changes code that it has emitted already, by what it believes of the stack, and computes
  sizes before it knows the code;
* a module is built by several threads with a lock for each access, but not for look-then-add;
* `assert_panic` replaces the handler of a VM while other VMs and other assertions run above it.

## Modules

| Module | Models | Used by |
|---|---|---|
| `Memory` | allocation table, with the locals of frames and the handles of fibers | `MCMemory`, `MemoryProofs`, `PieceProofs` |
| `Fibers` | control flow between fibers, host and nested activations | `MCFibers`, `FibersProofs` |
| `Collector` | mark and sweep, and the program between two collections | `MCCollector`, `CollectorProofs` |
| `Reachability` | what a collection promises, as one step on a graph | `Collector` (refinement) |
| `PageAllocator` | page allocator with an arbitrary client | `Stacks` |
| `Stacks` | call stacks, value stacks and the array of the table, over `PageAllocator` | `MCStacks`, `StacksProofs` |
| `Words` | words, addresses and addresses of functions as numbers of a small width | `IntLib` |
| `IntLib` | integer and bit builtins | `Machine` |
| `Machine` | a frame, its locals and the globals, and access to them by addresses | `MemoryLib` |
| `MemoryLib` | address arithmetic, copy, fill, compare | `Interpreter` |
| `Interpreter` | every instruction, within one call | `Meaning` |
| `Meaning` | what the requests to a builder mean, without instructions (specification) | `Builder` |
| `Builder` | the builder of a function body | `MCBuilder`, `BuilderProofs` |
| `Modules` | building of modules by threads, linking, the globals of processes | `MCModules`, `ModulesProofs` |
| `Panics` | panics, `assert_panic`, the step limit | `MCPanics`, `PanicsProofs` |
| `MemoryProofs`, `FibersProofs`, `CollectorProofs`, `BuilderProofs`, `PanicsProofs`, `ModulesProofs` | theorems about the module of that name | |
| `PieceProofs` | theorems about the pieces of split blocks, over `MemoryProofs` | |
| `StacksProofs` | theorems about `PageAllocator`, and about `Stacks` over it | |

**Memory.** `table` is `memory::_allocations`. An entry has its source, status, split state,
generation and size as in the code; its pointer is the block of native memory (named by the slot and
the epoch it was created in, so that two blocks never have the same name) and an offset. `fibers`
holds what the table needs to know of a fiber: its handle, and for each frame with local variables
`first_local_alloc`, their number and the generation of the frame. `Call`, `GrowTable` and
`SetupLocals` are the steps of one `setup_local_alloc` with the `local_alloc`s after it: `calling`
keeps other fibers from running meanwhile, as the interpreter does. Everything else is one action
per builtin or C function. `heapLive`, `epoch` and `retired` are history: the heap blocks the process
owns, the number of trims, and the addresses that have been popped. `fault` records a failed assertion
or a wrong call of the host's `free_alloc`. The contents of memory are not modelled, and `Collect`
may free any set of entries that `gc` could find unreachable (`Collector` says which).

**Fibers.** The table holds fibers only, because a handle is an index of the table and indices are
used again. `cur` is `process->cur_fiber`, and may dangle. `hosts` is the native stack: one record for
each activation of `lauf_runtime_call`, `lauf_runtime_resume` or
`lauf_runtime_resume_until_completion`, with the fiber to destroy at the end and the current fiber
to restore. `control` says whether the host, the interpreter, or the end of
`lauf_runtime_resume` executes. Values are counted, as that is what the code checks. An assertion
that fails, and a use of a destroyed fiber, is a value of `fault`, where the behaviour ends. `program`
is chosen at the start and says what kind of program executes (`ProgramKinds`): a disciplined one
keeps to the rules `MaySwitchTo`, `MayDestroy`, `MayGive` and `MayEnter`, which no document states; they
were found as what suffices to exclude every fault. It also keeps the handles of the fibers that it has not
finished with (`FibersAssumption`): a fiber that nobody refers to and that `gc` destroys may be one that another
waits for. `Ancestors`, who waits for a fiber, is the least set with the parents of the fiber and of its members, so
that it is defined whatever the parents are. `NoFault`, `ParentsFormChain` and
`HostGetsControlBack` are about disciplined programs, the other properties about all.

**Collector** and **Reachability.** Here the contents of memory matter, as far as they are addresses:
`words[e]` is the set of addresses in the memory of entry `e`, each an entry and an offset, because
`gc` compares the offset with the size. An address of another generation refers to nothing and is left
out, and so is the reuse of indices (`Memory` has both). For a fiber, `words` is its value stack with its
frames; `point` is what of it lies up to `suspension_point`, which is what `gc` walks for every fiber but
the current one. It is set when a fiber suspends and out of date when one is done or waits below a nested
`lauf_runtime_call` (`below`); `gc` may then find anything of `Leftovers`. Values that a switch passes
are a `Store` of the fiber that goes on. `MarkStacks`, `MarkExplicit` and `Sweep` are each a loop of
`lauf_runtime_gc`, and `MarkPending` is an iteration of the loop over `pending_allocations`, in any order.
`phase` is where the function is; the program waits meanwhile. Only heap memory is split here, and
poisoned entries count as allocated, as `gc` treats them alike. `Reachability` has one step for a whole
collection, on the graph that memory and stacks make: `Collect` removes `Garbage`, which is defined by
the sets that are closed under reference, and not by a traversal. The invariants of the traversal are
in `CollectorProofs`.

**PageAllocator** and **Stacks.** The allocator's state is a record and its operations are functions
to sets of outcomes, so that an action of `Stacks` can make several calls in one step, as
`lauf_runtime_fiber::create` does. `mmap` may place pages anywhere and `mremap` may fail.
`pages.owned` and `pages.released` are history; nothing uses the allocator after `release`, which leaves its list as it
is. In `Stacks`, a call is again several steps (`Call`, `GrowValues`,
`GrowChunks`, `EnterFunction`), because the instruction is dispatched again after growing. A frame
and its local variables are taken from the stack in one step: nothing happens between the call and
the prologue of the function. A frame that fits no page overruns it, which is undefined, and the model ends
(`Oversized`).

**Builder**, and what it rests on. A frontend asks for one instruction after the other; every function
`lauf_asm_inst_*` is an action, with the operator `Inst*` that says what it does to the code of the
current block (`insts`, `vstack`, the highest the stack was, the number of `local_addr`s). The
assertions of the builder are guards, because the default error handler aborts. The variables are the
fields of `lauf_asm_builder`; `built` (and `under` and `late` of a block) are history. What
frontends ask for is a constant: a script says for each position which requests may be made there, how many
inputs the function has, the words to try as inputs (`words`), and the environments to execute it in
(`envs`: whether the module is a submodule, which generation and which native address the frame has).
`outs` are the numbers of outputs that the function may have been declared with. `Finish` produces the
body as `emit_prologue` and `emit_body` do; `Reset` begins the next script with the same builder. A script
that violated a guard would deadlock, and deadlock is checked.

Executing is a function and not a behaviour: `Interpreter!Run` executes the instructions of one call
(`Execute`, as `vm_execute.cpp`), where calls, switches of fibers and foreign builtins are events that return
words depending only on the number of the event, and `Meaning!Follows` follows the requests themselves on a
machine that knows nothing of instructions, frames, folding or layout: integers are exact until
they become words, locals and globals are sequences of their own, the builtins are what their headers promise.
`CodeMeansWhatWasBuilt` compares the two. `Meaning` is the specification, so it is not mapped to code.
Words have 8 bits: a `push` has 3 bits of them, `push2` 3 and `push3` 2 (24, 24 and 16 of 64); an address has
3 bits of allocation, 1 of generation and 4 of offset (30, 2 and 32); memory is counted in half words.
Memory that is new contains the same word everywhere (`Garbage`). The counts given to `copy`, `fill` and `cmp`
are such that offset and count do not overflow together.

**Modules.** A function or global is known by its module and its number. A step is what happens under one lock,
or one access without any: `build_data_literal` is `LookForLiteral` (the list under the lock), `LookAtGlobal` for
each global, and `AddLiteral`, `DefineSize` and `DefineMemory`. `call_extern` is `FindExtern` and `AddFunction`.
`program` has the definitions in the order of the calls and the submodules with their offsets. A process has
its table of globals; `last` is history and says which process was started last. Linking is sequential, and
programs are linked before they are started, as the code takes for granted.

**Panics.** `frames` is the native stack of one thread: runs of `lauf_vm_execute`, on one VM or another, and
calls of `assert_panic`. `control` is `failed` while the interpreter returns false to the last frame.
`handler` and `remaining` are of each VM, `message` is the thread-local `panic_msg`. `allowed`, `taken` and
`panic` are history: the limit in force, the steps since, and who was told of the last panic.

## Runs

| Run | Instance | Shows |
|---|---|---|
| `MCMemoryFibers` | 2 fibers, 4 entries, 1 trim, 2 frames each, pages of 2 entries, gc of fibers | `LocalsInPlace`, `HandlesMatchFibers`, `NoAssertionFails`, `LiveEntriesStay` |
| `MCMemorySplit` | 1 fiber, 4 entries, functions with 1 or 2 locals, splits at offsets 0 and 1 of blocks of 2 and 3, merges in order | `PiecesTileBlock`, `FreedExactlyOnce`, `NoDanglingEntry` |
| `MCMemoryGen` | 1 fiber, 3 entries, 4 trims, counter of 4 and addresses of 2 generations | `TypeOK`, `StaleAddressesStayDead`, `CallCompletes` |
| `MCMemoryGrowTwice` | functions with 2 locals | `CallCompletes` is violated |
| `MCMemorySplitMoves` | the split that moves the table | `PiecesTileBlock` is violated |
| `MCFibers` | any program with 2 fibers, 2 activations and 0 or 1 values; disciplined ones with 3 fibers, and 2 activations and 0 or 1 values, or 3 activations and none; fair | `TypeOK`, `RunningFibersAreOnStack`, `NoFault`, `ParentsFormChain`, `LifeGoesForward`, `HostGetsControlBack` |
| `MCFibersStaleParent` | 4 fibers | `ExitResumesSuspended` is violated |
| `MCStacks` | 2 fibers, 5 pages, 2 chunks, 3 frames, one size of frames that fits no page, fair | `NoPageTwice`, `NoPageLost`, `HeldIsOwned`, `FramesInChunks`, `ValuesFit`, `CallCompletes` |
| `MCCollector` | 2 fibers, 2 heap slots, a global, 2 addresses in memory, 1 declaration, 1 nested call | `TypeOK`, `MarkedReferToMarked`, `CollectsGarbage`, `LiveKept`, `MarkingEnds` |
| `MCBuilder` | 18 scripts of 3 to 30 positions, 3 globals, 3 functions | `CodeMeansWhatWasBuilt`, `VStackTellsTruth`, `VStackIsEnough`, `EstimateIsEnough`, `DebugLocationsFound` |
| `MCModules` | 2 threads and 3 globals or 2 functions of one module; 3 modules with 3 globals and 2 processes; 3 modules with 3 functions; 2 modules linked | `LiteralsHoldTheirData`, `OneCopyPerThread`, `GlobalsAreReached`, `DefinitionsStay`, `NamesAreResolved` |
| `MCPanics` | 2 VMs, 4 frames, limits of 1 and 3 steps or none | `PanicsReachWhoWaits`, `StepsWithinLimit` |

Bounds, and why they are enough:

* `MaxEntries`, `MaxFibers`, `MaxPage`, `MaxDepth`, `MaxCalls` bound the size of a state. Four entries
  hold two fibers and a local of each; three hold a fiber, a local and a block, and any of them can be
  trimmed and reused. Three fibers make a chain of parents with a fiber outside of it. Five pages hold
  two stacks of two fibers with a hole between blocks.
* `MaxEpoch` bounds the number of trims: four are needed for the counter of `MCMemoryGen` to wrap,
  one is enough for an index to be used again. The counter and the bits of an address are 4 and 2
  instead of 256 and 4; what matters is that one divides the other (`MemoryAssumption`).
* `PageEntries` is 2 where the table should move, and as large as the table where a split must not
  move it (`MCMemorySplit`; `MCMemorySplitMoves` shows what happens then).
* `CHECK_DEADLOCK` is off except in `MCBuilder`: a bound, a destroyed process or VM, a fault or a crash end a
  behaviour.
* In `MCCollector`, two addresses make a chain from a stack through heap memory, a cycle of two entries,
  and a reference to a fiber; one declaration makes either a pinned or a weak entry; the addresses of the
  end of an allocation are beyond the end of its first piece after a split, and at the end again after a
  merge. What the bounds leave out, longer chains and larger graphs, the theorems cover.
* The scripts of `MCBuilder` are chosen by what the builder looks at: each has a position for every choice that
  decides what is folded, promoted or taken back, so that all combinations of, for instance, two edge cases of
  integers (0, 1, 7, 8, 127, 128, 255) with every builtin occur, folded and executed; every condition with every
  order of the blocks after it; locals with and without an alignment of more than a pointer, before and
  after each other; loads and stores of every type at the beginning and inside of locals and globals, in range and
  out of it. A run of 60 instructions, or 8 changes of blocks in the meaning, counts as endless on both sides. Not
  reached are the widths of counts in instructions (255 values, 65535 instructions), which are assertions.
* `Bounds` of `MCModules` are four kinds of behaviour, because threads, processes and functions do not meet
  outside of the lists they share. Two threads and two literals make three globals, one of them double. Three
  functions in three modules make two declarations of a name and a definition. One native definition is enough to
  be before or after a linked one.
* In `MCPanics`, four frames are two VMs above each other with an `assert_panic` in each, or two assertions
  in one. The limit 1 is exceeded by the first step, 3 leaves room for a set in between.
* Symmetry is used in `MCCollector`, of the heap slots, and in `MCModules`, of threads, processes, submodules
  and data, which no property of the runs tells apart: their properties are invariants and about single steps.
  The runs that check liveness have none.

Fairness. The interpreter and the native code are a single thread that does not stop inside an
instruction, so the steps that continue one are weakly fair: `GrowTable`, `SetupLocals`, `GrowValues`,
`GrowChunks`, `EnterFunction`, `Return`, `ReturnPanic`. `HostGetsControlBack` also needs a program
whose fibers end: a fiber that gets control again and again executes its `exit` at last (strong
fairness). This is an assumption about programs and not about lauf, and the property speaks of programs
without values, as a fiber whose results nobody takes cannot end in a disciplined way. `Builder`, `Modules`
and `Panics` state no liveness: what frontends ask for, and whether programs panic, is up to them.

## Proofs

`MemoryProofs` proves `TypeCorrect`, `Spec => []TypeOK`, and `UseAfterFreeDetected`,
`Spec => []StaleAddressesStayDead`, for any number of fibers, entries and generations. `TypeOK`
is inductive. `StaleAddressesStayDead` is not: that an old address resolves to an entry says only
that their generations agree in the bits of an address. The strengthening `GenInv` connects the
counter with the number of trims, `curGen = epoch % Generations`, says of every entry and every retired
address whose generation was the current one that it is `born % Generations` (of which an address
keeps the remainder by `AddrGens`), and that the entry at the index of a retired address was created in
a later epoch. From equal remainders and a later epoch follows a distance of at least `AddrGens`.
It needs `Generations % AddrGens = 0`.

`MemoryProofs` also proves the four properties of `MCMemoryFibers`, in programs that do not split local variables,
or merge them again in order (`InOrder`) and before their frame ends (`LocalsMerged`, as `memory.h:136` asks for): `LocalsStayInPlace` (`LocalsInPlace`), `HandlesAreFibers` (`HandlesMatchFibers`),
`DestroyAssertsHold` (`NoAssertionFails`) and `AddressesStayGood` (`LiveEntriesStay`). They rest on `PlacedInv`: every
local variable of every frame is at its slot, unfreed and of the frame's generation (`FramesPlaced`), no slot belongs
to two frames (`FramesApart`), fibers and unfreed entries of fibers are in bijection (`HandlesHeld`), and nothing the
program may do changes an entry of a fiber (`Untouched`). What goes away goes away whole: a return and the end of a
fiber free the entries of frames and handles that go with them, and trimming takes only entries that are
freed (`Drops`, `DroppedInPlace`). A local variable that is split when its frame ends is excluded because a return that
panics at it has freed those before it (see below); from then on a frame has freed entries, which other fibers may
use again, and the destruction of the fiber trips its assertion. `MCMemorySplit` does split local variables and return
from their frames, with one fiber.

`PieceProofs` proves the three properties of `MCMemorySplit`: `PiecesTile` (`PiecesTileBlock`), `BlocksFreedOnce`
(`FreedExactlyOnce`) and `NothingDangles` (`NoDanglingEntry`). They have three hypotheses, and the statements fail
without the first two of them: no split moves the table (`SplitsStay`; the run `MCMemorySplitMoves` shows what happens
otherwise), pieces are merged in the order of the split (`InOrder`, see below), and no function returns and no fiber is
destroyed while one of its local variables is split (`LocalsMerged`; this one is for the proof: `MCMemorySplit` does
that, and panics, with one fiber). Pieces may have size zero. The invariant
`TiledInv` says of the unfreed entries of a block that their split states tell where they lie, that they do not
overlap, that they cover the block (`Tiled`), and that the process owns the heap blocks that have such entries
(`HeapOwned`). It is the covering that makes `free` right: an entry that says it is whole is alone, and the first
piece exists (`OneHead`). That a new entry has a block of its own is from `GenInv`. `NothingDangles` is also for
processes where `gc` destroys no fiber (`~CollectFibers`), as it leaves the entries of that fiber's local variables
usable.

`FibersProofs` proves every property of `MCFibers` but the liveness, for any kind of program, any number of
fibers and any depth of activations. `FibersTypeCorrect` (`TypeOK`), `RunningAreOnStack` (`RunningFibersAreOnStack`) and
`LivesGoForward` (`LifeGoesForward`) hold of any program, until it is at fault: `Inv` says that the fibers that
run are exactly the current one and those saved by activations, each once (`StackInv`), and what the activations
refer to (`ControlInv`). `DisciplinedHasNoFault` (`NoFault`) and `ChainsOfParents` (`ParentsFormChain`) are about
disciplined programs, whose invariant is `Rules`: the fibers that run are the roots of a forest of parents; all others
in it are suspended, and no fiber is in two chains or twice in one (`Chains`); an activation destroys a fiber that no
other activation refers to, waits for or has as an ancestor (`Owners`); and a fiber that hands control back
to the host gives as many values as the host takes (`Given`). The lemmas about chains are about any table; they rest on
the definition of `Anc` as a least closed set and need no induction over paths.

`CollectorProofs` proves every property of `MCCollector`, for any number of fibers, heap slots, globals,
addresses and nested calls: `CollectorTypeCorrect`, `MarkingIsClosed` (`MarkedReferToMarked`),
`CollectorImplements` (`CollectsGarbage`), `CollectorMarkingEnds` and `CollectorKeepsLive`. The
invariant `IInv` says that no marks are left over between collections, that pending entries are marked
and, before the loop over them, are all that is marked, that the roots are marked, that marked entries
refer to marked ones unless they are pending, and that whatever is marked is reachable.
With nothing pending, the marked entries are closed under reference and contain the roots, so they
contain the reachable ones; as they are all reachable, the doomed entries are exactly `Garbage`. The
abstract `Reachable` is an intersection of closed sets, which needs no induction over paths.
`CollectorKeepsLive` needs in addition that without a nested call the suspension point of every fiber
that waits covers its stack (`PointsCoverStacks`).

The first part of `StacksProofs` is about the allocator alone. `PagesOwnedOnce`, `AllocSpec => []NoPageTwice`: no page is in two
places. The clients give back what they got, and call `release` last, as the destructor of `lauf_vm` does, its only
caller: the free list still has the nodes that `release` has unmapped (`Gone`). The invariant `Sound` adds that the pages of every block are mapped, so that those which
`mmap` and `mremap` add are in no other block; there is one lemma per operation, which the proofs
about `Stacks` cite. `PagesAccounted`, `AllocSpec => []NoPageLost`, adds that the mapped pages are those that a block
covers and that `bytes` is their number (`Accounted`), and that after `release` both are nothing. What a release subtracts is the sum of the sizes in the free
list, which the code adds up node by node: that there is such a sum and that it is the number of pages in nodes
that are apart is proved by induction on the length of the list (`SumExists`, `CachedSizeCounts`), as
`NatLessThanWellFounded` has no operator as a parameter. That blocks are well-formed after a merge rests on the bound `MaxPage`
only as the size of the address space.

The second part proves every safety property of `MCStacks`, for any number of fibers and any size of pages, frames and
stacks: `StacksShareNoPage` (`NoPageTwice`) and `StacksLoseNoPage` (`NoPageLost`) for the allocator with these
clients, `ClientsHoldTheirBlocks` (`HeldIsOwned`), `FramesKeepToChunks` (`FramesInChunks`) and `ValuesHaveRoom`
(`ValuesFit`), the frames until a call whose frame fits no page, where the model ends. `InvIn` is the invariant of the allocator together with that of each stack (`StackOK`), and with
`HeldIn`: the owned blocks are exactly those which the stacks and the table hold, each held once. The last part is
needed to destroy a list of chunks, block after block: the next block to give back must still be owned.

`PanicsProofs` proves both properties of `MCPanics`, for any number of VMs, nesting and limits.
`StepsAreLimited` (`StepsWithinLimit`) rests on `StepInv`: while a limit is in force, the steps taken and those that
remain add up to it (`StepsAddUp`), and every machine that may go on has a step left (`StepsRemain`), which is every
machine on the native stack but the one that fails. That this one cannot go on limited with none left is because
the frames of a machine are next to each other (`FramesOK`), so that only its own `assert_panic` can let it go on.
`PanicsAreTold` (`PanicsReachWhoWaits`) rests on `HandlerInv`: the handler of a machine is that of its innermost
`assert_panic`, each of which keeps the handler of the next one below (`HandlersOK`).

`ModulesProofs` proves what concurrent builders are promised about literals, for any number of threads, modules and
globals: `LiteralsAreRight` (`LiteralsHoldTheirData`) and `EachThreadAddsOnce` (`OneCopyPerThread`). In
`Inv`, a global that a thread still defines has no memory (`DefinersOK`), and no two threads define the same one
(`DefinersApart`), so a global that matches is never written again. `CopiesInv` adds that a thread that looks for a
literal has not passed a copy of its own, so at the end of the list there is none. They assume of the constants
that null and the absent data of a global are no data (`ModulesAssumption`).

About the program it proves `GlobalsReached` (`GlobalsAreReached`), `DefinitionsAreKept` (`DefinitionsStay`) and
`NamesGetDefinitions` (`NamesAreResolved`), for any modules, linked in any order and more than once. The lists of
the code are put together with `FlattenSeq` of the community modules, a recursive function, so the lemmas first
show by induction what that computes: what is in the lists is in the result (`Flattened`), and one more list goes
to the end (`FlattenGrows`). `Placed` says where each global of the first n submodules is in the table, by
induction over n; a start lays out the table and the offsets from the same list, so the process that starts finds
everything (`StartStep`), and nothing is linked afterwards. `GlobalsAreReached` is inductive with the types
(`ProgramInv`). Definitions are only added behind those there are (`DefinitionsAreAdded`) and the first one of a
function counts (`FirstDefinition`), so none is replaced; a declaration is in the list that linking searches
(`Undefined`), so its name is found there, and the definition that is added is never nothing.

`BuilderProofs` proves, for every module of globals and functions and every script of a frontend, that the
instructions of a function fit the memory that is allocated for them (`Estimate_Enough`, `EstimateIsEnough`), and
that an instruction is found to come from the location it was built under (`Debug_Locations`, `DebugLocationsFound`).
They assume of the constants that they are well formed (`BuilderAssumption`), which TLC evaluates. Both rest on
`BlocksInv`, which is inductive: every block is a record of lists (`IsBlock`, from lemmas about every function that
emits instructions: whatever it folds, promotes or takes back, code becomes code), and its locations are in order of
the instructions they were recorded at, with the location of each instruction that was built since the last of them
(`Debugged`). Every step but `Finish` leaves no body (`BodyNext`), so a body is what `Body` makes of the blocks there
are. The estimate is then compared part by part: the prologue has an instruction for each local and one more at
most, a block has its own instructions, one to begin with, and not more at its end than the estimate has for its
terminator, and `EmitBody` adds the blocks up in their order. For the locations the lemmas say where a block is
placed (`UpToAt`, `OffsetsOrdered`): the entries of one block come after those of the blocks before it, so that the
search through the whole list finds what the search through the block's own would (`LocationFound`).

`Heights_Follow` is about what the builder changes behind its own back: `HeightsInv` says of every block that its
instructions take and leave as many values as the picture has, in bounds of its max_vstack_size, and end with what
the terminator takes and the blocks after it begin with. Its core is `Leaves`, a height between any two
instructions, which lemmas show for each function of the builder (`InstPopIsBuilt` and so on): that more code can be
put behind it (`LeavesMore`), that the last instructions can be taken back (`LeavesLess`, `TakenBack`), and that
folding a builtin pushes as many values as it returns (`LibraryGives`). It assumes `CallsFit`: a function that is
called through a constant address has the signature the address says, which the builder takes from the address
(`get_constant_function`, `builder.cpp:748`); a frontend that makes up such an address gets a call that moves the
stack otherwise. The scripts of `MCBuilder` do not.

`VStack_Enough` (`VStackIsEnough`) takes this to the machine: a finished function, from any inputs, in any environment
and for any number of instructions, never has more values than its max_vstack_size. One part is about each
instruction of `Interpreter`: it leaves as many values as `Moves` says, if it goes on (`StepGoes`, `BuiltinGoes`,
`BranchGoes` and so on). The other is about the layout: the elements of `EmitBody` are where `Offsets` says
(`WholeIs`), a block that can be reached ends where the next one that can be reached begins (`NextOffset`), and a
patched jump leads behind the first instruction of its block (`LaidIs`). `Place` then says how high the stack is at
each instruction, and the machine stays at a place (`CodeStays`): an instruction leads to the next, the last one to the
terminator or to the beginning of the following block if there is none, and a block without a terminator ends in a
builtin that panics, so nothing falls through it. `RunStays` is the induction over the dispatch loop. It assumes
`CallsFit`, as above; that every block that can be reached is terminated is what `Finish` requires.

Only model-checked: the liveness properties (`CallCompletes` of `Memory` and of `Stacks`, `HostGetsControlBack`),
which are out of the prover's reach; and what is about the meaning of instructions, `CodeMeansWhatWasBuilt` and
`VStackTellsTruth` of `Builder`: they run the code that was built, whose arithmetic is on bits of words and whose
peephole changes are right for reasons the provers would have to find instruction by instruction. Their runs are
exhaustive for the scripts.

## Where the code disagrees with its text

Three runs show it, see `findings` in `PROJECT.json`: a call of a function with two locals when one
entry is left never ends; a split that moves the table loses the shrinking of the first piece;
`exit` resumes a fiber that never started, because a handle was used again.

Seen with the same modules, and not kept as runs:

* `merge` does not invalidate the address of the second piece: `split` copies a generation that is not
  the current one, so the next piece at that index has the same address (`memory.cpp:432`). Hence
  `StaleAddressesStayDead` excepts pieces, and the entries of fibers (`memory.hpp:128`).
* A split at offset 0 makes a piece of size zero, which is adjacent to the others in both orders:
  `merge` can then take the first piece as the second (`memory.cpp:467-478`), after which no piece says that it is the
  first, and the block is never freed. With `InOrder = FALSE`, TLC finds `FreedExactlyOnce` violated by this. The runs
  that split merge with `InOrder = TRUE`.
* `gc` destroys a fiber without freeing the entries of its locals, which `lauf_runtime_destroy_fiber`
  calls necessary (`memory.cpp:389`, `process.cpp:310`). `NoDanglingEntry` is checked without it.
* A return that panics at a split local has freed the earlier ones; destroying the fiber later
  trips the assertion that they are not freed (`process.cpp:325`).
* A transfer to its own parent makes a fiber its own parent, and the next suspend goes to a fiber that
  is running (`vm_execute.cpp:414`, `process.hpp:74`).
* A mismatch of results is noticed after the fiber has been suspended or is done, and the panic
  suspends it again (`process.cpp:258`, `vm_execute.cpp:284`).
* A fiber that destroys itself trips an assertion instead of being cancelled (`process.cpp:307`).
* `lauf_runtime_resume_until_completion` destroys the fiber it was given and not the final one, as
  its header says (`process.cpp:297`).
* `gc` can destroy the parent of the current fiber (`memory.cpp:310`).
* `gc` below a nested `lauf_runtime_call` walks an out of date suspension point of the fiber that called
  (`memory.cpp:332`, `process.cpp:185`): memory that only the stack of this fiber refers to is freed,
  although the header says that gc frees what is not reachable (`memory.h:107`), and the fiber itself can
  be destroyed. `LiveKept` therefore speaks of collections with `below = <<>>`.
* The suspension point of a fiber that is done is walked too, although it is set "only when suspended"
  (`process.hpp:48`); what it finds may keep garbage.
* A local variable that is declared weak is still scanned, as a part of its frame
  (`memory.cpp:333-342`, `memory.h:153-157`).
* After `gc` has destroyed a fiber, the entries of its locals are scanned by the next one, from pages that
  have been given back (`memory.cpp:352-357`, `memory.cpp:389`).
* When the current fiber is done, its registers are null (`vm_execute.cpp:290`), and a `gc` by the host
  starts from them.
* `lauf_runtime_get_current_fiber` asserts that the current fiber is running, although its header
  gives a result for when all are suspended (`process.cpp:121`).
* A frame larger than a page is placed at the start of the next chunk and runs over its end, and the
  size of a frame is cut to 16 bits (`stack.hpp:142`, `builder.cpp:500`). The model ends with the call of
  such a function (`Oversized`).
* The limits of the stacks count what was asked for: a block from the cache may be larger than
  `max_cstack_size_in_bytes`, and the overflow of a value stack is noticed after it has grown.
* The null address is emitted with all bits set and recorded with all bits clear (`builder.cpp:997-999`), so that what is
  folded from it is wrong. `VStackTellsTruth` excepts it, and no script folds it.
* The constant of `global_addr` is the index in the module, which is another one when the module is linked to a
  program (`builder.cpp:1007-1013`, `vm_execute.cpp:172`). What is folded from it (a comparison with zero, integer builtins)
  is wrong then.
* An element at a constant negative index stays where it is (`builder.cpp:1210`).
* A constant address with an offset, made by integer builtins, is loaded from the beginning of the global
  (`builder.cpp:1276`).
* A debug location that is recorded after an instruction that is then taken back is attributed to a later
  instruction, and the list of locations may be out of order, which the search takes it not to be
  (`builder.cpp:607`, `module.cpp:181`).
* `local_allocation_size`, the offsets of locals and `max_cstack_size` are 16 bits wide and not checked
  (`builder.cpp:500`, `builder.cpp:543`).
* `function_addr` leaves the upper half of the value as it is in C++, unspecified; the model has zeros.
* A branch of a function with a single block is a case of `emit_linear_body` that cannot happen: both ways lead to the
  entry block, and the branch has become a jump (`builder.cpp:410`, `builder.cpp:657`).
* `copy`, `fill` and `cmp` with a count that overflows with the offset pass the range check (`memory.hpp:142`).
* `addr_add` beyond the largest offset gives the largest one (`lib/memory.cpp:100`), also for an offset below zero.
* A read-only global without data of the size of a literal, or one that another thread has given its size but not
  its memory yet, makes `build_data_literal` compare with a null pointer (`builder.cpp:515`, `module.cpp:222-228`).
* Two threads that call the same extern function for the first time declare it twice, and only one of the two gets
  its definition when a module is linked (`builder.cpp:877-895`, `program.cpp:36`).
* A function can become the definition of another without having one itself (`program.cpp:47-51`); calling it
  executes no instructions.
* The offsets of the globals of submodules belong to the program and not to the process (`memory.cpp:77`), so a
  process that is started after a module has got another global changes those of a running one.
* `lauf_asm_find_debug_location_of_instruction` takes the lock of the module, and functions that it calls take it again
  (`module.cpp:196`, `module.cpp:202`), which may block behind a waiting writer.
* `assert_panic` compares with a null message after a panic without a valid one (`lib/test.cpp:87`).
* After the step limit was exceeded and recovered from, a process has no limit, as a comment says
  (`process.cpp:383`); `set_step_limit` starts over at any time, up to the limit of the VM.

## Not modelled

Registers of a fiber that panics (`do_panic` stores the message in place of the value stack pointer); the locals
of a fiber as entries of their own in the marking; the contents of memory across calls and fibers: `Machine`
has them within one call, `Collector` as far as they are addresses. Native functions reverse their arguments,
which is invisible where a call is an event. Chunks, which are modules of one function; native globals; native
addresses as integers (`addr_to_int`, `int_to_addr`). Parsing (`frontend/text.cpp`), printing (`backend/dump.cpp`) and
the QBE backend, whose output has its meaning elsewhere: they have no state beyond the text. The arena and array list,
which are used through their interface; `stacktrace.cpp`, which only reads frames. Resuming a fiber after a panic of the
interpreter inside of an instruction. The registers are the one thing here that matters for correctness; they
would need the frames of `Memory` and the switches of `Fibers` in one module, which is beyond TLC for more than
one fiber.

## Plan

1. `Memory`, `MemoryProofs`, `Fibers`, `PageAllocator`, `Stacks`: done.
2. `Collector`, `Reachability`, `CollectorProofs`: done.
3. `Builder` with `Machine`, `Interpreter`, `IntLib`, `MemoryLib` and `Meaning`: done.
4. `Modules` and `Panics`, with their proofs: done.
5. Proofs about frames, handles and pieces in `Memory`, about `Fibers`, `PageAllocator` and `Stacks`, and about
   programs and globals in `Modules`: done; about what `Builder` counts and locates: done.
6. Tiling in programs that split at offset 0, and that split local variables and merge them before they return: done.
7. An abstract specification of coroutines (who waits for whom) that `Fibers` implements under
   discipline.
