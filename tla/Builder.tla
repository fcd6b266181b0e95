------------------------------ MODULE Builder ------------------------------
(***************************************************************************)
(* The builder of function bodies, asm/builder.cpp and asm/builder.hpp.    *)
(*                                                                         *)
(* A frontend asks for one instruction after the other.  The builder keeps *)
(* a picture of the virtual stack (which values are constants, which are   *)
(* addresses of locals), and from it folds, replaces and takes back        *)
(* instructions while it goes; at the end it lays the blocks out, with a   *)
(* prologue that depends on what is left of the code.  The body is then    *)
(* executed by Interpreter, and the question is whether it still does what *)
(* was asked for (Meaning).                                                *)
(*                                                                         *)
(* A request that violates an assertion of the builder ends the program,   *)
(* as the default error handler does, so the assertions are guards here.   *)
(* What a frontend asks for is a script: the requests it may make at each  *)
(* step, so the length of the script bounds the behaviour.                 *)
(***************************************************************************)
EXTENDS Meaning

CONSTANTS
    Scripts,    \* what frontends ask for: inputs, sets of requests, and samples to compare with
    SizeLimit   \* UINT16_MAX + 1 of the sizes and offsets in a frame

(* What the types of the arguments of a request leave to a frontend; a       *)
(* builtin that can be folded is one of the libraries', which are the ones   *)
(* whose results are known.                                                  *)
LegalBuiltin(b) ==
    /\ b.in \in Nat /\ b.out \in Nat
    /\ b.name \notin Accessors
    /\ b.fold => b \in Library

Legal(o) ==
    /\ o.op \in {"pop", "pick", "roll", "value"} => o.i \in Nat
    /\ o.op = "select" => o.n \in Nat
    /\ o.op = "cc" => o.cc \in Conditions
    /\ o.op = "declare_block" => o.in \in Nat
    /\ o.op = "call" => o.f \in DOMAIN Functions
    /\ o.op \in {"call_indirect", "fiber_resume", "fiber_transfer", "fiber_suspend"} => o.in \in Nat /\ o.out \in Nat
    /\ o.op = "call_builtin" => LegalBuiltin(o.b)
    /\ o.op \in {"load_field", "store_field"} => o.type \in {ValueType, SintType, UintType, EmptyType}

ASSUME BuilderAssumption ==
    /\ SizeLimit \in Nat
    /\ Len(Scripts) \in Nat \ {0} /\ DOMAIN Scripts = 1..Len(Scripts)
    /\ \A f \in DOMAIN Scripts :
          /\ Scripts[f].in \in Nat /\ Scripts[f].fuel \in Nat
          /\ Len(Scripts[f].steps) \in Nat /\ DOMAIN Scripts[f].steps = 1..Len(Scripts[f].steps)
          /\ \A i \in DOMAIN Scripts[f].steps : \A o \in Scripts[f].steps[i] : Legal(o)

VARIABLES
    frontend,   \* whose script is followed
    pos,        \* how many requests it has made
    blocks,     \* lauf_asm_builder::blocks
    cur,        \* index of the current block, or 0
    locals,     \* lauf_asm_builder::locals
    size,       \* local_allocation_size
    localAddrs, \* local_addr_count
    nextValue,  \* next_value
    body,       \* the finished function, or NoBody
    built       \* (history) the requests that went into each block

vars == <<frontend, pos, blocks, cur, locals, size, localAddrs, nextValue, body, built>>

script == Scripts[frontend]

-----------------------------------------------------------------------------
(* builder_vstack, the top first *)

NoId == -1
Unknown        == [type |-> "unknown", word |-> 0, id |-> NoId]
Constant(w)    == [Unknown EXCEPT !.type = "constant", !.word = w]
LocalAddr(i)   == [Unknown EXCEPT !.type = "local_addr", !.word = i]
IsConstant(v)  == v.type = "constant"

Inputs(n) == [i \in 1..n |-> Unknown]

(* The code of the current block as it grows: its instructions, its stack,   *)
(* the highest the stack has been, and the number of local_addr in the body. *)
PushValues(c, values) ==
    LET vstack == values \o c.vstack
    IN  [c EXCEPT !.vstack = vstack, !.max = IF Len(vstack) > @ THEN Len(vstack) ELSE @]
PushValue(c, v)    == PushValues(c, <<v>>)
PushOutput_max(c, n) == [c EXCEPT !.vstack = Inputs(n) \o @]   \* mutant
PushOutput(c, n) == PushValues(c, Inputs(n))
PushConstant(c, w) == PushValue(c, Constant(w))
PopValues(c, n)    == [c EXCEPT !.vstack = SubSeq(@, n + 1, Len(@))]
RollValue_swap(c, i) == [c EXCEPT !.vstack[1] = c.vstack[i + 1], !.vstack[i + 1] = c.vstack[1]]   \* mutant
RollValue(c, i) == [c EXCEPT !.vstack = <<@[i + 1]>> \o SubSeq(@, 1, i) \o SubSeq(@, i + 2, Len(@))]

Top(c)    == c.vstack[1]
Has(c, n) == Len(c.vstack) >= n

Emit(c, insts) == [c EXCEPT !.insts = @ \o insts]

(* LAUF_BUILD_INST_*: the formats of instructions                            *)
None(op)               == <<[op |-> op]>>
WithValue(op, v)       == <<[op |-> op, value |-> v]>>
WithIdx(op, i)         == <<[op |-> op, idx |-> i]>>
WithSig(op, in, out)   == <<[op |-> op, in |-> in, out |-> out]>>
WithLayout(op, l)      == <<[op |-> op, size |-> l.size, align |-> l.align]>>
WithLocal(op, i, at)   == <<[op |-> op, index |-> i, offset |-> at]>>
WithOffset(op, o)      == <<[op |-> op, offset |-> o]>>

-----------------------------------------------------------------------------
(* Taking values back off the stack: instructions that only made them are    *)
(* removed, and what remains is popped.                                      *)

MakesOne   == {"local_addr", "push", "pushn", "global_addr", "function_addr", "pick", "dup",
               "load_local_value", "load_global_value"}
ChangesOne == {"push2", "push3", "deref_const", "deref_mut", "aggregate_member", "cc"}

(* One more turn: p is the code so far and how many values are left to pop.  *)
TakeBack_element(p) ==      \* mutant
    LET c      == p.code
        op     == IF c.insts = <<>> THEN "call" ELSE Last(c.insts).op
        before == [c EXCEPT !.insts = Front(@), !.localAddrs = IF op = "local_addr" THEN @ - 1 ELSE @]
    IN  IF p.count = 0 THEN p
        ELSE IF op \in MakesOne THEN [code |-> before, count |-> p.count - 1]
        ELSE IF op \in ChangesOne \cup {"array_element"} THEN [code |-> before, count |-> p.count]
        ELSE p

TakeBack(p) ==
    LET c      == p.code
        op     == IF c.insts = <<>> THEN "call" ELSE Last(c.insts).op
        before == [c EXCEPT !.insts = Front(@), !.localAddrs = IF op = "local_addr" THEN @ - 1 ELSE @]
    IN  IF p.count = 0 THEN p
        ELSE IF op \in MakesOne THEN [code |-> before, count |-> p.count - 1]
        ELSE IF op \in ChangesOne THEN [code |-> before, count |-> p.count]
        ELSE IF op = "array_element" THEN [code |-> before, count |-> p.count + 1]
        ELSE p

PopTop(c, count) ==
    LET turn[k \in 0..Len(c.insts)] == IF k = 0 THEN [code |-> c, count |-> count] ELSE TakeBack(turn[k - 1])
        left == turn[Len(c.insts)]
    IN  Emit(left.code, [i \in 1..left.count |-> [op |-> "pop_top", idx |-> 0]])

-----------------------------------------------------------------------------
(* Values *)

(* The least code for a word: push, push and push2, pushn, or up to three.   *)
PushWord(w) ==
    LET low    == Low(w, ImmBits)
        middle == Low(High(w, ImmBits), ImmBits)
        last   == High(w, 2 * ImmBits)
    IN  IF middle = 0 /\ last = 0 THEN WithValue("push", low)
        ELSE IF last = 0 THEN WithValue("push", low) \o WithValue("push2", middle)
        ELSE IF High(w, ImmBits) = 2 ^ (WordBits - ImmBits) - 1
        THEN WithValue("pushn", 2 ^ ImmBits - 1 - low)
        ELSE WithValue("push", low) \o (IF middle = 0 THEN <<>> ELSE WithValue("push2", middle))
                \o WithValue("push3", last)

InstUint(c, w) == PushConstant(Emit(c, PushWord(w)), w)
InstSint(c, i) == InstUint(c, AsUint(i))
InstLayout(c, l) == InstUint(InstUint(c, l.align), l.size)

(* The picture has 0 where the code has all bits set.                        *)
InstNull(c) == PushConstant(Emit(c, WithValue("pushn", 0)), 0)

InstGlobalAddr(c, g) ==
    PushConstant(Emit(c, WithValue("global_addr", g)),
                 OfAddress([allocation |-> g, generation |-> 0, offset |-> 0]))

InstFunctionAddr(c, f) ==
    PushConstant(Emit(c, WithValue("function_addr", f)),
                 OfFunctionAddress([index |-> f, in |-> Functions[f].in, out |-> Functions[f].out]))

InstLocalAddr(c, l) ==
    PushValue([Emit(c, WithLocal("local_addr", l.index, l.offset)) EXCEPT !.localAddrs = @ + 1],
              LocalAddr(l.index))

InstCc(c, cc) ==
    LET compared == Top(c)
        popped   == PopValues(c, 1)
        value    == Flag(Holds(cc, AsSint(compared.word)))
    IN  IF IsConstant(compared)
        THEN PushConstant(Emit(PopTop(popped, 1), WithValue("push", value)), value)
        ELSE PushOutput(Emit(popped, <<[op |-> "cc", cc |-> cc]>>), 1)

-----------------------------------------------------------------------------
(* Stack manipulation *)

InstPop(c, i) ==
    PopValues(RollValue(IF i = 0 THEN PopTop(c, 1) ELSE Emit(c, WithIdx("pop", i)), i), 1)

InstPick(c, i) ==
    PushValue(Emit(c, WithIdx(IF i = 0 THEN "dup" ELSE "pick", i)), c.vstack[i + 1])

InstRoll(c, i) ==
    RollValue(IF i = 0 THEN c ELSE Emit(c, WithIdx(IF i = 1 THEN "swap" ELSE "roll", i)), i)

InstSelect(c, count) ==
    PushOutput(Emit(PopValues(c, count + 1), WithIdx("select", count - 1)), 1)

-----------------------------------------------------------------------------
(* Calls *)

AddCallBuiltin(c, b) ==
    LET op == IF b.no_process /\ b.no_panic THEN "call_builtin_no_regs" ELSE "call_builtin"
    IN  PushOutput(Emit(c, <<[op |-> op, callee |-> b]>> \o WithSig("call_builtin_sig", b.in, b.out)), b.out)

(* A builtin of constants is called right away; its results are pushed,      *)
(* unless it panics.                                                         *)
InstCallBuiltin(c, b) ==
    LET arguments == SubSeq(c.vstack, 1, b.in)
        popped    == PopValues(c, b.in)
        result    == CallLibrary(b, [i \in 1..b.in |-> arguments[i].word])
        foldable  == b.no_process /\ b.fold /\ \A i \in 1..b.in : IsConstant(arguments[i])
        count     == Len(result.values)
        pushed[k \in 0..count] ==
            IF k = 0 THEN PopTop(popped, b.in) ELSE InstUint(pushed[k - 1], result.values[count - k + 1])
    IN  IF foldable /\ ~result.panics THEN pushed[count]
        ELSE AddCallBuiltin(popped, b)

InstCall(c, f) == PushOutput(Emit(PopValues(c, Functions[f].in), WithValue("call", f)), Functions[f].out)

(* get_constant_function: which function is called is known.                 *)
IsConstantFunction(v, in, out) ==
    LET f == FunctionAddressOf(v.word)
    IN  IsConstant(v) /\ f.in = in /\ f.out = out /\ f.index \in DOMAIN Functions

InstCallIndirect(c, in, out) ==
    LET popped == PopValues(c, in + 1)
        called == IF IsConstantFunction(Top(c), in, out)
                  THEN Emit(PopTop(popped, 1), WithValue("call", FunctionAddressOf(Top(c).word).index))
                  ELSE Emit(popped, WithSig("call_indirect", in, out))
    IN  PushOutput(called, out)

InstPanicIf(c) == Emit(PopValues(c, 2), None("panic_if"))

InstFiberSwitch(c, op, in, out) == PushOutput(Emit(PopValues(c, in + 1), WithSig(op, in, out)), out)
InstFiberSuspend(c, in, out) ==
    PushOutput(Emit(PopValues(c, in), WithSig("fiber_suspend", in, out)), out)

-----------------------------------------------------------------------------
(* Memory *)

(* An element at a constant index is a member at an offset, if it is not 0.  *)
InstArrayElement(c, layout) ==
    LET multiple == RoundUp(layout.size, layout.align)
        index    == Top(c)
        popped   == PopValues(c, 2)
        offset   == AsSint(index.word) * multiple
        constant == IF offset > 0 THEN Emit(PopTop(popped, 1), WithValue("aggregate_member", offset))
                    ELSE PopTop(popped, 1)
    IN  PushOutput(IF IsConstant(index) THEN constant ELSE Emit(popped, WithValue("array_element", multiple)), 1)

(* lauf_asm_aggregate_layout: the size of the members up to one of them      *)
AggregateSize(members) ==
    FoldLeft(LAMBDA total, l : RoundUp(total, l.align) + l.size, 0, members)

InstAggregateMember(c, members, index) ==
    LET offset == AggregateSize(SubSeq(members, 1, index)) - members[index].size
    IN  IF offset > 0
        THEN PushOutput(Emit(PopValues(c, 1), WithValue("aggregate_member", offset)), 1)
        ELSE c

IsValueType(type) == type.load = ValueType.load /\ type.store = ValueType.store

(* load_store_constant_folding: what the address is known to be.             *)
AccessOf(addr, type, store) ==
    LET local     == locals[addr.word + 1]
        a         == AddressOf(addr.word)
        elsewhere == a.allocation >= Cardinality(DOMAIN Globals) /\ a.generation # 0 /\ a.offset # 0
        global    == Globals[a.allocation]
    IN  IF ~IsValueType(type) THEN "dynamic"
        ELSE IF addr.type = "local_addr"
        THEN IF local.align <= PtrSize /\ local.size >= type.size /\ local.align >= type.align
             THEN "local" ELSE "dynamic"
        ELSE IF IsConstant(addr) /\ ~elsewhere /\ a.allocation \in DOMAIN Globals
        THEN IF /\ global.size # 0
                /\ store => global.mutable
                /\ global.size >= type.size /\ global.align >= type.align
             THEN "global" ELSE "dynamic"
        ELSE "dynamic"

InstLoadField(c, type) ==
    LET addr   == Top(c)
        popped == PopValues(c, 1)
        access == AccessOf(addr, type, FALSE)
        local  == locals[addr.word + 1]
    IN  IF access = "local"
        THEN PushOutput(Emit(PopTop(popped, 1), WithLocal("load_local_value", local.index, local.offset)), 1)
        ELSE IF access = "global"
        THEN PushOutput(Emit(PopTop(popped, 1),
                             WithValue("load_global_value", AddressOf(addr.word).allocation)), 1)
        ELSE IF type.size = 0 /\ type.load = "none"
        THEN InstUint(PopTop(popped, 1), 0)
        ELSE InstCallBuiltin(InstUint(PushOutput(Emit(popped, WithLayout("deref_const", type)), 1), 0),
                             Accessor(type.load, 2, 1))

InstStoreField(c, type) ==
    LET addr   == Top(c)
        popped == PopValues(c, 1)
        access == AccessOf(addr, type, TRUE)
        local  == locals[addr.word + 1]
    IN  IF access = "local"
        THEN PopValues(Emit(PopTop(popped, 1), WithLocal("store_local_value", local.index, local.offset)), 1)
        ELSE IF access = "global"
        THEN PopValues(Emit(PopTop(popped, 1),
                            WithValue("store_global_value", AddressOf(addr.word).allocation)), 1)
        ELSE IF type.size = 0 /\ type.store = "none"
        THEN PopTop(PopValues(popped, 1), 2)
        ELSE InstCallBuiltin(InstUint(PushOutput(Emit(popped, WithLayout("deref_mut", type)), 1), 0),
                             Accessor(type.store, 3, 0))

(* build_local: the frame keeps pointers aligned; what needs more alignment  *)
(* has padding reserved, and no offset yet.                                  *)
NewLocal(layout) ==
    LET rounded == RoundUp(layout.size, PtrSize)
    IN  IF layout.align <= PtrSize
        THEN [size |-> rounded, align |-> PtrSize, index |-> Len(locals),
              offset |-> (size + HeaderSize) % SizeLimit]
        ELSE [size |-> rounded, align |-> layout.align, index |-> Len(locals), offset |-> SizeLimit - 1]

SpaceOf(local) == IF local.align > PtrSize THEN local.align + local.size ELSE local.size

-----------------------------------------------------------------------------
(* Finishing: the layout of the blocks *)

NoFollowing == 0

Successors(b) ==
    CASE blocks[b].term = "jump" -> {blocks[b].next[1]}
      [] blocks[b].term \in {"branch_ne_eq", "branch_lt_ge", "branch_le_gt"} -> {blocks[b].next[1], blocks[b].next[2]}
      [] OTHER -> {}

(* The blocks that can be reached from the first: the least set that has it  *)
(* and the successors of its members.                                        *)
Reachable ==
    LET closed(S) == 1 \in S /\ \A b \in S : Successors(b) \subseteq S
    IN  {b \in 1..Len(blocks) : \A S \in SUBSET (1..Len(blocks)) : closed(S) => b \in S}

EstimateInstCount_locals == 2 + Len(blocks[1].insts) + 2   \* mutant

(* estimate_inst_count: for this many instructions there is memory.          *)
EstimateInstCount ==
    LET count(b) == LET block == blocks[b]
                        own   == IF block.insts = <<>> THEN 0 ELSE 1 + Len(block.insts)
                        jumps == CASE block.term \in {"return_", "panic", "jump"} -> 1
                                   [] block.term = "terminated" -> 0
                                   [] OTHER -> 2
                    IN  own + 2 + jumps
        total[b \in 0..Len(blocks)] ==
            IF b = 0 THEN 0 ELSE total[b - 1] + (IF b \in Reachable THEN count(b) ELSE 0)
    IN  1 + Len(locals) + (IF Len(blocks) = 1 THEN 1 + Len(blocks[1].insts) + 2 ELSE total[Len(blocks)])

Prologue ==
    LET alloc(l)   == [op |-> IF l.align = PtrSize THEN "local_alloc" ELSE "local_alloc_aligned",
                       size |-> l.size, align |-> l.align]
        storage(l) == IF SpaceOf(l) = 0 THEN <<>> ELSE WithValue("local_storage", SpaceOf(l))
    IN  IF localAddrs > 0
        THEN WithValue("setup_local_alloc", Len(locals)) \o [l \in 1..Len(locals) |-> alloc(locals[l])]
        ELSE FlattenSeq([l \in 1..Len(locals) |-> storage(locals[l])])

(* The two ways to branch: to next[1] if the first holds, to next[2] if the  *)
(* second does.                                                              *)
WaysToBranch(term) ==
    CASE term = "branch_ne_eq" -> <<"branch_ne", "branch_eq">>
      [] term = "branch_lt_ge" -> <<"branch_lt", "branch_ge">>
      [] term = "branch_le_gt" -> <<"branch_le", "branch_gt">>

(* A jump to a block, whose offset is patched later.                         *)
JumpTo(op, dest) == <<[op |-> op, dest |-> dest]>>

Return == IF localAddrs > 0 THEN WithValue("return_free", Len(locals)) ELSE None("return_")

Terminator(b, following) ==
    LET block == blocks[b]
        next  == block.next
        ways  == WaysToBranch(block.term)
    IN  CASE block.term \in {"unterminated", "terminated"} -> <<>>
          [] block.term = "return_" -> Return
          [] block.term = "panic"   -> None("panic")
          [] block.term = "jump"    -> IF next[1] = following THEN <<>> ELSE JumpTo("jump", next[1])
          [] OTHER -> IF next[1] = following THEN JumpTo(ways[2], next[2])
                      ELSE IF next[2] = following THEN JumpTo(ways[1], next[1])
                      ELSE JumpTo(ways[2], next[2]) \o JumpTo("jump", next[1])

(* emit_body, and emit_linear_body for a single block, which only differs in *)
(* that a jump always goes back to the beginning.  Offsets count from 0.     *)
Following(b) ==
    LET later == {c \in Reachable : c > b}
    IN  IF later = {} THEN NoFollowing ELSE Min(later)

EmitBlock(b) ==
    IF b \in Reachable
    THEN WithSig("block", blocks[b].inputs, Len(blocks[b].vstack)) \o blocks[b].insts \o Terminator(b, Following(b))
    ELSE <<>>

(* The code of the first n blocks: where the next one begins.                *)
EmitBody(n) == Prologue \o FlattenSeq([b \in 1..n |-> EmitBlock(b)])

Patched(code, offset) ==
    [p \in 1..Len(code) |->
        LET inst == code[p]
        IN  IF inst.op \in {"jump"} \cup BranchOps
            THEN [op |-> inst.op, offset |-> (offset[inst.dest] + 1) - (p - 1)]
            ELSE inst]

(* emit_debug_location: each block begins with an instruction of its own.    *)
DebugLocations_block(offset) ==     \* mutant
    FlattenSeq([b \in 1..Len(blocks) |-> IF b \in Reachable THEN blocks[b].debug ELSE <<>>])
DebugLocations(offset) ==
    FlattenSeq([b \in 1..Len(blocks) |->
        IF b \in Reachable
        THEN [k \in 1..Len(blocks[b].debug) |-> [blocks[b].debug[k] EXCEPT !.inst_idx = @ + offset[b] + 1]]
        ELSE <<>>])

(* find_debug_location of module.cpp: the last one before the instruction,   *)
(* in a list that is taken to be ordered.                                    *)
NoLocation == "none"
FindDebugLocation(locations, inst_idx) ==
    LET before == {k \in DOMAIN locations : \A j \in 1..k : locations[j].inst_idx <= inst_idx}
    IN  IF before = {} THEN NoLocation ELSE locations[Max(before)].location

Body ==
    LET offset == [b \in 1..Len(blocks) |-> Len(EmitBody(b - 1))]
    IN  [insts           |-> Patched(EmitBody(Len(blocks)), offset),
         offset          |-> offset,
         max_vstack_size |-> Max({blocks[b].max : b \in 1..Len(blocks)}),
         max_cstack_size |-> HeaderSize + size,
         debug_locations |-> DebugLocations(offset),
         allocated       |-> EstimateInstCount]

-----------------------------------------------------------------------------
(* The builder: lauf_asm_build resets it for the next function.              *)

NoBody == [insts |-> <<>>]

NewBlock(n) == [inputs |-> n, insts |-> <<>>, vstack |-> Inputs(n), max |-> n, term |-> "unterminated",
                next |-> <<0, 0>>, debug |-> <<>>, under |-> <<>>, late |-> FALSE]

Init ==
    /\ frontend \in DOMAIN Scripts
    /\ pos = 0
    /\ blocks = <<NewBlock(script.in)>>
    /\ cur = 1
    /\ locals = <<>>
    /\ size = 0
    /\ localAddrs = 0
    /\ nextValue = 0
    /\ body = NoBody
    /\ built = << <<>> >>

(* The requests of one kind that the frontend may make now, and the ones     *)
(* that are about the current block: what comes after a terminator is        *)
(* dropped (LAUF_BUILD_CHECK_CUR).                                           *)
Requests(op) ==
    IF body = NoBody /\ pos < Len(script.steps) THEN {o \in script.steps[pos + 1] : o.op = op} ELSE {}
Asked(op) == IF cur = 0 THEN {} ELSE Requests(op)

Code == [insts |-> blocks[cur].insts, vstack |-> blocks[cur].vstack, max |-> blocks[cur].max,
         localAddrs |-> localAddrs]

CurrentLocation(block) == IF block.debug = <<>> THEN NoLocation ELSE Last(block.debug).location

(* The current block with other code.  Under keeps, for each instruction,    *)
(* the location it was built under, and late whether one was taken back that *)
(* a location had been recorded after.                                       *)
WithCode(block, c) ==
    LET kept == {k \in 1..Len(c.insts) : k <= Len(block.insts) /\ \A j \in 1..k : c.insts[j] = block.insts[j]}
    IN  [block EXCEPT !.insts = c.insts, !.vstack = c.vstack, !.max = c.max,
                      !.under = [k \in 1..Len(c.insts) |-> IF k \in kept THEN @[k] ELSE CurrentLocation(block)],
                      !.late = @ \/ (block.debug # <<>> /\ Last(block.debug).inst_idx > Cardinality(kept))]

Asks(o) ==
    /\ pos' = pos + 1
    /\ built' = [built EXCEPT ![cur] = Append(@, o)]
    /\ UNCHANGED <<frontend, body>>

(* A request for an instruction.                                             *)
Builds(o, c) ==
    /\ Asks(o)
    /\ blocks' = [blocks EXCEPT ![cur] = WithCode(@, c)]
    /\ localAddrs' = c.localAddrs
    /\ UNCHANGED <<cur, locals, size, nextValue>>

(* A request that ends the current block.                                    *)
Terminates(o, c, term, next) ==
    /\ Asks(o)
    /\ blocks' = [blocks EXCEPT ![cur] = [WithCode(@, c) EXCEPT !.term = term, !.next = next]]
    /\ cur' = 0
    /\ localAddrs' = c.localAddrs
    /\ UNCHANGED <<locals, size, nextValue>>

Uint == \E o \in Asked("uint") : Builds(o, InstUint(Code, o.v))
Sint == \E o \in Asked("sint") : Builds(o, InstSint(Code, o.i))
AddNull == \E o \in Asked("null") : Builds(o, InstNull(Code))
Layout == \E o \in Asked("layout") : Builds(o, InstLayout(Code, o.layout))
GlobalAddr == \E o \in Asked("global_addr") : Builds(o, InstGlobalAddr(Code, o.g))
TakeLocalAddr == \E o \in Asked("local_addr") : Builds(o, InstLocalAddr(Code, locals[o.l + 1]))
FunctionAddr == \E o \in Asked("function_addr") : Builds(o, InstFunctionAddr(Code, o.f))

Cc == \E o \in Asked("cc") : Has(Code, 1) /\ Builds(o, InstCc(Code, o.cc))
Pop == \E o \in Asked("pop") : Has(Code, o.i + 1) /\ Builds(o, InstPop(Code, o.i))
Pick == \E o \in Asked("pick") : Has(Code, o.i + 1) /\ Builds(o, InstPick(Code, o.i))
Roll == \E o \in Asked("roll") : Has(Code, o.i + 1) /\ Builds(o, InstRoll(Code, o.i))
Select == \E o \in Asked("select") : o.n >= 2 /\ Has(Code, o.n + 1) /\ Builds(o, InstSelect(Code, o.n))

ArrayElement == \E o \in Asked("array_element") : Has(Code, 2) /\ Builds(o, InstArrayElement(Code, o.layout))
AggregateMember ==
    \E o \in Asked("aggregate_member") : Has(Code, 1) /\ Builds(o, InstAggregateMember(Code, o.members, o.index))
LoadField == \E o \in Asked("load_field") : Has(Code, 1) /\ Builds(o, InstLoadField(Code, o.type))
StoreField == \E o \in Asked("store_field") : Has(Code, 2) /\ Builds(o, InstStoreField(Code, o.type))

Call == \E o \in Asked("call") : Has(Code, Functions[o.f].in) /\ Builds(o, InstCall(Code, o.f))
CallIndirectly ==
    \E o \in Asked("call_indirect") : Has(Code, o.in + 1) /\ Builds(o, InstCallIndirect(Code, o.in, o.out))
PanicIf == \E o \in Asked("panic_if") : Has(Code, 2) /\ Builds(o, InstPanicIf(Code))
FiberSwitch ==
    \E o \in Asked("fiber_resume") \cup Asked("fiber_transfer") :
        Has(Code, o.in + 1) /\ Builds(o, InstFiberSwitch(Code, o.op, o.in, o.out))
FiberSuspend ==
    \E o \in Asked("fiber_suspend") : Has(Code, o.in) /\ Builds(o, InstFiberSuspend(Code, o.in, o.out))

CallABuiltin ==
    \E o \in Asked("call_builtin") :
        /\ Has(Code, o.b.in)
        /\ IF o.b.always_panic THEN Terminates(o, InstCallBuiltin(Code, o.b), "terminated", <<0, 0>>)
           ELSE Builds(o, InstCallBuiltin(Code, o.b))

(* lauf_asm_inst_value: a value gets an id when it is first asked for.       *)
Value ==
    \E o \in Asked("value") :
        /\ Has(Code, o.i + 1)
        /\ LET old == blocks[cur].vstack[o.i + 1].id
               id  == IF old = NoId THEN nextValue ELSE old
           IN  /\ Asks([op |-> "value", i |-> o.i, id |-> id])
               /\ blocks' = [blocks EXCEPT ![cur].vstack[o.i + 1].id = id]
               /\ nextValue' = IF old = NoId THEN nextValue + 1 ELSE nextValue
        /\ UNCHANGED <<cur, locals, size, localAddrs>>

-----------------------------------------------------------------------------
(* Terminators *)

FunctionReturn ==
    \E o \in Asked("return") : Len(Code.vstack) \in script.outs /\ Terminates(o, Code, "return_", <<0, 0>>)

(* A block is one that was declared: a frontend has no others to name.       *)
Jump ==
    \E o \in Asked("jump") :
        /\ o.dest \in DOMAIN blocks
        /\ Len(Code.vstack) = blocks[o.dest].inputs
        /\ Terminates(o, Code, "jump", <<o.dest, 0>>)

FunctionPanic == \E o \in Asked("panic") : Has(Code, 1) /\ Terminates(o, PopValues(Code, 1), "panic", <<0, 0>>)

(* How a comparison before a branch decides it: the terminator, and whether  *)
(* it goes to if_true when the first way holds.                              *)
BranchOn(cc) ==
    CASE cc = "eq" -> <<"branch_ne_eq", FALSE>>
      [] cc = "ne" -> <<"branch_ne_eq", TRUE>>
      [] cc = "lt" -> <<"branch_lt_ge", TRUE>>
      [] cc = "le" -> <<"branch_le_gt", TRUE>>
      [] cc = "gt" -> <<"branch_le_gt", FALSE>>
      [] cc = "ge" -> <<"branch_lt_ge", FALSE>>

(* A branch whose way is known is a jump, and one on a comparison takes the  *)
(* comparison's place.                                                       *)
ABranch ==
    \E o \in Asked("branch") :
        /\ Has(Code, 1)
        /\ {o.if_true, o.if_false} \subseteq DOMAIN blocks
        /\ blocks[o.if_true].inputs = Len(Code.vstack) - 1
        /\ blocks[o.if_false].inputs = Len(Code.vstack) - 1
        /\ LET condition == Top(Code)
               popped    == PopValues(Code, 1)
               compares  == popped.insts # <<>> /\ Last(popped.insts).op = "cc"
               how       == IF compares THEN BranchOn(Last(popped.insts).cc) ELSE <<"branch_ne_eq", TRUE>>
               next      == IF how[2] THEN <<o.if_true, o.if_false>> ELSE <<o.if_false, o.if_true>>
           IN  IF o.if_true = o.if_false
               THEN Terminates(o, PopTop(popped, 1), "jump", <<o.if_true, 0>>)
               ELSE IF IsConstant(condition)
               THEN Terminates(o, PopTop(popped, 1), "jump",
                               <<IF condition.word # 0 THEN o.if_true ELSE o.if_false, 0>>)
               ELSE Terminates(o, IF compares THEN [popped EXCEPT !.insts = Front(@)] ELSE popped, how[1], next)

-----------------------------------------------------------------------------
(* The rest of what a frontend asks for *)

BuildLocal ==
    \E o \in Requests("local") :
        /\ pos' = pos + 1
        /\ locals' = Append(locals, NewLocal(o.layout))
        /\ size' = (size + SpaceOf(NewLocal(o.layout))) % SizeLimit
        /\ UNCHANGED <<frontend, blocks, cur, localAddrs, nextValue, body, built>>

DeclareBlock ==
    \E o \in Requests("declare_block") :
        /\ pos' = pos + 1
        /\ blocks' = Append(blocks, NewBlock(o.in))
        /\ built' = Append(built, <<>>)
        /\ UNCHANGED <<frontend, cur, locals, size, localAddrs, nextValue, body>>

BuildBlock ==
    \E o \in Requests("build_block") :
        /\ o.block \in DOMAIN blocks
        /\ blocks[o.block].term = "unterminated"
        /\ pos' = pos + 1
        /\ cur' = o.block
        /\ UNCHANGED <<frontend, blocks, locals, size, localAddrs, nextValue, body, built>>

DebugLocation ==
    \E o \in Asked("debug_location") :
        /\ pos' = pos + 1
        /\ blocks' = IF CurrentLocation(blocks[cur]) = o.location THEN blocks
                     ELSE [blocks EXCEPT ![cur].debug =
                              Append(@, [inst_idx |-> Len(blocks[cur].insts), location |-> o.location])]
        /\ UNCHANGED <<frontend, cur, locals, size, localAddrs, nextValue, body, built>>

WithoutBlock == {"local", "declare_block", "build_block"}

Dropped ==
    /\ cur = 0
    /\ body = NoBody
    /\ pos < Len(script.steps)
    /\ \E o \in script.steps[pos + 1] : o.op \notin WithoutBlock
    /\ pos' = pos + 1
    /\ UNCHANGED <<frontend, blocks, cur, locals, size, localAddrs, nextValue, body, built>>

(* lauf_asm_build_finish: all that can be reached must be terminated.        *)
Finish ==
    /\ body = NoBody
    /\ pos = Len(script.steps)
    /\ \A b \in Reachable : blocks[b].term # "unterminated"
    /\ body' = Body
    /\ UNCHANGED <<frontend, pos, blocks, cur, locals, size, localAddrs, nextValue, built>>

(* lauf_asm_build of the next function, with the same builder.               *)
Reset ==
    /\ body # NoBody
    /\ frontend' = (frontend % Len(Scripts)) + 1
    /\ pos' = 0
    /\ blocks' = <<NewBlock(Scripts[frontend'].in)>>
    /\ cur' = 1
    /\ locals' = <<>>
    /\ size' = 0
    /\ localAddrs' = 0
    /\ nextValue' = 0
    /\ body' = NoBody
    /\ built' = << <<>> >>

Next ==
    \/ Uint \/ Sint \/ AddNull \/ Layout \/ GlobalAddr \/ TakeLocalAddr \/ FunctionAddr
    \/ Cc \/ Pop \/ Pick \/ Roll \/ Select \/ Value
    \/ ArrayElement \/ AggregateMember \/ LoadField \/ StoreField
    \/ Call \/ CallIndirectly \/ CallABuiltin \/ PanicIf \/ FiberSwitch \/ FiberSuspend
    \/ FunctionReturn \/ Jump \/ ABranch \/ FunctionPanic
    \/ BuildLocal \/ DeclareBlock \/ BuildBlock \/ DebugLocation \/ Dropped
    \/ Finish \/ Reset

Spec == Init /\ [][Next]_vars

-----------------------------------------------------------------------------
(* Properties *)

(* The inputs, the environments and the contents of fresh memory for which   *)
(* code is compared with its meaning.                                        *)
Samples(n) == [1..n -> script.words]
Garbage    == 1

Finished == body # NoBody
Building == body = NoBody /\ cur # 0

Executed(env, stack) == Run(body.insts, Start(env, stack, body.max_cstack_size, Garbage), script.fuel)
Meant(env, stack)    == Follows(Ideal(env, stack, locals, Garbage), built, 1, script.turns)

ExecutedSoFar(env, stack) ==
    Run(Prologue \o blocks[cur].insts, Start(env, stack, HeaderSize + size, Garbage), script.fuel)
MeantSoFar(env, stack) == DoesAll(Ideal(env, stack, locals, Garbage), built[cur])

(* What code has done is what was meant.                                     *)
DoesAsMeant(m, r) ==
    /\ m.status = r.status
    /\ r.status # "diverges" => m.events = r.events /\ m.globals = r.globals
    /\ r.status = "returned" => m.vs = r.vs /\ m.locals = <<>>

(* The finished code does what was asked for: whatever was folded, promoted  *)
(* to the frame, taken back, or jumped over, it calls the same functions     *)
(* with the same arguments in the same order, leaves the same globals, and   *)
(* returns the same values, or panics or goes on where the meaning does; and *)
(* it frees the locals it allocates.                                         *)
CodeMeansWhatWasBuilt ==
    Finished => \A env \in script.envs : \A stack \in Samples(script.in) :
        DoesAsMeant(Executed(env, stack), Meant(env, stack))

(* What is believed of a value, and of the stack v: it is that of m, and its *)
(* ids name what they do in r.                                               *)
Believed(v, m, word) ==
    /\ v.type = "constant" => word = v.word \/ (word = Null /\ v.word = 0)
    /\ v.type = "local_addr" => word = OfAddress([allocation |-> m.env.first + v.word,
                                                 generation |-> m.env.generation, offset |-> 0])
BelievedAll(v, m, r) ==
    m.status = "running" =>
        /\ Len(v) = Len(m.vs)
        /\ \A i \in 1..Len(v) :
              /\ Believed(v[i], m, m.vs[i])
              /\ v[i].id # NoId => r.names[v[i].id] = m.vs[i]

(* What the builder believes of the virtual stack while it builds a block is *)
(* what the code so far makes of it: as many values, the constants and the   *)
(* addresses of locals where it has them, and each id on the value it was    *)
(* given to.  (The null address, which it takes for 0, is an exception, and  *)
(* the addresses of globals are those of a module that is not a submodule.)  *)
VStackTellsTruth ==
    Building => \A env \in {e \in script.envs : e.offset = 0} : \A stack \in Samples(blocks[cur].inputs) :
        BelievedAll(blocks[cur].vstack, ExecutedSoFar(env, stack), MeantSoFar(env, stack))

(* The stack never grows above what the function reserves for it, although   *)
(* that is counted from the picture and not from the code.                   *)
VStackIsEnough ==
    Finished => \A env \in script.envs : \A stack \in Samples(script.in) :
        Executed(env, stack).peak <= body.max_vstack_size

(* The instructions fit the memory that was allocated for them before it was *)
(* known which jumps they need.                                              *)
EstimateIsEnough == Finished => Len(body.insts) <= body.allocated

(* An instruction is found to come from the location it was built under, if  *)
(* no location was recorded after an instruction that was taken back.        *)
DebugLocationsFound ==
    Finished /\ (\A b \in Reachable : ~blocks[b].late) =>
        \A b \in Reachable : \A k \in 1..Len(blocks[b].insts) :
            blocks[b].under[k] # NoLocation =>
                FindDebugLocation(body.debug_locations, body.offset[b] + k) = blocks[b].under[k]

=============================================================================
