------------------------------ MODULE Machine ------------------------------
(***************************************************************************)
(* The machine within one call of a function: the virtual stack, the frame *)
(* of the function, its locals and the globals, and how addresses lead     *)
(* into them.  An instruction that gives control away (a call, a builtin   *)
(* that is not of the libraries, a switch of fibers) is an event with its  *)
(* arguments; it returns words that depend on nothing but how many events  *)
(* there were before.                                                      *)
(*                                                                         *)
(* Memory is counted in units of half a word, so that a value takes two    *)
(* and something smaller exists.  A frame begins with its header, at 0.    *)
(***************************************************************************)
EXTENDS IntLib, SequencesExt

CONSTANTS
    HeaderSize,     \* sizeof(lauf_runtime_stack_frame)
    Globals,        \* globals of the module: size, alignment, mutability, definition, contents
    Functions       \* functions of the module, by index: names and signatures

ASSUME MachineAssumption ==
    /\ HeaderSize \in Nat
    /\ HeaderSize % 2 = 0
    /\ \A f \in DOMAIN Functions : Functions[f].in \in Nat /\ Functions[f].out \in Nat

PtrSize   == 2                  \* alignof(void*), and the size of a value
UnitBits  == WordBits \div 2
UnitWord(units) == units[1] + 2 ^ UnitBits * units[2]
WordUnits(w)    == <<Low(w, UnitBits), High(w, UnitBits)>>

AlignOffset(address, alignment) == (alignment - (address % alignment)) % alignment
RoundUp(size, alignment)        == size + AlignOffset(size, alignment)

ValueLayout == [size |-> PtrSize, align |-> PtrSize]

(* lauf_asm_type: what its functions do, and how many units they touch.      *)
ValueType    == [size |-> PtrSize, align |-> PtrSize, load |-> "load_value", store |-> "store_value"]
SintType     == [size |-> 1, align |-> 1, load |-> "load_sint", store |-> "store_int"]
UintType     == [size |-> 1, align |-> 1, load |-> "load_uint", store |-> "store_int"]
EmptyType    == [size |-> 0, align |-> 1, load |-> "none", store |-> "none"]

-----------------------------------------------------------------------------
(* The machine: ip and vs (the top of the stack first), the frame, globals,  *)
(* the events so far, and the highest the stack has been.                    *)

(* An environment: the index of the first allocation of the module's globals *)
(* and of the function's locals, the generation, and where the frame lies.   *)
Environments == [offset : Nat, first : Nat, generation : Nat, base : Nat]

Start(env, stack, limit, garbage) ==
    [ip |-> 1, vs |-> stack, status |-> "running", peak |-> Len(stack), env |-> env,
     next_offset |-> HeaderSize, locals |-> <<>>, limit |-> limit,
     frame |-> [at \in HeaderSize..limit - 1 |-> garbage],
     globals |-> [g \in DOMAIN Globals |-> Globals[g].units], events |-> <<>>]

(* n values are replaced by some others, and the ip goes on.                 *)
Replace(m, n, values) ==
    LET vs == values \o SubSeq(m.vs, n + 1, Len(m.vs))
    IN  [m EXCEPT !.vs = vs, !.ip = @ + 1, !.peak = IF Len(vs) > @ THEN Len(vs) ELSE @]

Panic(m) == [m EXCEPT !.status = "panicked"]
PanicWith(m, message) == [Panic(m) EXCEPT !.events = Append(@, <<"panic", message>>)]

(* What an event that is the n-th gives.                                     *)
Given(n, count) == [k \in 1..count |-> AsUint(5 * n + 3 * k)]

Event(m, name, in, out) ==
    LET happened == [m EXCEPT !.events = Append(@, <<name>> \o SubSeq(m.vs, 1, in))]
    IN  Replace(happened, in, Given(Len(m.events), out))

-----------------------------------------------------------------------------
(* Memory *)

(* memory::try_get: the allocation an address belongs to.                    *)
Allocation(m, a) ==
    LET g == a.allocation - m.env.offset
        l == a.allocation - m.env.first
    IN  IF g \in DOMAIN m.globals /\ a.generation = 0
        THEN [kind |-> "global", index |-> g, at |-> 0, size |-> Globals[g].size,
              const |-> ~Globals[g].mutable]
        ELSE IF l + 1 \in DOMAIN m.locals /\ a.generation = m.env.generation
        THEN [kind |-> "local", index |-> l, at |-> m.locals[l + 1].at, size |-> m.locals[l + 1].size,
              const |-> FALSE]
        ELSE [kind |-> "none", index |-> 0, at |-> 0, size |-> 0, const |-> TRUE]

(* The native address of something: a frame begins at env.base, and a global *)
(* is aligned to more than anything asks for.                                *)
NativeAddress(m, alloc, at) == IF alloc.kind = "local" THEN m.env.base + at ELSE at

(* checked_offset succeeds; the sum is one of words.                         *)
Accessible(m, alloc, offset, layout) ==
    /\ alloc.kind # "none"
    /\ AsUint(offset + layout.size) <= alloc.size
    /\ NativeAddress(m, alloc, alloc.at + offset) % layout.align = 0

Deref(m, inst, store) ==
    LET a     == AddressOf(m.vs[1])
        alloc == Allocation(m, a)
    IN  IF Accessible(m, alloc, a.offset, inst) /\ (store => ~alloc.const)
        THEN Replace(m, 1, <<[kind |-> alloc.kind, index |-> alloc.index, at |-> alloc.at + a.offset]>>)
        ELSE Panic(m)

UnitsAt(m, p, n) ==
    IF p.kind = "local" THEN [k \in 1..n |-> m.frame[p.at + k - 1]]
    ELSE [k \in 1..n |-> m.globals[p.index][p.at + k]]

(* A write outside of what the function reserved destroys something.         *)
Write(m, p, units) ==
    LET hit == p.at..p.at + Len(units) - 1
    IN  IF p.kind = "local"
        THEN IF hit \subseteq DOMAIN m.frame
             THEN [m EXCEPT !.frame = [at \in DOMAIN @ |-> IF at \in hit THEN units[at - p.at + 1] ELSE @[at]]]
             ELSE [m EXCEPT !.status = "corrupt"]
        ELSE [m EXCEPT !.globals[p.index] =
                 [at \in DOMAIN @ |-> IF at - 1 \in hit THEN units[at - p.at] ELSE @[at]]]

Global(i)  == [kind |-> "global", index |-> i, at |-> 0]
InFrame(o) == [kind |-> "local", index |-> 0, at |-> o]

LoadValue(m, p) ==
    IF p.kind = "local" /\ ~({p.at, p.at + 1} \subseteq DOMAIN m.frame)
    THEN [m EXCEPT !.status = "corrupt"]
    ELSE Replace(m, 0, <<UnitWord(UnitsAt(m, p, 2))>>)
StoreValue(m, p) == Replace(Write(m, p, WordUnits(m.vs[1])), 1, <<>>)
=============================================================================
