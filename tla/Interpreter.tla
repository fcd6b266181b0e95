---------------------------- MODULE Interpreter ----------------------------
(***************************************************************************)
(* The instructions of vm_execute.cpp, and how they call builtins.         *)
(***************************************************************************)
EXTENDS MemoryLib

(* lauf_asm_inst_condition_code against zero                                 *)
Conditions == {"eq", "ne", "lt", "le", "gt", "ge"}
Holds(cc, value) ==
    CASE cc = "eq" -> value = 0
      [] cc = "ne" -> value # 0
      [] cc = "lt" -> value < 0
      [] cc = "le" -> value <= 0
      [] cc = "gt" -> value > 0
      [] cc = "ge" -> value >= 0

-----------------------------------------------------------------------------
(* Builtins *)

(* The functions of a type take a pointer and the number of a field.         *)
Accessor(name, in, out) ==
    [name |-> name, variant |-> "", bits |-> 0, in |-> in, out |-> out, no_process |-> FALSE,
     no_panic |-> FALSE, fold |-> FALSE, always_panic |-> FALSE]

CallAccessor(m, b) ==
    CASE b.name = "load_value"  -> Replace(m, 2, <<UnitWord(UnitsAt(m, m.vs[2], 2))>>)
      [] b.name = "load_sint"   -> Replace(m, 2, <<LoadInt(TRUE, UnitBits, UnitsAt(m, m.vs[2], 1)[1])>>)
      [] b.name = "load_uint"   -> Replace(m, 2, <<LoadInt(FALSE, UnitBits, UnitsAt(m, m.vs[2], 1)[1])>>)
      [] b.name = "store_value" -> Replace(Write(m, m.vs[2], WordUnits(m.vs[3])), 3, <<>>)
      [] b.name = "store_int"   -> Replace(Write(m, m.vs[2], <<StoreInt(UnitBits, m.vs[3])>>), 3, <<>>)

Accessors == {"load_value", "load_sint", "load_uint", "store_value", "store_int"}

(* lauf_runtime_builtin_dispatch skips call_builtin_sig, which follows.      *)
CallBuiltin(m, b) ==
    LET skip(n) == [n EXCEPT !.ip = @ + 1]
    IN  IF b.name \in Accessors THEN skip(CallAccessor(m, b))
        ELSE IF b \in MemoryLibrary THEN skip(CallMemoryLibrary(m, b))
        ELSE IF b.always_panic THEN [Panic(m) EXCEPT !.events = Append(@, <<b.name>>)]
        ELSE IF b.fold
        THEN LET result == CallLibrary(b, SubSeq(m.vs, 1, b.in))
             IN  IF result.panics THEN Panic(m) ELSE skip(Replace(m, b.in, result.values))
        ELSE skip(Event(m, b.name, b.in, b.out))

(* lauf_runtime_get_function_ptr                                             *)
CallIndirect(m, inst) ==
    LET f == FunctionAddressOf(m.vs[1])
    IN  IF f.in = inst.in /\ f.out = inst.out /\ f.index \in DOMAIN Functions
        THEN Event([m EXCEPT !.vs = Tail(@)], Functions[f.index].name, inst.in, inst.out)
        ELSE Panic(m)

-----------------------------------------------------------------------------
(* The instructions.  Every one but a jump goes on to the next.              *)

Branch(m, inst, cc) ==
    LET popped == Replace(m, 1, <<>>)
    IN  IF Holds(cc, AsSint(m.vs[1])) THEN [popped EXCEPT !.ip = m.ip + inst.offset] ELSE popped

ValueInstruction(m, inst) ==
    LET top == m.vs[1]
    IN  CASE inst.op = "push"  -> Replace(m, 0, <<inst.value>>)
          [] inst.op = "pushn" -> Replace(m, 0, <<UintMax - inst.value>>)
          [] inst.op = "push2" -> Replace(m, 1, <<Or(top, inst.value * 2 ^ ImmBits)>>)
          [] inst.op = "push3" -> Replace(m, 1, <<Or(top, inst.value * 2 ^ (2 * ImmBits))>>)
          [] inst.op = "global_addr" ->
                Replace(m, 0, <<OfAddress([allocation |-> inst.value + m.env.offset,
                                           generation |-> 0, offset |-> 0])>>)
          [] inst.op = "function_addr" ->
                Replace(m, 0, <<OfFunctionAddress([index |-> inst.value, in |-> Functions[inst.value].in,
                                                   out |-> Functions[inst.value].out])>>)
          [] inst.op = "local_addr" ->
                Replace(m, 0, <<OfAddress([allocation |-> m.env.first + inst.index,
                                           generation |-> m.env.generation, offset |-> 0])>>)
          [] inst.op = "cc" -> Replace(m, 1, <<Flag(Holds(inst.cc, AsSint(top)))>>)

StackInstruction(m, inst) ==
    LET above == SubSeq(m.vs, 1, inst.idx)
        nth   == m.vs[inst.idx + 1]
    IN  CASE inst.op = "pop"     -> Replace(m, inst.idx + 1, above)
          [] inst.op = "pop_top" -> Replace(m, 1, <<>>)
          [] inst.op = "pick"    -> Replace(m, 0, <<nth>>)
          [] inst.op = "dup"     -> Replace(m, 0, <<m.vs[1]>>)
          [] inst.op = "roll"    -> Replace(m, inst.idx + 1, <<nth>> \o above)
          [] inst.op = "swap"    -> Replace(m, 2, <<m.vs[2], m.vs[1]>>)
          [] inst.op = "select"  -> IF m.vs[1] > inst.idx THEN Panic(m)
                                    ELSE Replace(m, inst.idx + 2, <<m.vs[m.vs[1] + 2]>>)

LocalInstruction(m, inst) ==
    LET at    == m.next_offset + AlignOffset(m.env.base + m.next_offset, inst.align)
        go    == Replace(m, 0, <<>>)
        new(a, used) == [go EXCEPT !.next_offset = @ + used,
                                   !.locals = Append(@, [at |-> a, size |-> inst.size])]
    IN  CASE inst.op = "setup_local_alloc"   -> [go EXCEPT !.locals = <<>>]
          [] inst.op = "local_alloc"         -> new(m.next_offset, inst.size)
          [] inst.op = "local_alloc_aligned" -> new(at, inst.align + inst.size)
          [] inst.op = "local_storage"       -> [go EXCEPT !.next_offset = @ + inst.value]

MemoryInstruction(m, inst) ==
    LET moved(w, by) == LET a == AddressOf(w) IN OfAddress([a EXCEPT !.offset = @ + by])
    IN  CASE inst.op = "deref_const"        -> Deref(m, inst, FALSE)
          [] inst.op = "deref_mut"          -> Deref(m, inst, TRUE)
          [] inst.op = "array_element"      -> Replace(m, 2, <<moved(m.vs[2], inst.value * AsSint(m.vs[1]))>>)
          [] inst.op = "aggregate_member"   -> Replace(m, 1, <<moved(m.vs[1], inst.value)>>)
          [] inst.op = "load_local_value"   -> LoadValue(m, InFrame(inst.offset))
          [] inst.op = "store_local_value"  -> StoreValue(m, InFrame(inst.offset))
          [] inst.op = "load_global_value"  -> LoadValue(m, Global(inst.value))
          [] inst.op = "store_global_value" -> StoreValue(m, Global(inst.value))

ControlInstruction(m, inst) ==
    CASE inst.op \in {"nop", "block"} -> Replace(m, 0, <<>>)
      [] inst.op = "return_"   -> [m EXCEPT !.status = "returned"]
      [] inst.op = "return_free" ->
            [m EXCEPT !.status = "returned", !.locals = SubSeq(@, inst.value + 1, Len(@))]
      [] inst.op = "jump"      -> [m EXCEPT !.ip = @ + inst.offset]
      [] inst.op = "branch_eq" -> Branch(m, inst, "eq")
      [] inst.op = "branch_ne" -> Branch(m, inst, "ne")
      [] inst.op = "branch_lt" -> Branch(m, inst, "lt")
      [] inst.op = "branch_le" -> Branch(m, inst, "le")
      [] inst.op = "branch_gt" -> Branch(m, inst, "gt")
      [] inst.op = "branch_ge" -> Branch(m, inst, "ge")
      [] inst.op = "panic"     -> PanicWith(m, m.vs[1])
      [] inst.op = "panic_if"  -> IF m.vs[2] # 0 THEN PanicWith(m, m.vs[1]) ELSE Replace(m, 2, <<>>)

CallInstruction(m, inst) ==
    CASE inst.op = "call" -> Event(m, Functions[inst.value].name, Functions[inst.value].in, Functions[inst.value].out)
      [] inst.op = "call_indirect" -> CallIndirect(m, inst)
      [] inst.op \in {"call_builtin", "call_builtin_no_regs"} -> CallBuiltin(m, inst.callee)
      [] inst.op \in {"fiber_resume", "fiber_transfer"} -> Event(m, inst.op, inst.in + 1, inst.out)
      [] inst.op = "fiber_suspend" -> Event(m, inst.op, inst.in, inst.out)

ValueOps   == {"push", "pushn", "push2", "push3", "global_addr", "function_addr", "local_addr", "cc"}
StackOps   == {"pop", "pop_top", "pick", "dup", "roll", "swap", "select"}
LocalOps   == {"setup_local_alloc", "local_alloc", "local_alloc_aligned", "local_storage"}
MemoryOps  == {"deref_const", "deref_mut", "array_element", "aggregate_member", "load_local_value",
               "store_local_value", "load_global_value", "store_global_value"}
BranchOps  == {"branch_eq", "branch_ne", "branch_lt", "branch_le", "branch_ge", "branch_gt"}
ControlOps == {"nop", "block", "return_", "return_free", "jump", "panic", "panic_if"} \cup BranchOps
CallOps    == {"call", "call_indirect", "call_builtin", "call_builtin_no_regs", "fiber_resume",
               "fiber_transfer", "fiber_suspend"}

Execute(m, inst) ==
    CASE inst.op \in ValueOps   -> ValueInstruction(m, inst)
      [] inst.op \in StackOps   -> StackInstruction(m, inst)
      [] inst.op \in LocalOps   -> LocalInstruction(m, inst)
      [] inst.op \in MemoryOps  -> MemoryInstruction(m, inst)
      [] inst.op \in ControlOps -> ControlInstruction(m, inst)
      [] inst.op \in CallOps    -> CallInstruction(m, inst)

(* The dispatch loop, for at most fuel instructions.                         *)
Halted(code, m) == m.status # "running" \/ m.ip > Len(code)

Run(code, m, fuel) ==
    LET after[n \in 0..fuel] ==
            IF n = 0 THEN m
            ELSE LET at == after[n - 1]
                 IN  IF Halted(code, at) THEN at ELSE Execute(at, code[at.ip])
        last == after[fuel]
    IN  IF Halted(code, last) THEN last ELSE [last EXCEPT !.status = "diverges"]
=============================================================================
