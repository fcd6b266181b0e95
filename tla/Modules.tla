------------------------------ MODULE Modules ------------------------------
(***************************************************************************)
(* Modules that several threads build at the same time (asm/module.cpp and *)
(* the parts of asm/builder.cpp that add to the module), the program that  *)
(* is linked from them (asm/program.cpp), and the processes that find      *)
(* their globals through it.                                               *)
(*                                                                         *)
(* Every list of a module has a lock of its own for each access, and what  *)
(* is in between is not protected: a builder looks for a literal in the    *)
(* globals that it saw under the lock, while others add to them and give   *)
(* them their size and their memory.  A step here is what happens under    *)
(* one lock, or one access that has none.                                  *)
(*                                                                         *)
(* A function or a global is known by its module and its number (the       *)
(* function_idx and the allocation_idx, but counting from 1).  The lists   *)
(* of the code are newest first; here they are in order of the numbers.    *)
(***************************************************************************)
EXTENDS Integers, Sequences, FiniteSets, SequencesExt

CONSTANTS
    Threads,        \* each with one builder
    Main,           \* the module of the program
    Submodules,     \* the modules that are linked to it
    Processes,      \* of the same program, each on its own virtual machine
    Names,          \* of functions; a name has one signature
    Data,           \* the contents of globals
    DataSize(_),    \* their sizes
    Bounds          \* see BoundKinds: a behaviour keeps to one of them

Modules == {Main} \cup Submodules

NoMemory == "no memory"     \* a null pointer
Zero == "zero"              \* define_data_global without data

(* Who takes part, and how many globals and functions the modules have in    *)
(* total, and how many modules are linked, at most.                          *)
BoundKinds == [threads : SUBSET Threads, modules : SUBSET Modules, processes : SUBSET Processes,
               data : SUBSET Data, globals : Nat, functions : Nat, linked : Nat]

ASSUME ModulesAssumption ==
    /\ Main \notin Submodules
    /\ NoMemory \notin Data /\ Zero \notin Data
    /\ \A d \in Data \cup {Zero} : DataSize(d) \in Nat \ {0}
    /\ Bounds \subseteq BoundKinds

VARIABLES
    bound,      \* on the behaviour
    globals,    \* the globals of each module
    functions,  \* the functions of each module
    builder,    \* what each thread is doing
    literals,   \* history: the literals that builders were given
    program,    \* its definitions of functions, and its submodules
    process     \* the table of globals of each process, once it has started

vars == <<bound, globals, functions, builder, literals, program, process>>

-----------------------------------------------------------------------------

(* A global that is declared has no size yet.                                *)
Declared(mutable) == [mutable |-> mutable, size |-> 0, memory |-> NoMemory]

Sum(lists) == FoldFunction(LAMBDA s, n : Len(s) + n, 0, lists)

Idle == [pc |-> "idle"]

(* A builder that looks at the globals, from at down to the oldest, for d.   *)
Looking(m, at, d) == [pc |-> "look", mod |-> m, at |-> at, data |-> d]

(* A thread that is about to define the global g to contain d.               *)
Defining(pc, m, g, d, literal) == [pc |-> pc, mod |-> m, at |-> g, data |-> d, literal |-> literal]

Is(t, pc) == builder[t].pc = pc

-----------------------------------------------------------------------------

Init ==
    /\ bound \in Bounds
    /\ globals = [m \in Modules |-> <<>>]
    /\ functions = [m \in Modules |-> <<>>]
    /\ builder = [t \in Threads |-> Idle]
    /\ literals = {}
    /\ program = [defs |-> <<>>, submodules |-> <<>>]
    /\ process = [p \in Processes |-> [started |-> FALSE]]

-----------------------------------------------------------------------------
(* Globals *)

(* lauf_asm_add_global                                                       *)
AddGlobal(t, m, mutable, d) ==
    /\ Is(t, "idle")
    /\ Sum(globals) < bound.globals
    /\ globals' = [globals EXCEPT ![m] = Append(@, Declared(mutable))]
    /\ builder' = [builder EXCEPT ![t] = Defining("size", m, Len(globals[m]) + 1, d, FALSE)]
    /\ UNCHANGED <<functions, literals, program, process>>

(* What is left undefined is native memory, or nothing.                      *)
LeaveUndefined(t) ==
    /\ Is(t, "size") /\ ~builder[t].literal
    /\ builder' = [builder EXCEPT ![t] = Idle]
    /\ UNCHANGED <<globals, functions, literals, program, process>>

(* lauf_asm_define_data_global: the size first, and without a lock.          *)
DefineSize(t) ==
    LET b == builder[t]
    IN  /\ Is(t, "size")
        /\ globals' = [globals EXCEPT ![b.mod][b.at].size = DataSize(b.data)]
        /\ builder' = [builder EXCEPT ![t].pc = "memory"]
        /\ UNCHANGED <<functions, literals, program, process>>

Given(t, m, g, d, added) == literals \cup {[thread |-> t, mod |-> m, global |-> g, data |-> d, added |-> added]}

(* Then the memory, unless it is all zeros.                                  *)
DefineMemory(t) ==
    LET b == builder[t]
    IN  /\ Is(t, "memory")
        /\ globals' = IF b.data = Zero THEN globals ELSE [globals EXCEPT ![b.mod][b.at].memory = b.data]
        /\ literals' = IF b.literal THEN Given(t, b.mod, b.at, b.data, TRUE) ELSE literals
        /\ builder' = [builder EXCEPT ![t] = Idle]
        /\ UNCHANGED <<functions, program, process>>

(* lauf_asm_build_data_literal: the globals that there are now, ...          *)
LookForLiteral_one(t, m, d) ==   \* mutant
    /\ Is(t, "idle")
    /\ builder' = [builder EXCEPT ![t] = Looking(m, IF globals[m] = <<>> THEN 0 ELSE 1, d)]
    /\ UNCHANGED <<globals, functions, literals, program, process>>

LookForLiteral(t, m, d) ==
    /\ Is(t, "idle")
    /\ builder' = [builder EXCEPT ![t] = Looking(m, Len(globals[m]), d)]
    /\ UNCHANGED <<globals, functions, literals, program, process>>

(* ... one after the other; memcmp of a null pointer ends it.                *)
Matches_mutable(g, d) == g.size = DataSize(d) /\ g.memory = d   \* mutant
Matches(g, d) == ~g.mutable /\ g.size = DataSize(d) /\ g.memory = d
ComparesNull(g, d) == ~g.mutable /\ g.size = DataSize(d) /\ g.memory = NoMemory

LookAtGlobal(t) ==
    LET b == builder[t]
        g == globals[b.mod][b.at]
    IN  /\ Is(t, "look")
        /\ b.at > 0
        /\ IF ComparesNull(g, b.data)
           THEN builder' = [builder EXCEPT ![t] = [pc |-> "crashed"]] /\ UNCHANGED literals
           ELSE IF Matches(g, b.data)
           THEN /\ builder' = [builder EXCEPT ![t] = Idle]
                /\ literals' = Given(t, b.mod, b.at, b.data, FALSE)
           ELSE builder' = [builder EXCEPT ![t].at = @ - 1] /\ UNCHANGED literals
        /\ UNCHANGED <<globals, functions, program, process>>

AddLiteral(t) ==
    LET b == builder[t]
    IN  /\ Is(t, "look")
        /\ b.at = 0
        /\ Sum(globals) < bound.globals
        /\ globals' = [globals EXCEPT ![b.mod] = Append(@, Declared(FALSE))]
        /\ builder' = [builder EXCEPT ![t] = Defining("size", b.mod, Len(globals[b.mod]) + 1, b.data, TRUE)]
        /\ UNCHANGED <<functions, literals, program, process>>

-----------------------------------------------------------------------------
(* Functions *)

Function(name) == [name |-> name, defined |-> FALSE]

(* lauf_asm_add_function, also by call_extern after it found none.           *)
AddFunction(t, m, name) ==
    /\ Is(t, "idle") \/ (Is(t, "declare") /\ builder[t].mod = m /\ builder[t].name = name)
    /\ Sum(functions) < bound.functions
    /\ functions' = [functions EXCEPT ![m] = Append(@, Function(name))]
    /\ builder' = [builder EXCEPT ![t] = Idle]
    /\ UNCHANGED <<globals, literals, program, process>>

(* lauf_asm_inst_call_extern: lauf_asm_find_function_by_name ...             *)
FindExtern(t, m, name) ==
    LET named == {f \in 1..Len(functions[m]) : functions[m][f].name = name}
    IN  /\ Is(t, "idle")
        /\ builder' = [builder EXCEPT ![t] = IF named = {} THEN [pc |-> "declare", mod |-> m, name |-> name]
                                             ELSE Idle]
        /\ UNCHANGED <<globals, functions, literals, program, process>>

(* lauf_asm_build_finish of a builder of the function, which checked that it *)
(* has no definition.                                                        *)
DefineFunction(m, f) ==
    /\ ~functions[m][f].defined
    /\ functions' = [functions EXCEPT ![m][f].defined = TRUE]
    /\ UNCHANGED <<globals, builder, literals, program, process>>

-----------------------------------------------------------------------------
(* The program *)

Linked == {Main} \cup {program.submodules[i].mod : i \in DOMAIN program.submodules}

Declarations(m) == {<<m, f>> : f \in {g \in 1..Len(functions[m]) : ~functions[m][g].defined}}

Name(fn) == functions[fn[1]][fn[2]].name

(* The members of a list that pass a test, in their order.                   *)
Where(list, Test(_)) == FlattenSeq([i \in DOMAIN list |-> IF Test(list[i]) THEN <<list[i]>> ELSE <<>>])

(* The functions of a module, newest first.                                  *)
FunctionList(m) == Reverse([f \in 1..Len(functions[m]) |-> <<m, f>>])

(* undef_fn: of the functions with a name that have no definition, the first *)
(* one of the main module, or of the submodules.                             *)
UndefinedFunctions ==
    Where(FlattenSeq(<<FunctionList(Main)>> \o
                     [i \in DOMAIN program.submodules |-> FunctionList(program.submodules[i].mod)]),
          LAMBDA fn : ~functions[fn[1]][fn[2]].defined)

FirstNamed_main(name) ==    \* mutant
    SelectInSeq(Where(UndefinedFunctions, LAMBDA fn : fn[1] = Main), LAMBDA fn : Name(fn) = name)
FirstNamed(name) == SelectInSeq(UndefinedFunctions, LAMBDA fn : Name(fn) = name)

(* lauf_asm_link_modules: every function of them with such a name becomes a  *)
(* definition, whether it has one itself or not.  Programs are linked before *)
(* they are started, which the code takes for granted.                       *)
LinkModules(mods) ==
    LET found  == Where(FlattenSeq([i \in DOMAIN mods |-> FunctionList(mods[i])]),
                        LAMBDA fn : FirstNamed(Name(fn)) # 0)
        defs   == [i \in DOMAIN found |-> [decl |-> UndefinedFunctions[FirstNamed(Name(found[i]))],
                                           to |-> found[i]]]
        linked == [i \in DOMAIN mods |-> [mod |-> mods[i], offset |-> 0]]
    IN  /\ Len(program.submodules) + Len(mods) <= bound.linked
        /\ \A p \in Processes : ~process[p].started
        /\ program' = [defs |-> program.defs \o defs, submodules |-> program.submodules \o linked]
        /\ UNCHANGED <<globals, functions, builder, literals, process>>

Native == <<"native">>

(* lauf_asm_define_native_function, for one function of the program.         *)
DefineNativeFunction(fn) ==
    /\ \A i \in DOMAIN program.defs : program.defs[i].to # Native
    /\ program' = [program EXCEPT !.defs = Append(@, [decl |-> fn, to |-> Native])]
    /\ UNCHANGED <<globals, functions, builder, literals, process>>

NoDefinition == <<>>

(* program_extra_data::find_definition                                       *)
FindDefinition_last(fn) ==  \* mutant
    LET i == SelectLastInSeq(program.defs, LAMBDA def : def.decl = fn)
    IN  IF i = 0 THEN NoDefinition ELSE program.defs[i].to
FindDefinition(fn) ==
    LET i == SelectInSeq(program.defs, LAMBDA def : def.decl = fn)
    IN  IF i = 0 THEN NoDefinition ELSE program.defs[i].to

-----------------------------------------------------------------------------
(* Processes *)

GlobalTable(m) == [g \in 1..Len(globals[m]) |-> <<m, g>>]

(* The globals of the main module, and of the first n submodules.            *)
TableOf(n) == FlattenSeq(<<GlobalTable(Main)>> \o [i \in 1..n |-> GlobalTable(program.submodules[i].mod)])

OffsetOf_previous(i) ==     \* mutant
    Len(globals[IF i = 1 THEN Main ELSE program.submodules[i - 1].mod])
OffsetOf(i) == Len(TableOf(i - 1))

(* lauf::memory::init: the offsets are kept in the program.                  *)
Start(p) ==
    /\ ~process[p].started
    /\ process' = [q \in Processes |->
                      IF q = p THEN [started |-> TRUE, last |-> TRUE, table |-> TableOf(Len(program.submodules))]
                      ELSE IF process[q].started THEN [process[q] EXCEPT !.last = FALSE]
                      ELSE process[q]]
    /\ program' = [program EXCEPT !.submodules =
                      [i \in DOMAIN @ |-> [mod |-> @[i].mod, offset |-> OffsetOf(i)]]]
    /\ UNCHANGED <<globals, functions, builder, literals>>

(* get_global_allocation_idx, of the global g that a function of m uses.     *)
GlobalIndex(m, g) ==
    IF m = Main THEN g
    ELSE g + program.submodules[SelectInSeq(program.submodules, LAMBDA s : s.mod = m)].offset

-----------------------------------------------------------------------------

Lists == UNION {[1..n -> bound.modules \ {Main}] : n \in 1..bound.linked}

Next ==
    /\ UNCHANGED bound
    /\ \/ \E t \in bound.threads :
             \/ \E m \in bound.modules :
                   \/ \E mutable \in BOOLEAN, d \in bound.data \cup {Zero} : AddGlobal(t, m, mutable, d)
                   \/ \E d \in bound.data : LookForLiteral(t, m, d)
                   \/ \E name \in Names : AddFunction(t, m, name) \/ FindExtern(t, m, name)
             \/ LeaveUndefined(t)
             \/ DefineSize(t)
             \/ DefineMemory(t)
             \/ LookAtGlobal(t)
             \/ AddLiteral(t)
       \/ \E m \in bound.modules : \E f \in 1..Len(functions[m]) : DefineFunction(m, f)
       \/ \E mods \in Lists : LinkModules(mods)
       \/ \E m \in Linked : \E fn \in Declarations(m) : DefineNativeFunction(fn)
       \/ \E p \in bound.processes : Start(p)

Spec == Init /\ [][Next]_vars

-----------------------------------------------------------------------------
(* Properties *)

(* A literal that a builder was given is a global that nothing can change,   *)
(* and contains what was asked for, whatever other threads do to the globals *)
(* of the module while the builder looks at them (build_data_literal).       *)
LiteralsHoldTheirData ==
    \A l \in literals :
        LET g == globals[l.mod][l.global]
        IN  ~g.mutable /\ g.size = DataSize(l.data) /\ g.memory = l.data

(* Two threads may each add the same literal, as build_data_literal says it  *)
(* looks and adds in separate steps, but no thread adds it twice: there are  *)
(* never more copies of a literal than threads.                              *)
OneCopyPerThread ==
    \A k, l \in literals :
        k.added /\ l.added /\ k.thread = l.thread /\ k.mod = l.mod /\ k.data = l.data => k.global = l.global

(* Once a function has a definition in the program, whether it is native or  *)
(* of a module, no module that is linked later and no native function that   *)
(* is defined later replaces it: a definition is found in the order of the   *)
(* calls that made them (find_definition).                                   *)
DefinitionsStay ==
    [][\A m \in Linked : \A fn \in Declarations(m) :
          FindDefinition(fn) # NoDefinition => FindDefinition(fn)' = FindDefinition(fn)]_vars

(* If a module is linked that has a function of the name of one that is not  *)
(* defined, then a function of this name has a definition, be it one of the  *)
(* main module or of a module linked before (lauf_asm_link_modules).         *)
(* (Not every function of this name: of several, only the first gets it.)    *)
NamesAreResolved ==
    [][program.submodules # program'.submodules /\ UNCHANGED process =>
          \A m \in Linked : \A fn \in Declarations(m) :
              (\E i \in DOMAIN program'.submodules \ DOMAIN program.submodules :
                  \E f \in DOMAIN functions[program'.submodules[i].mod] :
                      functions[program'.submodules[i].mod][f].name = Name(fn))
              => \E n \in Linked : \E other \in Declarations(n) :
                     Name(other) = Name(fn) /\ FindDefinition(other)' # NoDefinition]_vars

(* The process that was started last finds every global of every module that *)
(* is linked, at the index that the instructions of this module compute, for *)
(* as many globals as the module had then (memory::init and                  *)
(* get_global_allocation_idx).  Others may not: the offsets are shared.      *)
GlobalsAreReached ==
    \A p \in Processes :
        process[p].started /\ process[p].last =>
            \A m \in Linked : \A i \in DOMAIN process[p].table :
                process[p].table[i][1] = m =>
                    process[p].table[GlobalIndex(m, process[p].table[i][2])] = process[p].table[i]
=============================================================================
