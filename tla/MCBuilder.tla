----------------------------- MODULE MCBuilder -----------------------------
(* Small words, a module of a few globals and functions, and the scripts of  *)
(* frontends that build a function in it.                                    *)
EXTENDS Builder

MCGlobals ==
    [g \in 0..2 |->
        CASE g = 0 -> [size |-> 2, align |-> 2, mutable |-> TRUE, units |-> <<3, 4>>]
          [] g = 1 -> [size |-> 2, align |-> 2, mutable |-> FALSE, units |-> <<9, 1>>]
          [] g = 2 -> [size |-> 5, align |-> 1, mutable |-> TRUE, units |-> <<8, 7, 6, 5, 4>>]]

MCFunctions ==
    [f \in 0..2 |->
        CASE f = 0 -> [name |-> "f", in |-> 1, out |-> 1]
          [] f = 1 -> [name |-> "g", in |-> 2, out |-> 0]
          [] f = 2 -> [name |-> "h", in |-> 0, out |-> 2]]

Env(offset, generation, base) == [offset |-> offset, first |-> 4, generation |-> generation, base |-> base]
Main  == {Env(0, 0, 0)}
Frames == {Env(0, 0, 0), Env(0, 1, 2)}
Linked == {Env(0, 0, 0), Env(1, 0, 2)}

(* Builtins that are not of the libraries *)
Effect == [name |-> "effect", variant |-> "", bits |-> 0, in |-> 1, out |-> 1, no_process |-> FALSE,
           no_panic |-> FALSE, fold |-> FALSE, always_panic |-> FALSE]
Unreachable == [Effect EXCEPT !.name = "unreachable", !.in = 0, !.out = 0, !.always_panic = TRUE]
LibraryOf(names) == {b \in Library : b.name \in names}

(* Requests *)
U(v) == [op |-> "uint", v |-> v]
I(op, i) == [op |-> op, i |-> i]
CC(cc) == [op |-> "cc", cc |-> cc]
L(i) == [op |-> "local_addr", l |-> i]
G(i) == [op |-> "global_addr", g |-> i]
F(i) == [op |-> "function_addr", f |-> i]
B(b) == [op |-> "call_builtin", b |-> b]
Field(op, type) == [op |-> op, type |-> type]
Sig(op, in, out) == [op |-> op, in |-> in, out |-> out]
Lay(op, s, a) == [op |-> op, layout |-> [size |-> s, align |-> a]]
Ret == [op |-> "return"]
Declare(in) == [op |-> "declare_block", in |-> in]
Build(b) == [op |-> "build_block", block |-> b]
To(b) == [op |-> "jump", dest |-> b]
If(t, f) == [op |-> "branch", if_true |-> t, if_false |-> f]
At(l) == [op |-> "debug_location", location |-> l]
Member(i) == [op |-> "aggregate_member", index |-> i,
              members |-> <<[size |-> 1, align |-> 1], [size |-> 2, align |-> 2], [size |-> 1, align |-> 1]>>]

Script(in, outs, words, envs, steps) ==
    [in |-> in, outs |-> outs, words |-> words, envs |-> envs, steps |-> steps, fuel |-> 60, turns |-> 8]

Edges == {0, 1, 7, 8, 127, 128, 255}

ValueScripts == <<
    \* values made, moved and taken back
    Script(2, 0..8, {0, 200}, Main,
        <<{U(5), U(200), [op |-> "sint", i |-> -3], F(1)}, {U(64), I("pick", 0), I("pick", 1), G(2)},
          {I("roll", 1), I("roll", 2), I("pick", 2), CC("eq"), I("pop", 0), I("pop", 1)},
          {I("pop", 0), I("roll", 0), CC("lt"), I("value", 1)},
          {I("pop", 0), I("value", 0), U(11), I("pick", 1)}, {I("pop", 0), I("roll", 1)}, {Ret}>>),
    \* builtins folded, called, and called with something that can be taken back
    Script(0, 0..4, {0}, Main, <<{U(v) : v \in Edges}, {U(v) : v \in Edges}, {B(b) : b \in Library}, {Ret}>>),
    Script(2, 0..4, {0, 7, 128, 255}, Main, <<{B(b) : b \in Library}, {Ret}>>),
    Script(2, 0..6, {3, 255}, Main,
        <<{U(3), I("pick", 0)}, {I("roll", 1), U(1)},
          {B(b) : b \in {c \in LibraryOf({"sadd", "usub"}) : c.variant \in {"flag", "panic"}}},
          {I("pop", 0), I("pick", 0), CC("ne")}, {I("pop", 0)}, {Ret}>>),
    Script(0, 0..4, {0}, Main,
        <<{At("a")}, {[op |-> "null"]}, {At("b"), At("a")}, {I("pick", 0), U(4)}, {I("pop", 0), B(Effect)},
          {At("b")}, {Ret}>>),
    \* values chosen by an index, and comparisons
    Script(4, 0..8, {0, 1, 2, 255}, Main,
        <<{[op |-> "select", n |-> 2], [op |-> "select", n |-> 3]} \cup {CC(cc) : cc \in Conditions},
          {CC("eq"), I("pop", 0), I("value", 0)}, {Ret}>>)
    >>

MemoryScripts == <<
    \* locals: stored to and loaded from, by their address and by elements and members of them
    Script(2, 0..4, {1, 200}, Frames,
        <<{Lay("local", 3, 1), Lay("local", 1, 4)}, {Lay("local", 2, 2), Lay("local", 0, 1)}, {L(0), L(1)},
          {Field("store_field", ValueType), Field("store_field", SintType)},
          {L(0), L(1)},
          {U(0), U(1), I("pick", 1)},
          {Lay("array_element", 1, 1), Lay("array_element", 1, 2)},
          {Member(1), Member(2), I("value", 0)},
          {Field("load_field", ValueType), Field("load_field", SintType), Field("load_field", UintType),
           Field("load_field", EmptyType), I("pop", 0)},
          {Ret}>>),
    Script(1, 0..4, {200}, Frames,
        <<{Lay("local", 2, 1), Lay("local", 1, 4), Lay("local", 4, 1)}, {Lay("local", 2, 2), Lay("local", 3, 8)},
          {Lay("local", 2, 2)},
          {L(0), L(1), L(2)}, {Field("store_field", ValueType)},
          {U(77)}, {L(0), L(1), L(2)}, {Field("store_field", ValueType), Field("store_field", EmptyType)},
          {L(0), L(1), L(2)}, {Field("load_field", ValueType)}, {Ret}>>),
    \* globals, and addresses that are only known when it runs
    Script(1, 0..4, {0, 5, 33, 200}, Linked,
        <<{G(0), G(1), G(2)}, {I("roll", 0), Member(1), Member(2)},
          {Field("store_field", ValueType), Field("store_field", UintType), Field("store_field", EmptyType)},
          {G(0), G(1), G(2)}, {I("roll", 0), Member(1)},
          {Field("load_field", ValueType), Field("load_field", SintType)}, {Ret}>>),
    Script(2, 0..4, {0, 1, 2, 16, 17, 18, 200, 255}, Linked,
        <<{Field("load_field", ValueType), Field("load_field", UintType), Field("store_field", ValueType),
           Field("store_field", SintType), Lay("array_element", 3, 2)}, {Ret}>>),
    \* arithmetic on addresses, and memory copied, filled and compared
    Script(1, 0..4, {0, 1, 2, 5, 6, 15, 128, 253, 255}, Frames,
        <<{Lay("local", 4, 2)}, {L(0), G(1), G(2)}, {Member(1), Member(2)}, {I("roll", 1)},
          {B(b) : b \in {c \in MemoryLibrary : c.in = 2}}, {Ret}>>),
    Script(2, 0..4, {4, 20, 32, 52, 255}, Frames,
        <<{Lay("local", 4, 2)}, {B(MemoryBuiltin("addr_distance", "", 2, 1))}, {Ret}>>),
    Script(1, 0..4, {0, 1, 2, 3, 4, 5, 99, 200}, Frames,
        <<{Lay("local", 4, 2)}, {Lay("local", 5, 1)}, {U(93)}, {L(1)}, {Field("store_field", ValueType)},
          {L(0), L(1), G(0), G(1)}, {L(1), G(2)}, {Member(1)}, {I("pick", 2)},
          {B(b) : b \in {c \in MemoryLibrary : c.in = 3}}, {L(0), L(1)}, {Field("load_field", ValueType)}, {Ret}>>)
    >>

ControlScripts == <<
    \* calls
    Script(4, 0..8, {0, 20, 24}, Main,
        <<{F(0), F(1), F(2), I("roll", 1)}, {I("roll", 1), I("roll", 0)},
          {Sig("call_indirect", 1, 1), Sig("call_indirect", 2, 0)}, {I("pop", 0), I("roll", 0)}, {Ret}>>),
    Script(4, 0..12, {0, 7}, Main,
        <<{[op |-> "call", f |-> 0], [op |-> "call", f |-> 1], [op |-> "call", f |-> 2], B(Effect), B(Unreachable),
           Sig("fiber_resume", 1, 2), Sig("fiber_transfer", 0, 1), Sig("fiber_suspend", 1, 1)},
          {I("pop", 0), [op |-> "panic_if"], [op |-> "layout", layout |-> [size |-> 3, align |-> 2]]},
          {[op |-> "call", f |-> 2], U(1)}, {I("pop", 0), B(Effect)}, {Ret}>>),
    \* blocks: every way to branch, with the blocks in every order
    Script(1, {1}, {0, 1, 255}, Main,
        <<{Declare(1)}, {Declare(1)}, {Declare(0)}, {I("pick", 0), U(0), U(1)},
          {CC(cc) : cc \in Conditions} \cup {I("roll", 0)},
          {If(2, 3), If(3, 2), If(2, 2), If(1, 3)},
          {U(9)}, {Build(3)}, {U(7), I("pick", 0)}, {I("pop", 0)}, {Ret, To(1), To(2), [op |-> "panic"]},
          {Build(2)}, {B(Effect)}, {Ret, To(3), To(1)}>>),
    Script(1, {1}, {0, 1}, Main, <<{U(2)}, {I("roll", 0), CC("ge")}, {I("pop", 0), B(Unreachable)}, {To(1), Ret}>>),
    \* blocks built by turns, with locals and debug locations
    Script(1, {1}, {0, 1}, Frames,
        <<{Lay("local", 2, 2), Lay("local", 2, 4)}, {At("a")}, {Declare(0)}, {Declare(0)},
          {L(0)}, {Field("store_field", ValueType)}, {Build(2)}, {At("b"), At("a")}, {L(0)},
          {Field("load_field", ValueType), Field("load_field", SintType)}, {Build(1)},
          {[op |-> "call", f |-> 2]}, {I("pop", 0)}, {At("a"), At("b"), At("c")}, {If(2, 3), If(3, 2)},
          {At("b"), Build(3)}, {Build(3)}, {At("c")}, {U(6)}, {At("a")}, {B(Effect)}, {Ret},
          {Build(2)}, {U(8)}, {I("value", 0)}, {I("roll", 1), I("roll", 0)}, {I("pop", 0), B(Unreachable)}, {Ret}>>)
    >>

MCScripts == ValueScripts \o MemoryScripts \o ControlScripts
=============================================================================
