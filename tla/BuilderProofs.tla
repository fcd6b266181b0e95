--------------------------- MODULE BuilderProofs ---------------------------
(***************************************************************************)
(* Theorems about Builder, for every module of globals and functions and   *)
(* every script of a frontend: the instructions of a function fit the      *)
(* memory that is allocated for them, an instruction is found to come from *)
(* the location it was built under, the picture of the stack has as many   *)
(* values as the instructions leave, and the stack of the machine that     *)
(* executes them never grows above what is reserved for it.                *)
(*                                                                         *)
(* A lemma about an operation of the builder is about the code before and  *)
(* after it (IsCode); one about a block is about its record (IsBlock).     *)
(* Records and lists are untyped here: a list is a sequence of something.  *)
(***************************************************************************)
EXTENDS Builder, SequenceTheorems, FiniteSetTheorems, WellFoundedInduction, TLAPS

-----------------------------------------------------------------------------
(* Lists of anything *)

(* What holds of 0, and of a number's successor with it, holds of all.       *)
LEMMA Induction ==
    ASSUME NEW S, 0 \in S, \A n \in Nat : n \in S => n + 1 \in S
    PROVE  Nat \subseteq S
<1> DEFINE T == Nat \ S
           R == OpToRel(<, Nat)
<1>1. SUFFICES ASSUME T # {} PROVE FALSE
  OBVIOUS
<1>2. IsWellFoundedOn(R, Nat) BY NatLessThanWellFounded
<1>3. \A m, k \in Nat : k < m => <<k, m>> \in R
  <2> TAKE m, k \in Nat
  <2>1. <<k, m>> \in Nat \X Nat OBVIOUS
  <2> QED BY <2>1 DEF OpToRel
<1>4. T \subseteq Nat OBVIOUS
<1> HIDE DEF R, T
<1>5. PICK m \in T : \A k \in T : <<k, m>> \notin R BY <1>1, <1>2, <1>4, WFMin
<1>6. m \in Nat /\ m \notin S /\ \A k \in Nat : k < m => k \in S BY <1>3, <1>5 DEF T
<1>7. m # 0 /\ m - 1 \in Nat /\ m - 1 < m /\ m - 1 + 1 = m BY <1>6
<1> QED BY <1>6, <1>7

IsList(s) == \E S : s \in Seq(S)

LEMMA ListFacts ==
    ASSUME NEW s, IsList(s)
    PROVE  Len(s) \in Nat /\ DOMAIN s = 1..Len(s) /\ s = [i \in 1..Len(s) |-> s[i]]
BY DEF IsList

LEMMA EmptyList == IsList(<<>>) /\ Len(<<>>) = 0
<1>1. <<>> \in Seq({}) OBVIOUS
<1> QED BY <1>1 DEF IsList

LEMMA OneList == ASSUME NEW x PROVE IsList(<<x>>) /\ Len(<<x>>) = 1 /\ <<x>>[1] = x
<1>1. <<x>> \in Seq({x}) OBVIOUS
<1> QED BY <1>1 DEF IsList

LEMMA Joined ==
    ASSUME NEW s, NEW t, IsList(s), IsList(t)
    PROVE  /\ IsList(s \o t)
           /\ Len(s \o t) = Len(s) + Len(t)
           /\ \A i \in 1..Len(s) : (s \o t)[i] = s[i]
           /\ \A i \in 1..Len(t) : (s \o t)[Len(s) + i] = t[i]
<1>1. PICK S : s \in Seq(S) BY DEF IsList
<1>2. PICK T : t \in Seq(T) BY DEF IsList
<1>3. s \in Seq(S \cup T) /\ t \in Seq(S \cup T) BY <1>1, <1>2
<1>4. s \o t \in Seq(S \cup T) BY <1>3
<1>5. IsList(s \o t) BY <1>4 DEF IsList
<1> QED BY <1>3, <1>5

LEMMA Cut ==
    ASSUME NEW s, IsList(s), NEW m \in Nat \ {0}, NEW n \in Nat, n <= Len(s), m <= n + 1
    PROVE  /\ IsList(SubSeq(s, m, n))
           /\ Len(SubSeq(s, m, n)) = n - m + 1
           /\ \A i \in 1..n - m + 1 : SubSeq(s, m, n)[i] = s[m + i - 1]
<1>1. PICK S : s \in Seq(S) BY DEF IsList
<1>2. SubSeq(s, m, n) \in Seq(S) BY <1>1
<1>3. IsList(SubSeq(s, m, n)) BY <1>2 DEF IsList
<1> QED BY <1>1, <1>3

LEMMA CutFirst ==
    ASSUME NEW s, IsList(s), NEW n \in Nat, n <= Len(s)
    PROVE  /\ IsList(SubSeq(s, 1, n))
           /\ Len(SubSeq(s, 1, n)) = n
           /\ \A i \in 1..n : SubSeq(s, 1, n)[i] = s[i]
<1>1. PICK S : s \in Seq(S) BY DEF IsList
<1>2. SubSeq(s, 1, n) \in Seq(S) BY <1>1
<1>3. IsList(SubSeq(s, 1, n)) BY <1>2 DEF IsList
<1> QED BY <1>1, <1>3

LEMMA InputsList == ASSUME NEW n \in Nat PROVE IsList(Inputs(n)) /\ Len(Inputs(n)) = n
<1> DEFINE u == Unknown
<1>1. Inputs(n) = [i \in 1..n |-> u] BY DEF Inputs
<1> HIDE DEF u
<1>2. Inputs(n) \in Seq({u}) /\ Len(Inputs(n)) = n BY <1>1
<1> QED BY <1>2 DEF IsList

LEMMA ListsEqual ==
    ASSUME NEW s, NEW t, IsList(s), IsList(t), Len(s) = Len(t), \A i \in 1..Len(s) : s[i] = t[i]
    PROVE  s = t
BY ListFacts
-----------------------------------------------------------------------------
(* The picture of the code: the fields that its operations change            *)

IsCode(c) ==
    \E insts, vstack, max, addrs :
        /\ c = [insts |-> insts, vstack |-> vstack, max |-> max, localAddrs |-> addrs]
        /\ IsList(insts)
        /\ IsList(vstack)
        /\ max \in Nat

LEMMA CodeFields ==
    ASSUME NEW c, IsCode(c)
    PROVE  IsList(c.insts) /\ IsList(c.vstack) /\ c.max \in Nat /\ Len(c.insts) \in Nat /\ Len(c.vstack) \in Nat
<1>1. IsList(c.insts) /\ IsList(c.vstack) /\ c.max \in Nat BY DEF IsCode
<1> QED BY <1>1, ListFacts

LEMMA CodeIs ==
    ASSUME NEW insts, NEW vstack, NEW max \in Nat, NEW addrs, IsList(insts), IsList(vstack)
    PROVE  IsCode([insts |-> insts, vstack |-> vstack, max |-> max, localAddrs |-> addrs])
BY DEF IsCode

LEMMA CodeChanged ==
    ASSUME NEW c, IsCode(c), NEW i, NEW v, NEW m
    PROVE  /\ [c EXCEPT !.insts = i]
                = [insts |-> i, vstack |-> c.vstack, max |-> c.max, localAddrs |-> c.localAddrs]
           /\ [c EXCEPT !.vstack = v]
                = [insts |-> c.insts, vstack |-> v, max |-> c.max, localAddrs |-> c.localAddrs]
           /\ [c EXCEPT !.vstack = v, !.max = m]
                = [insts |-> c.insts, vstack |-> v, max |-> m, localAddrs |-> c.localAddrs]
<1>1. PICK insts, vstack, max, addrs :
        c = [insts |-> insts, vstack |-> vstack, max |-> max, localAddrs |-> addrs]
  BY DEF IsCode
<1>2. c.insts = insts /\ c.vstack = vstack /\ c.max = max /\ c.localAddrs = addrs BY <1>1
<1> DEFINE R == [insts |-> insts, vstack |-> vstack, max |-> max, localAddrs |-> addrs]
           Q == [insts |-> insts, vstack |-> v, max |-> max, localAddrs |-> addrs]
<1>3. [R EXCEPT !.insts = i] = [insts |-> i, vstack |-> vstack, max |-> max, localAddrs |-> addrs] OBVIOUS
<1>4. [R EXCEPT !.vstack = v] = Q OBVIOUS
<1>5. [Q EXCEPT !.max = m] = [insts |-> insts, vstack |-> v, max |-> m, localAddrs |-> addrs] OBVIOUS
<1>6. [R EXCEPT !.vstack = v, !.max = m] = [[R EXCEPT !.vstack = v] EXCEPT !.max = m] OBVIOUS
<1>7. c = R BY <1>1
<1> HIDE DEF R, Q
<1>8. [c EXCEPT !.vstack = v, !.max = m] = [insts |-> insts, vstack |-> v, max |-> m, localAddrs |-> addrs]
  BY <1>4, <1>5, <1>6, <1>7
<1>9. [c EXCEPT !.vstack = v] = [insts |-> insts, vstack |-> v, max |-> max, localAddrs |-> addrs]
  BY <1>4, <1>7 DEF Q
<1> QED BY <1>2, <1>3, <1>7, <1>8, <1>9

(* The same code, with n values more on the stack; or n less.                *)
Pushes(c, d, n) ==
    /\ IsCode(d)
    /\ d.insts = c.insts
    /\ Len(d.vstack) = Len(c.vstack) + n
    /\ d.max >= c.max /\ d.max >= Len(d.vstack)

Pops(c, d, n) ==
    /\ IsCode(d)
    /\ d.insts = c.insts
    /\ Len(d.vstack) = Len(c.vstack) - n
    /\ d.max = c.max

Emits(c, d, insts) ==
    /\ IsCode(d)
    /\ d.insts = c.insts \o insts
    /\ d.vstack = c.vstack
    /\ d.max = c.max

LEMMA PushedValues ==
    ASSUME NEW c, IsCode(c), NEW values, IsList(values)
    PROVE  Pushes(c, PushValues(c, values), Len(values))
<1> DEFINE v == values \o c.vstack
           x == IF Len(v) > c.max THEN Len(v) ELSE c.max
<1>1. IsList(v) /\ Len(v) = Len(values) + Len(c.vstack) BY CodeFields, Joined
<1>2. Len(v) \in Nat /\ Len(values) \in Nat /\ Len(c.vstack) \in Nat BY <1>1, ListFacts, CodeFields
<1>3. x \in Nat /\ x >= c.max /\ x >= Len(v) BY <1>2, CodeFields
<1>4. PushValues(c, values) = [c EXCEPT !.vstack = v, !.max = x] BY DEF PushValues
<1> HIDE DEF v, x
<1>5. PushValues(c, values) = [insts |-> c.insts, vstack |-> v, max |-> x, localAddrs |-> c.localAddrs]
  BY <1>4, CodeChanged
<1>6. IsCode(PushValues(c, values)) BY <1>1, <1>3, <1>5, CodeFields, CodeIs
<1> QED BY <1>1, <1>2, <1>3, <1>5, <1>6 DEF Pushes

LEMMA PushedValue ==
    ASSUME NEW c, IsCode(c), NEW v
    PROVE  Pushes(c, PushValue(c, v), 1)
<1>1. IsList(<<v>>) /\ Len(<<v>>) = 1 BY OneList
<1> QED BY <1>1, PushedValues DEF PushValue

LEMMA PushedOutput ==
    ASSUME NEW c, IsCode(c), NEW n \in Nat
    PROVE  Pushes(c, PushOutput(c, n), n)
<1>1. IsList(Inputs(n)) /\ Len(Inputs(n)) = n BY InputsList
<1> QED BY <1>1, PushedValues DEF PushOutput

LEMMA PoppedValues ==
    ASSUME NEW c, IsCode(c), NEW n \in Nat, n <= Len(c.vstack)
    PROVE  Pops(c, PopValues(c, n), n)
<1> DEFINE v == SubSeq(c.vstack, n + 1, Len(c.vstack))
<1>1. IsList(c.vstack) /\ Len(c.vstack) \in Nat BY CodeFields
<1>2. n + 1 \in Nat \ {0} /\ n + 1 <= Len(c.vstack) + 1 /\ Len(c.vstack) - (n + 1) + 1 = Len(c.vstack) - n
  BY <1>1
<1>3. IsList(v) /\ Len(v) = Len(c.vstack) - n BY <1>1, <1>2, Cut
<1>4. PopValues(c, n) = [c EXCEPT !.vstack = v] BY DEF PopValues
<1> HIDE DEF v
<1>5. PopValues(c, n) = [insts |-> c.insts, vstack |-> v, max |-> c.max, localAddrs |-> c.localAddrs]
  BY <1>4, CodeChanged
<1>6. IsCode(PopValues(c, n)) BY <1>3, <1>5, CodeFields, CodeIs
<1> QED BY <1>3, <1>5, <1>6 DEF Pops

LEMMA RolledValue ==
    ASSUME NEW c, IsCode(c), NEW n \in Nat, n + 1 <= Len(c.vstack)
    PROVE  Pops(c, RollValue(c, n), 0)
<1> DEFINE s == c.vstack
           a == SubSeq(s, 1, n)
           b == SubSeq(s, n + 2, Len(s))
           v == (<<s[n + 1]>> \o a) \o b
<1>1. Len(s) \in Nat /\ IsList(s) BY CodeFields
<1>2. IsList(a) /\ Len(a) = n BY <1>1, Cut
<1>3. IsList(b) /\ Len(b) = Len(s) - n - 1
  <2>1. n + 2 \in Nat \ {0} /\ n + 2 <= Len(s) + 1 /\ Len(s) - (n + 2) + 1 = Len(s) - n - 1 BY <1>1
  <2> QED BY <1>1, <2>1, Cut
<1>4. IsList(<<s[n + 1]>>) /\ Len(<<s[n + 1]>>) = 1 BY OneList
<1>5. RollValue(c, n) = [c EXCEPT !.vstack = v] BY DEF RollValue
<1> HIDE DEF a, b
<1>6. IsList(<<s[n + 1]>> \o a) /\ Len(<<s[n + 1]>> \o a) = n + 1 BY <1>2, <1>4, Joined
<1>7. IsList(v) /\ Len(v) = Len(s) BY <1>1, <1>3, <1>6, Joined
<1> HIDE DEF v
<1>8. RollValue(c, n) = [insts |-> c.insts, vstack |-> v, max |-> c.max, localAddrs |-> c.localAddrs]
  BY <1>5, CodeChanged
<1>9. IsCode(RollValue(c, n)) BY <1>7, <1>8, CodeFields, CodeIs
<1> QED BY <1>1, <1>7, <1>8, <1>9 DEF Pops

LEMMA Emitted ==
    ASSUME NEW c, IsCode(c), NEW insts, IsList(insts)
    PROVE  Emits(c, Emit(c, insts), insts)
<1> DEFINE s == c.insts \o insts
<1>1. IsList(s) BY CodeFields, Joined
<1>2. Emit(c, insts) = [c EXCEPT !.insts = s] BY DEF Emit
<1> HIDE DEF s
<1>3. Emit(c, insts) = [insts |-> s, vstack |-> c.vstack, max |-> c.max, localAddrs |-> c.localAddrs]
  BY <1>2, CodeChanged
<1>4. IsCode(Emit(c, insts)) BY <1>1, <1>3, CodeFields, CodeIs
<1> QED BY <1>3, <1>4 DEF s, Emits
-----------------------------------------------------------------------------
(* The heights of the stack within code: what an instruction makes of it     *)

Builtins == {"call_builtin", "call_builtin_no_regs"}
Pushing  == {"push", "pushn", "global_addr", "function_addr", "local_addr",
             "load_local_value", "load_global_value"}

Stores == {"store_value", "store_int"}

(* A builtin that the program may call; the functions of a type take a       *)
(* pointer and a number, and the value that is stored.                       *)
Callable(b) ==
    /\ b.in \in Nat /\ b.out \in Nat
    /\ b.name \in Stores => b.in = 3 /\ b.out = 0
    /\ b.name \in Accessors \ Stores => b.in = 2 /\ b.out = 1
    /\ b.name \notin Accessors /\ b.fold => b \in Library

Exchanges(a, b, in, out) == in \in Nat /\ out \in Nat /\ a >= in /\ b = (a - in) + out

Moves(inst, a, b) ==
    \/ inst.op \in Pushing /\ b = a + 1
    \/ inst.op = "dup" /\ a >= 1 /\ b = a + 1
    \/ inst.op = "pick" /\ inst.idx \in Nat /\ a >= inst.idx + 1 /\ b = a + 1
    \/ inst.op \in ChangesOne /\ (inst.op = "cc" => inst.cc \in Conditions) /\ a >= 1 /\ b = a
    \/ inst.op = "array_element" /\ a >= 2 /\ b = a - 1
    \/ inst.op = "pop" /\ inst.idx \in Nat /\ a >= inst.idx + 1 /\ b = a - 1
    \/ inst.op = "pop_top" /\ a >= 1 /\ b = a - 1
    \/ inst.op = "roll" /\ inst.idx \in Nat /\ a >= inst.idx + 1 /\ b = a
    \/ inst.op = "swap" /\ a >= 2 /\ b = a
    \/ inst.op = "select" /\ inst.idx \in Nat /\ a >= inst.idx + 2 /\ b = a - (inst.idx + 1)
    \/ inst.op = "call" /\ Exchanges(a, b, Functions[inst.value].in, Functions[inst.value].out)
    \/ inst.op = "call_indirect" /\ inst.in \in Nat /\ Exchanges(a, b, inst.in + 1, inst.out)
    \/ inst.op \in {"fiber_resume", "fiber_transfer"} /\ inst.in \in Nat /\ Exchanges(a, b, inst.in + 1, inst.out)
    \/ inst.op = "fiber_suspend" /\ Exchanges(a, b, inst.in, inst.out)
    \/ inst.op \in Builtins /\ Callable(inst.callee) /\ Exchanges(a, b, inst.callee.in, inst.callee.out)
    \/ inst.op = "call_builtin_sig" /\ b = a
    \/ inst.op = "panic_if" /\ a >= 2 /\ b = a - 2
    \/ inst.op \in {"store_local_value", "store_global_value"} /\ a >= 1 /\ b = a - 1

(* A call of a builtin and its signature are two instructions.               *)
Ordinary(inst) == inst.op \notin Builtins /\ inst.op # "call_builtin_sig"

Followed(insts) ==
    \A k \in 1..Len(insts) :
        /\ insts[k].op \in Builtins => k < Len(insts) /\ insts[k + 1].op = "call_builtin_sig"
        /\ insts[k].op = "call_builtin_sig" => k > 1 /\ insts[k - 1].op \in Builtins

Heights(h, insts, in, n, top) ==
    /\ h \in [0..Len(insts) -> 0..top]
    /\ h[0] = in
    /\ h[Len(insts)] = n
    /\ \A k \in 1..Len(insts) : Moves(insts[k], h[k - 1], h[k])

(* The code, entered with in values, leaves n and never has more than top.   *)
Leaves(insts, in, n, top) ==
    /\ IsList(insts)
    /\ top \in Nat
    /\ Followed(insts)
    /\ \E h : Heights(h, insts, in, n, top)

LEMMA LeavesFacts ==
    ASSUME NEW insts, NEW in, NEW n, NEW top, Leaves(insts, in, n, top)
    PROVE  IsList(insts) /\ Len(insts) \in Nat /\ top \in Nat /\ n \in 0..top /\ in \in 0..top
<1>1. IsList(insts) /\ top \in Nat BY DEF Leaves
<1>2. Len(insts) \in Nat BY <1>1, ListFacts
<1>3. PICK h : Heights(h, insts, in, n, top) BY DEF Leaves
<1>4. 0 \in 0..Len(insts) /\ Len(insts) \in 0..Len(insts) BY <1>2
<1> QED BY <1>1, <1>2, <1>3, <1>4 DEF Heights

LEMMA LeavesNothing ==
    ASSUME NEW in \in Nat, NEW top \in Nat, in <= top
    PROVE  Leaves(<<>>, in, in, top)
<1> DEFINE h == [k \in 0..0 |-> in]
<1>1. Len(<<>>) = 0 /\ IsList(<<>>) BY EmptyList
<1>2. Heights(h, <<>>, in, in, top) BY <1>1 DEF Heights
<1>3. Followed(<<>>) BY <1>1 DEF Followed
<1> QED BY <1>1, <1>2, <1>3 DEF Leaves

LEMMA LeavesHigher ==
    ASSUME NEW insts, NEW in, NEW n, NEW top, Leaves(insts, in, n, top), NEW more \in Nat, more >= top
    PROVE  Leaves(insts, in, n, more)
<1>1. PICK h : Heights(h, insts, in, n, top) BY DEF Leaves
<1>2. top \in Nat BY DEF Leaves
<1>3. h \in [0..Len(insts) -> 0..more] BY <1>1, <1>2 DEF Heights
<1>4. Heights(h, insts, in, n, more) BY <1>1, <1>3 DEF Heights
<1> QED BY <1>4 DEF Leaves

(* One instruction more                                                      *)
LEMMA HeightsMore ==
    ASSUME NEW insts, NEW in, NEW n, NEW top, Leaves(insts, in, n, top),
           NEW inst, NEW to \in Nat, to <= top, Moves(inst, n, to)
    PROVE  \E h : Heights(h, insts \o <<inst>>, in, to, top)
<1> DEFINE L == Len(insts)
           more == insts \o <<inst>>
<1>1. PICK g : Heights(g, insts, in, n, top) BY DEF Leaves
<1>2. IsList(insts) /\ L \in Nat /\ top \in Nat BY LeavesFacts
<1>3. /\ Len(more) = L + 1
      /\ \A i \in 1..L : more[i] = insts[i]
      /\ more[L + 1] = inst
  <2>1. IsList(<<inst>>) /\ Len(<<inst>>) = 1 /\ <<inst>>[1] = inst BY OneList
  <2>2. Len(more) = L + 1 /\ \A i \in 1..L : more[i] = insts[i] BY <1>2, <2>1, Joined
  <2>3. \A i \in 1..1 : more[L + i] = <<inst>>[i] BY <1>2, <2>1, Joined
  <2> QED BY <2>1, <2>2, <2>3
<1> HIDE DEF more
<1> DEFINE h == [k \in 0..L + 1 |-> IF k = L + 1 THEN to ELSE g[k]]
<1>4. h \in [0..L + 1 -> 0..top] BY <1>1, <1>2 DEF Heights
<1>5. h[0] = in /\ h[L + 1] = to BY <1>1, <1>2 DEF Heights
<1>6. ASSUME NEW k \in 1..L + 1 PROVE Moves(more[k], h[k - 1], h[k])
  <2>1. CASE k = L + 1
    <3>1. k - 1 = L /\ k - 1 \in 0..L + 1 /\ k - 1 # L + 1 /\ k \in 0..L + 1 BY <1>2, <2>1
    <3>2. h[k - 1] = n /\ h[k] = to BY <1>1, <2>1, <3>1 DEF Heights
    <3> QED BY <1>3, <2>1, <3>2
  <2>2. CASE k # L + 1
    <3>1. k \in 1..L /\ k - 1 \in 0..L + 1 /\ k - 1 # L + 1 /\ k \in 0..L + 1 BY <1>2, <2>2
    <3>2. h[k - 1] = g[k - 1] /\ h[k] = g[k] BY <2>2, <3>1
    <3>3. Moves(insts[k], g[k - 1], g[k]) BY <1>1, <3>1 DEF Heights
    <3> QED BY <1>3, <3>1, <3>2, <3>3
  <2> QED BY <2>1, <2>2
<1> HIDE DEF h
<1>7. Heights(h, more, in, to, top) BY <1>3, <1>4, <1>5, <1>6 DEF Heights
<1> QED BY <1>7 DEF more

LEMMA LeavesMore ==
    ASSUME NEW insts, NEW in, NEW n, NEW top, Leaves(insts, in, n, top),
           NEW inst, NEW to \in Nat, to <= top, Moves(inst, n, to), Ordinary(inst)
    PROVE  Leaves(insts \o <<inst>>, in, to, top)
<1> DEFINE L == Len(insts)
           more == insts \o <<inst>>
<1>1. IsList(insts) /\ L \in Nat /\ top \in Nat BY LeavesFacts
<1>2. IsList(<<inst>>) /\ Len(<<inst>>) = 1 /\ <<inst>>[1] = inst BY OneList
<1>3. IsList(more) /\ Len(more) = L + 1 /\ \A i \in 1..L : more[i] = insts[i] BY <1>1, <1>2, Joined
<1>4. more[L + 1] = inst
  <2>1. \A i \in 1..1 : more[L + i] = <<inst>>[i] BY <1>1, <1>2, Joined
  <2> QED BY <1>2, <2>1
<1>5. \E h : Heights(h, more, in, to, top) BY HeightsMore
<1> HIDE DEF more
<1>6. Followed(insts) BY DEF Leaves
<1>7. Followed(more)
  <2>a. ASSUME NEW k \in 1..L + 1, more[k].op \in Builtins
        PROVE  k < L + 1 /\ more[k + 1].op = "call_builtin_sig"
    <3>1. k # L + 1 BY <1>4, <2>a DEF Ordinary
    <3>2. k \in 1..L BY <1>1, <3>1
    <3>3. k < L /\ insts[k + 1].op = "call_builtin_sig" BY <1>3, <1>6, <2>a, <3>2 DEF Followed
    <3>4. k + 1 \in 1..L BY <1>1, <3>2, <3>3
    <3> QED BY <1>1, <1>3, <3>2, <3>3, <3>4
  <2>b. ASSUME NEW k \in 1..L + 1, more[k].op = "call_builtin_sig"
        PROVE  k > 1 /\ more[k - 1].op \in Builtins
    <3>1. k # L + 1 BY <1>4, <2>b DEF Ordinary
    <3>2. k \in 1..L BY <1>1, <3>1
    <3>3. k > 1 /\ insts[k - 1].op \in Builtins BY <1>3, <1>6, <2>b, <3>2 DEF Followed
    <3>4. k - 1 \in 1..L BY <1>1, <3>2, <3>3
    <3> QED BY <1>3, <3>3, <3>4
  <2> QED BY <1>3, <2>a, <2>b DEF Followed
<1>8. Leaves(more, in, to, top) BY <1>1, <1>3, <1>5, <1>7 DEF Leaves
<1> QED BY <1>8 DEF more

(* One instruction less, unless a builtin needs it                           *)
LEMMA LeavesLess ==
    ASSUME NEW insts, NEW in, NEW n, NEW top, Leaves(insts, in, n, top),
           Len(insts) # 0, insts[Len(insts)].op # "call_builtin_sig"
    PROVE  \E from \in 0..top : /\ Leaves(SubSeq(insts, 1, Len(insts) - 1), in, from, top)
                                /\ Moves(insts[Len(insts)], from, n)
<1> DEFINE L == Len(insts)
           less == SubSeq(insts, 1, L - 1)
<1>1. IsList(insts) /\ L \in Nat /\ top \in Nat /\ L # 0 BY LeavesFacts
<1>2. IsList(less) /\ Len(less) = L - 1 /\ \A i \in 1..L - 1 : less[i] = insts[i]
  <2>1. L - 1 \in Nat /\ L - 1 <= L BY <1>1
  <2> QED BY <1>1, <2>1, CutFirst
<1> HIDE DEF less
<1>3. PICK g : Heights(g, insts, in, n, top) BY DEF Leaves
<1> DEFINE h == [k \in 0..L - 1 |-> g[k]]
<1>4. \A k \in 0..L - 1 : k \in 0..L BY <1>1
<1>5. h \in [0..L - 1 -> 0..top] BY <1>3, <1>4 DEF Heights
<1>6. 0 \in 0..L - 1 /\ L - 1 \in 0..L - 1 BY <1>1
<1>7. h[0] = in /\ h[L - 1] \in 0..top BY <1>3, <1>5, <1>6 DEF Heights
<1>8. ASSUME NEW k \in 1..L - 1 PROVE Moves(less[k], h[k - 1], h[k])
  <2>1. k \in 1..L /\ k \in 0..L - 1 /\ k - 1 \in 0..L - 1 BY <1>1
  <2>2. Moves(insts[k], g[k - 1], g[k]) BY <1>3, <2>1 DEF Heights
  <2> QED BY <1>2, <2>1, <2>2
<1>9. Moves(insts[L], h[L - 1], n)
  <2>1. L \in 1..L BY <1>1
  <2>2. Moves(insts[L], g[L - 1], g[L]) BY <1>3, <2>1 DEF Heights
  <2> QED BY <1>3, <1>6, <2>2 DEF Heights
<1> HIDE DEF h
<1>10. Heights(h, less, in, h[L - 1], top) BY <1>2, <1>5, <1>7, <1>8 DEF Heights
<1>11. Followed(less)
  <2>a. ASSUME NEW k \in 1..L - 1, less[k].op \in Builtins
        PROVE  k < L - 1 /\ less[k + 1].op = "call_builtin_sig"
    <3>1. k \in 1..L /\ k + 1 \in 1..L BY <1>1
    <3>2. insts[k].op \in Builtins BY <1>2, <2>a
    <3>3. insts[k + 1].op = "call_builtin_sig" BY <3>1, <3>2 DEF Followed, Leaves
    <3>4. k + 1 # L BY <3>3
    <3>5. k + 1 \in 1..L - 1 /\ k < L - 1 BY <1>1, <3>1, <3>4
    <3> QED BY <1>2, <3>3, <3>5
  <2>b. ASSUME NEW k \in 1..L - 1, less[k].op = "call_builtin_sig"
        PROVE  k > 1 /\ less[k - 1].op \in Builtins
    <3>1. k \in 1..L BY <1>1
    <3>2. insts[k].op = "call_builtin_sig" BY <1>2, <2>b
    <3>3. k > 1 /\ insts[k - 1].op \in Builtins BY <3>1, <3>2 DEF Followed, Leaves
    <3>4. k - 1 \in 1..L - 1 BY <1>1, <3>1, <3>3
    <3> QED BY <1>2, <3>3, <3>4
  <2> QED BY <1>2, <2>a, <2>b DEF Followed
<1>12. Leaves(less, in, h[L - 1], top) BY <1>1, <1>2, <1>10, <1>11 DEF Leaves
<1> QED BY <1>7, <1>9, <1>12 DEF less

(* A builtin and its signature                                               *)
LEMMA LeavesCall ==
    ASSUME NEW insts, NEW in, NEW n, NEW top, Leaves(insts, in, n, top),
           NEW inst, NEW sig, NEW to \in Nat, to <= top, Moves(inst, n, to), inst.op \in Builtins,
           sig.op = "call_builtin_sig"
    PROVE  Leaves((insts \o <<inst>>) \o <<sig>>, in, to, top)
<1> DEFINE L == Len(insts)
           more == insts \o <<inst>>
           all == more \o <<sig>>
<1>1. IsList(insts) /\ L \in Nat /\ top \in Nat BY LeavesFacts
<1>2. IsList(<<inst>>) /\ Len(<<inst>>) = 1 /\ <<inst>>[1] = inst BY OneList
<1>3. IsList(<<sig>>) /\ Len(<<sig>>) = 1 /\ <<sig>>[1] = sig BY OneList
<1>4. IsList(more) /\ Len(more) = L + 1 /\ \A i \in 1..L : more[i] = insts[i] BY <1>1, <1>2, Joined
<1>5. more[L + 1] = inst
  <2>1. \A i \in 1..1 : more[L + i] = <<inst>>[i] BY <1>1, <1>2, Joined
  <2> QED BY <1>2, <2>1
<1>6. PICK g : Heights(g, more, in, to, top) BY HeightsMore
<1> HIDE DEF more
<1>7. IsList(all) /\ Len(all) = L + 2 /\ \A i \in 1..L + 1 : all[i] = more[i] BY <1>1, <1>3, <1>4, Joined
<1>8. all[L + 2] = sig
  <2>1. \A i \in 1..1 : all[(L + 1) + i] = <<sig>>[i] BY <1>3, <1>4, Joined
  <2>2. 1 \in 1..1 /\ (L + 1) + 1 = L + 2 BY <1>1
  <2> QED BY <1>3, <2>1, <2>2
<1> HIDE DEF all
<1> DEFINE h == [k \in 0..L + 2 |-> IF k = L + 2 THEN to ELSE g[k]]
<1>9. h \in [0..L + 2 -> 0..top]
  <2>1. \A k \in 0..L + 2 : k # L + 2 => k \in 0..L + 1 BY <1>1
  <2>2. \A k \in 0..L + 1 : g[k] \in 0..top BY <1>4, <1>6 DEF Heights
  <2> QED BY <1>1, <2>1, <2>2
<1>10. h[0] = in /\ h[L + 2] = to BY <1>1, <1>6 DEF Heights
<1>11. ASSUME NEW k \in 1..L + 2 PROVE Moves(all[k], h[k - 1], h[k])
  <2>1. CASE k = L + 2
    <3>1. k - 1 = L + 1 /\ k - 1 \in 0..L + 2 /\ k - 1 # L + 2 /\ k \in 0..L + 2 BY <1>1, <2>1
    <3>2. h[k - 1] = to /\ h[k] = to BY <1>4, <1>6, <2>1, <3>1 DEF Heights
    <3> HIDE DEF h
    <3> QED BY <1>8, <2>1, <3>2 DEF Moves
  <2>2. CASE k # L + 2
    <3>1. k \in 1..L + 1 /\ k - 1 \in 0..L + 2 /\ k - 1 # L + 2 /\ k \in 0..L + 2 BY <1>1, <2>2
    <3>2. h[k - 1] = g[k - 1] /\ h[k] = g[k] BY <2>2, <3>1
    <3>3. Moves(more[k], g[k - 1], g[k]) BY <1>4, <1>6, <3>1 DEF Heights
    <3> QED BY <1>7, <3>1, <3>2, <3>3
  <2> QED BY <2>1, <2>2
<1> HIDE DEF h
<1>12. Heights(h, all, in, to, top) BY <1>7, <1>9, <1>10, <1>11 DEF Heights
<1>13. Followed(all)
  <2>a. ASSUME NEW k \in 1..L + 2, all[k].op \in Builtins
        PROVE  k < L + 2 /\ all[k + 1].op = "call_builtin_sig"
    <3>1. k # L + 2 BY <1>8, <2>a DEF Builtins
    <3>2. CASE k = L + 1 BY <1>1, <1>8, <3>2
    <3>3. CASE k # L + 1
      <4>1. k \in 1..L /\ k \in 1..L + 1 BY <1>1, <3>1, <3>3
      <4>2. insts[k].op \in Builtins BY <1>4, <1>7, <2>a, <4>1
      <4>3. k < L /\ insts[k + 1].op = "call_builtin_sig" BY <4>1, <4>2 DEF Followed, Leaves
      <4>4. k + 1 \in 1..L /\ k + 1 \in 1..L + 1 /\ k < L + 2 BY <1>1, <4>1, <4>3
      <4> QED BY <1>4, <1>7, <4>3, <4>4
    <3> QED BY <3>2, <3>3
  <2>b. ASSUME NEW k \in 1..L + 2, all[k].op = "call_builtin_sig"
        PROVE  k > 1 /\ all[k - 1].op \in Builtins
    <3>1. CASE k = L + 2
      <4>1. L + 1 \in 1..L + 1 /\ k - 1 = L + 1 /\ k > 1 BY <1>1, <3>1
      <4>2. all[L + 1].op \in Builtins BY <1>5, <1>7, <4>1
      <4> QED BY <4>1, <4>2
    <3>2. CASE k # L + 2
      <4>1. k \in 1..L + 1 BY <1>1, <3>2
      <4>2. k # L + 1 BY <1>5, <1>7, <2>b, <4>1 DEF Builtins
      <4>3. k \in 1..L BY <1>1, <4>1, <4>2
      <4>4. insts[k].op = "call_builtin_sig" BY <1>4, <1>7, <2>b, <4>1, <4>3
      <4>5. k > 1 /\ insts[k - 1].op \in Builtins BY <4>3, <4>4 DEF Followed, Leaves
      <4>6. k - 1 \in 1..L /\ k - 1 \in 1..L + 1 BY <1>1, <4>3, <4>5
      <4> QED BY <1>4, <1>7, <4>5, <4>6
    <3> QED BY <3>1, <3>2
  <2> QED BY <1>7, <2>a, <2>b DEF Followed
<1>14. Leaves(all, in, to, top) BY <1>1, <1>7, <1>12, <1>13 DEF Leaves
<1> QED BY <1>14 DEF all, more
-----------------------------------------------------------------------------
(* Taking values back                                                        *)

(* Of p, the code so far and how many values are left to pop: after these,   *)
(* there are n.                                                              *)
LeavesOnce(p, in, n, top, vstack, max) ==
    /\ IsCode(p.code)
    /\ p.code.vstack = vstack
    /\ p.code.max = max
    /\ p.count \in Nat
    /\ Leaves(p.code.insts, in, n + p.count, top)

(* The code without its last instruction, op                                 *)
Shorter(c, op) == [c EXCEPT !.insts = Front(@), !.localAddrs = IF op = "local_addr" THEN @ - 1 ELSE @]

LEMMA FrontCode ==
    ASSUME NEW c, IsCode(c), Len(c.insts) # 0, NEW op
    PROVE  /\ IsCode(Shorter(c, op))
           /\ Shorter(c, op).insts = SubSeq(c.insts, 1, Len(c.insts) - 1)
           /\ Shorter(c, op).vstack = c.vstack
           /\ Shorter(c, op).max = c.max
<1>1. PICK insts, vstack, max, addrs :
        /\ c = [insts |-> insts, vstack |-> vstack, max |-> max, localAddrs |-> addrs]
        /\ IsList(insts) /\ IsList(vstack) /\ max \in Nat
  BY DEF IsCode
<1>2. c.insts = insts /\ c.vstack = vstack /\ c.max = max /\ c.localAddrs = addrs BY <1>1
<1> DEFINE i == SubSeq(insts, 1, Len(insts) - 1)
           a == IF op = "local_addr" THEN addrs - 1 ELSE addrs
           R == [insts |-> insts, vstack |-> vstack, max |-> max, localAddrs |-> addrs]
           Q == [insts |-> i, vstack |-> vstack, max |-> max, localAddrs |-> addrs]
           d == Shorter(c, op)
<1>3. IsList(i)
  <2>1. Len(insts) \in Nat /\ Len(insts) # 0 BY <1>1, <1>2, ListFacts
  <2>2. Len(insts) - 1 \in Nat /\ Len(insts) - 1 <= Len(insts) BY <2>1
  <2> QED BY <1>1, <2>2, CutFirst
<1>4. d = [c EXCEPT !.insts = i, !.localAddrs = a] BY <1>2 DEF Front, Shorter
<1> HIDE DEF i, a, d
<1>5. [R EXCEPT !.insts = i] = Q OBVIOUS
<1>6. [Q EXCEPT !.localAddrs = a] = [insts |-> i, vstack |-> vstack, max |-> max, localAddrs |-> a] OBVIOUS
<1>7. [R EXCEPT !.insts = i, !.localAddrs = a] = [[R EXCEPT !.insts = i] EXCEPT !.localAddrs = a] OBVIOUS
<1>8. c = R BY <1>1
<1> HIDE DEF R, Q
<1>9. d = [insts |-> i, vstack |-> vstack, max |-> max, localAddrs |-> a] BY <1>4, <1>5, <1>6, <1>7, <1>8
<1>10. IsCode(d) BY <1>1, <1>3, <1>9, CodeIs
<1>11. d.insts = SubSeq(c.insts, 1, Len(c.insts) - 1) /\ d.vstack = c.vstack /\ d.max = c.max
  BY <1>2, <1>9 DEF i
<1> QED BY <1>10, <1>11 DEF d

LEMMA NotEmpty == ASSUME NEW s, IsList(s) PROVE s = <<>> <=> Len(s) = 0
BY ListFacts, EmptyList DEF IsList

LEMMA LeavesOnceIs ==
    ASSUME NEW d, IsCode(d), NEW k \in Nat, NEW in, NEW n \in Nat, NEW top, Leaves(d.insts, in, n + k, top)
    PROVE  LeavesOnce([code |-> d, count |-> k], in, n, top, d.vstack, d.max)
BY DEF LeavesOnce

LEMMA TakenBack ==
    ASSUME NEW p, NEW in, NEW n \in Nat, NEW top, NEW vstack, NEW max, LeavesOnce(p, in, n, top, vstack, max)
    PROVE  LeavesOnce(TakeBack(p), in, n, top, vstack, max)
<1> DEFINE c      == p.code
           op     == IF c.insts = <<>> THEN "call" ELSE Last(c.insts).op
           before == Shorter(c, op)
<1>1. /\ IsCode(c) /\ c.vstack = vstack /\ c.max = max /\ p.count \in Nat
      /\ Leaves(c.insts, in, n + p.count, top)
  BY DEF LeavesOnce
<1>2. IsList(c.insts) /\ Len(c.insts) \in Nat /\ top \in Nat BY <1>1, LeavesFacts
<1>3. CASE p.count = 0
  <2>1. TakeBack(p) = p BY <1>3 DEF TakeBack
  <2> QED BY <2>1
<1>4. CASE p.count # 0 /\ op \in MakesOne \cup ChangesOne \cup {"array_element"}
  <2>1. Len(c.insts) # 0 BY <1>2, <1>4, NotEmpty DEF MakesOne, ChangesOne
  <2>2. op = c.insts[Len(c.insts)].op BY <1>2, <2>1, NotEmpty DEF Last
  <2>3. op # "call_builtin_sig" BY <1>4 DEF MakesOne, ChangesOne
  <2>4. PICK from \in 0..top : /\ Leaves(SubSeq(c.insts, 1, Len(c.insts) - 1), in, from, top)
                               /\ Moves(c.insts[Len(c.insts)], from, n + p.count)
    BY <1>1, <2>1, <2>2, <2>3, LeavesLess
  <2> HIDE DEF op
  <2>5. /\ IsCode(before) /\ before.insts = SubSeq(c.insts, 1, Len(c.insts) - 1)
        /\ before.vstack = vstack /\ before.max = max
    BY <1>1, <2>1, FrontCode
  <2> HIDE DEF before
  <2>6. CASE op \in MakesOne
    <3>1. n + p.count = from + 1 BY <2>2, <2>4, <2>6 DEF Moves, MakesOne, ChangesOne, Builtins
    <3>2. p.count - 1 \in Nat /\ from = n + (p.count - 1) BY <1>1, <1>4, <2>4, <3>1
    <3>3. TakeBack(p) = [code |-> before, count |-> p.count - 1] BY <1>4, <2>6 DEF TakeBack, before, op, Shorter
    <3> QED BY <2>4, <2>5, <3>2, <3>3, LeavesOnceIs
  <2>7. CASE op \in ChangesOne
    <3>1. from = n + p.count BY <2>2, <2>4, <2>7 DEF Moves, ChangesOne, Pushing, Builtins
    <3>2. op \notin MakesOne BY <2>7 DEF MakesOne, ChangesOne
    <3>3. TakeBack(p) = [code |-> before, count |-> p.count] BY <1>4, <2>7, <3>2 DEF TakeBack, before, op, Shorter
    <3> QED BY <1>1, <2>4, <2>5, <3>1, <3>3, LeavesOnceIs
  <2>8. CASE op = "array_element"
    <3>1. n + p.count = from - 1 BY <2>2, <2>4, <2>8 DEF Moves, ChangesOne, Pushing, Builtins
    <3>2. p.count + 1 \in Nat /\ from = n + (p.count + 1) BY <1>1, <2>4, <3>1
    <3>3. op \notin MakesOne /\ op \notin ChangesOne BY <2>8 DEF MakesOne, ChangesOne
    <3>4. TakeBack(p) = [code |-> before, count |-> p.count + 1] BY <1>4, <2>8, <3>3 DEF TakeBack, before, op, Shorter
    <3> QED BY <2>4, <2>5, <3>2, <3>4, LeavesOnceIs
  <2> QED BY <1>4, <2>6, <2>7, <2>8
<1>5. CASE p.count # 0 /\ ~(op \in MakesOne \cup ChangesOne \cup {"array_element"})
  <2>1. op \notin MakesOne /\ op \notin ChangesOne /\ op # "array_element" BY <1>5
  <2>2. TakeBack(p) = p BY <1>5, <2>1 DEF TakeBack
  <2> QED BY <2>2
<1> QED BY <1>3, <1>4, <1>5

(* The turns of the loop are those of its definition.                        *)
LEMMA TurnsExist ==
    ASSUME NEW a, NEW n \in Nat
    PROVE  \E f : f = [k \in 0..n |-> IF k = 0 THEN a ELSE TakeBack(f[k - 1])]
<1> DEFINE F(m) == \E f : f = [k \in 0..m |-> IF k = 0 THEN a ELSE TakeBack(f[k - 1])]
           S == {m \in Nat : F(m)}
<1>1. 0 \in S
  <2> DEFINE e == [k \in 0..0 |-> a]
  <2>1. ASSUME NEW k \in 0..0 PROVE e[k] = IF k = 0 THEN a ELSE TakeBack(e[k - 1]) OBVIOUS
  <2>2. e = [k \in 0..0 |-> e[k]] OBVIOUS
  <2> HIDE DEF e
  <2>3. e = [k \in 0..0 |-> IF k = 0 THEN a ELSE TakeBack(e[k - 1])] BY <2>1, <2>2
  <2> QED BY <2>3
<1>2. ASSUME NEW m \in Nat, m \in S PROVE m + 1 \in S
  <2>1. PICK f : f = [k \in 0..m |-> IF k = 0 THEN a ELSE TakeBack(f[k - 1])] BY <1>2
  <2> DEFINE g == [k \in 0..m + 1 |-> IF k = m + 1 THEN TakeBack(f[m]) ELSE f[k]]
  <2>2. ASSUME NEW k \in 0..m + 1 PROVE g[k] = IF k = 0 THEN a ELSE TakeBack(g[k - 1])
    <3>1. CASE k = m + 1
      <4>1. k # 0 /\ k - 1 = m /\ m \in 0..m + 1 /\ m # m + 1 BY <3>1
      <4>2. g[m] = f[m] BY <4>1
      <4>3. g[k] = TakeBack(f[m]) BY <3>1
      <4> HIDE DEF g
      <4> QED BY <4>1, <4>2, <4>3
    <3>2. CASE k # m + 1
      <4>1. k \in 0..m BY <3>2
      <4>2. f[k] = IF k = 0 THEN a ELSE TakeBack(f[k - 1]) BY <2>1, <4>1
      <4>3. g[k] = f[k] BY <3>2, <4>1
      <4>4. k # 0 => k - 1 \in 0..m + 1 /\ k - 1 # m + 1 BY <4>1
      <4>5. k # 0 => g[k - 1] = f[k - 1] BY <4>4
      <4> HIDE DEF g
      <4> QED BY <4>2, <4>3, <4>5
    <3> QED BY <3>1, <3>2
  <2>3. g = [k \in 0..m + 1 |-> g[k]] OBVIOUS
  <2> HIDE DEF g
  <2>4. g = [k \in 0..m + 1 |-> IF k = 0 THEN a ELSE TakeBack(g[k - 1])] BY <2>2, <2>3
  <2>5. F(m + 1) BY <2>4
  <2> HIDE DEF F
  <2>6. m + 1 \in Nat OBVIOUS
  <2> QED BY <2>5, <2>6
<1>3. \A m \in Nat : m \in S => m + 1 \in S BY <1>2
<1> HIDE DEF S
<1>4. n \in S BY <1>1, <1>3, Induction
<1>5. F(n) BY <1>4 DEF S
<1> QED BY <1>5

(* PopTop(c, count) is d with k values popped by instructions.               *)
PopsThen(c, count, d, k, in, n, top) ==
    /\ IsCode(d) /\ d.vstack = c.vstack /\ d.max = c.max
    /\ k \in Nat
    /\ Leaves(d.insts, in, n + k, top)
    /\ PopTop(c, count) = Emit(d, [i \in 1..k |-> [op |-> "pop_top", idx |-> 0]])

(* Code that leaves count values more than are to stay leaves those.         *)
LEMMA PopsLeft ==
    ASSUME NEW c, IsCode(c), NEW in, NEW n \in Nat, NEW top, NEW count \in Nat,
           Leaves(c.insts, in, n + count, top)
    PROVE  \E d, k : PopsThen(c, count, d, k, in, n, top)
<1> DEFINE a == [code |-> c, count |-> count]
           L == Len(c.insts)
           f == CHOOSE f : f = [k \in 0..L |-> IF k = 0 THEN a ELSE TakeBack(f[k - 1])]
<1>1. L \in Nat BY CodeFields
<1>2. f = [k \in 0..L |-> IF k = 0 THEN a ELSE TakeBack(f[k - 1])]
  <2> HIDE DEF a, L
  <2> QED BY <1>1, TurnsExist
<1>3. PopTop(c, count) = Emit(f[L].code, [i \in 1..f[L].count |-> [op |-> "pop_top", idx |-> 0]])
  BY DEF PopTop
<1> HIDE DEF f
<1> DEFINE Good(p) == LeavesOnce(p, in, n, top, c.vstack, c.max)
           S == {k \in Nat : k \in 0..L => Good(f[k])}
<1>4. 0 \in S
  <2>1. Good(a) BY DEF LeavesOnce
  <2>2. f[0] = a BY <1>1, <1>2
  <2> QED BY <2>1, <2>2
<1>5. ASSUME NEW k \in Nat, k \in S PROVE k + 1 \in S
  <2>1. CASE k + 1 \in 0..L
    <3>1. k \in 0..L /\ k + 1 # 0 /\ (k + 1) - 1 = k BY <1>1, <2>1
    <3>2. f[k + 1] = TakeBack(f[k]) BY <1>2, <2>1, <3>1
    <3>3. Good(f[k]) BY <1>5, <3>1
    <3>4. Good(TakeBack(f[k])) BY <3>3, TakenBack
    <3> QED BY <3>2, <3>4
  <2>2. CASE k + 1 \notin 0..L BY <2>2
  <2> QED BY <2>1, <2>2
<1>6. \A k \in Nat : k \in S => k + 1 \in S BY <1>5
<1> HIDE DEF S
<1>7. L \in S BY <1>1, <1>4, <1>6, Induction
<1>8. LeavesOnce(f[L], in, n, top, c.vstack, c.max) BY <1>1, <1>7 DEF S
<1> QED BY <1>3, <1>8 DEF LeavesOnce, PopsThen

LEMMA LeavesPops ==
    ASSUME NEW insts, NEW in, NEW n \in Nat, NEW k \in Nat, NEW top, Leaves(insts, in, n + k, top)
    PROVE  LET pops == [i \in 1..k |-> [op |-> "pop_top", idx |-> 0]]
           IN  IsList(pops) /\ Leaves(insts \o pops, in, n, top)
<1> DEFINE u == [op |-> "pop_top", idx |-> 0]
           pops == [i \in 1..k |-> u]
           L == Len(insts)
           all == insts \o pops
<1>1. IsList(pops) /\ Len(pops) = k /\ \A i \in 1..k : pops[i] = u
  <2> HIDE DEF u
  <2>1. pops \in Seq({u}) /\ Len(pops) = k OBVIOUS
  <2> QED BY <2>1 DEF IsList
<1>2. u.op = "pop_top" OBVIOUS
<1> HIDE DEF u, pops
<1>3. IsList(insts) /\ L \in Nat /\ top \in Nat /\ n + k \in 0..top BY LeavesFacts
<1>4. /\ IsList(all) /\ Len(all) = L + k
      /\ \A i \in 1..L : all[i] = insts[i]
      /\ \A i \in 1..k : all[L + i] = pops[i]
  BY <1>1, <1>3, Joined
<1>5. \A i \in L + 1..L + k : all[i].op = "pop_top"
  <2> SUFFICES ASSUME NEW i \in L + 1..L + k PROVE all[i].op = "pop_top"
    OBVIOUS
  <2>1. i - L \in 1..k /\ L + (i - L) = i BY <1>3
  <2> QED BY <1>1, <1>2, <1>4, <2>1
<1> HIDE DEF all
<1>6. PICK g : Heights(g, insts, in, n + k, top) BY DEF Leaves
<1> DEFINE h == [j \in 0..L + k |-> IF j <= L THEN g[j] ELSE (n + k) - (j - L)]
<1>7. h \in [0..L + k -> 0..top]
  <2> SUFFICES ASSUME NEW j \in 0..L + k PROVE h[j] \in 0..top
    OBVIOUS
  <2>1. CASE j <= L
    <3>1. j \in 0..L BY <1>3, <2>1
    <3> QED BY <1>6, <2>1, <3>1 DEF Heights
  <2>2. CASE ~(j <= L) BY <1>3, <2>2
  <2> QED BY <2>1, <2>2
<1>8. h[0] = in /\ h[L + k] = n
  <2>1. h[0] = in BY <1>3, <1>6 DEF Heights
  <2>2. CASE k = 0
    <3>1. h[L + k] = g[L] BY <1>3, <2>2
    <3>2. n + k = n BY <2>2
    <3> QED BY <1>6, <2>1, <3>1, <3>2 DEF Heights
  <2>3. CASE k # 0 BY <1>3, <2>1, <2>3
  <2> QED BY <2>2, <2>3
<1>9. ASSUME NEW j \in 1..L + k PROVE Moves(all[j], h[j - 1], h[j])
  <2>1. CASE j <= L
    <3>1. j \in 1..L /\ j - 1 <= L /\ j \in 0..L + k /\ j - 1 \in 0..L + k BY <1>3, <2>1
    <3>2. h[j - 1] = g[j - 1] /\ h[j] = g[j] BY <2>1, <3>1
    <3>3. Moves(insts[j], g[j - 1], g[j]) BY <1>6, <3>1 DEF Heights
    <3> QED BY <1>4, <3>1, <3>2, <3>3
  <2>2. CASE ~(j <= L)
    <3>1. j \in L + 1..L + k /\ j \in 0..L + k /\ j - 1 \in 0..L + k /\ j - 1 >= L BY <1>3, <2>2
    <3>2. h[j] = (n + k) - (j - L) BY <2>2, <3>1
    <3>3. h[j - 1] = (n + k) - ((j - 1) - L)
      <4>1. CASE j - 1 = L
        <5>1. h[j - 1] = g[L] BY <3>1, <4>1
        <5>2. (n + k) - ((j - 1) - L) = n + k BY <1>3, <4>1
        <5> QED BY <1>6, <5>1, <5>2 DEF Heights
      <4>2. CASE j - 1 # L BY <1>3, <3>1, <4>2
      <4> QED BY <4>1, <4>2
    <3>4. h[j - 1] >= 1 /\ h[j] = h[j - 1] - 1 BY <1>3, <3>1, <3>2, <3>3
    <3> HIDE DEF h
    <3> QED BY <1>5, <3>1, <3>4 DEF Moves
  <2> QED BY <2>1, <2>2
<1> HIDE DEF h
<1>10. Heights(h, all, in, n, top) BY <1>4, <1>7, <1>8, <1>9 DEF Heights
<1>11. Followed(all)
  <2>a. ASSUME NEW j \in 1..L + k, all[j].op \in Builtins
        PROVE  j < L + k /\ all[j + 1].op = "call_builtin_sig"
    <3>1. j \notin L + 1..L + k BY <1>5, <2>a DEF Builtins
    <3>2. j \in 1..L BY <1>3, <3>1
    <3>3. j < L /\ insts[j + 1].op = "call_builtin_sig" BY <1>4, <2>a, <3>2 DEF Followed, Leaves
    <3>4. j + 1 \in 1..L /\ j < L + k BY <1>3, <3>2, <3>3
    <3> QED BY <1>4, <3>3, <3>4
  <2>b. ASSUME NEW j \in 1..L + k, all[j].op = "call_builtin_sig"
        PROVE  j > 1 /\ all[j - 1].op \in Builtins
    <3>1. j \notin L + 1..L + k BY <1>5, <2>b
    <3>2. j \in 1..L BY <1>3, <3>1
    <3>3. j > 1 /\ insts[j - 1].op \in Builtins BY <1>4, <2>b, <3>2 DEF Followed, Leaves
    <3>4. j - 1 \in 1..L BY <1>3, <3>2, <3>3
    <3> QED BY <1>4, <3>3, <3>4
  <2> QED BY <1>4, <2>a, <2>b DEF Followed
<1>12. Leaves(all, in, n, top) BY <1>3, <1>4, <1>10, <1>11 DEF Leaves
<1> QED BY <1>1, <1>12 DEF all, pops, u

-----------------------------------------------------------------------------
(* The code behind the picture: it leaves n values, and the picture may have *)
(* another number of them in the middle of an operation.                     *)

Behind(c, in, n) == IsCode(c) /\ Leaves(c.insts, in, n, c.max)
WellBuilt(c, in) == Behind(c, in, Len(c.vstack))

LEMMA BehindPops ==
    ASSUME NEW c, NEW in, NEW n, Behind(c, in, n), NEW k \in Nat, k <= Len(c.vstack)
    PROVE  Behind(PopValues(c, k), in, n) /\ Len(PopValues(c, k).vstack) = Len(c.vstack) - k
BY PoppedValues DEF Behind, Pops

LEMMA BehindRoll ==
    ASSUME NEW c, NEW in, NEW n, Behind(c, in, n), NEW k \in Nat, k + 1 <= Len(c.vstack)
    PROVE  Behind(RollValue(c, k), in, n) /\ Len(RollValue(c, k).vstack) = Len(c.vstack)
<1>1. Pops(c, RollValue(c, k), 0) BY RolledValue DEF Behind
<1>2. Len(c.vstack) \in Nat BY CodeFields DEF Behind
<1> QED BY <1>1, <1>2 DEF Behind, Pops

LEMMA BehindPopTop ==
    ASSUME NEW c, NEW in, NEW n \in Nat, NEW k \in Nat, Behind(c, in, n + k)
    PROVE  Behind(PopTop(c, k), in, n) /\ Len(PopTop(c, k).vstack) = Len(c.vstack)
<1>1. IsCode(c) /\ Leaves(c.insts, in, n + k, c.max) BY DEF Behind
<1>2. PICK d, j : PopsThen(c, k, d, j, in, n, c.max) BY <1>1, PopsLeft
<1> DEFINE pops == [i \in 1..j |-> [op |-> "pop_top", idx |-> 0]]
<1>3. /\ IsCode(d) /\ d.vstack = c.vstack /\ d.max = c.max /\ j \in Nat
      /\ Leaves(d.insts, in, n + j, c.max)
  BY <1>2 DEF PopsThen
<1>4. IsList(pops) /\ Leaves(d.insts \o pops, in, n, c.max) BY <1>3, LeavesPops
<1>5. PopTop(c, k) = Emit(d, pops) BY <1>2 DEF PopsThen
<1> HIDE DEF pops
<1>6. Emits(d, Emit(d, pops), pops) BY <1>3, <1>4, Emitted
<1> QED BY <1>3, <1>4, <1>5, <1>6 DEF Behind, Emits

(* An instruction, and what the picture has to say of it                     *)
LEMMA EmitsOne ==
    ASSUME NEW c, NEW in, NEW n, Behind(c, in, n), NEW inst, NEW to \in Nat, to <= c.max,
           Moves(inst, n, to), Ordinary(inst)
    PROVE  Behind(Emit(c, <<inst>>), in, to) /\ Emit(c, <<inst>>).vstack = c.vstack
<1>1. IsCode(c) /\ Leaves(c.insts, in, n, c.max) BY DEF Behind
<1>2. IsList(<<inst>>) BY OneList
<1>3. Emits(c, Emit(c, <<inst>>), <<inst>>) BY <1>1, <1>2, Emitted
<1>4. Leaves(c.insts \o <<inst>>, in, to, c.max) BY <1>1, LeavesMore
<1> QED BY <1>3, <1>4 DEF Behind, Emits

-----------------------------------------------------------------------------
(* What the builtins of the libraries give                                   *)

Gives(r, n) == ~r.panics => IsList(r.values) /\ Len(r.values) = n

LEMMA GivesOne == ASSUME NEW v PROVE Gives(Returns(<<v>>), 1)
<1>1. IsList(<<v>>) /\ Len(<<v>>) = 1 BY OneList
<1>2. Returns(<<v>>).values = <<v>> BY DEF Returns
<1> QED BY <1>1, <1>2 DEF Gives

LEMMA GivesTwo == ASSUME NEW v, NEW w PROVE Gives(Returns(<<v, w>>), 2)
<1>1. <<v, w>> \in Seq({v, w}) /\ Len(<<v, w>>) = 2 OBVIOUS
<1>2. IsList(<<v, w>>) BY <1>1 DEF IsList
<1>3. Returns(<<v, w>>).values = <<v, w>> BY DEF Returns
<1> QED BY <1>1, <1>2, <1>3 DEF Gives

LEMMA GivesNothing == ASSUME NEW n PROVE Gives(Panics, n)
BY DEF Gives, Panics

LEMMA OverflowGives ==
    ASSUME NEW overflow \in Overflows, NEW exact, NEW overflowed, NEW saturated
    PROVE  Gives(OnOverflow(overflow, exact, overflowed, saturated), Results(overflow))
<1>1. CASE overflow = "flag"
  <2>1. OnOverflow(overflow, exact, overflowed, saturated) = Returns(<<Flag(overflowed), AsUint(exact)>>)
    BY <1>1 DEF OnOverflow
  <2> QED BY <1>1, <2>1, GivesTwo DEF Results
<1>2. CASE overflow = "wrap"
  <2>1. OnOverflow(overflow, exact, overflowed, saturated) = Returns(<<AsUint(exact)>>)
    BY <1>2 DEF OnOverflow
  <2> QED BY <1>2, <2>1, GivesOne DEF Results
<1>3. CASE overflow = "sat"
  <2>1. OnOverflow(overflow, exact, overflowed, saturated)
          = Returns(<<AsUint(IF overflowed THEN saturated ELSE exact)>>)
    BY <1>3 DEF OnOverflow
  <2> QED BY <1>3, <2>1, GivesOne DEF Results
<1>4. CASE overflow = "panic"
  <2>1. OnOverflow(overflow, exact, overflowed, saturated)
          = IF overflowed THEN Panics ELSE Returns(<<AsUint(exact)>>)
    BY <1>4 DEF OnOverflow
  <2>2. Results(overflow) = 1 BY <1>4 DEF Results
  <2> QED BY <2>1, <2>2, GivesOne, GivesNothing
<1> QED BY <1>1, <1>2, <1>3, <1>4 DEF Overflows

LEMMA BinaryGives ==
    ASSUME NEW b, NEW x, b.name \in Binary, b.variant \in Overflows
    PROVE  Gives(CallLibrary(b, x), Results(b.variant))
<1>1. CASE b.name = "sadd" BY <1>1, OverflowGives DEF CallLibrary, sadd, Signed
<1>2. CASE b.name = "ssub" BY <1>2, OverflowGives DEF CallLibrary, ssub, Signed
<1>3. CASE b.name = "smul" BY <1>3, OverflowGives DEF CallLibrary, smul, Signed
<1>4. CASE b.name = "uadd" BY <1>4, OverflowGives DEF CallLibrary, uadd, Unsigned
<1>5. CASE b.name = "usub" BY <1>5, OverflowGives DEF CallLibrary, usub, Unsigned
<1>6. CASE b.name = "umul" BY <1>6, OverflowGives DEF CallLibrary, umul, Unsigned
<1>7. CASE b.name = "sdiv"
  <2>1. CallLibrary(b, x) = sdiv(b.variant, x) BY <1>7 DEF CallLibrary
  <2> QED BY <2>1, OverflowGives, GivesNothing DEF sdiv
<1> QED BY <1>1, <1>2, <1>3, <1>4, <1>5, <1>6, <1>7 DEF Binary

LEMMA ConversionGives ==
    ASSUME NEW b, NEW x, b.name \in Conversions, b.variant \in Overflows
    PROVE  Gives(CallLibrary(b, x), Results(b.variant))
<1>1. CASE b.name = "stou" BY <1>1, OverflowGives DEF CallLibrary, stou
<1>2. CASE b.name = "utos" BY <1>2, OverflowGives DEF CallLibrary, utos
<1>3. CASE b.name = "sabs" BY <1>3, OverflowGives DEF CallLibrary, sabs
<1> QED BY <1>1, <1>2, <1>3 DEF Conversions

LEMMA PlainGives == ASSUME NEW b, NEW x, b.name \in Plain PROVE Gives(CallLibrary(b, x), 1)
<1>1. CASE b.name = "udiv" BY <1>1, GivesOne, GivesNothing DEF CallLibrary, udiv
<1>2. CASE b.name = "srem" BY <1>2, GivesOne, GivesNothing DEF CallLibrary, srem
<1>3. CASE b.name = "urem" BY <1>3, GivesOne, GivesNothing DEF CallLibrary, urem
<1>4. CASE b.name = "scmp" BY <1>4, GivesOne DEF CallLibrary, scmp
<1>5. CASE b.name = "ucmp" BY <1>5, GivesOne DEF CallLibrary, ucmp
<1>6. CASE b.name = "and" BY <1>6, GivesOne DEF CallLibrary, bits_and
<1>7. CASE b.name = "or" BY <1>7, GivesOne DEF CallLibrary, bits_or
<1>8. CASE b.name = "xor" BY <1>8, GivesOne DEF CallLibrary, bits_xor
<1>9. CASE b.name = "shl" BY <1>9, GivesOne, GivesNothing DEF CallLibrary, shl
<1>10. CASE b.name = "ushr" BY <1>10, GivesOne, GivesNothing DEF CallLibrary, ushr
<1>11. CASE b.name = "sshr" BY <1>11, GivesOne, GivesNothing DEF CallLibrary, sshr
<1> QED BY <1>1, <1>2, <1>3, <1>4, <1>5, <1>6, <1>7, <1>8, <1>9, <1>10, <1>11 DEF Plain

LEMMA FlagsGive == ASSUME NEW b, NEW x, b.name \in Fits \cup {"word_overflow"} PROVE Gives(CallLibrary(b, x), 2)
<1>1. CASE b.name = "s_overflow" BY <1>1, GivesTwo DEF CallLibrary, s_overflow
<1>2. CASE b.name = "u_overflow" BY <1>2, GivesTwo DEF CallLibrary, u_overflow
<1>3. CASE b.name = "word_overflow" BY <1>3, GivesTwo DEF CallLibrary, word_overflow
<1> QED BY <1>1, <1>2, <1>3 DEF Fits

(* A builtin of the libraries gives as many values as its signature says.    *)
LEMMA LibraryGives ==
    ASSUME NEW b \in Library, NEW x
    PROVE  /\ Gives(CallLibrary(b, x), b.out)
           /\ b.in \in Nat /\ b.out \in Nat
           /\ b.always_panic = FALSE
<1>1. CASE \E name \in Binary, v \in Overflows :
             b = Builtin(name, v, 0, 2, Results(v), v # "panic" /\ name # "sdiv")
  <2>1. PICK name \in Binary, v \in Overflows :
          b = Builtin(name, v, 0, 2, Results(v), v # "panic" /\ name # "sdiv")
    BY <1>1
  <2>2. b.name = name /\ b.variant = v /\ b.in = 2 /\ b.out = Results(v) /\ b.always_panic = FALSE
    BY <2>1 DEF Builtin
  <2>3. Results(v) \in Nat BY DEF Results
  <2> QED BY <2>2, <2>3, BinaryGives
<1>2. CASE \E name \in Conversions, v \in Overflows : b = Builtin(name, v, 0, 1, Results(v), v # "panic")
  <2>1. PICK name \in Conversions, v \in Overflows : b = Builtin(name, v, 0, 1, Results(v), v # "panic")
    BY <1>2
  <2>2. b.name = name /\ b.variant = v /\ b.in = 1 /\ b.out = Results(v) /\ b.always_panic = FALSE
    BY <2>1 DEF Builtin
  <2>3. Results(v) \in Nat BY DEF Results
  <2> QED BY <2>2, <2>3, ConversionGives
<1>3. CASE \E name \in Plain : b = Builtin(name, "", 0, 2, 1, name \notin CanPanic)
  <2>1. PICK name \in Plain : b = Builtin(name, "", 0, 2, 1, name \notin CanPanic) BY <1>3
  <2>2. b.name = name /\ b.in = 2 /\ b.out = 1 /\ b.always_panic = FALSE BY <2>1 DEF Builtin
  <2> QED BY <2>2, PlainGives
<1>4. CASE \E name \in Fits, n \in Narrow : b = Builtin(name, "", n, 1, 2, TRUE)
  <2>1. PICK name \in Fits, n \in Narrow : b = Builtin(name, "", n, 1, 2, TRUE) BY <1>4
  <2>2. b.name = name /\ b.in = 1 /\ b.out = 2 /\ b.always_panic = FALSE BY <2>1 DEF Builtin
  <2> QED BY <2>2, FlagsGive
<1>5. CASE b = Builtin("uabs", "", 0, 1, 1, TRUE)
  <2>1. b.name = "uabs" /\ b.in = 1 /\ b.out = 1 /\ b.always_panic = FALSE BY <1>5 DEF Builtin
  <2>2. CallLibrary(b, x) = uabs(x) BY <2>1 DEF CallLibrary
  <2> QED BY <2>1, <2>2, GivesOne DEF uabs
<1>6. CASE b = Builtin("word_overflow", "", 0, 1, 2, TRUE)
  <2>1. b.name = "word_overflow" /\ b.in = 1 /\ b.out = 2 /\ b.always_panic = FALSE BY <1>6 DEF Builtin
  <2>2. b.name \in Fits \cup {"word_overflow"} BY <2>1
  <2> QED BY <2>1, <2>2, FlagsGive
<1> DEFINE L1 == {Builtin(f[1], f[2], 0, 2, Results(f[2]), f[2] # "panic" /\ f[1] # "sdiv") : f \in Binary \X Overflows}
           L2 == {Builtin(f[1], f[2], 0, 1, Results(f[2]), f[2] # "panic") : f \in Conversions \X Overflows}
           L3 == {Builtin(name, "", 0, 2, 1, name \notin CanPanic) : name \in Plain}
           L4 == {Builtin(f[1], "", f[2], 1, 2, TRUE) : f \in Fits \X Narrow}
           L5 == {Builtin("uabs", "", 0, 1, 1, TRUE), Builtin("word_overflow", "", 0, 1, 2, TRUE)}
<1>7. Library = L1 \cup L2 \cup L3 \cup L4 \cup L5 BY Zenon DEF Library
<1>a. CASE b \in L1 BY <1>1, <1>a, Zenon
<1>b. CASE b \in L2 BY <1>2, <1>b, Zenon
<1>c. CASE b \in L3 BY <1>3, <1>c, Zenon
<1>d. CASE b \in L4 BY <1>4, <1>d, Zenon
<1>e. CASE b \in L5 BY <1>5, <1>6, <1>e
<1> HIDE DEF L1, L2, L3, L4, L5
<1> QED BY <1>7, <1>a, <1>b, <1>c, <1>d, <1>e

(* The operations on the picture keep its fields, whatever the code is.      *)

Turned(p, vstack) ==
    /\ IsCode(p.code)
    /\ p.code.vstack = vstack
    /\ p.count \in Nat

LEMMA TurnedIs ==
    ASSUME NEW d, IsCode(d), NEW k \in Nat
    PROVE  Turned([code |-> d, count |-> k], d.vstack)
BY DEF Turned

LEMMA TakeBackIsCode ==
    ASSUME NEW p, NEW vstack, Turned(p, vstack)
    PROVE  Turned(TakeBack(p), vstack)
<1> DEFINE c      == p.code
           op     == IF c.insts = <<>> THEN "call" ELSE Last(c.insts).op
           before == Shorter(c, op)
<1>1. IsCode(c) /\ c.vstack = vstack /\ p.count \in Nat BY DEF Turned
<1>2. CASE p.count = 0 \/ op \notin MakesOne \cup ChangesOne \cup {"array_element"}
  <2>1. TakeBack(p) = p BY <1>2 DEF TakeBack
  <2> QED BY <2>1
<1>3. CASE ~(p.count = 0 \/ op \notin MakesOne \cup ChangesOne \cup {"array_element"})
  <2>1. Len(c.insts) # 0
    <3>1. c.insts # <<>> BY <1>3 DEF MakesOne, ChangesOne
    <3> QED BY <1>1, <3>1, CodeFields, NotEmpty
  <2>2. \/ TakeBack(p) = [code |-> before, count |-> p.count - 1]
        \/ TakeBack(p) = [code |-> before, count |-> p.count]
        \/ TakeBack(p) = [code |-> before, count |-> p.count + 1]
    BY <1>3 DEF TakeBack, Shorter
  <2> HIDE DEF op
  <2>3. IsCode(before) /\ before.vstack = vstack BY <1>1, <2>1, FrontCode
  <2> HIDE DEF before
  <2>4. p.count - 1 \in Nat /\ p.count + 1 \in Nat BY <1>1, <1>3
  <2> QED BY <1>1, <2>2, <2>3, <2>4, TurnedIs
<1> QED BY <1>2, <1>3

LEMMA PopsList ==
    ASSUME NEW k \in Nat
    PROVE  IsList([i \in 1..k |-> [op |-> "pop_top", idx |-> 0]])
<1> DEFINE u == [op |-> "pop_top", idx |-> 0]
<1> HIDE DEF u
<1>1. [i \in 1..k |-> u] \in Seq({u}) OBVIOUS
<1>2. IsList([i \in 1..k |-> u]) BY <1>1 DEF IsList
<1> QED BY <1>2 DEF u

LEMMA EmitIsCode ==
    ASSUME NEW c, IsCode(c), NEW insts, IsList(insts)
    PROVE  IsCode(Emit(c, insts)) /\ Emit(c, insts).vstack = c.vstack
BY Emitted DEF Emits

LEMMA EmitOneIsCode ==
    ASSUME NEW c, IsCode(c), NEW inst
    PROVE  IsCode(Emit(c, <<inst>>)) /\ Emit(c, <<inst>>).vstack = c.vstack
BY OneList, EmitIsCode

LEMMA PopTopIsCode ==
    ASSUME NEW c, IsCode(c), NEW count \in Nat
    PROVE  IsCode(PopTop(c, count)) /\ PopTop(c, count).vstack = c.vstack
<1> DEFINE a == [code |-> c, count |-> count]
           L == Len(c.insts)
           f == CHOOSE f : f = [k \in 0..L |-> IF k = 0 THEN a ELSE TakeBack(f[k - 1])]
<1>1. L \in Nat BY CodeFields
<1>2. f = [k \in 0..L |-> IF k = 0 THEN a ELSE TakeBack(f[k - 1])]
  <2> HIDE DEF a, L
  <2> QED BY <1>1, TurnsExist
<1>3. PopTop(c, count) = Emit(f[L].code, [i \in 1..f[L].count |-> [op |-> "pop_top", idx |-> 0]])
  BY DEF PopTop
<1> HIDE DEF f
<1> DEFINE S == {k \in Nat : k \in 0..L => Turned(f[k], c.vstack)}
<1>4. 0 \in S
  <2>1. Turned(a, c.vstack) BY TurnedIs
  <2>2. f[0] = a BY <1>1, <1>2
  <2> QED BY <2>1, <2>2
<1>5. ASSUME NEW k \in Nat, k \in S PROVE k + 1 \in S
  <2>1. CASE k + 1 \in 0..L
    <3>1. k \in 0..L /\ k + 1 # 0 /\ (k + 1) - 1 = k BY <1>1, <2>1
    <3>2. f[k + 1] = TakeBack(f[k]) BY <1>2, <2>1, <3>1
    <3>3. Turned(f[k], c.vstack) BY <1>5, <3>1
    <3> QED BY <3>2, <3>3, TakeBackIsCode
  <2>2. CASE k + 1 \notin 0..L BY <2>2
  <2> QED BY <2>1, <2>2
<1>6. \A k \in Nat : k \in S => k + 1 \in S BY <1>5
<1> HIDE DEF S
<1>7. L \in S BY <1>1, <1>4, <1>6, Induction
<1>8. Turned(f[L], c.vstack) BY <1>1, <1>7 DEF S
<1>9. IsList([i \in 1..f[L].count |-> [op |-> "pop_top", idx |-> 0]]) BY <1>8, PopsList DEF Turned
<1> QED BY <1>3, <1>8, <1>9, EmitIsCode DEF Turned

LEMMA PushValueIsCode ==
    ASSUME NEW c, IsCode(c), NEW v
    PROVE  IsCode(PushValue(c, v)) /\ Len(PushValue(c, v).vstack) = Len(c.vstack) + 1
BY PushedValue DEF Pushes

LEMMA PushOutputIsCode ==
    ASSUME NEW c, IsCode(c), NEW n \in Nat
    PROVE  IsCode(PushOutput(c, n)) /\ Len(PushOutput(c, n).vstack) = Len(c.vstack) + n
BY PushedOutput DEF Pushes

LEMMA PopValuesIsCode ==
    ASSUME NEW c, IsCode(c), NEW n \in Nat, Has(c, n)
    PROVE  IsCode(PopValues(c, n)) /\ Len(PopValues(c, n).vstack) = Len(c.vstack) - n
BY PoppedValues DEF Pops, Has

LEMMA RollValueIsCode ==
    ASSUME NEW c, IsCode(c), NEW n \in Nat, Has(c, n + 1)
    PROVE  IsCode(RollValue(c, n)) /\ Len(RollValue(c, n).vstack) = Len(c.vstack)
<1>1. Pops(c, RollValue(c, n), 0) BY RolledValue DEF Has
<1> QED BY <1>1, CodeFields DEF Pops

LEMMA PushWordList == ASSUME NEW w PROVE IsList(PushWord(w))
<1> DEFINE a == WithValue("push", Low(w, ImmBits))
           b == WithValue("push2", Low(High(w, ImmBits), ImmBits))
           d == WithValue("push3", High(w, 2 * ImmBits))
           e == WithValue("pushn", 2 ^ ImmBits - 1 - Low(w, ImmBits))
<1>1. IsList(a) /\ IsList(b) /\ IsList(d) /\ IsList(e) BY OneList DEF WithValue
<1>2. PushWord(w) \in {a, a \o b, e, (a \o <<>>) \o d, (a \o b) \o d} BY DEF PushWord
<1> HIDE DEF a, b, d, e
<1>3. IsList(a \o b) BY <1>1, Joined
<1>4. IsList(a \o <<>>) BY <1>1, EmptyList, Joined
<1>5. IsList((a \o b) \o d) BY <1>1, <1>3, Joined
<1>6. IsList((a \o <<>>) \o d) BY <1>1, <1>4, Joined
<1> QED BY <1>1, <1>2, <1>3, <1>5, <1>6

LEMMA InstUintIsCode ==
    ASSUME NEW c, IsCode(c), NEW w
    PROVE  IsCode(InstUint(c, w)) /\ Len(InstUint(c, w).vstack) = Len(c.vstack) + 1
<1>1. IsCode(Emit(c, PushWord(w))) /\ Emit(c, PushWord(w)).vstack = c.vstack BY PushWordList, EmitIsCode
<1> QED BY <1>1, PushValueIsCode DEF InstUint, PushConstant

PushesTo(f, a, v, n) == f = [k \in 0..n |-> IF k = 0 THEN a ELSE InstUint(f[k - 1], v[n - k + 1])]

LEMMA PushesExist ==
    ASSUME NEW a, NEW v, NEW n \in Nat
    PROVE  \E f : PushesTo(f, a, v, n)
<1> DEFINE F(m) == \E f : f = [k \in 0..m |-> IF k = 0 THEN a ELSE InstUint(f[k - 1], v[n - k + 1])]
           S == {m \in Nat : F(m)}
<1>1. 0 \in S
  <2> DEFINE e == [k \in 0..0 |-> a]
  <2>1. ASSUME NEW k \in 0..0 PROVE e[k] = IF k = 0 THEN a ELSE InstUint(e[k - 1], v[n - k + 1]) OBVIOUS
  <2>2. e = [k \in 0..0 |-> e[k]] OBVIOUS
  <2> HIDE DEF e
  <2>3. e = [k \in 0..0 |-> IF k = 0 THEN a ELSE InstUint(e[k - 1], v[n - k + 1])] BY <2>1, <2>2
  <2> QED BY <2>3
<1>2. ASSUME NEW m \in Nat, m \in S PROVE m + 1 \in S
  <2>1. PICK f : f = [k \in 0..m |-> IF k = 0 THEN a ELSE InstUint(f[k - 1], v[n - k + 1])] BY <1>2
  <2> DEFINE g == [k \in 0..m + 1 |-> IF k = m + 1 THEN InstUint(f[m], v[n - (m + 1) + 1]) ELSE f[k]]
  <2>2. ASSUME NEW k \in 0..m + 1 PROVE g[k] = IF k = 0 THEN a ELSE InstUint(g[k - 1], v[n - k + 1])
    <3>1. CASE k = m + 1
      <4>1. k # 0 /\ k - 1 = m /\ m \in 0..m + 1 /\ m # m + 1 BY <3>1
      <4>2. g[m] = f[m] BY <4>1
      <4>3. g[k] = InstUint(f[m], v[n - (m + 1) + 1]) BY <3>1
      <4> HIDE DEF g
      <4> QED BY <4>1, <4>2, <4>3
    <3>2. CASE k # m + 1
      <4>1. k \in 0..m BY <3>2
      <4>2. f[k] = IF k = 0 THEN a ELSE InstUint(f[k - 1], v[n - k + 1]) BY <2>1, <4>1
      <4>3. g[k] = f[k] BY <3>2, <4>1
      <4>4. k # 0 => k - 1 \in 0..m + 1 /\ k - 1 # m + 1 BY <4>1
      <4>5. k # 0 => g[k - 1] = f[k - 1] BY <4>4
      <4> HIDE DEF g
      <4> QED BY <4>2, <4>3, <4>5
    <3> QED BY <3>1, <3>2
  <2>3. g = [k \in 0..m + 1 |-> g[k]] OBVIOUS
  <2> HIDE DEF g
  <2>4. g = [k \in 0..m + 1 |-> IF k = 0 THEN a ELSE InstUint(g[k - 1], v[n - k + 1])] BY <2>2, <2>3
  <2>5. F(m + 1) BY <2>4
  <2> HIDE DEF F
  <2>6. m + 1 \in Nat OBVIOUS
  <2> QED BY <2>5, <2>6
<1>3. \A m \in Nat : m \in S => m + 1 \in S BY <1>2
<1> HIDE DEF S
<1>4. n \in S BY <1>1, <1>3, Induction
<1>5. F(n) BY <1>4 DEF S
<1> QED BY <1>5 DEF PushesTo

(* What a builtin must be for the builder to know its results.               *)
Known(b) == b.in \in Nat /\ b.out \in Nat /\ (b.fold => b \in Library)

LEMMA LegalIsKnown == ASSUME NEW b, LegalBuiltin(b) PROVE Known(b)
BY Zenon DEF LegalBuiltin, Known

LEMMA AccessorIsKnown == ASSUME NEW name, NEW in \in Nat, NEW out \in Nat PROVE Known(Accessor(name, in, out))
<1>1. Accessor(name, in, out).in = in /\ Accessor(name, in, out).out = out /\ ~Accessor(name, in, out).fold
  BY DEF Accessor
<1> QED BY <1>1, Zenon DEF Known

Folds(c, b) ==
    /\ b.no_process /\ b.fold /\ \A i \in 1..b.in : IsConstant(SubSeq(c.vstack, 1, b.in)[i])
    /\ ~CallLibrary(b, [i \in 1..b.in |-> SubSeq(c.vstack, 1, b.in)[i].word]).panics

(* The values that a builtin gives are pushed one after the other.           *)
FoldsTo(c, b, f, values) ==
    LET count == Len(values)
    IN  /\ f = [k \in 0..count |->
                   IF k = 0 THEN PopTop(PopValues(c, b.in), b.in) ELSE InstUint(f[k - 1], values[count - k + 1])]
        /\ InstCallBuiltin(c, b) = f[count]

LEMMA Folded ==
    ASSUME NEW c, NEW b, Known(b), Folds(c, b)
    PROVE  \E f, values : IsList(values) /\ Len(values) = b.out /\ FoldsTo(c, b, f, values)
<1> DEFINE result == CallLibrary(b, [i \in 1..b.in |-> SubSeq(c.vstack, 1, b.in)[i].word])
           v == result.values
           n == Len(v)
           a == PopTop(PopValues(c, b.in), b.in)
           f == CHOOSE f : f = [k \in 0..n |-> IF k = 0 THEN a ELSE InstUint(f[k - 1], v[n - k + 1])]
<1>1. b \in Library BY Zenon DEF Folds, Known
<1>2. ~result.panics BY Zenon DEF Folds
<1>3. InstCallBuiltin(c, b) = f[n] BY Zenon DEF InstCallBuiltin, Folds
<1>4. Gives(result, b.out) /\ b.out \in Nat BY <1>1, LibraryGives
<1> HIDE DEF result
<1>5. IsList(v) /\ n = b.out BY <1>2, <1>4 DEF Gives
<1>6. n \in Nat BY <1>4, <1>5
<1> HIDE DEF n, v, a
<1>7. f = [k \in 0..n |-> IF k = 0 THEN a ELSE InstUint(f[k - 1], v[n - k + 1])]
  <2>1. \E g : PushesTo(g, a, v, n) BY <1>6, PushesExist
  <2>2. PushesTo(CHOOSE g : PushesTo(g, a, v, n), a, v, n) BY <2>1, Zenon
  <2> QED BY <2>2, Zenon DEF PushesTo
<1> HIDE DEF f
<1>8. FoldsTo(c, b, f, v) BY <1>3, <1>7 DEF FoldsTo, n, a
<1> QED BY <1>5, <1>8 DEF n

LEMMA NotFolded ==
    ASSUME NEW c, NEW b, ~Folds(c, b)
    PROVE  InstCallBuiltin(c, b) = AddCallBuiltin(PopValues(c, b.in), b)
BY Zenon DEF InstCallBuiltin, Folds

LEMMA AddCallBuiltinIsCode ==
    ASSUME NEW c, IsCode(c), NEW b, b.out \in Nat
    PROVE  IsCode(AddCallBuiltin(c, b))
<1> DEFINE op == IF b.no_process /\ b.no_panic THEN "call_builtin_no_regs" ELSE "call_builtin"
           d == Emit(c, <<[op |-> op, callee |-> b]>> \o WithSig("call_builtin_sig", b.in, b.out))
<1>1. IsList(<<[op |-> op, callee |-> b]>>) /\ IsList(WithSig("call_builtin_sig", b.in, b.out))
  BY OneList DEF WithSig
<1>2. AddCallBuiltin(c, b) = PushOutput(d, b.out) BY Zenon DEF AddCallBuiltin
<1>3. IsCode(d) BY <1>1, Joined, EmitIsCode
<1> HIDE DEF d
<1> QED BY <1>2, <1>3, PushOutputIsCode

LEMMA InstCallBuiltinIsCode ==
    ASSUME NEW c, IsCode(c), NEW b, Known(b), Has(c, b.in)
    PROVE  IsCode(InstCallBuiltin(c, b))
<1>1. b.in \in Nat /\ b.out \in Nat BY Zenon DEF Known
<1>2. IsCode(PopValues(c, b.in)) BY <1>1, PopValuesIsCode
<1>3. CASE ~Folds(c, b) BY <1>1, <1>2, <1>3, NotFolded, AddCallBuiltinIsCode
<1>4. CASE Folds(c, b)
  <2>1. PICK f, v : IsList(v) /\ Len(v) = b.out /\ FoldsTo(c, b, f, v) BY <1>4, Folded
  <2> DEFINE n == Len(v)
             a == PopTop(PopValues(c, b.in), b.in)
             S == {k \in Nat : k \in 0..n => IsCode(f[k])}
  <2>2. f = [k \in 0..n |-> IF k = 0 THEN a ELSE InstUint(f[k - 1], v[n - k + 1])] /\ InstCallBuiltin(c, b) = f[n]
    BY <2>1 DEF FoldsTo
  <2>3. IsCode(a) BY <1>1, <1>2, PopTopIsCode
  <2>4. n \in Nat BY <1>1, <2>1
  <2> HIDE DEF a, n
  <2>5. 0 \in S BY <2>2, <2>3, <2>4
  <2>6. ASSUME NEW k \in Nat, k \in S PROVE k + 1 \in S
    <3>1. CASE k + 1 \in 0..n
      <4>1. k \in 0..n /\ k + 1 # 0 /\ (k + 1) - 1 = k BY <2>4, <3>1
      <4>2. f[k + 1] = InstUint(f[k], v[n - (k + 1) + 1]) BY <2>2, <3>1, <4>1
      <4>3. IsCode(f[k]) BY <2>6, <4>1
      <4> QED BY <4>2, <4>3, InstUintIsCode
    <3> QED BY <3>1
  <2> HIDE DEF S
  <2>7. n \in S BY <2>4, <2>5, <2>6, Induction
  <2>8. IsCode(f[n]) BY <2>4, <2>7 DEF S
  <2> QED BY <2>2, <2>8
<1> QED BY <1>3, <1>4

LEMMA InstLayoutIsCode == ASSUME NEW c, IsCode(c), NEW l PROVE IsCode(InstLayout(c, l))
BY InstUintIsCode DEF InstLayout

LEMMA InstAddrIsCode ==
    ASSUME NEW c, IsCode(c), NEW g
    PROVE  IsCode(InstNull(c)) /\ IsCode(InstGlobalAddr(c, g)) /\ IsCode(InstFunctionAddr(c, g))
BY EmitOneIsCode, PushValueIsCode DEF InstNull, InstGlobalAddr, InstFunctionAddr, PushConstant, WithValue

LEMMA WithMoreAddrs ==
    ASSUME NEW c, IsCode(c)
    PROVE  /\ IsCode([c EXCEPT !.localAddrs = @ + 1])
           /\ [c EXCEPT !.localAddrs = @ + 1].insts = c.insts
           /\ [c EXCEPT !.localAddrs = @ + 1].vstack = c.vstack
           /\ [c EXCEPT !.localAddrs = @ + 1].max = c.max
<1>1. PICK insts, vstack, max, addrs :
        /\ c = [insts |-> insts, vstack |-> vstack, max |-> max, localAddrs |-> addrs]
        /\ IsList(insts) /\ IsList(vstack) /\ max \in Nat
  BY DEF IsCode
<1> DEFINE d == [insts |-> insts, vstack |-> vstack, max |-> max, localAddrs |-> addrs + 1]
<1>2. [c EXCEPT !.localAddrs = @ + 1] = d BY <1>1
<1>3. IsCode(d) BY <1>1, CodeIs
<1> QED BY <1>1, <1>2, <1>3

LEMMA InstLocalAddrIsCode == ASSUME NEW c, IsCode(c), NEW l PROVE IsCode(InstLocalAddr(c, l))
BY EmitOneIsCode, WithMoreAddrs, PushValueIsCode DEF InstLocalAddr, WithLocal

LEMMA InstCcIsCode == ASSUME NEW c, IsCode(c), Has(c, 1), NEW cc PROVE IsCode(InstCc(c, cc))
<1> DEFINE popped == PopValues(c, 1)
           value == Flag(Holds(cc, AsSint(Top(c).word)))
<1>1. \/ InstCc(c, cc) = PushConstant(Emit(PopTop(popped, 1), WithValue("push", value)), value)
      \/ InstCc(c, cc) = PushOutput(Emit(popped, <<[op |-> "cc", cc |-> cc]>>), 1)
  BY DEF InstCc
<1>2. IsCode(popped) BY PopValuesIsCode
<1> HIDE DEF popped, value
<1> QED BY <1>1, <1>2, PopTopIsCode, EmitOneIsCode, PushValueIsCode, PushOutputIsCode DEF PushConstant, WithValue

LEMMA InstPopIsCode == ASSUME NEW c, IsCode(c), NEW i \in Nat, Has(c, i + 1) PROVE IsCode(InstPop(c, i))
<1> DEFINE d == IF i = 0 THEN PopTop(c, 1) ELSE Emit(c, WithIdx("pop", i))
<1>1. InstPop(c, i) = PopValues(RollValue(d, i), 1) BY DEF InstPop
<1>2. IsCode(d) /\ d.vstack = c.vstack BY PopTopIsCode, EmitOneIsCode DEF WithIdx
<1> HIDE DEF d
<1>3. Has(d, i + 1) BY <1>2 DEF Has
<1>4. IsCode(RollValue(d, i)) /\ Len(RollValue(d, i).vstack) = Len(c.vstack) BY <1>2, <1>3, RollValueIsCode
<1>5. Has(RollValue(d, i), 1) BY <1>4, CodeFields DEF Has
<1> QED BY <1>1, <1>4, <1>5, PopValuesIsCode

LEMMA InstPickIsCode == ASSUME NEW c, IsCode(c), NEW i PROVE IsCode(InstPick(c, i))
BY EmitOneIsCode, PushValueIsCode DEF InstPick, WithIdx

LEMMA InstRollIsCode == ASSUME NEW c, IsCode(c), NEW i \in Nat, Has(c, i + 1) PROVE IsCode(InstRoll(c, i))
<1> DEFINE d == IF i = 0 THEN c ELSE Emit(c, WithIdx(IF i = 1 THEN "swap" ELSE "roll", i))
<1>1. InstRoll(c, i) = RollValue(d, i) BY DEF InstRoll
<1>2. IsCode(d) /\ d.vstack = c.vstack BY EmitOneIsCode DEF WithIdx
<1> HIDE DEF d
<1> QED BY <1>1, <1>2, RollValueIsCode DEF Has

LEMMA InstSelectIsCode ==
    ASSUME NEW c, IsCode(c), NEW n \in Nat, Has(c, n + 1)
    PROVE  IsCode(InstSelect(c, n))
BY PopValuesIsCode, EmitOneIsCode, PushOutputIsCode DEF InstSelect, WithIdx

LEMMA InstCallIsCode ==
    ASSUME NEW c, IsCode(c), NEW f \in DOMAIN Functions, Has(c, Functions[f].in)
    PROVE  IsCode(InstCall(c, f))
BY MachineAssumption, PopValuesIsCode, EmitOneIsCode, PushOutputIsCode DEF InstCall, WithValue

LEMMA InstCallIndirectIsCode ==
    ASSUME NEW c, IsCode(c), NEW in \in Nat, NEW out \in Nat, Has(c, in + 1)
    PROVE  IsCode(InstCallIndirect(c, in, out))
<1> DEFINE popped == PopValues(c, in + 1)
           called == IF IsConstantFunction(Top(c), in, out)
                     THEN Emit(PopTop(popped, 1), WithValue("call", FunctionAddressOf(Top(c).word).index))
                     ELSE Emit(popped, WithSig("call_indirect", in, out))
<1>1. InstCallIndirect(c, in, out) = PushOutput(called, out) BY DEF InstCallIndirect
<1>2. IsCode(popped) BY PopValuesIsCode
<1> HIDE DEF popped
<1>3. IsCode(called) BY <1>2, PopTopIsCode, EmitOneIsCode DEF WithValue, WithSig
<1> HIDE DEF called
<1> QED BY <1>1, <1>3, PushOutputIsCode

LEMMA InstPanicIfIsCode == ASSUME NEW c, IsCode(c), Has(c, 2) PROVE IsCode(InstPanicIf(c))
BY PopValuesIsCode, EmitOneIsCode DEF InstPanicIf, None

LEMMA InstFiberIsCode ==
    ASSUME NEW c, IsCode(c), NEW in \in Nat, NEW out \in Nat
    PROVE  /\ Has(c, in + 1) => \A op : IsCode(InstFiberSwitch(c, op, in, out))
           /\ Has(c, in) => IsCode(InstFiberSuspend(c, in, out))
<1>1. Has(c, in + 1) => \A op : IsCode(InstFiberSwitch(c, op, in, out))
  BY PopValuesIsCode, EmitOneIsCode, PushOutputIsCode DEF InstFiberSwitch, WithSig
<1>2. Has(c, in) => IsCode(InstFiberSuspend(c, in, out))
  BY PopValuesIsCode, EmitOneIsCode, PushOutputIsCode DEF InstFiberSuspend, WithSig
<1> QED BY <1>1, <1>2

LEMMA InstArrayElementIsCode ==
    ASSUME NEW c, IsCode(c), Has(c, 2), NEW l
    PROVE  IsCode(InstArrayElement(c, l))
<1> DEFINE multiple == RoundUp(l.size, l.align)
           popped == PopValues(c, 2)
           offset == AsSint(Top(c).word) * multiple
<1>1. \/ InstArrayElement(c, l) = PushOutput(Emit(PopTop(popped, 1), WithValue("aggregate_member", offset)), 1)
      \/ InstArrayElement(c, l) = PushOutput(PopTop(popped, 1), 1)
      \/ InstArrayElement(c, l) = PushOutput(Emit(popped, WithValue("array_element", multiple)), 1)
  BY DEF InstArrayElement
<1>2. IsCode(popped) BY PopValuesIsCode
<1> HIDE DEF popped, offset, multiple
<1> QED BY <1>1, <1>2, PopTopIsCode, EmitOneIsCode, PushOutputIsCode DEF WithValue

LEMMA InstAggregateMemberIsCode ==
    ASSUME NEW c, IsCode(c), Has(c, 1), NEW members, NEW index
    PROVE  IsCode(InstAggregateMember(c, members, index))
<1> DEFINE offset == AggregateSize(SubSeq(members, 1, index)) - members[index].size
<1>1. \/ InstAggregateMember(c, members, index)
            = PushOutput(Emit(PopValues(c, 1), WithValue("aggregate_member", offset)), 1)
      \/ InstAggregateMember(c, members, index) = c
  BY DEF InstAggregateMember
<1> HIDE DEF offset
<1> QED BY <1>1, PopValuesIsCode, EmitOneIsCode, PushOutputIsCode DEF WithValue

LEMMA DerefIsCode ==
    ASSUME NEW c, IsCode(c), Has(c, 1), NEW inst
    PROVE  LET d == InstUint(PushOutput(Emit(PopValues(c, 1), <<inst>>), 1), 0)
           IN  IsCode(d) /\ Len(d.vstack) = Len(c.vstack) + 1
<1> DEFINE a == PopValues(c, 1)
           e == Emit(a, <<inst>>)
           f == PushOutput(e, 1)
<1>1. IsCode(a) /\ Len(a.vstack) = Len(c.vstack) - 1 BY PopValuesIsCode
<1>2. Len(c.vstack) \in Nat BY CodeFields
<1> HIDE DEF a
<1>3. IsCode(e) /\ e.vstack = a.vstack BY <1>1, EmitOneIsCode
<1> HIDE DEF e
<1>4. IsCode(f) /\ Len(f.vstack) = Len(c.vstack) BY <1>1, <1>2, <1>3, PushOutputIsCode
<1> HIDE DEF f
<1>5. IsCode(InstUint(f, 0)) /\ Len(InstUint(f, 0).vstack) = Len(c.vstack) + 1 BY <1>4, InstUintIsCode
<1> QED BY <1>5 DEF f, e, a

LEMMA InstLoadFieldIsCode == ASSUME NEW c, IsCode(c), Has(c, 1), NEW type PROVE IsCode(InstLoadField(c, type))
<1> DEFINE popped == PopValues(c, 1)
           l == locals[Top(c).word + 1]
           g == AddressOf(Top(c).word).allocation
           d == InstUint(PushOutput(Emit(popped, WithLayout("deref_const", type)), 1), 0)
           a == Accessor(type.load, 2, 1)
<1>1. \/ InstLoadField(c, type)
            = PushOutput(Emit(PopTop(popped, 1), WithLocal("load_local_value", l.index, l.offset)), 1)
      \/ InstLoadField(c, type) = PushOutput(Emit(PopTop(popped, 1), WithValue("load_global_value", g)), 1)
      \/ InstLoadField(c, type) = InstUint(PopTop(popped, 1), 0)
      \/ InstLoadField(c, type) = InstCallBuiltin(d, a)
  BY Zenon DEF InstLoadField
<1>2. IsCode(popped) BY PopValuesIsCode
<1>3. IsCode(d) /\ Len(d.vstack) = Len(c.vstack) + 1 BY DerefIsCode DEF WithLayout
<1>4. Known(a) BY AccessorIsKnown
<1>5. a.in = 2 BY DEF Accessor
<1> HIDE DEF popped, l, g, d, a
<1>6. Has(d, a.in) BY <1>3, <1>5, CodeFields DEF Has
<1>7. IsCode(InstCallBuiltin(d, a)) BY <1>3, <1>4, <1>6, InstCallBuiltinIsCode
<1>8. IsCode(PopTop(popped, 1)) BY <1>2, PopTopIsCode
<1>9. /\ IsCode(PushOutput(Emit(PopTop(popped, 1), WithLocal("load_local_value", l.index, l.offset)), 1))
      /\ IsCode(PushOutput(Emit(PopTop(popped, 1), WithValue("load_global_value", g)), 1))
  BY <1>8, EmitOneIsCode, PushOutputIsCode DEF WithValue, WithLocal
<1> QED BY <1>1, <1>7, <1>8, <1>9, InstUintIsCode

LEMMA InstStoreFieldIsCode == ASSUME NEW c, IsCode(c), Has(c, 2), NEW type PROVE IsCode(InstStoreField(c, type))
<1> DEFINE popped == PopValues(c, 1)
           l == locals[Top(c).word + 1]
           g == AddressOf(Top(c).word).allocation
           d == InstUint(PushOutput(Emit(popped, WithLayout("deref_mut", type)), 1), 0)
           a == Accessor(type.store, 3, 0)
<1>1. \/ InstStoreField(c, type)
            = PopValues(Emit(PopTop(popped, 1), WithLocal("store_local_value", l.index, l.offset)), 1)
      \/ InstStoreField(c, type) = PopValues(Emit(PopTop(popped, 1), WithValue("store_global_value", g)), 1)
      \/ InstStoreField(c, type) = PopTop(PopValues(popped, 1), 2)
      \/ InstStoreField(c, type) = InstCallBuiltin(d, a)
  BY Zenon DEF InstStoreField
<1>0. Has(c, 1) /\ Len(c.vstack) \in Nat BY CodeFields DEF Has
<1>2. IsCode(popped) /\ Len(popped.vstack) = Len(c.vstack) - 1 BY <1>0, PopValuesIsCode
<1>3. IsCode(d) /\ Len(d.vstack) = Len(c.vstack) + 1 BY <1>0, DerefIsCode DEF WithLayout
<1>4. Known(a) BY AccessorIsKnown
<1>5. a.in = 3 BY DEF Accessor
<1> HIDE DEF popped, l, g, d, a
<1>6. Has(d, a.in) BY <1>0, <1>3, <1>5 DEF Has
<1>7. IsCode(InstCallBuiltin(d, a)) BY <1>3, <1>4, <1>6, InstCallBuiltinIsCode
<1>8. IsCode(PopTop(popped, 1)) /\ PopTop(popped, 1).vstack = popped.vstack BY <1>2, PopTopIsCode
<1>9. ASSUME NEW inst PROVE IsCode(PopValues(Emit(PopTop(popped, 1), <<inst>>), 1))
  <2> DEFINE e == Emit(PopTop(popped, 1), <<inst>>)
  <2>1. IsCode(e) /\ e.vstack = popped.vstack BY <1>8, EmitOneIsCode
  <2> HIDE DEF e
  <2>2. Has(e, 1) BY <1>0, <1>2, <2>1 DEF Has
  <2> QED BY <2>1, <2>2, PopValuesIsCode DEF e
<1>10. Has(popped, 1) BY <1>0, <1>2 DEF Has
<1>11. IsCode(PopTop(PopValues(popped, 1), 2)) BY <1>2, <1>10, PopValuesIsCode, PopTopIsCode
<1>12. /\ IsCode(PopValues(Emit(PopTop(popped, 1), WithLocal("store_local_value", l.index, l.offset)), 1))
       /\ IsCode(PopValues(Emit(PopTop(popped, 1), WithValue("store_global_value", g)), 1))
  BY <1>9 DEF WithLocal, WithValue
<1> QED BY <1>1, <1>7, <1>11, <1>12

LEMMA ListChanged ==
    ASSUME NEW s, IsList(s), NEW i \in 1..Len(s), NEW v
    PROVE  /\ IsList([s EXCEPT ![i] = v])
           /\ Len([s EXCEPT ![i] = v]) = Len(s)
           /\ [s EXCEPT ![i] = v][i] = v
           /\ \A j \in 1..Len(s) : j # i => [s EXCEPT ![i] = v][j] = s[j]
<1>1. PICK S : s \in Seq(S) BY DEF IsList
<1> DEFINE t == [s EXCEPT ![i] = v]
<1>2. t \in Seq(S \cup {v}) /\ Len(t) = Len(s) BY <1>1
<1>3. DOMAIN s = 1..Len(s) BY ListFacts
<1>4. t[i] = v /\ \A j \in 1..Len(s) : j # i => t[j] = s[j] BY <1>3
<1> QED BY <1>2, <1>4 DEF IsList

(* A list with one element more                                              *)
LEMMA ListAppended ==
    ASSUME NEW s, IsList(s), NEW v
    PROVE  /\ IsList(Append(s, v))
           /\ Len(Append(s, v)) = Len(s) + 1
           /\ Append(s, v)[Len(s) + 1] = v
           /\ \A j \in 1..Len(s) : Append(s, v)[j] = s[j]
<1>1. PICK S : s \in Seq(S) BY DEF IsList
<1>2. s \in Seq(S \cup {v}) /\ v \in S \cup {v} BY <1>1
<1> DEFINE t == Append(s, v)
<1>3. /\ t \in Seq(S \cup {v}) /\ Len(t) = Len(s) + 1
      /\ t[Len(s) + 1] = v
      /\ \A j \in 1..Len(s) : t[j] = s[j]
  BY <1>2, AppendProperties
<1> QED BY <1>3 DEF IsList

LEMMA LastIs ==
    ASSUME NEW s, IsList(s), s # <<>>
    PROVE  Len(s) \in 1..Len(s) /\ Last(s) = s[Len(s)]
BY NotEmpty, ListFacts DEF Last

-----------------------------------------------------------------------------
(* A block, and the fields that its operations change                        *)

IsBlock(block) ==
    \E inputs, insts, vstack, max, term, next, debug, under, late :
        /\ block = [inputs |-> inputs, insts |-> insts, vstack |-> vstack, max |-> max, term |-> term,
                    next |-> next, debug |-> debug, under |-> under, late |-> late]
        /\ IsList(insts)
        /\ IsList(vstack)
        /\ max \in Nat

LEMMA BlockFields ==
    ASSUME NEW block, IsBlock(block)
    PROVE  /\ IsList(block.insts) /\ IsList(block.vstack) /\ block.max \in Nat
           /\ Len(block.insts) \in Nat /\ Len(block.vstack) \in Nat
BY ListFacts DEF IsBlock

Kept(block, c) == {k \in 1..Len(c.insts) : k <= Len(block.insts) /\ \A j \in 1..k : c.insts[j] = block.insts[j]}

Outdated(block, c) == block.debug # <<>> /\ Last(block.debug).inst_idx > Cardinality(Kept(block, c))

UnderOf(block, c) ==
    [k \in 1..Len(c.insts) |-> IF k \in Kept(block, c) THEN block.under[k] ELSE CurrentLocation(block)]

LEMMA WithCodeIs ==
    ASSUME NEW block, IsBlock(block), NEW c, IsCode(c)
    PROVE  /\ IsBlock(WithCode(block, c))
           /\ WithCode(block, c).inputs = block.inputs
           /\ WithCode(block, c).insts = c.insts
           /\ WithCode(block, c).vstack = c.vstack
           /\ WithCode(block, c).max = c.max
           /\ WithCode(block, c).term = block.term
           /\ WithCode(block, c).next = block.next
           /\ WithCode(block, c).debug = block.debug
           /\ WithCode(block, c).under = UnderOf(block, c)
           /\ ~WithCode(block, c).late => ~block.late /\ ~Outdated(block, c)
<1>1. PICK inputs, insts, vstack, max, term, next, debug, under, late :
        /\ block = [inputs |-> inputs, insts |-> insts, vstack |-> vstack, max |-> max, term |-> term,
                    next |-> next, debug |-> debug, under |-> under, late |-> late]
        /\ IsList(insts) /\ IsList(vstack) /\ max \in Nat
  BY DEF IsBlock
<1> DEFINE U == UnderOf(block, c)
           L == block.late \/ Outdated(block, c)
           b1 == [block EXCEPT !.insts = c.insts]
           b2 == [b1 EXCEPT !.vstack = c.vstack]
           b3 == [b2 EXCEPT !.max = c.max]
           b4 == [b3 EXCEPT !.under = U]
           b5 == [b4 EXCEPT !.late = L]
           r  == [inputs |-> inputs, insts |-> c.insts, vstack |-> c.vstack, max |-> c.max, term |-> term,
                  next |-> next, debug |-> debug, under |-> U, late |-> L]
<1>2. WithCode(block, c) = [block EXCEPT !.insts = c.insts, !.vstack = c.vstack, !.max = c.max,
                                         !.under = U, !.late = L]
  BY Zenon, <1>1 DEF WithCode, UnderOf, Outdated, Kept
<1> HIDE DEF U, L
<1>3. WithCode(block, c) = b5 BY <1>2
<1>4. b5 = r
  <2> HIDE DEF b1, b2, b3, b4
  <2>1. b1 = [inputs |-> inputs, insts |-> c.insts, vstack |-> vstack, max |-> max, term |-> term,
              next |-> next, debug |-> debug, under |-> under, late |-> late]
    BY <1>1 DEF b1
  <2>2. b2 = [inputs |-> inputs, insts |-> c.insts, vstack |-> c.vstack, max |-> max, term |-> term,
              next |-> next, debug |-> debug, under |-> under, late |-> late]
    BY <2>1 DEF b2
  <2>3. b3 = [inputs |-> inputs, insts |-> c.insts, vstack |-> c.vstack, max |-> c.max, term |-> term,
              next |-> next, debug |-> debug, under |-> under, late |-> late]
    BY <2>2 DEF b3
  <2>4. b4 = [inputs |-> inputs, insts |-> c.insts, vstack |-> c.vstack, max |-> c.max, term |-> term,
              next |-> next, debug |-> debug, under |-> U, late |-> late]
    BY <2>3 DEF b4
  <2> QED BY <2>4
<1>5. IsList(c.insts) /\ IsList(c.vstack) /\ c.max \in Nat BY CodeFields
<1>6. IsBlock(r) BY <1>5 DEF IsBlock
<1>7. /\ block.inputs = inputs /\ block.term = term /\ block.next = next /\ block.debug = debug
      /\ r.inputs = inputs /\ r.insts = c.insts /\ r.vstack = c.vstack /\ r.max = c.max
      /\ r.term = term /\ r.next = next /\ r.debug = debug /\ r.under = U /\ r.late = L
  BY <1>1
<1> HIDE DEF r, b5
<1>8. ~L => ~block.late /\ ~Outdated(block, c) BY Zenon DEF L
<1>9. ~r.late => ~L BY <1>7
<1> QED BY <1>3, <1>4, <1>6, <1>7, <1>8, <1>9 DEF U

(* A block that ended, one with another location, and one with other values  *)
EndedIs(b, block, term, next) ==
    /\ IsBlock(b)
    /\ b.inputs = block.inputs /\ b.insts = block.insts /\ b.vstack = block.vstack
    /\ b.max = block.max /\ b.term = term /\ b.next = next
    /\ b.debug = block.debug /\ b.under = block.under /\ (~b.late => ~block.late)

LEMMA BlockEnded ==
    ASSUME NEW block, IsBlock(block), NEW term, NEW next
    PROVE  EndedIs([block EXCEPT !.term = term, !.next = next], block, term, next)
<1>1. PICK inputs, insts, vstack, max, term0, next0, debug, under, late :
        /\ block = [inputs |-> inputs, insts |-> insts, vstack |-> vstack, max |-> max, term |-> term0,
                    next |-> next0, debug |-> debug, under |-> under, late |-> late]
        /\ IsList(insts) /\ IsList(vstack) /\ max \in Nat
  BY DEF IsBlock
<1> DEFINE b1 == [block EXCEPT !.term = term]
           b2 == [b1 EXCEPT !.next = next]
           r  == [inputs |-> inputs, insts |-> insts, vstack |-> vstack, max |-> max, term |-> term,
                  next |-> next, debug |-> debug, under |-> under, late |-> late]
<1>2. [block EXCEPT !.term = term, !.next = next] = b2 OBVIOUS
<1>3. b2 = r
  <2> HIDE DEF b1
  <2>1. b1 = [inputs |-> inputs, insts |-> insts, vstack |-> vstack, max |-> max, term |-> term,
              next |-> next0, debug |-> debug, under |-> under, late |-> late]
    BY <1>1 DEF b1
  <2> QED BY <2>1
<1>4. IsBlock(r) BY <1>1 DEF IsBlock
<1> HIDE DEF b2
<1>5. /\ r.inputs = block.inputs /\ r.insts = block.insts /\ r.vstack = block.vstack
      /\ r.max = block.max /\ r.term = term /\ r.next = next
      /\ r.debug = block.debug /\ r.under = block.under /\ r.late = block.late
  BY <1>1
<1> HIDE DEF r
<1> QED BY <1>2, <1>3, <1>4, <1>5 DEF EndedIs

LocatedIs(b, block, d) ==
    /\ IsBlock(b)
    /\ b.inputs = block.inputs /\ b.insts = block.insts /\ b.vstack = block.vstack
    /\ b.max = block.max /\ b.term = block.term /\ b.next = block.next
    /\ b.debug = d /\ b.under = block.under /\ (~b.late => ~block.late)

LEMMA BlockLocated ==
    ASSUME NEW block, IsBlock(block), NEW d
    PROVE  LocatedIs([block EXCEPT !.debug = d], block, d)
<1>1. PICK inputs, insts, vstack, max, term, next, debug, under, late :
        /\ block = [inputs |-> inputs, insts |-> insts, vstack |-> vstack, max |-> max, term |-> term,
                    next |-> next, debug |-> debug, under |-> under, late |-> late]
        /\ IsList(insts) /\ IsList(vstack) /\ max \in Nat
  BY DEF IsBlock
<1> DEFINE r  == [inputs |-> inputs, insts |-> insts, vstack |-> vstack, max |-> max, term |-> term,
                  next |-> next, debug |-> d, under |-> under, late |-> late]
<1>2. [block EXCEPT !.debug = d] = r BY <1>1
<1>4. IsBlock(r) BY <1>1 DEF IsBlock
<1>5. /\ r.inputs = block.inputs /\ r.insts = block.insts /\ r.vstack = block.vstack
      /\ r.max = block.max /\ r.term = block.term /\ r.next = block.next
      /\ r.debug = d /\ r.under = block.under /\ r.late = block.late
  BY <1>1
<1> HIDE DEF r
<1> QED BY <1>2, <1>4, <1>5 DEF LocatedIs

NamedIs(b, block, v) ==
    /\ IsBlock(b)
    /\ b.inputs = block.inputs /\ b.insts = block.insts /\ b.vstack = v
    /\ b.max = block.max /\ b.term = block.term /\ b.next = block.next
    /\ b.debug = block.debug /\ b.under = block.under /\ (~b.late => ~block.late)

LEMMA BlockNamed ==
    ASSUME NEW block, IsBlock(block), NEW v, IsList(v)
    PROVE  NamedIs([block EXCEPT !.vstack = v], block, v)
<1>1. PICK inputs, insts, vstack, max, term, next, debug, under, late :
        /\ block = [inputs |-> inputs, insts |-> insts, vstack |-> vstack, max |-> max, term |-> term,
                    next |-> next, debug |-> debug, under |-> under, late |-> late]
        /\ IsList(insts) /\ IsList(vstack) /\ max \in Nat
  BY DEF IsBlock
<1> DEFINE r  == [inputs |-> inputs, insts |-> insts, vstack |-> v, max |-> max, term |-> term,
                  next |-> next, debug |-> debug, under |-> under, late |-> late]
<1>2. [block EXCEPT !.vstack = v] = r BY <1>1
<1>4. IsBlock(r) BY <1>1 DEF IsBlock
<1>5. /\ r.inputs = block.inputs /\ r.insts = block.insts /\ r.vstack = v
      /\ r.max = block.max /\ r.term = block.term /\ r.next = block.next
      /\ r.debug = block.debug /\ r.under = block.under /\ r.late = block.late
  BY <1>1
<1> HIDE DEF r
<1> QED BY <1>2, <1>4, <1>5 DEF NamedIs

LEMMA BlockNew ==
    ASSUME NEW n \in Nat
    PROVE  /\ IsBlock(NewBlock(n))
           /\ NewBlock(n).inputs = n /\ NewBlock(n).insts = <<>> /\ NewBlock(n).vstack = Inputs(n)
           /\ NewBlock(n).max = n /\ NewBlock(n).term = "unterminated" /\ NewBlock(n).next = <<0, 0>>
           /\ NewBlock(n).debug = <<>>
<1>1. IsList(<<>>) /\ IsList(Inputs(n)) BY EmptyList, InputsList
<1> DEFINE v == Inputs(n)
<1> HIDE DEF v
<1>2. NewBlock(n) = [inputs |-> n, insts |-> <<>>, vstack |-> v, max |-> n, term |-> "unterminated",
                     next |-> <<0, 0>>, debug |-> <<>>, under |-> <<>>, late |-> FALSE]
  BY DEF NewBlock, v
<1>3. IsBlock(NewBlock(n)) BY <1>1, <1>2 DEF IsBlock, v
<1>4. /\ NewBlock(n).inputs = n /\ NewBlock(n).insts = <<>> /\ NewBlock(n).vstack = v
      /\ NewBlock(n).max = n /\ NewBlock(n).term = "unterminated" /\ NewBlock(n).next = <<0, 0>>
      /\ NewBlock(n).debug = <<>>
  BY <1>2
<1> QED BY <1>3, <1>4 DEF v

-----------------------------------------------------------------------------
(* The debug locations of a block                                            *)

(* The d-th location is that of the k-th instruction.                        *)
ComesFrom(debug, d, k) ==
    /\ debug[d].inst_idx < k
    /\ \A e \in 1..Len(debug) : e > d => debug[e].inst_idx >= k

Located(block) ==
    /\ \A d \in 1..Len(block.debug) : block.debug[d].inst_idx <= Len(block.insts)
    /\ \A d, e \in 1..Len(block.debug) : d <= e => block.debug[d].inst_idx <= block.debug[e].inst_idx
    /\ \A k \in 1..Len(block.insts) :
          block.under[k] # NoLocation =>
              \E d \in 1..Len(block.debug) : ComesFrom(block.debug, d, k) /\ block.debug[d].location = block.under[k]

IsEntry(x) == \E i \in Nat : \E l : x = [inst_idx |-> i, location |-> l]

LEMMA EntryIndex == ASSUME NEW x, IsEntry(x) PROVE x.inst_idx \in Nat
BY DEF IsEntry

Recorded(debug) ==
    /\ IsList(debug)
    /\ \A d \in 1..Len(debug) : IsEntry(debug[d])

(* As long as no location is out of date, they are in the order of the       *)
(* instructions, and each instruction was built under the last before it.    *)
Debugged(block) == Recorded(block.debug) /\ (~block.late => Located(block))

LEMMA KeptIsPrefix ==
    ASSUME NEW block, IsBlock(block), NEW c, IsCode(c)
    PROVE  \E m \in Nat : /\ Kept(block, c) = 1..m /\ Cardinality(Kept(block, c)) = m
                          /\ m <= Len(c.insts) /\ m <= Len(block.insts)
<1> DEFINE S == {n \in Nat : /\ n <= Len(c.insts) /\ n <= Len(block.insts)
                             /\ \A j \in 1..n : c.insts[j] = block.insts[j]}
<1>1. Len(c.insts) \in Nat /\ Len(block.insts) \in Nat BY CodeFields, BlockFields
<1>2. 0 \in S BY <1>1
<1>3. Len(c.insts) + 1 \notin S /\ Len(c.insts) + 1 \in Nat BY <1>1
<1>4. PICK m \in Nat : m \in S /\ m + 1 \notin S
  <2> HIDE DEF S
  <2>1. SUFFICES ASSUME \A n \in Nat : n \in S => n + 1 \in S PROVE FALSE
    OBVIOUS
  <2>2. Nat \subseteq S BY <1>2, <2>1, Induction
  <2> QED BY <1>3, <2>2
<1>5. Kept(block, c) = 1..m
  <2>1. ASSUME NEW k \in 1..m PROVE k \in Kept(block, c)
    <3>1. k \in 1..Len(c.insts) /\ k <= Len(block.insts) /\ 1..k \subseteq 1..m BY <1>1, <1>4
    <3> QED BY <1>4, <3>1 DEF Kept
  <2>2. ASSUME NEW k \in Kept(block, c) PROVE k \in 1..m
    <3>1. k \in 1..Len(c.insts) /\ k <= Len(block.insts) /\ \A j \in 1..k : c.insts[j] = block.insts[j] BY DEF Kept
    <3>2. SUFFICES ASSUME k > m PROVE FALSE
      BY <1>1, <3>1
    <3>3. m + 1 <= k /\ 1..m + 1 \subseteq 1..k BY <1>1, <3>1, <3>2
    <3>4. m + 1 <= Len(c.insts) /\ m + 1 <= Len(block.insts) /\ m + 1 \in Nat BY <1>1, <3>1, <3>3
    <3>5. \A j \in 1..m + 1 : c.insts[j] = block.insts[j] BY <3>1, <3>3
    <3> QED BY <1>4, <3>4, <3>5
  <2> QED BY <2>1, <2>2
<1>6. Cardinality(1..m) = m
  <2>1. Cardinality(1..m) = IF 1 > m THEN 0 ELSE m - 1 + 1 BY FS_Interval
  <2> QED BY <2>1
<1> QED BY <1>4, <1>5, <1>6

LEMMA DebuggedBuilds ==
    ASSUME NEW block, IsBlock(block), NEW c, IsCode(c), Debugged(block)
    PROVE  Debugged(WithCode(block, c))
<1> DEFINE w == WithCode(block, c)
           D == block.debug
           K == Len(c.insts)
           u == UnderOf(block, c)
<1>1. /\ w.insts = c.insts /\ w.debug = D /\ w.under = u
      /\ ~w.late => ~block.late /\ ~Outdated(block, c)
  BY WithCodeIs
<1> HIDE DEF w
<1>2. SUFFICES ASSUME ~w.late PROVE Located(w)
  BY <1>1, Zenon DEF Debugged, w
<1>3. Located(block) /\ ~Outdated(block, c) /\ Recorded(D) BY <1>1, <1>2, Zenon DEF Debugged
<1>4. PICK m \in Nat : /\ Kept(block, c) = 1..m /\ Cardinality(Kept(block, c)) = m
                       /\ m <= K /\ m <= Len(block.insts)
  BY KeptIsPrefix
<1>5. K \in Nat /\ Len(D) \in Nat /\ IsList(D) BY <1>3, CodeFields, ListFacts DEF Recorded
<1>6. \A d \in 1..Len(D) : D[d].inst_idx \in Nat BY <1>3, EntryIndex DEF Recorded
<1>7. ASSUME NEW d \in 1..Len(D) PROVE D[d].inst_idx <= m
  <2>1. D # <<>> BY <1>5, NotEmpty
  <2>2. Len(D) \in 1..Len(D) /\ Last(D) = D[Len(D)] BY <1>5, <2>1, LastIs
  <2>3. ~(Last(D).inst_idx > m) BY <1>3, <1>4, <2>1 DEF Outdated
  <2>4. D[d].inst_idx <= D[Len(D)].inst_idx BY <1>3, <1>5, <2>2 DEF Located
  <2> QED BY <1>4, <1>6, <2>2, <2>3, <2>4
<1>8. \A d \in 1..Len(D) : D[d].inst_idx <= K BY <1>4, <1>5, <1>6, <1>7
<1>9. ASSUME NEW k \in 1..K, u[k] # NoLocation
      PROVE  \E d \in 1..Len(D) : ComesFrom(D, d, k) /\ D[d].location = u[k]
  <2>1. CASE k \in 1..m
    <3>1. u[k] = block.under[k] BY <1>4, <2>1 DEF UnderOf
    <3>2. k \in 1..Len(block.insts) BY <1>4, <2>1, BlockFields
    <3> QED BY <1>3, <1>9, <3>1, <3>2 DEF Located
  <2>2. CASE k \notin 1..m
    <3>1. u[k] = CurrentLocation(block) BY <1>4, <2>2 DEF UnderOf
    <3>2. D # <<>> BY <1>9, <3>1 DEF CurrentLocation
    <3>3. Len(D) \in 1..Len(D) /\ Last(D) = D[Len(D)] BY <1>5, <3>2, LastIs
    <3>4. D[Len(D)].location = u[k] BY <3>1, <3>2, <3>3 DEF CurrentLocation
    <3>5. D[Len(D)].inst_idx <= m /\ D[Len(D)].inst_idx \in Nat BY <1>6, <1>7, <3>3
    <3>6. D[Len(D)].inst_idx < k BY <1>4, <1>5, <2>2, <3>5
    <3>7. ComesFrom(D, Len(D), k) BY <1>5, <3>6 DEF ComesFrom
    <3> QED BY <3>3, <3>4, <3>7
  <2> QED BY <2>1, <2>2
<1>10. \A d, e \in 1..Len(D) : d <= e => D[d].inst_idx <= D[e].inst_idx BY <1>3 DEF Located
<1> HIDE DEF D, u, K
<1> QED BY <1>1, <1>8, <1>9, <1>10 DEF Located, K

(* What changes neither the instructions nor the locations                   *)
LEMMA DebuggedSame ==
    ASSUME NEW block, Debugged(block), NEW b,
           b.insts = block.insts, b.debug = block.debug, b.under = block.under, ~b.late => ~block.late
    PROVE  Debugged(b)
<1>1. Located(block) => Located(b) BY DEF Located
<1> QED BY <1>1, Zenon DEF Debugged

LEMMA DebuggedLocation ==
    ASSUME NEW block, IsBlock(block), Debugged(block), NEW location
    PROVE  Debugged([block EXCEPT !.debug = Append(@, [inst_idx |-> Len(block.insts), location |-> location])])
<1> DEFINE D == block.debug
           x == [inst_idx |-> Len(block.insts), location |-> location]
           E == Append(D, x)
           b == [block EXCEPT !.debug = E]
           n == Len(D)
<1>1. b.insts = block.insts /\ b.debug = E /\ b.under = block.under /\ (~b.late => ~block.late)
  BY BlockLocated, Zenon DEF LocatedIs
<1>0. Recorded(D) BY Zenon DEF Debugged
<1>2. IsList(D) /\ n \in Nat BY <1>0, ListFacts DEF Recorded
<1>3. x.inst_idx = Len(block.insts) /\ Len(block.insts) \in Nat BY BlockFields
<1>4. IsEntry(x) BY <1>3 DEF IsEntry
<1> HIDE DEF x
<1>5. /\ IsList(E) /\ Len(E) = n + 1 /\ E[n + 1] = x
      /\ \A d \in 1..n : E[d] = D[d]
  BY <1>2, ListAppended
<1> HIDE DEF E, b
<1>6. \A d \in 1..n + 1 : d \in 1..n \/ d = n + 1 BY <1>2
<1>7. ASSUME NEW d \in 1..n + 1 PROVE IsEntry(E[d])
  BY <1>0, <1>4, <1>5, <1>6 DEF Recorded
<1>8. ASSUME Located(block) PROVE Located(b)
  <2>1. \A d \in 1..n : D[d].inst_idx \in Nat /\ D[d].inst_idx <= Len(block.insts)
    BY <1>0, <1>8, EntryIndex DEF Recorded, Located
  <2>2. \A d \in 1..n + 1 : E[d].inst_idx <= Len(block.insts) BY <1>3, <1>5, <1>6, <2>1
  <2>3. ASSUME NEW d \in 1..n + 1, NEW e \in 1..n + 1, d <= e PROVE E[d].inst_idx <= E[e].inst_idx
    <3>1. CASE e = n + 1 BY <1>3, <1>5, <2>2, <3>1
    <3>2. CASE e # n + 1
      <4>1. d \in 1..n /\ e \in 1..n BY <1>2, <2>3, <3>2
      <4> QED BY <1>5, <1>8, <2>3, <4>1 DEF Located
    <3> QED BY <3>1, <3>2
  <2>4. ASSUME NEW k \in 1..Len(block.insts), block.under[k] # NoLocation
        PROVE  \E d \in 1..n + 1 : ComesFrom(E, d, k) /\ E[d].location = block.under[k]
    <3>1. PICK d \in 1..n : ComesFrom(D, d, k) /\ D[d].location = block.under[k] BY <1>8, <2>4 DEF Located
    <3>2. d \in 1..n + 1 /\ E[d] = D[d] BY <1>2, <1>5
    <3>3. ASSUME NEW e \in 1..n + 1, e > d PROVE E[e].inst_idx >= k
      <4>1. CASE e \in 1..n BY <1>5, <3>1, <3>3, <4>1 DEF ComesFrom
      <4>2. CASE e = n + 1 BY <1>3, <1>5, <4>2
      <4> QED BY <1>6, <4>1, <4>2
    <3>4. ComesFrom(E, d, k) BY <1>5, <3>1, <3>2, <3>3 DEF ComesFrom
    <3> QED BY <3>1, <3>2, <3>4
  <2> HIDE DEF D, n
  <2> QED BY <1>1, <1>5, <2>2, <2>3, <2>4 DEF Located
<1>9. Debugged(b)
  <2> HIDE DEF D, n
  <2>1. ~b.late => Located(b) BY <1>1, <1>8, Zenon DEF Debugged
  <2>2. Recorded(E) BY <1>5, <1>7 DEF Recorded
  <2> QED BY <1>1, <2>1, <2>2, Zenon DEF Debugged
<1>10. [block EXCEPT !.debug = Append(@, [inst_idx |-> Len(block.insts), location |-> location])] = b
  BY Zenon DEF b, E, x
<1> QED BY <1>9, <1>10

LEMMA DebuggedNew == ASSUME NEW n \in Nat PROVE Debugged(NewBlock(n))
<1>1. NewBlock(n).insts = <<>> /\ NewBlock(n).debug = <<>> BY BlockNew
<1>2. IsList(<<>>) /\ Len(<<>>) = 0 BY EmptyList
<1> DEFINE b == NewBlock(n)
<1> HIDE DEF b
<1>3. Len(b.insts) = 0 /\ Len(b.debug) = 0 /\ IsList(b.debug) BY <1>1, <1>2 DEF b
<1>4. 1..0 = {} OBVIOUS
<1>5. Located(b) BY <1>3, <1>4 DEF Located
<1>6. Recorded(b.debug) BY <1>3, <1>4 DEF Recorded
<1> QED BY <1>5, <1>6, Zenon DEF Debugged, b

-----------------------------------------------------------------------------
(* The blocks of the function that is built                                  *)

GoodBlock(block) == IsBlock(block) /\ Debugged(block)

GoodBlocks(bs) ==
    /\ IsList(bs)
    /\ Len(bs) >= 1
    /\ \A b \in 1..Len(bs) : GoodBlock(bs[b])

BlocksInv ==
    /\ frontend \in 1..Len(Scripts)
    /\ pos \in Nat
    /\ GoodBlocks(blocks)
    /\ cur \in 0..Len(blocks)
    /\ IsList(locals)

LEMMA BlocksChanged ==
    ASSUME NEW bs, GoodBlocks(bs), NEW i \in 1..Len(bs), NEW b, GoodBlock(b)
    PROVE  GoodBlocks([bs EXCEPT ![i] = b]) /\ Len([bs EXCEPT ![i] = b]) = Len(bs)
<1> DEFINE t == [bs EXCEPT ![i] = b]
<1>1. IsList(bs) BY DEF GoodBlocks
<1>2. IsList(t) /\ Len(t) = Len(bs) /\ t[i] = b /\ \A j \in 1..Len(bs) : j # i => t[j] = bs[j]
  BY <1>1, ListChanged
<1> HIDE DEF t
<1>3. GoodBlocks(t) BY <1>2 DEF GoodBlocks
<1> QED BY <1>2, <1>3 DEF t

LEMMA BlocksAppended ==
    ASSUME NEW bs, GoodBlocks(bs), NEW b, GoodBlock(b)
    PROVE  GoodBlocks(Append(bs, b)) /\ Len(Append(bs, b)) = Len(bs) + 1
<1> DEFINE t == Append(bs, b)
           n == Len(bs)
<1>1. IsList(bs) /\ n \in Nat /\ n >= 1 BY ListFacts DEF GoodBlocks
<1>2. IsList(t) /\ Len(t) = n + 1 /\ t[n + 1] = b /\ \A j \in 1..n : t[j] = bs[j]
  BY <1>1, ListAppended
<1>3. \A j \in 1..n + 1 : j \in 1..n \/ j = n + 1 BY <1>1
<1> HIDE DEF t
<1>4. \A j \in 1..n + 1 : GoodBlock(t[j]) BY <1>2, <1>3 DEF GoodBlocks
<1>5. GoodBlocks(t) BY <1>1, <1>2, <1>4 DEF GoodBlocks
<1> QED BY <1>2, <1>5 DEF t

LEMMA FirstBlock ==
    ASSUME NEW n \in Nat
    PROVE  GoodBlocks(<<NewBlock(n)>>) /\ Len(<<NewBlock(n)>>) = 1
<1> DEFINE b == NewBlock(n)
<1>1. GoodBlock(b) BY BlockNew, DebuggedNew DEF GoodBlock
<1> HIDE DEF b
<1>2. IsList(<<b>>) /\ Len(<<b>>) = 1 /\ <<b>>[1] = b BY OneList
<1>3. GoodBlocks(<<b>>) BY <1>1, <1>2 DEF GoodBlocks
<1> QED BY <1>2, <1>3 DEF b

LEMMA ScriptIn ==
    ASSUME NEW f \in 1..Len(Scripts)
    PROVE  Scripts[f].in \in Nat
BY BuilderAssumption

(* What is asked for is legal, and it is asked for before the body is        *)
(* finished.                                                                 *)
LEMMA Requested ==
    ASSUME BlocksInv, NEW op, NEW o \in Requests(op)
    PROVE  Legal(o) /\ o.op = op /\ body = NoBody
<1>1. body = NoBody /\ pos < Len(script.steps) /\ o \in script.steps[pos + 1] /\ o.op = op BY DEF Requests
<1>2. frontend \in DOMAIN Scripts /\ pos \in Nat BY BuilderAssumption DEF BlocksInv
<1>3. Len(script.steps) \in Nat /\ DOMAIN script.steps = 1..Len(script.steps)
  BY <1>2, BuilderAssumption DEF script
<1>4. pos + 1 \in DOMAIN script.steps BY <1>1, <1>2, <1>3
<1> QED BY <1>1, <1>2, <1>4, BuilderAssumption DEF script

LEMMA AskedOf ==
    ASSUME BlocksInv, NEW op, NEW o \in Asked(op)
    PROVE  Legal(o) /\ o.op = op /\ body = NoBody /\ cur # 0
<1>1. cur # 0 /\ o \in Requests(op) BY DEF Asked
<1> QED BY <1>1, Requested

LEMMA CurrentBlock ==
    ASSUME BlocksInv, cur # 0
    PROVE  /\ cur \in 1..Len(blocks)
           /\ IsBlock(blocks[cur]) /\ Debugged(blocks[cur])
           /\ IsCode(Code)
           /\ Code.insts = blocks[cur].insts /\ Code.vstack = blocks[cur].vstack /\ Code.max = blocks[cur].max
<1>1. IsList(blocks) /\ Len(blocks) \in Nat /\ cur \in 0..Len(blocks) BY ListFacts DEF BlocksInv, GoodBlocks
<1>2. cur \in 1..Len(blocks) BY <1>1
<1>3. IsBlock(blocks[cur]) /\ Debugged(blocks[cur]) BY <1>2 DEF BlocksInv, GoodBlocks, GoodBlock
<1>4. IsList(blocks[cur].insts) /\ IsList(blocks[cur].vstack) /\ blocks[cur].max \in Nat BY <1>3, BlockFields
<1>5. IsCode(Code) BY <1>4, CodeIs DEF Code
<1> QED BY <1>2, <1>3, <1>5 DEF Code

LEMMA GoodBuilds ==
    ASSUME NEW block, IsBlock(block), Debugged(block), NEW c, IsCode(c)
    PROVE  GoodBlock(WithCode(block, c))
BY WithCodeIs, DebuggedBuilds DEF GoodBlock

LEMMA GoodTerminates ==
    ASSUME NEW block, IsBlock(block), Debugged(block), NEW c, IsCode(c), NEW term, NEW next
    PROVE  GoodBlock([WithCode(block, c) EXCEPT !.term = term, !.next = next])
<1> DEFINE w == WithCode(block, c)
           b == [w EXCEPT !.term = term, !.next = next]
<1>1. IsBlock(w) /\ Debugged(w) BY GoodBuilds DEF GoodBlock
<1> HIDE DEF w
<1>2. EndedIs(b, w, term, next) BY <1>1, BlockEnded
<1> HIDE DEF b
<1>3. IsBlock(b) /\ Debugged(b) BY <1>1, <1>2, DebuggedSame, Zenon DEF EndedIs
<1> QED BY <1>3 DEF GoodBlock, b, w

LEMMA BuildsKeeps ==
    ASSUME BlocksInv, cur # 0, NEW o, NEW c, IsCode(c), Builds(o, c)
    PROVE  BlocksInv'
<1> DEFINE w == WithCode(blocks[cur], c)
<1>1. cur \in 1..Len(blocks) /\ GoodBlock(w) BY CurrentBlock, GoodBuilds
<1>2. /\ blocks' = [blocks EXCEPT ![cur] = w]
      /\ UNCHANGED <<cur, locals, frontend>> /\ pos' = pos + 1
  BY DEF Builds, Asks
<1> HIDE DEF w
<1>3. GoodBlocks(blocks) BY DEF BlocksInv
<1> DEFINE u == blocks'
<1>4. GoodBlocks(u) /\ Len(u) = Len(blocks) BY <1>1, <1>2, <1>3, BlocksChanged
<1> HIDE DEF u
<1>5. frontend' \in 1..Len(Scripts) /\ pos' \in Nat /\ cur' \in 0..Len(u) /\ IsList(locals')
  BY <1>2, <1>4 DEF BlocksInv
<1> QED BY <1>4, <1>5 DEF BlocksInv, u

LEMMA TerminatesKeeps ==
    ASSUME BlocksInv, cur # 0, NEW o, NEW c, IsCode(c), NEW term, NEW next, Terminates(o, c, term, next)
    PROVE  BlocksInv'
<1> DEFINE w == [WithCode(blocks[cur], c) EXCEPT !.term = term, !.next = next]
<1>1. cur \in 1..Len(blocks) /\ GoodBlock(w) BY CurrentBlock, GoodTerminates
<1>2. /\ blocks' = [blocks EXCEPT ![cur] = w]
      /\ cur' = 0
      /\ UNCHANGED <<locals, frontend>> /\ pos' = pos + 1
  BY DEF Terminates, Asks
<1> HIDE DEF w
<1>3. GoodBlocks(blocks) BY DEF BlocksInv
<1> DEFINE u == blocks'
<1>4. GoodBlocks(u) /\ Len(u) = Len(blocks) BY <1>1, <1>2, <1>3, BlocksChanged
<1> HIDE DEF u
<1>5. Len(u) \in Nat BY <1>4, ListFacts DEF GoodBlocks
<1>6. frontend' \in 1..Len(Scripts) /\ pos' \in Nat /\ cur' \in 0..Len(u) /\ IsList(locals')
  BY <1>2, <1>5 DEF BlocksInv
<1> QED BY <1>4, <1>6 DEF BlocksInv, u

LEMMA BlocksInit == Init => BlocksInv
<1> SUFFICES ASSUME Init PROVE BlocksInv
  OBVIOUS
<1>1. frontend \in 1..Len(Scripts) BY BuilderAssumption DEF Init
<1>2. script.in \in Nat BY <1>1, ScriptIn DEF script
<1>3. GoodBlocks(blocks) /\ Len(blocks) = 1 BY <1>2, FirstBlock DEF Init
<1>4. IsList(locals) BY EmptyList DEF Init
<1>5. pos \in Nat /\ cur \in 0..Len(blocks) BY <1>3 DEF Init
<1> QED BY <1>1, <1>3, <1>4, <1>5 DEF BlocksInv

LEMMA FrontIsCode ==
    ASSUME NEW c, IsCode(c), c.insts # <<>>
    PROVE  /\ IsCode([c EXCEPT !.insts = Front(@)])
           /\ [c EXCEPT !.insts = Front(@)].insts = SubSeq(c.insts, 1, Len(c.insts) - 1)
           /\ [c EXCEPT !.insts = Front(@)].vstack = c.vstack
           /\ [c EXCEPT !.insts = Front(@)].max = c.max
<1> DEFINE f == SubSeq(c.insts, 1, Len(c.insts) - 1)
<1>1. IsList(c.insts) /\ IsList(c.vstack) /\ c.max \in Nat /\ Len(c.insts) \in Nat BY CodeFields
<1>2. Len(c.insts) # 0 BY <1>1, NotEmpty
<1>3. Len(c.insts) - 1 \in Nat /\ Len(c.insts) - 1 <= Len(c.insts) BY <1>1, <1>2
<1>4. IsList(f) BY <1>1, <1>3, CutFirst
<1>5. Front(c.insts) = f BY DEF Front
<1> HIDE DEF f
<1> DEFINE d == [insts |-> f, vstack |-> c.vstack, max |-> c.max, localAddrs |-> c.localAddrs]
<1>6. [c EXCEPT !.insts = Front(@)] = d BY <1>5, CodeChanged
<1>7. IsCode(d) BY <1>1, <1>4, CodeIs
<1> QED BY <1>6, <1>7 DEF f

(* A block that is asked for an instruction                                  *)
LEMMA BuildingKeeps ==
    ASSUME BlocksInv,
           \/ Uint \/ Sint \/ AddNull \/ Layout \/ GlobalAddr \/ TakeLocalAddr \/ FunctionAddr
           \/ Cc \/ Pop \/ Pick \/ Roll \/ Select
    PROVE  BlocksInv'
<1>1. CASE Uint
  <2>1. PICK o \in Asked("uint") : Builds(o, InstUint(Code, o.v)) BY <1>1 DEF Uint
  <2> QED BY <2>1, AskedOf, CurrentBlock, InstUintIsCode, BuildsKeeps
<1>2. CASE Sint
  <2>1. PICK o \in Asked("sint") : Builds(o, InstUint(Code, AsUint(o.i))) BY <1>2 DEF Sint, InstSint
  <2> QED BY <2>1, AskedOf, CurrentBlock, InstUintIsCode, BuildsKeeps
<1>3. CASE AddNull
  <2>1. PICK o \in Asked("null") : Builds(o, InstNull(Code)) BY <1>3 DEF AddNull
  <2> QED BY <2>1, AskedOf, CurrentBlock, InstAddrIsCode, BuildsKeeps
<1>4. CASE Layout
  <2>1. PICK o \in Asked("layout") : Builds(o, InstLayout(Code, o.layout)) BY <1>4 DEF Layout
  <2> QED BY <2>1, AskedOf, CurrentBlock, InstLayoutIsCode, BuildsKeeps
<1>5. CASE GlobalAddr
  <2>1. PICK o \in Asked("global_addr") : Builds(o, InstGlobalAddr(Code, o.g)) BY <1>5 DEF GlobalAddr
  <2> QED BY <2>1, AskedOf, CurrentBlock, InstAddrIsCode, BuildsKeeps
<1>6. CASE TakeLocalAddr
  <2>1. PICK o \in Asked("local_addr") : Builds(o, InstLocalAddr(Code, locals[o.l + 1])) BY <1>6 DEF TakeLocalAddr
  <2> QED BY <2>1, AskedOf, CurrentBlock, InstLocalAddrIsCode, BuildsKeeps
<1>7. CASE FunctionAddr
  <2>1. PICK o \in Asked("function_addr") : Builds(o, InstFunctionAddr(Code, o.f)) BY <1>7 DEF FunctionAddr
  <2> QED BY <2>1, AskedOf, CurrentBlock, InstAddrIsCode, BuildsKeeps
<1>8. CASE Cc
  <2>1. PICK o \in Asked("cc") : Has(Code, 1) /\ Builds(o, InstCc(Code, o.cc)) BY <1>8 DEF Cc
  <2> QED BY <2>1, AskedOf, CurrentBlock, InstCcIsCode, BuildsKeeps
<1>9. CASE Pop
  <2>1. PICK o \in Asked("pop") : Has(Code, o.i + 1) /\ Builds(o, InstPop(Code, o.i)) BY <1>9 DEF Pop
  <2>2. o.i \in Nat BY AskedOf DEF Legal
  <2> QED BY <2>1, <2>2, AskedOf, CurrentBlock, InstPopIsCode, BuildsKeeps
<1>10. CASE Pick
  <2>1. PICK o \in Asked("pick") : Has(Code, o.i + 1) /\ Builds(o, InstPick(Code, o.i)) BY <1>10 DEF Pick
  <2> QED BY <2>1, AskedOf, CurrentBlock, InstPickIsCode, BuildsKeeps
<1>11. CASE Roll
  <2>1. PICK o \in Asked("roll") : Has(Code, o.i + 1) /\ Builds(o, InstRoll(Code, o.i)) BY <1>11 DEF Roll
  <2>2. o.i \in Nat BY AskedOf DEF Legal
  <2> QED BY <2>1, <2>2, AskedOf, CurrentBlock, InstRollIsCode, BuildsKeeps
<1>12. CASE Select
  <2>1. PICK o \in Asked("select") : Has(Code, o.n + 1) /\ Builds(o, InstSelect(Code, o.n)) BY <1>12 DEF Select
  <2>2. o.n \in Nat BY AskedOf DEF Legal
  <2> QED BY <2>1, <2>2, AskedOf, CurrentBlock, InstSelectIsCode, BuildsKeeps
<1> QED BY <1>1, <1>2, <1>3, <1>4, <1>5, <1>6, <1>7, <1>8, <1>9, <1>10, <1>11, <1>12

LEMMA MemoryKeeps ==
    ASSUME BlocksInv, ArrayElement \/ AggregateMember \/ LoadField \/ StoreField
    PROVE  BlocksInv'
<1>1. CASE ArrayElement
  <2>1. PICK o \in Asked("array_element") : Has(Code, 2) /\ Builds(o, InstArrayElement(Code, o.layout))
    BY <1>1 DEF ArrayElement
  <2> QED BY <2>1, AskedOf, CurrentBlock, InstArrayElementIsCode, BuildsKeeps
<1>2. CASE AggregateMember
  <2>1. PICK o \in Asked("aggregate_member") :
          Has(Code, 1) /\ Builds(o, InstAggregateMember(Code, o.members, o.index))
    BY <1>2 DEF AggregateMember
  <2> QED BY <2>1, AskedOf, CurrentBlock, InstAggregateMemberIsCode, BuildsKeeps
<1>3. CASE LoadField
  <2>1. PICK o \in Asked("load_field") : Has(Code, 1) /\ Builds(o, InstLoadField(Code, o.type)) BY <1>3 DEF LoadField
  <2> QED BY <2>1, AskedOf, CurrentBlock, InstLoadFieldIsCode, BuildsKeeps
<1>4. CASE StoreField
  <2>1. PICK o \in Asked("store_field") : Has(Code, 2) /\ Builds(o, InstStoreField(Code, o.type))
    BY <1>4 DEF StoreField
  <2> QED BY <2>1, AskedOf, CurrentBlock, InstStoreFieldIsCode, BuildsKeeps
<1> QED BY <1>1, <1>2, <1>3, <1>4

LEMMA CallsKeep ==
    ASSUME BlocksInv, Call \/ CallIndirectly \/ CallABuiltin \/ PanicIf \/ FiberSwitch \/ FiberSuspend
    PROVE  BlocksInv'
<1>1. CASE Call
  <2>1. PICK o \in Asked("call") : Has(Code, Functions[o.f].in) /\ Builds(o, InstCall(Code, o.f)) BY <1>1 DEF Call
  <2>2. o.f \in DOMAIN Functions BY AskedOf DEF Legal
  <2> QED BY <2>1, <2>2, AskedOf, CurrentBlock, InstCallIsCode, BuildsKeeps
<1>2. CASE CallIndirectly
  <2>1. PICK o \in Asked("call_indirect") : Has(Code, o.in + 1) /\ Builds(o, InstCallIndirect(Code, o.in, o.out))
    BY <1>2 DEF CallIndirectly
  <2>2. o.in \in Nat /\ o.out \in Nat BY AskedOf DEF Legal
  <2> QED BY <2>1, <2>2, AskedOf, CurrentBlock, InstCallIndirectIsCode, BuildsKeeps
<1>3. CASE CallABuiltin
  <2>1. PICK o \in Asked("call_builtin") :
          /\ Has(Code, o.b.in)
          /\ \/ Terminates(o, InstCallBuiltin(Code, o.b), "terminated", <<0, 0>>)
             \/ Builds(o, InstCallBuiltin(Code, o.b))
    BY <1>3, Zenon DEF CallABuiltin
  <2>2. cur # 0 /\ IsCode(Code) BY AskedOf, CurrentBlock
  <2>3. LegalBuiltin(o.b) BY AskedOf DEF Legal
  <2>4. IsCode(InstCallBuiltin(Code, o.b)) BY <2>1, <2>2, <2>3, LegalIsKnown, InstCallBuiltinIsCode
  <2> QED BY <2>1, <2>2, <2>4, BuildsKeeps, TerminatesKeeps
<1>4. CASE PanicIf
  <2>1. PICK o \in Asked("panic_if") : Has(Code, 2) /\ Builds(o, InstPanicIf(Code)) BY <1>4 DEF PanicIf
  <2> QED BY <2>1, AskedOf, CurrentBlock, InstPanicIfIsCode, BuildsKeeps
<1>5. CASE FiberSwitch
  <2>1. PICK o \in Asked("fiber_resume") \cup Asked("fiber_transfer") :
          Has(Code, o.in + 1) /\ Builds(o, InstFiberSwitch(Code, o.op, o.in, o.out))
    BY <1>5 DEF FiberSwitch
  <2>2. Legal(o) /\ o.op \in {"fiber_resume", "fiber_transfer"} /\ cur # 0 BY AskedOf
  <2>3. o.in \in Nat /\ o.out \in Nat BY <2>2 DEF Legal
  <2> QED BY <2>1, <2>2, <2>3, CurrentBlock, InstFiberIsCode, BuildsKeeps
<1>6. CASE FiberSuspend
  <2>1. PICK o \in Asked("fiber_suspend") : Has(Code, o.in) /\ Builds(o, InstFiberSuspend(Code, o.in, o.out))
    BY <1>6 DEF FiberSuspend
  <2>2. o.in \in Nat /\ o.out \in Nat BY AskedOf DEF Legal
  <2> QED BY <2>1, <2>2, AskedOf, CurrentBlock, InstFiberIsCode, BuildsKeeps
<1> QED BY <1>1, <1>2, <1>3, <1>4, <1>5, <1>6

LEMMA EndsKeep ==
    ASSUME BlocksInv, FunctionReturn \/ Jump \/ ABranch \/ FunctionPanic
    PROVE  BlocksInv'
<1>1. CASE FunctionReturn
  <2>1. PICK o \in Asked("return") : Terminates(o, Code, "return_", <<0, 0>>) BY <1>1 DEF FunctionReturn
  <2> QED BY <2>1, AskedOf, CurrentBlock, TerminatesKeeps
<1>2. CASE Jump
  <2>1. PICK o \in Asked("jump") : Terminates(o, Code, "jump", <<o.dest, 0>>) BY <1>2 DEF Jump
  <2> QED BY <2>1, AskedOf, CurrentBlock, TerminatesKeeps
<1>3. CASE FunctionPanic
  <2>1. PICK o \in Asked("panic") : Has(Code, 1) /\ Terminates(o, PopValues(Code, 1), "panic", <<0, 0>>)
    BY <1>3 DEF FunctionPanic
  <2> QED BY <2>1, AskedOf, CurrentBlock, PopValuesIsCode, TerminatesKeeps
<1>4. CASE ABranch
  <2> DEFINE popped == PopValues(Code, 1)
  <2>1. PICK o \in Asked("branch") :
          /\ Has(Code, 1)
          /\ \E c, term, next :
                /\ \/ c = PopTop(popped, 1)
                   \/ c = popped
                   \/ popped.insts # <<>> /\ c = [popped EXCEPT !.insts = Front(@)]
                /\ Terminates(o, c, term, next)
    BY <1>4, Zenon DEF ABranch
  <2>2. cur # 0 /\ IsCode(Code) BY AskedOf, CurrentBlock
  <2>3. IsCode(popped) BY <2>1, <2>2, PopValuesIsCode
  <2> HIDE DEF popped
  <2>4. PICK c, term, next :
          /\ \/ c = PopTop(popped, 1)
             \/ c = popped
             \/ popped.insts # <<>> /\ c = [popped EXCEPT !.insts = Front(@)]
          /\ Terminates(o, c, term, next)
    BY <2>1
  <2>5. IsCode(c) BY <2>3, <2>4, PopTopIsCode, FrontIsCode
  <2> QED BY <2>2, <2>4, <2>5, TerminatesKeeps
<1> QED BY <1>1, <1>2, <1>3, <1>4

LEMMA NamesKeep == ASSUME BlocksInv, Value PROVE BlocksInv'
<1>1. PICK o \in Asked("value") :
        /\ Has(Code, o.i + 1)
        /\ \E id, all : /\ Asks(all)
                        /\ blocks' = [blocks EXCEPT ![cur].vstack[o.i + 1].id = id]
        /\ UNCHANGED <<cur, locals>>
  BY Zenon DEF Value
<1>2. PICK id : blocks' = [blocks EXCEPT ![cur].vstack[o.i + 1].id = id] BY <1>1
<1>3. UNCHANGED <<cur, locals, frontend>> /\ pos' = pos + 1 BY <1>1 DEF Asks
<1> DEFINE block == blocks[cur]
           i == o.i + 1
           x == [block.vstack[i] EXCEPT !.id = id]
           v == [block.vstack EXCEPT ![i] = x]
           b == [block EXCEPT !.vstack = v]
<1>4. cur \in 1..Len(blocks) /\ IsBlock(block) /\ Debugged(block) /\ Code.vstack = block.vstack /\ IsCode(Code)
  BY AskedOf, CurrentBlock
<1>5. blocks' = [blocks EXCEPT ![cur] = b] BY <1>2
<1>6. o.i \in Nat BY AskedOf DEF Legal
<1>7. i \in 1..Len(block.vstack) BY <1>1, <1>4, <1>6, CodeFields DEF Has
<1>14. IsList(block.vstack) BY <1>4, BlockFields
<1>8. IsList(v) /\ Len(v) = Len(block.vstack)
  <2> HIDE DEF x, i, block
  <2> QED BY <1>7, <1>14, ListChanged
<1> HIDE DEF v, x
<1>9. NamedIs(b, block, v) BY <1>4, <1>8, BlockNamed
<1> HIDE DEF b, block
<1>10. GoodBlock(b) BY <1>4, <1>9, DebuggedSame, Zenon DEF GoodBlock, NamedIs
<1>11. GoodBlocks(blocks) BY DEF BlocksInv
<1> DEFINE u == blocks'
<1>12. GoodBlocks(u) /\ Len(u) = Len(blocks) BY <1>4, <1>5, <1>10, <1>11, BlocksChanged
<1> HIDE DEF u
<1>13. frontend' \in 1..Len(Scripts) /\ pos' \in Nat /\ cur' \in 0..Len(u) /\ IsList(locals')
  BY <1>3, <1>12 DEF BlocksInv
<1> QED BY <1>12, <1>13 DEF BlocksInv, u

LEMMA OthersKeep ==
    ASSUME BlocksInv, BuildLocal \/ DeclareBlock \/ BuildBlock \/ DebugLocation \/ Dropped \/ Finish \/ Reset
    PROVE  BlocksInv'
<1>0. /\ GoodBlocks(blocks) /\ Len(blocks) \in Nat /\ IsList(blocks) /\ IsList(locals)
      /\ frontend \in 1..Len(Scripts) /\ pos \in Nat /\ pos + 1 \in Nat /\ cur \in 0..Len(blocks)
  BY ListFacts DEF BlocksInv, GoodBlocks
<1>1. CASE BuildLocal
  <2>1. PICK o \in Requests("local") :
          /\ locals' = Append(locals, NewLocal(o.layout))
          /\ pos' = pos + 1 /\ UNCHANGED <<frontend, blocks, cur>>
    BY <1>1 DEF BuildLocal
  <2> DEFINE u == locals'
  <2>2. IsList(u) BY <1>0, <2>1, ListAppended
  <2> HIDE DEF u
  <2> QED BY <1>0, <2>1, <2>2 DEF BlocksInv, u
<1>2. CASE DeclareBlock
  <2>1. PICK o \in Requests("declare_block") :
          /\ blocks' = Append(blocks, NewBlock(o.in))
          /\ pos' = pos + 1 /\ UNCHANGED <<frontend, locals, cur>>
    BY <1>2 DEF DeclareBlock
  <2>2. o.in \in Nat BY Requested DEF Legal
  <2>3. GoodBlock(NewBlock(o.in)) BY <2>2, BlockNew, DebuggedNew DEF GoodBlock
  <2> DEFINE u == blocks'
  <2>4. GoodBlocks(u) /\ Len(u) = Len(blocks) + 1 BY <1>0, <2>1, <2>3, BlocksAppended
  <2> HIDE DEF u
  <2>5. cur' \in 0..Len(u) BY <1>0, <2>1, <2>4
  <2> QED BY <1>0, <2>1, <2>4, <2>5 DEF BlocksInv, u
<1>3. CASE BuildBlock
  <2>1. PICK o \in Requests("build_block") :
          /\ o.block \in DOMAIN blocks /\ cur' = o.block
          /\ pos' = pos + 1 /\ UNCHANGED <<frontend, locals, blocks>>
    BY <1>3 DEF BuildBlock
  <2>2. o.block \in 0..Len(blocks) BY <1>0, <2>1, ListFacts
  <2> DEFINE u == blocks'
  <2>3. GoodBlocks(u) /\ Len(u) = Len(blocks) BY <1>0, <2>1
  <2> HIDE DEF u
  <2>4. cur' \in 0..Len(u) BY <1>0, <2>1, <2>2, <2>3
  <2> QED BY <1>0, <2>1, <2>3, <2>4 DEF BlocksInv, u
<1>4. CASE DebugLocation
  <2>1. PICK o \in Asked("debug_location") :
          /\ \/ blocks' = blocks
             \/ blocks' = [blocks EXCEPT ![cur].debug =
                              Append(@, [inst_idx |-> Len(blocks[cur].insts), location |-> o.location])]
          /\ pos' = pos + 1 /\ UNCHANGED <<frontend, locals, cur>>
    BY <1>4 DEF DebugLocation
  <2> DEFINE block == blocks[cur]
             x == [inst_idx |-> Len(block.insts), location |-> o.location]
             b == [block EXCEPT !.debug = Append(@, x)]
  <2>2. cur \in 1..Len(blocks) /\ IsBlock(block) /\ Debugged(block) BY AskedOf, CurrentBlock
  <2>3. Debugged(b) BY <2>2, DebuggedLocation
  <2>4. IsBlock(b)
    <3> DEFINE d == Append(block.debug, x)
    <3>1. b = [block EXCEPT !.debug = d] OBVIOUS
    <3> HIDE DEF d, b, block
    <3> QED BY <2>2, <3>1, BlockLocated DEF LocatedIs
  <2>5. blocks' = blocks \/ blocks' = [blocks EXCEPT ![cur] = b] BY <2>1
  <2> HIDE DEF b
  <2>6. GoodBlock(b) BY <2>3, <2>4 DEF GoodBlock
  <2> DEFINE u == blocks'
  <2>7. GoodBlocks(u) /\ Len(u) = Len(blocks) BY <1>0, <2>2, <2>5, <2>6, BlocksChanged
  <2> HIDE DEF u
  <2>8. cur' \in 0..Len(u) BY <1>0, <2>1, <2>7
  <2> QED BY <1>0, <2>1, <2>7, <2>8 DEF BlocksInv, u
<1>5. CASE Dropped BY <1>0, <1>5 DEF Dropped, BlocksInv
<1>6. CASE Finish
  <2>1. UNCHANGED <<frontend, pos, blocks, cur, locals>> BY <1>6 DEF Finish
  <2> QED BY <2>1 DEF BlocksInv
<1>7. CASE Reset
  <2>1. /\ frontend' = (frontend % Len(Scripts)) + 1 /\ pos' = 0 /\ cur' = 1 /\ locals' = <<>>
        /\ blocks' = <<NewBlock(Scripts[frontend'].in)>>
    BY <1>7 DEF Reset
  <2>2. Len(Scripts) \in Nat \ {0} BY BuilderAssumption
  <2>3. frontend' \in 1..Len(Scripts) BY <1>0, <2>1, <2>2
  <2> DEFINE u == blocks'
  <2>4. GoodBlocks(u) /\ Len(u) = 1 BY <2>1, <2>3, ScriptIn, FirstBlock
  <2> HIDE DEF u
  <2>5. cur' \in 0..Len(u) /\ pos' \in Nat /\ IsList(locals') BY <2>1, <2>4, EmptyList
  <2> QED BY <2>3, <2>4, <2>5 DEF BlocksInv, u
<1> QED BY <1>1, <1>2, <1>3, <1>4, <1>5, <1>6, <1>7

LEMMA BlocksNext == BlocksInv /\ [Next]_vars => BlocksInv'
<1> SUFFICES ASSUME BlocksInv, [Next]_vars PROVE BlocksInv'
  OBVIOUS
<1>1. CASE UNCHANGED vars BY <1>1 DEF vars, BlocksInv
<1>2. CASE Next BY <1>2, BuildingKeeps, MemoryKeeps, CallsKeep, EndsKeep, NamesKeep, OthersKeep DEF Next
<1> QED BY <1>1, <1>2

(* What FlattenSeq computes, list by list.                                   *)
LEMMA FlattenSteps ==
    ASSUME NEW n \in Nat \ {0}, NEW ss, ss = [i \in 1..n |-> ss[i]]
    PROVE  \E f : /\ f = [i \in 1..n |-> IF i = 1 THEN ss[i] ELSE f[i - 1] \o ss[i]]
                  /\ FlattenSeq(ss) = f[n]
<1> DEFINE F(k) == \E f : f = [i \in 1..k |-> IF i = 1 THEN ss[i] ELSE f[i - 1] \o ss[i]]
           S == {k \in Nat : F(k)}
<1>1. 0 \in S
  <2> DEFINE e == [i \in 1..0 |-> 0]
  <2>1. e = [i \in 1..0 |-> IF i = 1 THEN ss[i] ELSE e[i - 1] \o ss[i]] OBVIOUS
  <2> HIDE DEF e
  <2>2. F(0) BY <2>1
  <2> QED BY <2>2
<1>2. ASSUME NEW k \in Nat, k \in S PROVE k + 1 \in S
  <2>1. PICK f : f = [i \in 1..k |-> IF i = 1 THEN ss[i] ELSE f[i - 1] \o ss[i]] BY <1>2
  <2> DEFINE g == [i \in 1..k + 1 |-> IF i = k + 1
                                      THEN IF i = 1 THEN ss[i] ELSE f[k] \o ss[i]
                                      ELSE f[i]]
  <2>2. ASSUME NEW i \in 1..k + 1 PROVE g[i] = IF i = 1 THEN ss[i] ELSE g[i - 1] \o ss[i]
    <3>1. CASE i = 1 /\ i = k + 1 BY <3>1
    <3>2. CASE i # 1 /\ i = k + 1
      <4>1. k \in 1..k + 1 /\ k # k + 1 /\ i - 1 = k BY <3>2
      <4>2. g[k] = f[k] BY <4>1
      <4>3. g[i] = f[k] \o ss[i] BY <3>2
      <4> HIDE DEF g
      <4> QED BY <3>2, <4>1, <4>2, <4>3
    <3>3. CASE i = 1 /\ i # k + 1
      <4>1. i \in 1..k BY <3>3
      <4>2. f[i] = ss[i] BY <2>1, <3>3, <4>1
      <4> QED BY <3>3, <4>2
    <3>4. CASE i # 1 /\ i # k + 1
      <4>1. i \in 1..k /\ i - 1 \in 1..k + 1 /\ i - 1 # k + 1 BY <3>4
      <4>2. f[i] = f[i - 1] \o ss[i] BY <2>1, <3>4, <4>1
      <4>3. g[i] = f[i] /\ g[i - 1] = f[i - 1] BY <3>4, <4>1
      <4> HIDE DEF g
      <4> QED BY <3>4, <4>2, <4>3
    <3> QED BY <3>1, <3>2, <3>3, <3>4
  <2>3. g = [i \in 1..k + 1 |-> g[i]] OBVIOUS
  <2> HIDE DEF g
  <2>4. g = [i \in 1..k + 1 |-> IF i = 1 THEN ss[i] ELSE g[i - 1] \o ss[i]] BY <2>2, <2>3
  <2>5. F(k + 1) BY <2>4
  <2> HIDE DEF F
  <2>6. k + 1 \in Nat OBVIOUS
  <2> QED BY <2>5, <2>6
<1>3. \A k \in Nat : k \in S => k + 1 \in S BY <1>2
<1> HIDE DEF S
<1>4. n \in S BY <1>1, <1>3, Induction
<1>5. F(n) BY <1>4 DEF S
<1> HIDE DEF F
<1> DEFINE f == CHOOSE f : f = [i \in 1..n |-> IF i = 1 THEN ss[i] ELSE f[i - 1] \o ss[i]]
<1>6. f = [i \in 1..n |-> IF i = 1 THEN ss[i] ELSE f[i - 1] \o ss[i]] BY <1>5 DEF F
<1>7. Len(ss) = n /\ Len(ss) # 0
  <2>1. ss \in [1..n -> {ss[i] : i \in 1..n}] BY Zenon
  <2> HIDE DEF f
  <2> QED BY <2>1
<1>8. FlattenSeq(ss) = f[n] BY <1>7 DEF FlattenSeq
<1> HIDE DEF f
<1> QED BY <1>6, <1>8

(* One more list is put at the end.                                          *)
LEMMA FlattenGrows ==
    ASSUME NEW n \in Nat \ {0}, NEW ss, ss = [i \in 1..n + 1 |-> ss[i]]
    PROVE  FlattenSeq(ss) = FlattenSeq([i \in 1..n |-> ss[i]]) \o ss[n + 1]
<1> DEFINE rr == [i \in 1..n |-> ss[i]]
<1>1. ss = [i \in 1..n + 1 |-> ss[i]] /\ rr = [i \in 1..n |-> rr[i]] OBVIOUS
<1>2. PICK f : /\ f = [i \in 1..n + 1 |-> IF i = 1 THEN ss[i] ELSE f[i - 1] \o ss[i]]
               /\ FlattenSeq(ss) = f[n + 1]
  <2>1. n + 1 \in Nat \ {0} OBVIOUS
  <2> QED BY <1>1, <2>1, FlattenSteps
<1>3. \A i \in 1..n : rr[i] = ss[i] OBVIOUS
<1> HIDE DEF rr
<1>4. PICK g : /\ g = [i \in 1..n |-> IF i = 1 THEN rr[i] ELSE g[i - 1] \o rr[i]]
               /\ FlattenSeq(rr) = g[n]
  BY <1>1, FlattenSteps
<1> DEFINE T == {k \in Nat : k \in 1..n => f[k] = g[k]}
<1>5. 0 \in T OBVIOUS
<1>6. ASSUME NEW k \in Nat, k \in 1..n => f[k] = g[k], k + 1 \in 1..n PROVE f[k + 1] = g[k + 1]
  <2>1. k + 1 \in 1..n + 1 BY <1>6
  <2>2. CASE k = 0
    <3>0. 1 \in 1..n /\ 1 \in 1..n + 1 OBVIOUS
    <3>1. f[1] = ss[1] /\ g[1] = rr[1] /\ rr[1] = ss[1] BY <1>2, <1>3, <1>4, <3>0
    <3> QED BY <3>1, <2>2
  <2>3. CASE k # 0
    <3>0. k + 1 <= n /\ k >= 1 BY <1>6, <2>3
    <3>1. k \in 1..n /\ k + 1 # 1 /\ (k + 1) - 1 = k BY <3>0
    <3>2. f[k] = g[k] /\ rr[k + 1] = ss[k + 1] BY <1>3, <1>6, <3>1
    <3>3. f[k + 1] = f[k] \o ss[k + 1] BY <1>2, <2>1, <3>1
    <3>4. g[k + 1] = g[k] \o rr[k + 1] BY <1>4, <1>6, <3>1
    <3> QED BY <3>2, <3>3, <3>4
  <2> QED BY <2>2, <2>3
<1>7. ASSUME NEW k \in Nat, k \in T PROVE k + 1 \in T
  <2>1. k + 1 \in Nat /\ (k \in 1..n => f[k] = g[k]) BY <1>7
  <2>2. k + 1 \in 1..n => f[k + 1] = g[k + 1] BY <1>6, <2>1
  <2> QED BY <2>1, <2>2
<1> HIDE DEF T
<1>8. n \in T BY <1>5, <1>7, Induction
<1>9. f[n] = g[n] BY <1>8 DEF T
<1>10. n + 1 \in 1..n + 1 /\ n + 1 # 1 /\ (n + 1) - 1 = n OBVIOUS
<1>11. f[n + 1] = f[n] \o ss[n + 1] BY <1>2, <1>10
<1> QED BY <1>2, <1>4, <1>9, <1>11 DEF rr

(* The first m of the lists put together                                     *)
UpTo(ss, m) == FlattenSeq([i \in 1..m |-> ss[i]])

LEMMA UpToNothing == ASSUME NEW ss PROVE UpTo(ss, 0) = <<>>
<1> DEFINE e == [i \in 1..0 |-> ss[i]]
<1>1. e = <<>> OBVIOUS
<1>2. Len(e) = 0 BY <1>1, EmptyList
<1> HIDE DEF e
<1>3. FlattenSeq(e) = e BY <1>2 DEF FlattenSeq
<1> QED BY <1>1, <1>3 DEF UpTo, e

LEMMA UpToNext ==
    ASSUME NEW ss, NEW m \in Nat, IsList(ss[m + 1])
    PROVE  UpTo(ss, m + 1) = UpTo(ss, m) \o ss[m + 1]
<1>1. CASE m = 0
  <2> DEFINE t == [i \in 1..1 |-> ss[i]]
  <2>1. t = [i \in 1..1 |-> t[i]] /\ t[1] = ss[1] OBVIOUS
  <2> HIDE DEF t
  <2>2. 1 \in Nat \ {0} OBVIOUS
  <2>3. PICK f : /\ f = [i \in 1..1 |-> IF i = 1 THEN t[i] ELSE f[i - 1] \o t[i]]
                 /\ FlattenSeq(t) = f[1]
    BY <2>1, <2>2, FlattenSteps
  <2>4. FlattenSeq(t) = ss[1] BY <2>1, <2>3
  <2>5. UpTo(ss, 1) = ss[1] BY <2>4 DEF UpTo, t
  <2> DEFINE s == ss[1]
             u == <<>> \o s
  <2>6. IsList(s) BY <1>1
  <2> HIDE DEF s
  <2>7. /\ IsList(u) /\ Len(u) = 0 + Len(s) /\ Len(s) \in Nat
        /\ \A i \in 1..Len(s) : u[0 + i] = s[i]
    BY <2>6, EmptyList, Joined, ListFacts
  <2>8. Len(u) = Len(s) /\ \A i \in 1..Len(s) : u[i] = s[i] BY <2>7
  <2> HIDE DEF u
  <2>9. u = s BY <2>6, <2>7, <2>8, ListsEqual
  <2>10. m + 1 = 1 BY <1>1
  <2>11. UpTo(ss, m + 1) = ss[1] /\ UpTo(ss, m) = <<>> /\ ss[m + 1] = ss[1] BY <1>1, <2>5, <2>10, UpToNothing
  <2>12. <<>> \o ss[1] = ss[1] BY <2>9 DEF s, u
  <2> QED BY <2>11, <2>12
<1>2. CASE m # 0
  <2> DEFINE t == [i \in 1..m + 1 |-> ss[i]]
             r == [i \in 1..m |-> ss[i]]
  <2>1. t = [i \in 1..m + 1 |-> t[i]] /\ t[m + 1] = ss[m + 1] OBVIOUS
  <2>2. [i \in 1..m |-> t[i]] = r OBVIOUS
  <2> HIDE DEF t, r
  <2>3. m \in Nat \ {0} BY <1>2
  <2>4. FlattenSeq(t) = FlattenSeq([i \in 1..m |-> t[i]]) \o t[m + 1] BY <2>1, <2>3, FlattenGrows
  <2> QED BY <2>1, <2>2, <2>4 DEF UpTo, t, r
<1> QED BY <1>1, <1>2

LEMMA UpToList ==
    ASSUME NEW ss, NEW n \in Nat, \A i \in 1..n : IsList(ss[i])
    PROVE  \A m \in 0..n : IsList(UpTo(ss, m))
<1> DEFINE S == {m \in Nat : m \in 0..n => IsList(UpTo(ss, m))}
<1>1. 0 \in S BY UpToNothing, EmptyList
<1>2. ASSUME NEW m \in Nat, m \in S PROVE m + 1 \in S
  <2>1. CASE m + 1 \in 0..n
    <3>1. m \in 0..n /\ m + 1 \in 1..n BY <2>1
    <3>2. IsList(UpTo(ss, m)) BY <1>2, <3>1
    <3>3. IsList(ss[m + 1]) BY <3>1
    <3>4. UpTo(ss, m + 1) = UpTo(ss, m) \o ss[m + 1] BY <3>3, UpToNext
    <3> DEFINE p == UpTo(ss, m)
               q == ss[m + 1]
    <3> HIDE DEF p, q
    <3>5. IsList(p \o q) BY <3>2, <3>3, Joined DEF p, q
    <3>6. IsList(UpTo(ss, m + 1)) BY <3>4, <3>5 DEF p, q
    <3> QED BY <3>6
  <2> QED BY <2>1
<1> HIDE DEF S
<1>3. Nat \subseteq S BY <1>1, <1>2, Induction
<1> QED BY <1>3 DEF S

LEMMA FunctionList ==
    ASSUME NEW n \in Nat, NEW f, f = [i \in 1..n |-> f[i]]
    PROVE  IsList(f) /\ Len(f) = n
<1>1. f \in [1..n -> {f[i] : i \in 1..n}] BY Zenon
<1>2. f \in Seq({f[i] : i \in 1..n}) /\ Len(f) = n BY <1>1
<1> QED BY <1>2 DEF IsList

(* Lists of bounded lengths put together have at most the sum of the bounds. *)
LEMMA UpToLength ==
    ASSUME NEW ss, NEW n \in Nat, \A i \in 1..n : IsList(ss[i]),
           NEW f, f[0] = 0, \A i \in 0..n : f[i] \in Nat,
           \A i \in 1..n : f[i - 1] + Len(ss[i]) <= f[i]
    PROVE  \A m \in 0..n : Len(UpTo(ss, m)) <= f[m]
<1> DEFINE S == {m \in Nat : m \in 0..n => Len(UpTo(ss, m)) <= f[m]}
<1>1. 0 \in S BY UpToNothing, EmptyList
<1>2. ASSUME NEW m \in Nat, m \in S PROVE m + 1 \in S
  <2>1. CASE m + 1 \in 0..n
    <3>1. m \in 0..n /\ m + 1 \in 1..n /\ (m + 1) - 1 = m BY <2>1
    <3>2. Len(UpTo(ss, m)) <= f[m] /\ IsList(UpTo(ss, m)) BY <1>2, <3>1, UpToList
    <3>3. IsList(ss[m + 1]) BY <3>1
    <3>4. UpTo(ss, m + 1) = UpTo(ss, m) \o ss[m + 1] BY <3>3, UpToNext
    <3> DEFINE p == UpTo(ss, m)
               q == ss[m + 1]
               r == UpTo(ss, m + 1)
    <3> HIDE DEF p, q, r
    <3>5. Len(p \o q) = Len(p) + Len(q) /\ Len(p) \in Nat /\ Len(q) \in Nat
      BY <3>2, <3>3, Joined, ListFacts DEF p, q
    <3>6. Len(r) = Len(p) + Len(q) BY <3>4, <3>5 DEF p, q, r
    <3>7. f[m] + Len(q) <= f[m + 1] /\ f[m] \in Nat /\ f[m + 1] \in Nat BY <2>1, <3>1 DEF q
    <3>8. Len(p) <= f[m] BY <3>2 DEF p
    <3>9. Len(r) <= f[m + 1] BY <3>5, <3>6, <3>7, <3>8
    <3> QED BY <3>9 DEF r
  <2> QED BY <2>1
<1> HIDE DEF S
<1>3. Nat \subseteq S BY <1>1, <1>2, Induction
<1> QED BY <1>3 DEF S

(* Sums                                                                      *)
SumsTo(f, v, n) == f = [b \in 0..n |-> IF b = 0 THEN 0 ELSE f[b - 1] + v[b]]

LEMMA SumsExist ==
    ASSUME NEW v, NEW n \in Nat
    PROVE  \E f : SumsTo(f, v, n)
<1> DEFINE F(m) == \E f : SumsTo(f, v, m)
           S == {m \in Nat : F(m)}
<1>1. 0 \in S
  <2> DEFINE e == [b \in 0..0 |-> 0]
  <2>1. ASSUME NEW b \in 0..0 PROVE e[b] = IF b = 0 THEN 0 ELSE e[b - 1] + v[b] OBVIOUS
  <2>2. e = [b \in 0..0 |-> e[b]] OBVIOUS
  <2> HIDE DEF e
  <2>3. SumsTo(e, v, 0) BY <2>1, <2>2 DEF SumsTo
  <2> QED BY <2>3
<1>2. ASSUME NEW m \in Nat, m \in S PROVE m + 1 \in S
  <2>1. PICK f : f = [b \in 0..m |-> IF b = 0 THEN 0 ELSE f[b - 1] + v[b]] BY <1>2 DEF SumsTo
  <2> DEFINE g == [b \in 0..m + 1 |-> IF b = m + 1 THEN f[m] + v[m + 1] ELSE f[b]]
  <2>2. ASSUME NEW b \in 0..m + 1 PROVE g[b] = IF b = 0 THEN 0 ELSE g[b - 1] + v[b]
    <3>1. CASE b = m + 1
      <4>1. b # 0 /\ b - 1 = m /\ m \in 0..m + 1 /\ m # m + 1 BY <3>1
      <4>2. g[m] = f[m] BY <4>1
      <4>3. g[b] = f[m] + v[b] BY <3>1
      <4> HIDE DEF g
      <4> QED BY <4>1, <4>2, <4>3
    <3>2. CASE b # m + 1
      <4>1. b \in 0..m BY <3>2
      <4>2. f[b] = IF b = 0 THEN 0 ELSE f[b - 1] + v[b] BY <2>1, <4>1
      <4>3. g[b] = f[b] BY <3>2, <4>1
      <4>4. b # 0 => b - 1 \in 0..m + 1 /\ b - 1 # m + 1 BY <4>1
      <4>5. b # 0 => g[b - 1] = f[b - 1] BY <4>4
      <4> HIDE DEF g
      <4> QED BY <4>2, <4>3, <4>5
    <3> QED BY <3>1, <3>2
  <2>3. g = [b \in 0..m + 1 |-> g[b]] OBVIOUS
  <2> HIDE DEF g
  <2>4. SumsTo(g, v, m + 1) BY <2>2, <2>3 DEF SumsTo
  <2>5. F(m + 1) BY <2>4
  <2> HIDE DEF F
  <2>6. m + 1 \in Nat OBVIOUS
  <2> QED BY <2>5, <2>6
<1>3. \A m \in Nat : m \in S => m + 1 \in S BY <1>2
<1> HIDE DEF S
<1>4. n \in S BY <1>1, <1>3, Induction
<1>5. F(n) BY <1>4 DEF S
<1> QED BY <1>5

LEMMA SumsAre ==
    ASSUME NEW n \in Nat, NEW v, \A i \in 1..n : v[i] \in Nat, NEW f, SumsTo(f, v, n)
    PROVE  /\ f[0] = 0
           /\ \A i \in 1..n : f[i] = f[i - 1] + v[i]
           /\ \A i \in 0..n : f[i] \in Nat
<1>1. f[0] = 0 /\ \A i \in 1..n : f[i] = f[i - 1] + v[i]
  <2>1. 0 \in 0..n /\ \A i \in 1..n : i \in 0..n /\ i # 0 OBVIOUS
  <2> QED BY <2>1 DEF SumsTo
<1> DEFINE S == {m \in Nat : m \in 0..n => f[m] \in Nat}
<1>2. 0 \in S BY <1>1
<1>3. ASSUME NEW m \in Nat, m \in S PROVE m + 1 \in S
  <2>1. CASE m + 1 \in 0..n
    <3>1. m \in 0..n /\ m + 1 \in 1..n /\ (m + 1) - 1 = m BY <2>1
    <3>2. f[m] \in Nat /\ v[m + 1] \in Nat /\ f[m + 1] = f[m] + v[m + 1] BY <1>1, <1>3, <3>1
    <3> QED BY <3>2
  <2> QED BY <2>1
<1> HIDE DEF S
<1>4. Nat \subseteq S BY <1>2, <1>3, Induction
<1> QED BY <1>1, <1>4 DEF S

-----------------------------------------------------------------------------
(* The lengths of what is laid out                                           *)

LEMMA TerminatorList ==
    ASSUME NEW b, NEW following
    PROVE  /\ IsList(Terminator(b, following))
           /\ Len(Terminator(b, following)) <= 2 /\ Len(Terminator(b, following)) \in Nat
           /\ blocks[b].term \in {"unterminated", "terminated"} => Len(Terminator(b, following)) = 0
           /\ blocks[b].term \in {"return_", "panic", "jump"} => Len(Terminator(b, following)) <= 1
<1> DEFINE next == blocks[b].next
           ways == WaysToBranch(blocks[b].term)
           t == Terminator(b, following)
<1>1. CASE blocks[b].term \in {"unterminated", "terminated"}
  <2>1. t = <<>> BY <1>1 DEF Terminator
  <2> HIDE DEF t
  <2>2. IsList(t) /\ Len(t) = 0 BY <2>1, EmptyList
  <2> QED BY <1>1, <2>2 DEF t
<1>2. CASE blocks[b].term \in {"return_", "panic", "jump"}
  <2>1. \/ t = <<>>
        \/ t = WithValue("return_free", Len(locals))
        \/ t = None("return_")
        \/ t = None("panic")
        \/ t = JumpTo("jump", next[1])
    BY <1>2, Zenon DEF Terminator, Return
  <2> HIDE DEF t, next
  <2>2. /\ IsList(WithValue("return_free", Len(locals))) /\ Len(WithValue("return_free", Len(locals))) = 1
    BY OneList DEF WithValue
  <2>3. \A op : IsList(None(op)) /\ Len(None(op)) = 1 BY OneList DEF None
  <2>4. IsList(JumpTo("jump", next[1])) /\ Len(JumpTo("jump", next[1])) = 1 BY OneList DEF JumpTo
  <2>5. IsList(t) /\ Len(t) \in {0, 1} BY <2>1, <2>2, <2>3, <2>4, EmptyList
  <2>6. IsList(t) /\ Len(t) <= 1 /\ Len(t) \in Nat /\ Len(t) <= 2 BY <2>5
  <2> HIDE DEF t
  <2>7. ~(blocks[b].term \in {"unterminated", "terminated"}) BY <1>2
  <2> QED BY <2>6, <2>7 DEF t
<1>3. CASE blocks[b].term \notin {"unterminated", "terminated", "return_", "panic", "jump"}
  <2>1. \/ t = JumpTo(ways[2], next[2])
        \/ t = JumpTo(ways[1], next[1])
        \/ t = JumpTo(ways[2], next[2]) \o JumpTo("jump", next[1])
    BY <1>3 DEF Terminator
  <2> HIDE DEF t, next, ways
  <2>2. /\ IsList(JumpTo(ways[2], next[2])) /\ Len(JumpTo(ways[2], next[2])) = 1
        /\ IsList(JumpTo(ways[1], next[1])) /\ Len(JumpTo(ways[1], next[1])) = 1
        /\ IsList(JumpTo("jump", next[1])) /\ Len(JumpTo("jump", next[1])) = 1
    BY OneList DEF JumpTo
  <2>3. PICK x, y, z : x = JumpTo(ways[2], next[2]) /\ y = JumpTo(ways[1], next[1]) /\ z = JumpTo("jump", next[1])
    OBVIOUS
  <2>4. IsList(x) /\ Len(x) = 1 /\ IsList(y) /\ Len(y) = 1 /\ IsList(z) /\ Len(z) = 1 BY <2>2, <2>3
  <2>5. IsList(x \o z) /\ Len(x \o z) = Len(x) + Len(z) BY <2>4, Joined
  <2>6. IsList(t) /\ Len(t) <= 2 /\ Len(t) \in Nat
    <3>1. CASE t = x
      <4>1. IsList(t) /\ Len(t) = 1 BY <2>4, <3>1, Zenon
      <4> QED BY <4>1
    <3>2. CASE t = y BY <2>4, <3>2
    <3>3. CASE t = x \o z BY <2>4, <2>5, <3>3
    <3> QED BY <2>1, <2>3, <3>1, <3>2, <3>3
  <2>7. /\ ~(blocks[b].term \in {"unterminated", "terminated"})
        /\ ~(blocks[b].term \in {"return_", "panic", "jump"})
    BY <1>3
  <2> QED BY <2>6, <2>7 DEF t
<1> QED BY <1>1, <1>2, <1>3

LEMMA EmitBlockList ==
    ASSUME BlocksInv, NEW b \in 1..Len(blocks)
    PROVE  /\ IsList(EmitBlock(b))
           /\ b \in Reachable =>
                 /\ Len(EmitBlock(b)) = 1 + Len(blocks[b].insts) + Len(Terminator(b, Following(b)))
                 /\ EmitBlock(b)[1] = [op |-> "block", in |-> blocks[b].inputs, out |-> Len(blocks[b].vstack)]
                 /\ \A k \in 1..Len(blocks[b].insts) : EmitBlock(b)[1 + k] = blocks[b].insts[k]
                 /\ \A k \in 1..Len(Terminator(b, Following(b))) :
                       EmitBlock(b)[1 + Len(blocks[b].insts) + k] = Terminator(b, Following(b))[k]
           /\ b \notin Reachable => EmitBlock(b) = <<>>
<1>1. IsList(blocks[b].insts) /\ Len(blocks[b].insts) \in Nat
  <2>1. IsBlock(blocks[b]) BY DEF BlocksInv, GoodBlocks, GoodBlock
  <2> QED BY <2>1, BlockFields
<1> DEFINE h == [op |-> "block", in |-> blocks[b].inputs, out |-> Len(blocks[b].vstack)]
           i == blocks[b].insts
           t == Terminator(b, Following(b))
           hi == <<h>> \o i
           e == hi \o t
<1>2. IsList(t) /\ Len(t) \in Nat BY TerminatorList
<1>3. b \in Reachable => EmitBlock(b) = e BY Zenon DEF EmitBlock, WithSig
<1>4. b \notin Reachable => EmitBlock(b) = <<>> BY Zenon DEF EmitBlock
<1> HIDE DEF h, i, t
<1>5. IsList(<<h>>) /\ Len(<<h>>) = 1 /\ <<h>>[1] = h BY OneList
<1>6. IsList(i) /\ Len(i) \in Nat BY <1>1 DEF i
<1>7. IsList(hi) /\ Len(hi) = 1 + Len(i) /\ hi[1] = h /\ \A k \in 1..Len(i) : hi[1 + k] = i[k]
  <2>1. 1 \in 1..1 OBVIOUS
  <2> QED BY <1>5, <1>6, <2>1, Joined
<1> HIDE DEF hi
<1>8. /\ IsList(e) /\ Len(e) = 1 + Len(i) + Len(t)
      /\ \A k \in 1..1 + Len(i) : e[k] = hi[k]
      /\ \A k \in 1..Len(t) : e[1 + Len(i) + k] = t[k]
  BY <1>2, <1>7, Joined
<1> HIDE DEF e
<1>9. e[1] = h /\ \A k \in 1..Len(i) : e[1 + k] = i[k]
  <2>1. 1 \in 1..1 + Len(i) /\ \A k \in 1..Len(i) : 1 + k \in 1..1 + Len(i) BY <1>6
  <2> QED BY <1>7, <1>8, <2>1
<1> DEFINE x == EmitBlock(b)
<1> HIDE DEF x
<1>10. b \in Reachable => x = e BY <1>3 DEF x
<1>11. b \notin Reachable => x = <<>> BY <1>4 DEF x
<1>12. IsList(x) BY <1>8, <1>10, <1>11, EmptyList
<1> QED BY <1>8, <1>9, <1>10, <1>11, <1>12 DEF x, h, i, t

Alloc(l)   == [op |-> IF l.align = PtrSize THEN "local_alloc" ELSE "local_alloc_aligned",
               size |-> l.size, align |-> l.align]
Storage(l) == IF SpaceOf(l) = 0 THEN <<>> ELSE WithValue("local_storage", SpaceOf(l))

LEMMA StorageList == ASSUME NEW l PROVE IsList(Storage(l)) /\ Len(Storage(l)) \in {0, 1}
<1>1. Storage(l) = <<>> \/ Storage(l) = WithValue("local_storage", SpaceOf(l)) BY DEF Storage
<1>2. IsList(WithValue("local_storage", SpaceOf(l))) /\ Len(WithValue("local_storage", SpaceOf(l))) = 1
  BY OneList DEF WithValue
<1> QED BY <1>1, <1>2, EmptyList

LEMMA PrologueList ==
    ASSUME IsList(locals)
    PROVE  IsList(Prologue) /\ Len(Prologue) \in Nat /\ Len(Prologue) <= 1 + Len(locals)
<1> DEFINE n == Len(locals)
<1>1. n \in Nat BY ListFacts
<1>2. CASE localAddrs > 0
  <2> DEFINE a == WithValue("setup_local_alloc", n)
             f == [l \in 1..n |-> Alloc(locals[l])]
  <2>1. Prologue = a \o f BY <1>2 DEF Prologue, Alloc
  <2>2. IsList(a) /\ Len(a) = 1 BY OneList DEF WithValue
  <2>3. f = [l \in 1..n |-> f[l]] OBVIOUS
  <2> HIDE DEF a, f
  <2>4. IsList(f) /\ Len(f) = n
    <3> HIDE DEF n
    <3> QED BY <1>1, <2>3, FunctionList
  <2>5. IsList(a \o f) /\ Len(a \o f) = Len(a) + Len(f) BY <2>2, <2>4, Joined
  <2>6. IsList(Prologue) /\ Len(Prologue) = 1 + n BY <2>1, <2>2, <2>4, <2>5
  <2> QED BY <1>1, <2>6
<1>3. CASE ~(localAddrs > 0)
  <2> DEFINE ss == [l \in 1..n |-> Storage(locals[l])]
             f  == [l \in 0..n |-> l]
  <2>1. Prologue = FlattenSeq(ss) BY <1>3 DEF Prologue, Storage
  <2>2. [i \in 1..n |-> ss[i]] = ss OBVIOUS
  <2>3. ASSUME NEW i \in 1..n PROVE IsList(ss[i]) /\ Len(ss[i]) \in {0, 1}
    BY StorageList
  <2> HIDE DEF ss
  <2>4. FlattenSeq(ss) = UpTo(ss, n) BY <2>2 DEF UpTo
  <2>5. /\ f[0] = 0 /\ \A i \in 0..n : f[i] \in Nat /\ f[i] = i
        /\ \A i \in 1..n : f[i - 1] = i - 1 /\ f[i] = i
    BY <1>1
  <2> HIDE DEF f, n
  <2>6. ASSUME NEW i \in 1..n PROVE f[i - 1] + Len(ss[i]) <= f[i]
    <3>1. f[i - 1] = i - 1 /\ f[i] = i BY <2>5
    <3>2. Len(ss[i]) \in {0, 1} BY <2>3
    <3> DEFINE z == Len(ss[i])
    <3> HIDE DEF z
    <3>3. z \in {0, 1} BY <3>2 DEF z
    <3>4. (i - 1) + z <= i BY <1>1, <3>3
    <3> QED BY <3>1, <3>4 DEF z
  <2>7. \A m \in 0..n : Len(UpTo(ss, m)) <= f[m] BY <1>1, <2>3, <2>5, <2>6, UpToLength
  <2>8. \A m \in 0..n : IsList(UpTo(ss, m)) BY <1>1, <2>3, UpToList
  <2>9. n \in 0..n BY <1>1
  <2>10. IsList(Prologue) /\ Len(Prologue) <= n BY <2>1, <2>4, <2>5, <2>7, <2>8, <2>9
  <2>11. Len(Prologue) \in Nat BY <2>10, ListFacts
  <2> QED BY <1>1, <2>10, <2>11 DEF n
<1> QED BY <1>2, <1>3

(* The code of the blocks                                                    *)
Emitted_blocks == [b \in 1..Len(blocks) |-> EmitBlock(b)]

LEMMA EmitBodyIs ==
    ASSUME BlocksInv, NEW m \in 0..Len(blocks)
    PROVE  /\ EmitBody(m) = Prologue \o UpTo(Emitted_blocks, m)
           /\ IsList(UpTo(Emitted_blocks, m))
           /\ IsList(EmitBody(m))
           /\ Len(EmitBody(m)) = Len(Prologue) + Len(UpTo(Emitted_blocks, m))
<1>1. IsList(blocks) /\ Len(blocks) \in Nat /\ IsList(locals) BY ListFacts DEF BlocksInv, GoodBlocks
<1> DEFINE n == Len(blocks)
           ss == Emitted_blocks
<1>2. \A i \in 1..n : IsList(ss[i])
  <2> SUFFICES ASSUME NEW i \in 1..n PROVE IsList(ss[i])
    OBVIOUS
  <2>1. ss[i] = EmitBlock(i) BY DEF Emitted_blocks
  <2> QED BY <2>1, EmitBlockList
<1>3. [b \in 1..m |-> EmitBlock(b)] = [b \in 1..m |-> ss[b]]
  <2>1. \A b \in 1..m : b \in 1..n BY <1>1
  <2> QED BY <2>1 DEF Emitted_blocks
<1>4. EmitBody(m) = Prologue \o UpTo(ss, m) BY <1>3 DEF EmitBody, UpTo
<1> HIDE DEF ss, n
<1>5. IsList(UpTo(ss, m)) BY <1>1, <1>2, UpToList DEF n
<1>6. IsList(Prologue) BY <1>1, PrologueList
<1> DEFINE p == Prologue
           q == UpTo(ss, m)
<1> HIDE DEF p, q
<1>7. IsList(p \o q) /\ Len(p \o q) = Len(p) + Len(q) BY <1>5, <1>6, Joined DEF p, q
<1> QED BY <1>4, <1>5, <1>7 DEF p, q, ss

(* For how many instructions a block is allocated memory                     *)
CountOf(b) ==
    LET block == blocks[b]
        own   == IF block.insts = <<>> THEN 0 ELSE 1 + Len(block.insts)
        jumps == CASE block.term \in {"return_", "panic", "jump"} -> 1
                   [] block.term = "terminated" -> 0
                   [] OTHER -> 2
    IN  own + 2 + jumps

Counts == [b \in 1..Len(blocks) |-> IF b \in Reachable THEN CountOf(b) ELSE 0]

EstimateIs(f) ==
    /\ SumsTo(f, Counts, Len(blocks))
    /\ EstimateInstCount
         = 1 + Len(locals) + (IF Len(blocks) = 1 THEN 1 + Len(blocks[1].insts) + 2 ELSE f[Len(blocks)])

LEMMA Estimated ==
    ASSUME BlocksInv
    PROVE  \E f : EstimateIs(f)
<1> DEFINE n == Len(blocks)
           R == Reachable
           T(f) == f = [b \in 0..n |-> IF b = 0 THEN 0 ELSE f[b - 1] + (IF b \in R THEN CountOf(b) ELSE 0)]
           f == CHOOSE f : T(f)
<1>1. n \in Nat BY ListFacts DEF BlocksInv, GoodBlocks
<1>2. EstimateInstCount = 1 + Len(locals) + (IF n = 1 THEN 1 + Len(blocks[1].insts) + 2 ELSE f[n])
  BY Zenon DEF EstimateInstCount, CountOf
<1> HIDE DEF n, R
<1>3. \A b \in 1..n : Counts[b] = IF b \in R THEN CountOf(b) ELSE 0 BY DEF Counts, n, R
<1>4. \A g : SumsTo(g, Counts, n) <=> T(g)
  <2> SUFFICES ASSUME NEW g
               PROVE  [b \in 0..n |-> IF b = 0 THEN 0 ELSE g[b - 1] + Counts[b]]
                        = [b \in 0..n |-> IF b = 0 THEN 0 ELSE g[b - 1] + (IF b \in R THEN CountOf(b) ELSE 0)]
    BY DEF SumsTo
  <2>1. \A b \in 0..n : b # 0 => b \in 1..n BY <1>1
  <2> QED BY <1>3, <2>1
<1>5. \E g : SumsTo(g, Counts, n) BY <1>1, SumsExist
<1>6. \E g : T(g) BY <1>4, <1>5
<1> HIDE DEF T
<1>7. T(f) BY <1>6, Zenon
<1> HIDE DEF f
<1>8. SumsTo(f, Counts, n) BY <1>4, <1>7
<1>9. EstimateIs(f) BY <1>2, <1>8 DEF EstimateIs, n
<1> QED BY <1>9

(* A block that can be reached is not longer than what it is allocated, and  *)
(* one that cannot takes nothing.                                            *)
LEMMA BlockIsCounted ==
    ASSUME BlocksInv, NEW b \in 1..Len(blocks)
    PROVE  /\ CountOf(b) \in Nat
           /\ Len(EmitBlock(b)) \in Nat
           /\ b \in Reachable => Len(EmitBlock(b)) <= CountOf(b)
           /\ b \notin Reachable => Len(EmitBlock(b)) = 0
           /\ Len(EmitBlock(b)) <= 1 + Len(blocks[b].insts) + 2
<1> DEFINE insts == blocks[b].insts
           term  == blocks[b].term
           t     == Len(Terminator(b, Following(b)))
           e     == EmitBlock(b)
           own   == IF insts = <<>> THEN 0 ELSE 1 + Len(insts)
           jumps == CASE term \in {"return_", "panic", "jump"} -> 1
                      [] term = "terminated" -> 0
                      [] OTHER -> 2
<1>1. IsList(insts) /\ Len(insts) \in Nat
  <2>1. IsBlock(blocks[b]) BY DEF BlocksInv, GoodBlocks, GoodBlock
  <2> QED BY <2>1, BlockFields
<1>2. /\ t \in Nat /\ t <= 2
      /\ term \in {"unterminated", "terminated"} => t = 0
      /\ term \in {"return_", "panic", "jump"} => t <= 1
  BY TerminatorList
<1>3. CountOf(b) = own + 2 + jumps BY DEF CountOf
<1>4. IsList(e) /\ (b \in Reachable => Len(e) = 1 + Len(insts) + t) /\ (b \notin Reachable => e = <<>>)
  BY EmitBlockList
<1>5. jumps \in 0..2 /\ t <= jumps
  <2>1. CASE term \in {"return_", "panic", "jump"} BY <1>2, <2>1
  <2>2. CASE term = "terminated" BY <1>2, <2>2
  <2>3. CASE term \notin {"return_", "panic", "jump", "terminated"} BY <1>2, <2>3
  <2> QED BY <2>1, <2>2, <2>3
<1> HIDE DEF t, e, jumps, insts
<1>6. own \in Nat /\ 1 + Len(insts) <= own + 2
  <2>1. CASE insts = <<>> BY <2>1, EmptyList
  <2>2. CASE insts # <<>> BY <1>1, <2>2
  <2> QED BY <2>1, <2>2
<1> HIDE DEF own
<1>7. CountOf(b) \in Nat BY <1>3, <1>5, <1>6
<1>8. CASE b \in Reachable
  <2>1. Len(e) = 1 + Len(insts) + t BY <1>4, <1>8
  <2>2. Len(e) \in Nat /\ Len(e) <= CountOf(b) /\ Len(e) <= 1 + Len(insts) + 2
    BY <1>1, <1>2, <1>3, <1>5, <1>6, <2>1
  <2> QED BY <1>7, <1>8, <2>2 DEF e, insts
<1>9. CASE b \notin Reachable
  <2>1. Len(e) = 0 BY <1>4, <1>9, EmptyList
  <2>2. Len(e) <= 1 + Len(insts) + 2 /\ Len(e) \in Nat BY <1>1, <2>1
  <2> QED BY <1>7, <1>9, <2>1, <2>2 DEF e, insts
<1> QED BY <1>8, <1>9

(* What the blocks are laid out to fits what is allocated.                   *)
LEMMA BodyFits ==
    ASSUME BlocksInv
    PROVE  Len(EmitBody(Len(blocks))) <= EstimateInstCount
<1> DEFINE n == Len(blocks)
           ss == Emitted_blocks
           u == Len(UpTo(ss, n))
           p == Len(Prologue)
<1>1. IsList(blocks) /\ n \in Nat \ {0} /\ IsList(locals) /\ Len(locals) \in Nat
  BY ListFacts DEF BlocksInv, GoodBlocks
<1>2. n \in 0..n /\ p \in Nat /\ p <= 1 + Len(locals) BY <1>1, PrologueList
<1>3. Len(EmitBody(n)) = p + u /\ u \in Nat
  <2>1. IsList(UpTo(ss, n)) /\ Len(EmitBody(n)) = p + u BY <1>2, EmitBodyIs
  <2> QED BY <2>1, ListFacts
<1>4. PICK f : EstimateIs(f) BY Estimated
<1>5. \A i \in 1..n : IsList(ss[i]) /\ ss[i] = EmitBlock(i) BY EmitBlockList DEF Emitted_blocks
<1>6. CASE n = 1
  <2>1. EstimateInstCount = 1 + Len(locals) + (1 + Len(blocks[1].insts) + 2) BY <1>4, <1>6 DEF EstimateIs
  <2>2. 1 \in 1..n BY <1>6
  <2>3. Len(EmitBlock(1)) \in Nat /\ Len(EmitBlock(1)) <= 1 + Len(blocks[1].insts) + 2 BY <2>2, BlockIsCounted
  <2>4. Len(blocks[1].insts) \in Nat
    <3>1. IsBlock(blocks[1]) BY <2>2 DEF BlocksInv, GoodBlocks, GoodBlock
    <3> QED BY <3>1, BlockFields
  <2>5. 0 \in Nat /\ 0 + 1 = 1 /\ IsList(ss[1]) /\ ss[1] = EmitBlock(1) BY <1>5, <2>2
  <2>6. UpTo(ss, 1) = UpTo(ss, 0) \o ss[1] BY <2>5, UpToNext
  <2> DEFINE e == ss[1]
  <2>7. UpTo(ss, 1) = <<>> \o e BY <2>6, UpToNothing
  <2>8. IsList(e) /\ Len(e) = Len(EmitBlock(1)) BY <2>5
  <2> HIDE DEF e, ss
  <2>9. Len(<<>> \o e) = 0 + Len(e) BY <2>8, EmptyList, Joined
  <2>10. u = Len(EmitBlock(1)) BY <1>6, <2>3, <2>7, <2>8, <2>9
  <2> DEFINE w == Len(EmitBlock(1))
             i == Len(blocks[1].insts)
             l == Len(locals)
             x == EstimateInstCount
  <2> HIDE DEF u, p, w, i, l, x
  <2>11. p \in Nat /\ p <= 1 + l /\ l \in Nat BY <1>1, <1>2 DEF l
  <2>12. x = 1 + l + (1 + i + 2) /\ i \in Nat BY <2>1, <2>4 DEF l, i, x
  <2>13. u = w /\ w \in Nat /\ w <= 1 + i + 2 BY <2>3, <2>10 DEF w, i
  <2>14. p + u <= x BY <2>11, <2>12, <2>13
  <2>15. Len(EmitBody(n)) <= x BY <1>3, <2>14
  <2> QED BY <2>15 DEF x
<1>7. CASE n # 1
  <2>1. EstimateInstCount = 1 + Len(locals) + f[n] /\ SumsTo(f, Counts, n) BY <1>4, <1>7 DEF EstimateIs
  <2> DEFINE v == Counts
  <2>2. \A i \in 1..n : v[i] \in Nat /\ Len(ss[i]) \in Nat /\ Len(ss[i]) <= v[i]
    <3> SUFFICES ASSUME NEW i \in 1..n PROVE v[i] \in Nat /\ Len(ss[i]) \in Nat /\ Len(ss[i]) <= v[i]
      OBVIOUS
    <3>1. v[i] = IF i \in Reachable THEN CountOf(i) ELSE 0 BY DEF Counts
    <3>2. /\ CountOf(i) \in Nat /\ Len(EmitBlock(i)) \in Nat
          /\ i \in Reachable => Len(EmitBlock(i)) <= CountOf(i)
          /\ i \notin Reachable => Len(EmitBlock(i)) = 0
      BY BlockIsCounted
    <3>3. ss[i] = EmitBlock(i) BY <1>5
    <3> HIDE DEF v, ss
    <3> QED BY <3>1, <3>2, <3>3
  <2> HIDE DEF v, ss
  <2>3. n \in Nat /\ SumsTo(f, v, n) /\ (\A i \in 1..n : v[i] \in Nat) BY <1>1, <2>1, <2>2 DEF v
  <2> HIDE DEF n
  <2>4. /\ f[0] = 0
        /\ \A i \in 1..n : f[i] = f[i - 1] + v[i]
        /\ \A i \in 0..n : f[i] \in Nat
    BY <2>3, SumsAre
  <2>5. ASSUME NEW i \in 1..n PROVE f[i - 1] + Len(ss[i]) <= f[i]
    <3>1. i - 1 \in 0..n BY <2>3
    <3>2. f[i - 1] \in Nat /\ f[i] = f[i - 1] + v[i] BY <2>4, <3>1
    <3>3. v[i] \in Nat /\ Len(ss[i]) \in Nat /\ Len(ss[i]) <= v[i] BY <2>2
    <3> QED BY <3>2, <3>3
  <2>6. \A m \in 0..n : Len(UpTo(ss, m)) <= f[m] BY <1>5, <2>3, <2>4, <2>5, UpToLength
  <2>7. u <= f[n] /\ f[n] \in Nat BY <1>2, <2>4, <2>6
  <2> HIDE DEF u, p
  <2>8. p + u <= EstimateInstCount BY <1>1, <1>2, <1>3, <2>1, <2>7
  <2> QED BY <1>3, <2>8 DEF n
<1> QED BY <1>6, <1>7

LEMMA PatchedLength ==
    ASSUME NEW code, NEW offset, Len(code) \in Nat
    PROVE  Len(Patched(code, offset)) = Len(code)
<1> DEFINE n == Len(code)
           f == Patched(code, offset)
<1>1. f = [p \in 1..n |-> f[p]] BY DEF Patched
<1>2. n \in Nat OBVIOUS
<1> HIDE DEF n, f
<1>3. Len(f) = n BY <1>1, <1>2, FunctionList
<1> QED BY <1>3 DEF n, f

LEMMA FinishedFits ==
    ASSUME BlocksInv
    PROVE  Len(Body.insts) <= Body.allocated
<1> DEFINE n == Len(blocks)
           offset == [b \in 1..n |-> Len(EmitBody(b - 1))]
           code == EmitBody(n)
<1>1. n \in 0..n BY ListFacts DEF BlocksInv, GoodBlocks
<1>2. IsList(code) BY <1>1, EmitBodyIs
<1>3. Len(code) <= EstimateInstCount BY BodyFits
<1>4. Body.insts = Patched(code, offset) /\ Body.allocated = EstimateInstCount BY DEF Body
<1> HIDE DEF code, offset
<1>5. Len(Patched(code, offset)) = Len(code) BY <1>2, ListFacts, PatchedLength
<1> QED BY <1>3, <1>4, <1>5

(* Every request but the last is made before the body is finished.           *)
Unfinished == body' = NoBody

LEMMA RequestsBefore ==
    ASSUME NEW op, NEW o
    PROVE  /\ o \in Requests(op) => body = NoBody
           /\ o \in Asked(op) => body = NoBody
<1>1. o \in Requests(op) => body = NoBody BY Zenon DEF Requests
<1> QED BY <1>1, Zenon DEF Asked

LEMMA BuildsUnfinished ==
    ASSUME body = NoBody, NEW o, NEW c, NEW term, NEW next, Builds(o, c) \/ Terminates(o, c, term, next)
    PROVE  Unfinished
<1>1. body' = body BY DEF Builds, Terminates, Asks
<1> QED BY <1>1 DEF Unfinished

LEMMA BodyNext == ASSUME Next PROVE Unfinished \/ Finish
<1>1. CASE Uint \/ Sint \/ AddNull \/ Layout \/ GlobalAddr \/ TakeLocalAddr \/ FunctionAddr
  <2>1. \E op, o, c : o \in Asked(op) /\ Builds(o, c)
    BY <1>1, Zenon DEF Uint, Sint, AddNull, Layout, GlobalAddr, TakeLocalAddr, FunctionAddr
  <2> QED BY <2>1, RequestsBefore, BuildsUnfinished, Zenon
<1>2. CASE Cc \/ Pop \/ Pick \/ Roll \/ Select \/ ArrayElement \/ AggregateMember \/ LoadField \/ StoreField
  <2>1. \E op, o, c : o \in Asked(op) /\ Builds(o, c)
    BY <1>2, Zenon DEF Cc, Pop, Pick, Roll, Select, ArrayElement, AggregateMember, LoadField, StoreField
  <2> QED BY <2>1, RequestsBefore, BuildsUnfinished, Zenon
<1>3. CASE Call \/ CallIndirectly \/ PanicIf \/ FiberSuspend
  <2>1. \E op, o, c : o \in Asked(op) /\ Builds(o, c)
    BY <1>3, Zenon DEF Call, CallIndirectly, PanicIf, FiberSuspend
  <2> QED BY <2>1, RequestsBefore, BuildsUnfinished, Zenon
<1>4. CASE FiberSwitch
  <2>1. \E o \in Asked("fiber_resume") \cup Asked("fiber_transfer") : \E c : Builds(o, c)
    BY <1>4, Zenon DEF FiberSwitch
  <2>2. \E op, o, c : o \in Asked(op) /\ Builds(o, c) BY <2>1, Zenon
  <2> QED BY <2>2, RequestsBefore, BuildsUnfinished, Zenon
<1>5. CASE CallABuiltin \/ FunctionReturn \/ Jump \/ FunctionPanic
  <2>1. \E op, o, c, term, next : o \in Asked(op) /\ (Builds(o, c) \/ Terminates(o, c, term, next))
    BY <1>5, Zenon DEF CallABuiltin, FunctionReturn, Jump, FunctionPanic
  <2> QED BY <2>1, RequestsBefore, BuildsUnfinished, Zenon
<1>6. CASE ABranch
  <2>1. \E op, o, c, term, next : o \in Asked(op) /\ (Builds(o, c) \/ Terminates(o, c, term, next))
    BY <1>6, Zenon DEF ABranch
  <2> QED BY <2>1, RequestsBefore, BuildsUnfinished, Zenon
<1>7. CASE Value \/ DebugLocation
  <2>1. \E op, o : o \in Asked(op) /\ body' = body
    BY <1>7, Zenon DEF Value, DebugLocation, Asks
  <2> QED BY <2>1, RequestsBefore, Zenon DEF Unfinished
<1>8. CASE BuildLocal \/ DeclareBlock \/ BuildBlock
  <2>1. \E op, o : o \in Requests(op) /\ body' = body
    BY <1>8, Zenon DEF BuildLocal, DeclareBlock, BuildBlock
  <2> QED BY <2>1, RequestsBefore, Zenon DEF Unfinished
<1>9. CASE Dropped BY <1>9 DEF Dropped, Unfinished
<1>10. CASE Reset BY <1>10 DEF Reset, Unfinished
<1> QED BY <1>1, <1>2, <1>3, <1>4, <1>5, <1>6, <1>7, <1>8, <1>9, <1>10, Zenon DEF Next

(* The instructions of a finished function fit the memory that               *)
(* estimate_inst_count, which does not know yet which jumps are left out or  *)
(* doubled, made room for.                                                   *)
THEOREM Estimate_Enough == Spec => []EstimateIsEnough
<1> DEFINE Inv == BlocksInv /\ EstimateIsEnough
<1>1. Init => Inv
  <2>1. Init => EstimateIsEnough BY DEF Init, EstimateIsEnough, Finished
  <2> QED BY <2>1, BlocksInit
<1>2. Inv /\ [Next]_vars => Inv'
  <2> SUFFICES ASSUME BlocksInv, EstimateIsEnough, [Next]_vars PROVE EstimateIsEnough'
    BY BlocksNext
  <2>1. CASE UNCHANGED vars BY <2>1 DEF vars, EstimateIsEnough, Finished
  <2>2. CASE Unfinished BY <2>2 DEF EstimateIsEnough, Finished, Unfinished
  <2>3. CASE Finish
    <3>1. body' = Body BY <2>3 DEF Finish
    <3>2. Len(Body.insts) <= Body.allocated BY FinishedFits
    <3> DEFINE x == Body
    <3>3. body' = x /\ Len(x.insts) <= x.allocated BY <3>1, <3>2
    <3> HIDE DEF x
    <3> QED BY <3>3 DEF EstimateIsEnough
  <2> QED BY <2>1, <2>2, <2>3, BodyNext
<1>3. Inv => EstimateIsEnough OBVIOUS
<1> QED BY <1>1, <1>2, <1>3, PTL DEF Spec

-----------------------------------------------------------------------------
(* Where the elements of lists are that are put together                     *)

LEMMA UpToParts ==
    ASSUME NEW ss, NEW n \in Nat, \A i \in 1..n : IsList(ss[i])
    PROVE  /\ \A m \in 0..n : Len(UpTo(ss, m)) \in Nat
           /\ \A i \in 1..n : Len(UpTo(ss, i)) = Len(UpTo(ss, i - 1)) + Len(ss[i])
<1>1. ASSUME NEW m \in 0..n PROVE Len(UpTo(ss, m)) \in Nat
  <2>1. IsList(UpTo(ss, m)) BY UpToList
  <2> QED BY <2>1, ListFacts
<1>2. ASSUME NEW i \in 1..n PROVE Len(UpTo(ss, i)) = Len(UpTo(ss, i - 1)) + Len(ss[i])
  <2>1. i - 1 \in 0..n /\ i - 1 \in Nat /\ (i - 1) + 1 = i OBVIOUS
  <2> DEFINE h == i - 1
             p == UpTo(ss, h)
             q == ss[h + 1]
  <2>2. IsList(p) BY <2>1, UpToList
  <2>3. IsList(q) BY <2>1
  <2>4. UpTo(ss, h + 1) = p \o q BY <2>1, <2>3, UpToNext
  <2> HIDE DEF p, q
  <2>5. Len(p \o q) = Len(p) + Len(q) BY <2>2, <2>3, Joined
  <2> QED BY <2>1, <2>4, <2>5 DEF p, q
<1> QED BY <1>1, <1>2

(* A list that comes later begins after one that comes before it ends.       *)
LEMMA UpToOrdered ==
    ASSUME NEW ss, NEW n \in Nat, \A i \in 1..n : IsList(ss[i]), NEW l \in 0..n
    PROVE  \A m \in l..n : Len(UpTo(ss, l)) <= Len(UpTo(ss, m))
<1> DEFINE S == {m \in Nat : m \in l..n => Len(UpTo(ss, l)) <= Len(UpTo(ss, m))}
           u(m) == Len(UpTo(ss, m))
<1>0. /\ \A m \in 0..n : u(m) \in Nat
      /\ \A i \in 1..n : u(i) = u(i - 1) + Len(ss[i])
      /\ \A i \in 1..n : Len(ss[i]) \in Nat
  BY UpToParts, ListFacts
<1> HIDE DEF u
<1>1. 0 \in S
  <2>1. 0 \in l..n => l = 0 OBVIOUS
  <2>2. 0 \in 0..n /\ u(0) <= u(0) BY <1>0
  <2> QED BY <2>1, <2>2 DEF u
<1>2. ASSUME NEW m \in Nat, m \in S PROVE m + 1 \in S
  <2>1. CASE m + 1 \in l..n /\ m \in l..n
    <3>1. u(l) <= u(m) BY <1>2, <2>1 DEF u
    <3>2. m + 1 \in 1..n /\ (m + 1) - 1 = m /\ m \in 0..n BY <2>1
    <3>3. u(m + 1) = u(m) + Len(ss[m + 1]) /\ u(m) \in Nat /\ Len(ss[m + 1]) \in Nat /\ u(l) \in Nat
      BY <1>0, <3>2
    <3>4. u(l) <= u(m + 1) BY <3>1, <3>3
    <3> QED BY <3>4 DEF u
  <2>2. CASE m + 1 \in l..n /\ m \notin l..n
    <3>1. m + 1 = l BY <2>2
    <3>2. u(m + 1) <= u(m + 1) BY <1>0, <3>1
    <3> QED BY <3>1, <3>2 DEF u
  <2>3. CASE m + 1 \notin l..n BY <2>3
  <2> QED BY <2>1, <2>2, <2>3
<1> HIDE DEF S
<1>3. Nat \subseteq S BY <1>1, <1>2, Induction
<1> QED BY <1>3 DEF S

(* The k-th element of the b-th list, and no other element is there.         *)
AllAt(ss, m) ==
    /\ \A b \in 1..m : \A k \in 1..Len(ss[b]) : UpTo(ss, m)[Len(UpTo(ss, b - 1)) + k] = ss[b][k]
    /\ \A p \in 1..Len(UpTo(ss, m)) :
          \E b \in 1..m : \E k \in 1..Len(ss[b]) : p = Len(UpTo(ss, b - 1)) + k

LEMMA UpToAt ==
    ASSUME NEW ss, NEW n \in Nat, \A i \in 1..n : IsList(ss[i])
    PROVE  \A m \in 0..n : AllAt(ss, m)
<1> DEFINE S == {m \in Nat : m \in 0..n => AllAt(ss, m)}
<1>1. 0 \in S
  <2>1. Len(UpTo(ss, 0)) = 0 BY UpToNothing, EmptyList
  <2> QED BY <2>1 DEF AllAt
<1>2. ASSUME NEW m \in Nat, m \in S PROVE m + 1 \in S
  <2>1. CASE m + 1 \in 0..n
    <3>1. m \in 0..n /\ m + 1 \in 1..n BY <2>1
    <3>2. AllAt(ss, m) BY <1>2, <3>1
    <3> DEFINE p == UpTo(ss, m)
               q == ss[m + 1]
               r == UpTo(ss, m + 1)
    <3>3. IsList(p) /\ IsList(q) BY <3>1, UpToList
    <3>4. r = p \o q BY <3>3, UpToNext
    <3> HIDE DEF p, q, r
    <3>5. /\ Len(r) = Len(p) + Len(q)
          /\ \A i \in 1..Len(p) : r[i] = p[i]
          /\ \A i \in 1..Len(q) : r[Len(p) + i] = q[i]
      BY <3>3, <3>4, Joined
    <3>6. Len(p) \in Nat /\ Len(q) \in Nat BY <3>3, ListFacts
    <3>7. ASSUME NEW b \in 1..m + 1, NEW k \in 1..Len(ss[b])
          PROVE  r[Len(UpTo(ss, b - 1)) + k] = ss[b][k]
      <4>1. CASE b = m + 1
        <5>1. b - 1 = m BY <4>1
        <5>2. Len(UpTo(ss, b - 1)) = Len(p) /\ ss[b] = q BY <4>1, <5>1 DEF p, q
        <5>3. k \in 1..Len(q) BY <5>2
        <5> QED BY <3>5, <5>2, <5>3
      <4>2. CASE b # m + 1
        <5>1. b \in 1..m /\ b \in 1..n /\ b - 1 \in 0..n /\ b \in 0..n /\ m \in b..n BY <3>1, <4>2
        <5> DEFINE u == Len(UpTo(ss, b - 1))
                   v == Len(UpTo(ss, b))
        <5>2. v = u + Len(ss[b]) /\ u \in Nat BY <5>1, UpToParts
        <5>3. v <= Len(p) BY <5>1, UpToOrdered DEF p
        <5>4. p[u + k] = ss[b][k] BY <3>2, <5>1 DEF AllAt, p
        <5>7. Len(ss[b]) \in Nat BY <5>1, ListFacts
        <5> HIDE DEF u, v
        <5>5. u + k \in 1..Len(p) BY <3>6, <5>2, <5>3, <5>7
        <5>6. r[u + k] = ss[b][k] BY <3>5, <5>4, <5>5
        <5> QED BY <5>6 DEF u
      <4> QED BY <4>1, <4>2
    <3>8. ASSUME NEW x \in 1..Len(r)
          PROVE  \E b \in 1..m + 1 : \E k \in 1..Len(ss[b]) : x = Len(UpTo(ss, b - 1)) + k
      <4>1. CASE x \in 1..Len(p)
        <5>1. \E b \in 1..m : \E k \in 1..Len(ss[b]) : x = Len(UpTo(ss, b - 1)) + k BY <3>2, <4>1 DEF AllAt, p
        <5>2. \A b \in 1..m : b \in 1..m + 1 OBVIOUS
        <5> QED BY <5>1, <5>2
      <4>2. CASE x \notin 1..Len(p)
        <5> DEFINE k == x - Len(p)
        <5>1. k \in 1..Len(q) /\ x = Len(p) + k BY <3>5, <3>6, <4>2
        <5>2. m + 1 \in 1..m + 1 /\ (m + 1) - 1 = m OBVIOUS
        <5> HIDE DEF k
        <5>3. k \in 1..Len(ss[m + 1]) /\ x = Len(UpTo(ss, (m + 1) - 1)) + k BY <5>1, <5>2 DEF p, q
        <5> QED BY <5>2, <5>3
      <4> QED BY <4>1, <4>2
    <3>9. AllAt(ss, m + 1) BY <3>7, <3>8 DEF AllAt, r
    <3>10. m + 1 \in Nat OBVIOUS
    <3> QED BY <3>9, <3>10
  <2> QED BY <2>1
<1> HIDE DEF S
<1>3. Nat \subseteq S BY <1>1, <1>2, Induction
<1> QED BY <1>3 DEF S

(* The last location before an instruction, if the locations up to it are    *)
(* those before the instruction                                              *)
LEMMA FoundIs ==
    ASSUME NEW l, IsList(l), NEW q, NEW p \in 1..Len(l),
           \A j \in 1..Len(l) : l[j].inst_idx <= q <=> j <= p
    PROVE  FindDebugLocation(l, q) = l[p].location
<1> DEFINE before == {k \in DOMAIN l : \A j \in 1..k : l[j].inst_idx <= q}
<1>1. DOMAIN l = 1..Len(l) /\ Len(l) \in Nat BY ListFacts
<1>2. before = 1..p
  <2>1. ASSUME NEW k \in before PROVE k \in 1..p
    <3>1. k \in 1..Len(l) /\ k \in 1..k BY <1>1
    <3>2. l[k].inst_idx <= q BY <3>1
    <3> QED BY <3>1, <3>2
  <2>2. ASSUME NEW k \in 1..p PROVE k \in before
    <3>1. k \in DOMAIN l BY <1>1
    <3>2. ASSUME NEW j \in 1..k PROVE l[j].inst_idx <= q
      <4>1. j \in 1..Len(l) /\ j <= p BY <1>1
      <4> QED BY <4>1
    <3> QED BY <3>1, <3>2
  <2> QED BY <2>1, <2>2
<1>3. FindDebugLocation(l, q) = IF before = {} THEN NoLocation ELSE l[Max(before)].location
  BY DEF FindDebugLocation
<1> HIDE DEF before
<1>4. p \in before /\ \A x \in before : p >= x BY <1>2
<1>5. Max(before) = p
  <2>1. \A x \in before : (\A y \in before : x >= y) => x = p BY <1>2, <1>4
  <2> QED BY <1>4, <2>1 DEF Max
<1> QED BY <1>3, <1>4, <1>5

(* An entry of the whole function                                            *)
LEMMA Shifted ==
    ASSUME NEW x, IsEntry(x), NEW o
    PROVE  /\ [x EXCEPT !.inst_idx = @ + o + 1].inst_idx = x.inst_idx + o + 1
           /\ [x EXCEPT !.inst_idx = @ + o + 1].location = x.location
BY DEF IsEntry

(* Where the blocks begin, and their locations in the whole function         *)
Offsets == [b \in 1..Len(blocks) |-> Len(EmitBody(b - 1))]

Entries(b) ==
    IF b \in Reachable
    THEN [k \in 1..Len(blocks[b].debug) |-> [blocks[b].debug[k] EXCEPT !.inst_idx = @ + Offsets[b] + 1]]
    ELSE <<>>
Emitted_entries == [b \in 1..Len(blocks) |-> Entries(b)]

(* A block that can be reached ends before a later one begins.               *)
LEMMA OffsetsOrdered ==
    ASSUME BlocksInv
    PROVE  /\ \A b \in 1..Len(blocks) : Offsets[b] \in Nat
           /\ \A b, c \in 1..Len(blocks) :
                 b \in Reachable /\ b < c => Offsets[b] + 1 + Len(blocks[b].insts) <= Offsets[c]
<1> DEFINE n == Len(blocks)
           ss == Emitted_blocks
           P == Len(Prologue)
           u(m) == Len(UpTo(ss, m))
<1>1. n \in Nat /\ P \in Nat
  <2>1. IsList(blocks) /\ IsList(locals) BY DEF BlocksInv, GoodBlocks
  <2> QED BY <2>1, PrologueList, ListFacts
<1>2. \A i \in 1..n : IsList(ss[i]) /\ ss[i] = EmitBlock(i) BY EmitBlockList DEF Emitted_blocks
<1>3. ASSUME NEW b \in 1..n PROVE Offsets[b] = P + u(b - 1) /\ u(b - 1) \in Nat
  <2>1. b - 1 \in 0..n BY <1>1
  <2>2. Offsets[b] = Len(EmitBody(b - 1)) BY DEF Offsets
  <2>3. Len(EmitBody(b - 1)) = P + u(b - 1) /\ IsList(UpTo(ss, b - 1)) BY <2>1, EmitBodyIs
  <2> QED BY <2>2, <2>3, ListFacts
<1>4. ASSUME NEW b \in 1..n, NEW c \in 1..n, b \in Reachable, b < c
      PROVE  Offsets[b] + 1 + Len(blocks[b].insts) <= Offsets[c]
  <2> DEFINE i == Len(blocks[b].insts)
             t == Len(Terminator(b, Following(b)))
             e == Len(EmitBlock(b))
  <2>1. e = 1 + i + t BY <1>4, EmitBlockList
  <2>2. t \in Nat BY TerminatorList
  <2>3. i \in Nat
    <3>1. IsBlock(blocks[b]) BY DEF BlocksInv, GoodBlocks, GoodBlock
    <3> QED BY <3>1, BlockFields
  <2>4. b \in 0..n /\ c - 1 \in b..n BY <1>1, <1>4
  <2>5. Len(ss[b]) = e BY <1>2
  <2>9. \A x \in 1..n : IsList(ss[x]) BY <1>2
  <2> HIDE DEF ss
  <2>6. u(b) = u(b - 1) + Len(ss[b]) BY <1>1, <2>9, UpToParts
  <2>7. u(b) <= u(c - 1) BY <1>1, <2>4, <2>9, UpToOrdered
  <2> DEFINE x == u(b - 1)
             y == u(c - 1)
             z == u(b)
             o == Offsets
  <2>8. o[b] = P + x /\ x \in Nat /\ o[c] = P + y /\ y \in Nat BY <1>3
  <2>10. z = x + e /\ z <= y BY <2>5, <2>6, <2>7
  <2> HIDE DEF x, y, z, o, i, t, e, P
  <2>11. z = x + (1 + i + t) BY <2>1, <2>10
  <2>12. z \in Nat BY <2>2, <2>3, <2>8, <2>11
  <2>13. (P + x) + 1 + i <= P + y BY <1>1, <2>2, <2>3, <2>8, <2>10, <2>11, <2>12
  <2>14. o[b] + 1 + i <= o[c] BY <2>8, <2>13
  <2> QED BY <2>14 DEF o, i
<1>5. ASSUME NEW b \in 1..n PROVE Offsets[b] \in Nat
  <2> DEFINE x == u(b - 1)
             o == Offsets
  <2>1. o[b] = P + x /\ x \in Nat BY <1>3
  <2> HIDE DEF x, o, P
  <2>2. o[b] \in Nat BY <1>1, <2>1
  <2> QED BY <2>2 DEF o
<1> QED BY <1>4, <1>5

LEMMA EntriesAre ==
    ASSUME BlocksInv, NEW b \in 1..Len(blocks)
    PROVE  /\ IsList(Entries(b))
           /\ b \in Reachable =>
                 /\ Len(Entries(b)) = Len(blocks[b].debug)
                 /\ \A k \in 1..Len(blocks[b].debug) :
                       /\ Entries(b)[k].inst_idx = blocks[b].debug[k].inst_idx + Offsets[b] + 1
                       /\ Entries(b)[k].location = blocks[b].debug[k].location
                       /\ blocks[b].debug[k].inst_idx \in Nat
           /\ b \notin Reachable => Len(Entries(b)) = 0
<1> DEFINE D == blocks[b].debug
           o == Offsets[b]
           e == [k \in 1..Len(D) |-> [D[k] EXCEPT !.inst_idx = @ + o + 1]]
<1>1. IsList(D) /\ (\A k \in 1..Len(D) : IsEntry(D[k])) /\ Len(D) \in Nat
  <2>1. Recorded(D) BY DEF BlocksInv, GoodBlocks, GoodBlock, Debugged
  <2> QED BY <2>1, ListFacts DEF Recorded
<1>2. Entries(b) = IF b \in Reachable THEN e ELSE <<>> BY Zenon DEF Entries
<1> HIDE DEF D, o
<1>3. \A k \in 1..Len(D) : e[k] = [D[k] EXCEPT !.inst_idx = @ + o + 1] OBVIOUS
<1>4. e = [k \in 1..Len(D) |-> e[k]] OBVIOUS
<1> HIDE DEF e
<1>5. IsList(e) /\ Len(e) = Len(D) BY <1>1, <1>4, FunctionList
<1>6. ASSUME NEW k \in 1..Len(D)
      PROVE  e[k].inst_idx = D[k].inst_idx + o + 1 /\ e[k].location = D[k].location /\ D[k].inst_idx \in Nat
  <2> DEFINE x == D[k]
             y == [x EXCEPT !.inst_idx = @ + o + 1]
  <2>1. IsEntry(x) /\ e[k] = y BY <1>1, <1>3
  <2> HIDE DEF x
  <2>2. y.inst_idx = x.inst_idx + o + 1 /\ y.location = x.location BY <2>1, Shifted
  <2>3. x.inst_idx \in Nat BY <2>1, EntryIndex
  <2> HIDE DEF y
  <2> QED BY <2>1, <2>2, <2>3 DEF x
<1>7. CASE b \in Reachable
  <2>1. Entries(b) = e BY <1>2, <1>7
  <2> QED BY <1>5, <1>6, <1>7, <2>1 DEF D, o
<1>8. CASE b \notin Reachable
  <2>1. Entries(b) = <<>> BY <1>2, <1>8
  <2> QED BY <1>8, <2>1, EmptyList
<1> QED BY <1>7, <1>8

LEMMA LocationsAre ==
    ASSUME BlocksInv
    PROVE  DebugLocations(Offsets) = UpTo(Emitted_entries, Len(blocks))
<1> DEFINE n == Len(blocks)
           f == [b \in 1..n |-> Emitted_entries[b]]
<1>1. DebugLocations(Offsets) = FlattenSeq([b \in 1..n |-> Entries(b)]) BY Zenon DEF DebugLocations, Entries
<1>2. [b \in 1..n |-> Entries(b)] = f BY DEF Emitted_entries
<1> HIDE DEF f
<1>3. UpTo(Emitted_entries, n) = FlattenSeq(f) BY DEF UpTo, f
<1> QED BY <1>1, <1>2, <1>3

(* An instruction is found to come from the location it was built under.     *)
LEMMA LocationFound ==
    ASSUME BlocksInv, \A c \in Reachable : ~blocks[c].late,
           NEW b \in Reachable, NEW k \in 1..Len(blocks[b].insts), blocks[b].under[k] # NoLocation
    PROVE  FindDebugLocation(DebugLocations(Offsets), Offsets[b] + k) = blocks[b].under[k]
<1> DEFINE n == Len(blocks)
           ss == Emitted_entries
           D == UpTo(ss, n)
           u(m) == Len(UpTo(ss, m))
           o == Offsets
           debug(c) == blocks[c].debug
           L(c) == Len(blocks[c].insts)
<1>1. n \in Nat /\ b \in 1..n /\ n \in 0..n /\ \A c \in Reachable : c \in 1..n
  BY ListFacts DEF BlocksInv, GoodBlocks, Reachable
<1>2. ASSUME NEW c \in Reachable PROVE Located(blocks[c]) /\ L(c) \in Nat /\ Len(debug(c)) \in Nat
  <2>1. IsBlock(blocks[c]) /\ Debugged(blocks[c]) BY <1>1 DEF BlocksInv, GoodBlocks, GoodBlock
  <2>2. Located(blocks[c]) BY <2>1, Zenon DEF Debugged
  <2>3. L(c) \in Nat BY <2>1, BlockFields
  <2>4. Len(debug(c)) \in Nat BY <2>1, ListFacts DEF Debugged, Recorded
  <2> QED BY <2>2, <2>3, <2>4
<1>3. /\ \A c \in 1..n : o[c] \in Nat
      /\ \A c, d \in 1..n : c \in Reachable /\ c < d => o[c] + 1 + L(c) <= o[d]
  BY OffsetsOrdered
<1>4. \A c \in 1..n : IsList(ss[c]) /\ ss[c] = Entries(c) BY EntriesAre DEF Emitted_entries
<1>5. ASSUME NEW c \in Reachable
      PROVE  /\ Len(ss[c]) = Len(debug(c))
             /\ \A e \in 1..Len(debug(c)) :
                   /\ ss[c][e].inst_idx = debug(c)[e].inst_idx + o[c] + 1
                   /\ ss[c][e].location = debug(c)[e].location
                   /\ debug(c)[e].inst_idx \in Nat
  <2>1. c \in 1..n /\ ss[c] = Entries(c) BY <1>1, <1>4
  <2> QED BY <2>1, EntriesAre
<1>6. \A c \in 1..n : c \notin Reachable => Len(ss[c]) = 0 BY <1>4, EntriesAre
<1>7. PICK d \in 1..Len(debug(b)) : ComesFrom(debug(b), d, k) /\ debug(b)[d].location = blocks[b].under[k]
  BY <1>2 DEF Located
<1>8. DebugLocations(o) = D BY LocationsAre
<1>9. ASSUME NEW c \in Reachable
      PROVE  /\ \A e \in 1..Len(debug(c)) : debug(c)[e].inst_idx <= L(c)
             /\ \A e, g \in 1..Len(debug(c)) : e <= g => debug(c)[e].inst_idx <= debug(c)[g].inst_idx
  BY <1>2 DEF Located
<1>10. debug(b)[d].inst_idx < k /\ \A e \in 1..Len(debug(b)) : e > d => debug(b)[e].inst_idx >= k
  BY <1>7 DEF ComesFrom
<1>11. \A i \in 1..n : IsList(ss[i]) BY <1>4
<1> DEFINE under == blocks[b].under[k]
<1>12. k \in 1..L(b) /\ debug(b)[d].location = under BY <1>7
<1> HIDE DEF ss, o, debug, L, n, under
<1>13. AllAt(ss, n) /\ IsList(D) BY <1>1, <1>11, UpToAt, UpToList
<1>14. /\ \A m \in 0..n : u(m) \in Nat
       /\ \A i \in 1..n : u(i) = u(i - 1) + Len(ss[i])
  BY <1>1, <1>11, UpToParts
<1>15. \A l \in 0..n : \A m \in l..n : u(l) <= u(m) BY <1>1, <1>11, UpToOrdered
<1>16. /\ \A c \in 1..n : \A e \in 1..Len(ss[c]) : D[u(c - 1) + e] = ss[c][e]
       /\ \A p \in 1..Len(D) : \E c \in 1..n : \E e \in 1..Len(ss[c]) : p = u(c - 1) + e
  BY <1>13 DEF AllAt
<1>17. Len(D) = u(n) OBVIOUS
<1> HIDE DEF D, u
<1> DEFINE p == u(b - 1) + d
<1>18. b - 1 \in 0..n /\ b \in 0..n /\ n \in b..n BY <1>1
<1>19. /\ u(b - 1) \in Nat /\ u(b) = u(b - 1) + Len(debug(b)) /\ u(b) <= u(n) /\ u(n) \in Nat
       /\ Len(debug(b)) \in Nat /\ u(b) \in Nat
  <2>1. Len(ss[b]) = Len(debug(b)) BY <1>5
  <2> QED BY <1>1, <1>2, <1>14, <1>15, <1>18, <2>1
<1>20. p \in 1..Len(D) /\ p <= u(b) /\ p \in Nat BY <1>17, <1>19
<1>21. D[p] = ss[b][d] /\ D[p].location = under
  <2>1. Len(ss[b]) = Len(debug(b)) /\ ss[b][d].location = debug(b)[d].location BY <1>5
  <2> QED BY <1>1, <1>12, <1>16, <2>1
<1>22. ASSUME NEW j \in 1..Len(D) PROVE D[j].inst_idx <= o[b] + k <=> j <= p
  <2>1. PICK c \in 1..n : \E e \in 1..Len(ss[c]) : j = u(c - 1) + e BY <1>16
  <2>2. PICK e \in 1..Len(ss[c]) : j = u(c - 1) + e BY <2>1
  <2>3. c \in Reachable BY <1>6, <2>2
  <2>4. e \in 1..Len(debug(c)) BY <1>5, <2>2, <2>3
  <2> DEFINE i == debug(c)[e].inst_idx
             x == D[j].inst_idx
  <2>5. x = i + o[c] + 1 /\ i \in Nat
    <3>1. D[j] = ss[c][e] BY <1>16, <2>2
    <3> QED BY <1>5, <2>3, <2>4, <3>1
  <2>6. i <= L(c) BY <1>9, <2>3, <2>4
  <2>7. o[b] \in Nat /\ o[c] \in Nat /\ L(b) \in Nat /\ L(c) \in Nat BY <1>1, <1>2, <1>3, <2>3
  <2>8. u(c - 1) \in Nat /\ u(c) \in Nat /\ u(c) = u(c - 1) + Len(ss[c])
    <3>1. c - 1 \in 0..n /\ c \in 0..n BY <1>1
    <3> QED BY <1>14, <3>1
  <2>9. Len(ss[c]) \in Nat BY <1>11, ListFacts
  <2>10. j <= u(c) /\ u(c - 1) < j BY <2>2, <2>8, <2>9
  <2>11. CASE c < b
    <3>1. o[c] + 1 + L(c) <= o[b] BY <1>1, <1>3, <2>3, <2>11
    <3>2. x <= o[b] + k
      <4> DEFINE l == L(c)
                 y == o[c]
                 z == o[b]
      <4>1. x = i + y + 1 /\ i \in Nat /\ i <= l /\ y + 1 + l <= z /\ y \in Nat /\ z \in Nat /\ l \in Nat
        BY <2>5, <2>6, <2>7, <3>1
      <4>2. k \in Nat BY <1>12
      <4> HIDE DEF x, i, l, y, z
      <4>3. x <= z + k BY <4>1, <4>2
      <4> QED BY <4>3 DEF z
    <3>3. c \in 0..n /\ b - 1 \in c..n BY <1>1, <2>11
    <3>4. u(c) <= u(b - 1) BY <1>15, <3>3
    <3>5. j <= p BY <1>19, <2>8, <2>10, <3>4
    <3> QED BY <3>2, <3>5
  <2>12. CASE c = b
    <3>1. j <= p <=> e <= d
      <4>1. j = u(b - 1) + e BY <2>2, <2>12
      <4>2. e \in Nat /\ d \in Nat BY <2>4
      <4> QED BY <1>19, <4>1, <4>2
    <3>2. x <= o[b] + k <=> i < k
      <4> DEFINE z == o[b]
      <4>1. x = i + z + 1 /\ i \in Nat /\ z \in Nat BY <2>5, <2>7, <2>12
      <4>2. k \in Nat BY <1>12
      <4> HIDE DEF x, i, z
      <4>3. x <= z + k <=> i < k BY <4>1, <4>2
      <4> QED BY <4>3 DEF z
    <3>3. i < k <=> e <= d
      <4> DEFINE z == debug(b)[d].inst_idx
      <4>1. i = debug(b)[e].inst_idx /\ e \in 1..Len(debug(b)) BY <2>4, <2>12
      <4>2. z < k /\ z \in Nat BY <1>5, <1>10
      <4>3. e > d => i >= k BY <1>10, <4>1
      <4>4. e <= d => i <= z BY <1>9, <4>1
      <4> HIDE DEF i, z
      <4>5. e \in Nat /\ d \in Nat /\ i \in Nat /\ k \in Nat BY <1>12, <2>4, <2>5 DEF i
      <4> QED BY <4>2, <4>3, <4>4, <4>5
    <3> QED BY <3>1, <3>2, <3>3
  <2>13. CASE c > b
    <3>1. o[b] + 1 + L(b) <= o[c] BY <1>1, <1>3, <2>13
    <3>2. k <= L(b) /\ k \in Nat
      <4> DEFINE l == L(b)
      <4>1. k \in 1..l /\ l \in Nat BY <1>12, <2>7
      <4> HIDE DEF l
      <4>2. k <= l /\ k \in Nat BY <4>1
      <4> QED BY <4>2 DEF l
    <3>3. ~(x <= o[b] + k)
      <4> DEFINE l == L(b)
                 y == o[c]
                 z == o[b]
      <4>1. x = i + y + 1 /\ i \in Nat /\ z + 1 + l <= y /\ y \in Nat /\ z \in Nat /\ l \in Nat /\ k <= l /\ k \in Nat
        BY <2>5, <2>7, <3>1, <3>2
      <4> HIDE DEF x, i, l, y, z
      <4>2. ~(x <= z + k) BY <4>1
      <4> QED BY <4>2 DEF z
    <3>4. c - 1 \in b..n BY <1>1, <2>13
    <3>5. u(b) <= u(c - 1) BY <1>15, <1>18, <3>4
    <3>6. ~(j <= p) BY <1>19, <1>20, <2>8, <2>10, <3>5
    <3> QED BY <3>3, <3>6
  <2> QED BY <1>1, <2>11, <2>12, <2>13
<1> HIDE DEF p
<1>23. FindDebugLocation(D, o[b] + k) = D[p].location BY <1>13, <1>20, <1>22, FoundIs
<1>24. FindDebugLocation(DebugLocations(o), o[b] + k) = under BY <1>8, <1>21, <1>23
<1> QED BY <1>24 DEF o, under

LEMMA SameBlocks == ASSUME UNCHANGED blocks PROVE Reachable' = Reachable
BY DEF Reachable, Successors

(* An instruction of a finished function is found to come from the location  *)
(* it was built under (lauf_asm_find_debug_location_of_instruction), unless  *)
(* a location was recorded after an instruction that was taken back: the     *)
(* locations that emit_debug_location puts together are in the order of the  *)
(* instructions, whichever blocks are left out and whichever jumps are put   *)
(* between them.                                                             *)
THEOREM Debug_Locations == Spec => []DebugLocationsFound
<1> DEFINE Inv == BlocksInv /\ DebugLocationsFound
<1>1. Init => Inv
  <2>1. Init => DebugLocationsFound BY DEF Init, DebugLocationsFound, Finished
  <2> QED BY <2>1, BlocksInit
<1>2. Inv /\ [Next]_vars => Inv'
  <2> SUFFICES ASSUME BlocksInv, DebugLocationsFound, [Next]_vars PROVE DebugLocationsFound'
    BY BlocksNext
  <2>1. CASE UNCHANGED vars
    <3>1. UNCHANGED <<body, blocks>> BY <2>1 DEF vars
    <3>2. Reachable' = Reachable BY <3>1, SameBlocks
    <3> QED BY <3>1, <3>2 DEF DebugLocationsFound, Finished
  <2>2. CASE Unfinished BY <2>2 DEF DebugLocationsFound, Finished, Unfinished
  <2>3. CASE Finish
    <3>1. body' = Body /\ UNCHANGED blocks BY <2>3 DEF Finish
    <3>2. Reachable' = Reachable BY <3>1, SameBlocks
    <3> DEFINE R == Reachable
               bs == blocks
               o == Offsets
               D == DebugLocations(o)
               x == Body
    <3>3. x.debug_locations = D /\ x.offset = o BY DEF Body, Offsets
    <3>4. (\A c \in R : ~bs[c].late) =>
             \A b \in R : \A k \in 1..Len(bs[b].insts) :
                bs[b].under[k] # NoLocation => FindDebugLocation(D, o[b] + k) = bs[b].under[k]
      BY LocationFound, Zenon
    <3>5. body' = x /\ blocks' = bs /\ Reachable' = R BY <3>1, <3>2
    <3> HIDE DEF R, bs, o, D, x
    <3>6. body'.debug_locations = D /\ body'.offset = o BY <3>3, <3>5
    <3> QED BY <3>4, <3>5, <3>6, Zenon DEF DebugLocationsFound
  <2> QED BY <2>1, <2>2, <2>3, BodyNext
<1>3. Inv => DebugLocationsFound OBVIOUS
<1> QED BY <1>1, <1>2, <1>3, PTL DEF Spec

-----------------------------------------------------------------------------
(* What the operations of the builder make of the heights: the code leaves   *)
(* as many values as the picture has                                         *)

JoinedTwice(s, t, u) == (s \o t) \o u = s \o (t \o u)

LEMMA JoinedAnyhow ==
    ASSUME NEW s, NEW t, NEW u, IsList(s), IsList(t), IsList(u)
    PROVE  JoinedTwice(s, t, u)
<1>1. PICK S : s \in Seq(S) BY DEF IsList
<1>2. PICK T : t \in Seq(T) BY DEF IsList
<1>3. PICK U : u \in Seq(U) BY DEF IsList
<1> DEFINE A == S \cup T \cup U
<1>4. s \in Seq(A) /\ t \in Seq(A) /\ u \in Seq(A) BY <1>1, <1>2, <1>3
<1> HIDE DEF A
<1>5. (s \o t) \o u = s \o (t \o u) BY <1>4
<1> QED BY <1>5 DEF JoinedTwice

(* Code that leaves n values leaves these many with more instructions.       *)
Reaches(insts, n, to) ==
    \A all, in, top : Leaves(all, in, n, top) /\ to <= top => Leaves(all \o insts, in, to, top)

LEMMA ReachesOne ==
    ASSUME NEW inst, NEW n, NEW to \in Nat, Moves(inst, n, to), Ordinary(inst)
    PROVE  IsList(<<inst>>) /\ Reaches(<<inst>>, n, to)
BY OneList, LeavesMore DEF Reaches

LEMMA ReachesBoth ==
    ASSUME NEW s, NEW t, NEW n, NEW m \in Nat, NEW to \in Nat, IsList(s), IsList(t),
           Reaches(s, n, m), Reaches(t, m, to), m <= to
    PROVE  IsList(s \o t) /\ Reaches(s \o t, n, to)
<1>1. IsList(s \o t) BY Joined
<1>2. ASSUME NEW all, NEW in, NEW top, Leaves(all, in, n, top), to <= top
      PROVE  Leaves(all \o (s \o t), in, to, top)
  <2>1. IsList(all) /\ top \in Nat BY <1>2, LeavesFacts
  <2>2. m <= top BY <1>2, <2>1
  <2>3. Leaves(all \o s, in, m, top) BY <1>2, <2>2 DEF Reaches
  <2>4. Leaves((all \o s) \o t, in, to, top) BY <1>2, <2>3 DEF Reaches
  <2>5. (all \o s) \o t = all \o (s \o t) BY <2>1, JoinedAnyhow DEF JoinedTwice
  <2> QED BY <2>4, <2>5
<1> QED BY <1>1, <1>2 DEF Reaches

LEMMA ReachesCall ==
    ASSUME NEW inst, NEW sig, NEW n, NEW to \in Nat, Moves(inst, n, to), inst.op \in Builtins,
           sig.op = "call_builtin_sig"
    PROVE  IsList(<<inst>> \o <<sig>>) /\ Reaches(<<inst>> \o <<sig>>, n, to)
<1>1. IsList(<<inst>>) /\ IsList(<<sig>>) BY OneList
<1>2. IsList(<<inst>> \o <<sig>>) BY <1>1, Joined
<1>3. ASSUME NEW all, NEW in, NEW top, Leaves(all, in, n, top), to <= top
      PROVE  Leaves(all \o (<<inst>> \o <<sig>>), in, to, top)
  <2>1. IsList(all) BY <1>3, LeavesFacts
  <2>2. Leaves((all \o <<inst>>) \o <<sig>>, in, to, top) BY <1>3, LeavesCall
  <2>3. (all \o <<inst>>) \o <<sig>> = all \o (<<inst>> \o <<sig>>)
    BY <1>1, <2>1, JoinedAnyhow DEF JoinedTwice
  <2> QED BY <2>2, <2>3
<1> QED BY <1>2, <1>3 DEF Reaches

(* What is pushed onto the picture after the code                            *)
LEMMA ReachesAndPushes ==
    ASSUME NEW c, NEW in, NEW n, Behind(c, in, n), NEW insts, NEW d, Emits(c, d, insts),
           NEW values, IsList(values), Reaches(insts, n, Len(c.vstack) + Len(values))
    PROVE  /\ WellBuilt(PushValues(d, values), in)
           /\ Len(PushValues(d, values).vstack) = Len(c.vstack) + Len(values)
<1> DEFINE e == PushValues(d, values)
           k == Len(values)
<1>1. /\ IsCode(c) /\ Leaves(c.insts, in, n, c.max) /\ Len(c.vstack) \in Nat /\ c.max \in Nat
      /\ k \in Nat
  BY CodeFields, ListFacts DEF Behind
<1>2. Pushes(d, e, k) BY PushedValues DEF Emits
<1> HIDE DEF e, k
<1>3. IsCode(e) /\ Len(e.vstack) = Len(c.vstack) + k /\ e.max >= c.max /\ e.max >= Len(e.vstack)
  BY <1>2 DEF Emits, Pushes
<1>4. e.max \in Nat BY <1>3, CodeFields
<1>5. Leaves(c.insts, in, n, e.max) BY <1>1, <1>3, <1>4, LeavesHigher
<1>6. Len(c.vstack) + k <= e.max BY <1>1, <1>3, <1>4
<1>7. Leaves(c.insts \o insts, in, Len(c.vstack) + k, e.max) BY <1>5, <1>6 DEF Reaches, k
<1>8. WellBuilt(e, in) BY <1>2, <1>3, <1>7 DEF WellBuilt, Behind, Emits, Pushes
<1> QED BY <1>3, <1>8 DEF e, k

LEMMA ReachesAndPushesValue ==
    ASSUME NEW c, NEW in, NEW n, Behind(c, in, n), NEW insts, NEW d, Emits(c, d, insts),
           Reaches(insts, n, Len(c.vstack) + 1), NEW v
    PROVE  WellBuilt(PushValue(d, v), in) /\ Len(PushValue(d, v).vstack) = Len(c.vstack) + 1
<1> DEFINE values == <<v>>
           one == 1
<1>0. IsList(values) /\ Len(values) = one BY OneList
<1>1. Reaches(insts, n, Len(c.vstack) + one) BY DEF one
<1> HIDE DEF values, one
<1>2. Reaches(insts, n, Len(c.vstack) + Len(values)) BY <1>0, <1>1
<1>3. /\ WellBuilt(PushValues(d, values), in)
      /\ Len(PushValues(d, values).vstack) = Len(c.vstack) + Len(values)
  BY <1>0, <1>2, ReachesAndPushes
<1>4. WellBuilt(PushValues(d, values), in) /\ Len(PushValues(d, values).vstack) = Len(c.vstack) + 1
  BY <1>0, <1>3 DEF one
<1> QED BY <1>4 DEF PushValue, values

LEMMA ReachesAndPushesOutput ==
    ASSUME NEW c, NEW in, NEW n, Behind(c, in, n), NEW insts, NEW d, Emits(c, d, insts), NEW k \in Nat,
           Reaches(insts, n, Len(c.vstack) + k)
    PROVE  WellBuilt(PushOutput(d, k), in) /\ Len(PushOutput(d, k).vstack) = Len(c.vstack) + k
<1> DEFINE values == Inputs(k)
<1>1. IsList(values) /\ Len(values) = k BY InputsList
<1> HIDE DEF values
<1>2. Reaches(insts, n, Len(c.vstack) + Len(values)) BY <1>1
<1>3. /\ WellBuilt(PushValues(d, values), in)
      /\ Len(PushValues(d, values).vstack) = Len(c.vstack) + Len(values)
  BY <1>1, <1>2, ReachesAndPushes
<1>4. WellBuilt(PushValues(d, values), in) /\ Len(PushValues(d, values).vstack) = Len(c.vstack) + k
  BY <1>1, <1>3
<1> QED BY <1>4 DEF PushOutput, values

(* An instruction, and what the picture has more after it                    *)
LEMMA OneReaches ==
    ASSUME NEW c, NEW in, NEW n, Behind(c, in, n), NEW inst, NEW k \in Nat,
           Moves(inst, n, Len(c.vstack) + k), Ordinary(inst)
    PROVE  Emits(c, Emit(c, <<inst>>), <<inst>>) /\ Reaches(<<inst>>, n, Len(c.vstack) + k)
<1>1. IsCode(c) /\ Len(c.vstack) + k \in Nat BY CodeFields DEF Behind
<1> QED BY <1>1, OneList, Emitted, ReachesOne

LEMMA EmitsAndPushes ==
    ASSUME NEW c, NEW in, NEW n, Behind(c, in, n), NEW inst, NEW k \in Nat,
           Moves(inst, n, Len(c.vstack) + k), Ordinary(inst)
    PROVE  /\ WellBuilt(PushOutput(Emit(c, <<inst>>), k), in)
           /\ Len(PushOutput(Emit(c, <<inst>>), k).vstack) = Len(c.vstack) + k
BY OneReaches, ReachesAndPushesOutput

LEMMA EmitsAndPushesValue ==
    ASSUME NEW c, NEW in, NEW n, Behind(c, in, n), NEW inst, NEW v,
           Moves(inst, n, Len(c.vstack) + 1), Ordinary(inst)
    PROVE  /\ WellBuilt(PushValue(Emit(c, <<inst>>), v), in)
           /\ Len(PushValue(Emit(c, <<inst>>), v).vstack) = Len(c.vstack) + 1
<1>1. 1 \in Nat OBVIOUS
<1> QED BY <1>1, OneReaches, ReachesAndPushesValue

LEMMA BuiltFacts ==
    ASSUME NEW c, NEW in, WellBuilt(c, in)
    PROVE  /\ IsCode(c) /\ Behind(c, in, Len(c.vstack))
           /\ Len(c.vstack) \in Nat /\ c.max \in Nat /\ Len(c.vstack) <= c.max
<1>1. IsCode(c) /\ Leaves(c.insts, in, Len(c.vstack), c.max) BY DEF WellBuilt, Behind
<1>2. Len(c.vstack) \in Nat /\ c.max \in Nat BY <1>1, CodeFields
<1>3. Len(c.vstack) \in 0..c.max BY <1>1, LeavesFacts
<1> QED BY <1>1, <1>2, <1>3 DEF WellBuilt, Behind

-----------------------------------------------------------------------------
(* Values                                                                    *)

LEMMA PushWordReaches ==
    ASSUME NEW w, NEW n \in Nat
    PROVE  Reaches(PushWord(w), n, n + 1)
<1> DEFINE a == WithValue("push", Low(w, ImmBits))
           b == WithValue("push2", Low(High(w, ImmBits), ImmBits))
           d == WithValue("push3", High(w, 2 * ImmBits))
           e == WithValue("pushn", 2 ^ ImmBits - 1 - Low(w, ImmBits))
<1>1. ASSUME NEW op \in Pushing, NEW v PROVE IsList(WithValue(op, v)) /\ Reaches(WithValue(op, v), n, n + 1)
  <2> DEFINE i == [op |-> op, value |-> v]
  <2>1. i.op = op OBVIOUS
  <2> HIDE DEF i
  <2>2. Moves(i, n, n + 1) /\ Ordinary(i) BY <2>1 DEF Moves, Ordinary, Pushing, Builtins
  <2>3. IsList(<<i>>) /\ Reaches(<<i>>, n, n + 1) BY <2>2, ReachesOne
  <2> QED BY <2>3 DEF WithValue, i
<1>2. ASSUME NEW op \in {"push2", "push3"}, NEW v
      PROVE  IsList(WithValue(op, v)) /\ Reaches(WithValue(op, v), n + 1, n + 1)
  <2> DEFINE i == [op |-> op, value |-> v]
  <2>1. i.op = op OBVIOUS
  <2> HIDE DEF i
  <2>2. Moves(i, n + 1, n + 1) /\ Ordinary(i) BY <2>1 DEF Moves, Ordinary, ChangesOne, Builtins
  <2>3. IsList(<<i>>) /\ Reaches(<<i>>, n + 1, n + 1) BY <2>2, ReachesOne
  <2> QED BY <2>3 DEF WithValue, i
<1>3. {"push", "pushn"} \subseteq Pushing BY DEF Pushing
<1>4. IsList(a) /\ IsList(e) /\ Reaches(a, n, n + 1) /\ Reaches(e, n, n + 1) BY <1>1, <1>3
<1>5. IsList(b) /\ IsList(d) /\ Reaches(b, n + 1, n + 1) /\ Reaches(d, n + 1, n + 1) BY <1>2, <1>3
<1>6. PushWord(w) \in {a, a \o b, e, (a \o <<>>) \o d, (a \o b) \o d} BY DEF PushWord
<1> HIDE DEF a, b, d, e
<1>7. IsList(a \o b) /\ Reaches(a \o b, n, n + 1) BY <1>4, <1>5, ReachesBoth
<1>8. Reaches((a \o b) \o d, n, n + 1) BY <1>5, <1>7, ReachesBoth
<1>9. Reaches((a \o <<>>) \o d, n, n + 1)
  <2>1. IsList(a \o <<>>) /\ Len(a \o <<>>) = Len(a) + 0 /\ \A i \in 1..Len(a) : (a \o <<>>)[i] = a[i]
    BY <1>4, EmptyList, Joined
  <2>2. Len(a) \in Nat BY <1>4, ListFacts
  <2>3. Len(a \o <<>>) = Len(a) BY <2>1, <2>2
  <2>4. a \o <<>> = a BY <1>4, <2>1, <2>3, ListsEqual
  <2> QED BY <1>4, <1>5, <2>4, ReachesBoth
<1> QED BY <1>4, <1>6, <1>7, <1>8, <1>9

LEMMA InstUintIsBuilt ==
    ASSUME NEW c, NEW in, WellBuilt(c, in), NEW w
    PROVE  WellBuilt(InstUint(c, w), in) /\ Len(InstUint(c, w).vstack) = Len(c.vstack) + 1
<1>1. Behind(c, in, Len(c.vstack)) /\ Len(c.vstack) \in Nat BY BuiltFacts
<1>2. IsList(PushWord(w)) /\ Reaches(PushWord(w), Len(c.vstack), Len(c.vstack) + 1)
  BY <1>1, PushWordList, PushWordReaches
<1>3. Emits(c, Emit(c, PushWord(w)), PushWord(w)) BY <1>1, <1>2, Emitted DEF Behind
<1> QED BY <1>1, <1>2, <1>3, ReachesAndPushesValue DEF InstUint, PushConstant

LEMMA InstLayoutIsBuilt ==
    ASSUME NEW c, NEW in, WellBuilt(c, in), NEW l
    PROVE  WellBuilt(InstLayout(c, l), in)
BY InstUintIsBuilt DEF InstLayout

(* An instruction that pushes a value                                        *)
LEMMA PushesIsBuilt ==
    ASSUME NEW c, NEW in, WellBuilt(c, in), NEW inst, inst.op \in Pushing, NEW v
    PROVE  WellBuilt(PushValue(Emit(c, <<inst>>), v), in)
<1>1. Behind(c, in, Len(c.vstack)) /\ Len(c.vstack) \in Nat BY BuiltFacts
<1>2. Moves(inst, Len(c.vstack), Len(c.vstack) + 1) /\ Ordinary(inst)
  BY DEF Moves, Ordinary, Pushing, Builtins
<1> QED BY <1>1, <1>2, EmitsAndPushesValue

LEMMA InstAddrIsBuilt ==
    ASSUME NEW c, NEW in, WellBuilt(c, in), NEW g
    PROVE  WellBuilt(InstNull(c), in) /\ WellBuilt(InstGlobalAddr(c, g), in) /\ WellBuilt(InstFunctionAddr(c, g), in)
<1>1. ASSUME NEW op \in Pushing, NEW x, NEW v PROVE WellBuilt(PushValue(Emit(c, WithValue(op, x)), v), in)
  <2>1. [op |-> op, value |-> x].op \in Pushing OBVIOUS
  <2> QED BY <2>1, PushesIsBuilt DEF WithValue
<1>2. {"pushn", "global_addr", "function_addr"} \subseteq Pushing BY DEF Pushing
<1> QED BY <1>1, <1>2 DEF InstNull, InstGlobalAddr, InstFunctionAddr, PushConstant

(* Values are popped from the picture and an instruction replaces them.      *)
LEMMA PopsAndPushes ==
    ASSUME NEW c, NEW in, WellBuilt(c, in), NEW k \in Nat, Has(c, k), NEW inst, NEW out \in Nat,
           Moves(inst, Len(c.vstack), (Len(c.vstack) - k) + out), Ordinary(inst)
    PROVE  WellBuilt(PushOutput(Emit(PopValues(c, k), <<inst>>), out), in)
<1> DEFINE L == Len(c.vstack)
           d == PopValues(c, k)
<1>1. Behind(c, in, L) /\ L \in Nat BY BuiltFacts
<1>2. Behind(d, in, L) /\ Len(d.vstack) = L - k BY <1>1, BehindPops DEF Has
<1> HIDE DEF d
<1>3. Moves(inst, L, Len(d.vstack) + out) BY <1>2
<1> HIDE DEF L
<1>4. WellBuilt(PushOutput(Emit(d, <<inst>>), out), in) BY <1>2, <1>3, EmitsAndPushes
<1> QED BY <1>4 DEF d

(* The code of the top is taken back, when k values are popped of the picture.  *)
LEMMA PopsAndTakes ==
    ASSUME NEW c, NEW in, WellBuilt(c, in), NEW k \in Nat \ {0}, Has(c, k)
    PROVE  /\ Behind(PopTop(PopValues(c, k), 1), in, Len(c.vstack) - 1)
           /\ Len(PopTop(PopValues(c, k), 1).vstack) = Len(c.vstack) - k
           /\ Len(c.vstack) - 1 \in Nat /\ Len(c.vstack) - k \in Nat
<1> DEFINE L == Len(c.vstack)
           d == PopValues(c, k)
<1>1. Behind(c, in, L) /\ L \in Nat BY BuiltFacts
<1>2. Behind(d, in, L) /\ Len(d.vstack) = L - k BY <1>1, BehindPops DEF Has
<1>3. L - 1 \in Nat /\ L - k \in Nat /\ L = (L - 1) + 1 BY <1>1 DEF Has
<1> HIDE DEF d, L
<1>4. Behind(PopTop(d, 1), in, L - 1) /\ Len(PopTop(d, 1).vstack) = L - k
  <2> DEFINE n == L - 1
             one == 1
  <2>1. Behind(d, in, n + one) BY <1>2, <1>3
  <2>2. one \in Nat /\ n \in Nat BY <1>3
  <2> HIDE DEF n, one
  <2>3. Behind(PopTop(d, one), in, n) /\ Len(PopTop(d, one).vstack) = Len(d.vstack)
    BY <2>1, <2>2, BehindPopTop
  <2> QED BY <1>2, <2>3 DEF n, one
<1> QED BY <1>3, <1>4 DEF d, L

(* Values without code                                                       *)
LEMMA PushesOnly ==
    ASSUME NEW c, NEW in, NEW k \in Nat, Behind(c, in, Len(c.vstack) + k)
    PROVE  WellBuilt(PushOutput(c, k), in)
<1> DEFINE s == c.insts \o <<>>
           n == Len(c.vstack) + k
<1>1. IsCode(c) /\ n \in Nat /\ IsList(c.insts) /\ Len(c.insts) \in Nat BY CodeFields DEF Behind
<1>2. s = c.insts
  <2>1. IsList(<<>>) /\ Len(<<>>) = 0 BY EmptyList
  <2>2. IsList(s) /\ Len(s) = Len(c.insts) + 0 /\ \A i \in 1..Len(c.insts) : s[i] = c.insts[i]
    BY <1>1, <2>1, Joined
  <2>3. Len(s) = Len(c.insts) BY <1>1, <2>2
  <2> HIDE DEF s
  <2> QED BY <1>1, <2>2, <2>3, ListsEqual
<1>3. Emits(c, c, <<>>) BY <1>1, <1>2 DEF Emits
<1>4. Reaches(<<>>, n, n)
  <2>1. ASSUME NEW all, NEW i, NEW top, Leaves(all, i, n, top) PROVE Leaves(all \o <<>>, i, n, top)
    <3>1. IsList(all) /\ Len(all) \in Nat BY <2>1, LeavesFacts
    <3>2. IsList(<<>>) /\ Len(<<>>) = 0 BY EmptyList
    <3> DEFINE t == all \o <<>>
    <3>3. IsList(t) /\ Len(t) = Len(all) + 0 /\ \A j \in 1..Len(all) : t[j] = all[j] BY <3>1, <3>2, Joined
    <3>4. Len(t) = Len(all) BY <3>1, <3>3
    <3> HIDE DEF t
    <3>5. t = all BY <3>1, <3>3, <3>4, ListsEqual
    <3> QED BY <2>1, <3>5 DEF t
  <2> QED BY <2>1 DEF Reaches
<1> HIDE DEF s
<1>5. Behind(c, in, n) OBVIOUS
<1> QED BY <1>3, <1>4, <1>5, ReachesAndPushesOutput DEF n

LEMMA InstLocalAddrIsBuilt ==
    ASSUME NEW c, NEW in, WellBuilt(c, in), NEW l
    PROVE  WellBuilt(InstLocalAddr(c, l), in)
<1> DEFINE inst == [op |-> "local_addr", index |-> l.index, offset |-> l.offset]
           L == Len(c.vstack)
           e == Emit(c, <<inst>>)
           d == [e EXCEPT !.localAddrs = @ + 1]
           one == 1
<1>1. Behind(c, in, L) /\ L \in Nat BY BuiltFacts
<1>2. inst.op = "local_addr" OBVIOUS
<1>3. InstLocalAddr(c, l) = PushValue(d, LocalAddr(l.index)) BY DEF InstLocalAddr, WithLocal
<1> HIDE DEF inst
<1>4. Moves(inst, L, L + 1) /\ Ordinary(inst) BY <1>2 DEF Moves, Ordinary, Pushing, Builtins
<1>5. Emits(c, e, <<inst>>) /\ Reaches(<<inst>>, L, L + one) BY <1>1, <1>4, OneReaches
<1> HIDE DEF e
<1>6. Emits(c, d, <<inst>>) BY <1>5, WithMoreAddrs DEF Emits
<1> HIDE DEF d
<1>7. Reaches(<<inst>>, L, L + 1) BY <1>5
<1> QED BY <1>1, <1>3, <1>6, <1>7, ReachesAndPushesValue

LEMMA InstCcIsBuilt ==
    ASSUME NEW c, NEW in, WellBuilt(c, in), Has(c, 1), NEW cc \in Conditions
    PROVE  WellBuilt(InstCc(c, cc), in)
<1> DEFINE L == Len(c.vstack)
           d == PopTop(PopValues(c, 1), 1)
           value == Flag(Holds(cc, AsSint(Top(c).word)))
           push == [op |-> "push", value |-> value]
           compare == [op |-> "cc", cc |-> cc]
<1>1. \/ InstCc(c, cc) = PushValue(Emit(d, <<push>>), Constant(value))
      \/ InstCc(c, cc) = PushOutput(Emit(PopValues(c, 1), <<compare>>), 1)
  BY DEF InstCc, PushConstant, WithValue
<1>2. push.op = "push" /\ compare.op = "cc" /\ compare.cc = cc OBVIOUS
<1> HIDE DEF push, compare, value
<1>3. L \in Nat /\ L >= 1 BY BuiltFacts DEF Has
<1>4. WellBuilt(PushOutput(Emit(PopValues(c, 1), <<compare>>), 1), in)
  <2>1. (L - 1) + 1 = L BY <1>3
  <2>2. Moves(compare, L, (L - 1) + 1) /\ Ordinary(compare)
    BY <1>2, <1>3, <2>1 DEF Moves, ChangesOne, Ordinary, Builtins
  <2> QED BY <2>2, PopsAndPushes
<1>5. WellBuilt(PushValue(Emit(d, <<push>>), Constant(value)), in)
  <2>1. Behind(d, in, L - 1) /\ Len(d.vstack) = L - 1 BY PopsAndTakes
  <2> HIDE DEF d
  <2>2. Moves(push, L - 1, Len(d.vstack) + 1) /\ Ordinary(push)
    BY <1>2, <2>1 DEF Moves, Pushing, Ordinary, Builtins
  <2> QED BY <2>1, <2>2, EmitsAndPushesValue
<1> QED BY <1>1, <1>4, <1>5

LEMMA InstPopIsBuilt ==
    ASSUME NEW c, NEW in, WellBuilt(c, in), NEW i \in Nat, Has(c, i + 1)
    PROVE  WellBuilt(InstPop(c, i), in)
<1> DEFINE L == Len(c.vstack)
           inst == [op |-> "pop", idx |-> i]
           d == IF i = 0 THEN PopTop(c, 1) ELSE Emit(c, <<inst>>)
           e == RollValue(d, i)
<1>1. InstPop(c, i) = PopValues(e, 1) BY DEF InstPop, WithIdx
<1>2. Behind(c, in, L) /\ L \in Nat /\ c.max \in Nat /\ L <= c.max /\ L >= i + 1 BY BuiltFacts DEF Has
<1>3. Behind(d, in, L - 1) /\ Len(d.vstack) = L
  <2>1. CASE i = 0
    <3> DEFINE n == L - 1
               one == 1
    <3>1. Behind(c, in, n + one) /\ n \in Nat /\ one \in Nat BY <1>2
    <3> HIDE DEF n, one, L
    <3>2. Behind(PopTop(c, one), in, n) /\ Len(PopTop(c, one).vstack) = Len(c.vstack) BY <3>1, BehindPopTop
    <3> QED BY <2>1, <3>2 DEF n, one, L
  <2>2. CASE i # 0
    <3>1. inst.op = "pop" /\ inst.idx = i OBVIOUS
    <3> HIDE DEF inst
    <3>2. Moves(inst, L, L - 1) /\ Ordinary(inst) BY <1>2, <3>1 DEF Moves, Ordinary, Builtins
    <3>3. L - 1 \in Nat /\ L - 1 <= c.max BY <1>2
    <3> QED BY <1>2, <2>2, <3>2, <3>3, EmitsOne
  <2> QED BY <2>1, <2>2
<1> HIDE DEF d
<1>4. Behind(e, in, L - 1) /\ Len(e.vstack) = L BY <1>2, <1>3, BehindRoll
<1> HIDE DEF e
<1>5. 1 <= Len(e.vstack) /\ 1 \in Nat BY <1>2, <1>4
<1>6. Behind(PopValues(e, 1), in, L - 1) /\ Len(PopValues(e, 1).vstack) = L - 1 BY <1>4, <1>5, BehindPops
<1> QED BY <1>1, <1>6 DEF WellBuilt

LEMMA InstPickIsBuilt ==
    ASSUME NEW c, NEW in, WellBuilt(c, in), NEW i \in Nat, Has(c, i + 1)
    PROVE  WellBuilt(InstPick(c, i), in)
<1> DEFINE L == Len(c.vstack)
           inst == [op |-> IF i = 0 THEN "dup" ELSE "pick", idx |-> i]
<1>1. InstPick(c, i) = PushValue(Emit(c, <<inst>>), c.vstack[i + 1]) BY DEF InstPick, WithIdx
<1>2. Behind(c, in, L) /\ L \in Nat /\ L >= i + 1 BY BuiltFacts DEF Has
<1>3. inst.op = (IF i = 0 THEN "dup" ELSE "pick") /\ inst.idx = i OBVIOUS
<1> HIDE DEF inst
<1>4. Moves(inst, L, L + 1) /\ Ordinary(inst) BY <1>2, <1>3 DEF Moves, Ordinary, Builtins
<1> QED BY <1>1, <1>2, <1>4, EmitsAndPushesValue

LEMMA InstRollIsBuilt ==
    ASSUME NEW c, NEW in, WellBuilt(c, in), NEW i \in Nat, Has(c, i + 1)
    PROVE  WellBuilt(InstRoll(c, i), in)
<1> DEFINE L == Len(c.vstack)
           inst == [op |-> IF i = 1 THEN "swap" ELSE "roll", idx |-> i]
           d == IF i = 0 THEN c ELSE Emit(c, <<inst>>)
<1>1. InstRoll(c, i) = RollValue(d, i) BY DEF InstRoll, WithIdx
<1>2. Behind(c, in, L) /\ L \in Nat /\ c.max \in Nat /\ L <= c.max /\ L >= i + 1 BY BuiltFacts DEF Has
<1>3. Behind(d, in, L) /\ Len(d.vstack) = L
  <2>1. CASE i = 0 BY <1>2, <2>1
  <2>2. CASE i # 0
    <3>1. inst.op = (IF i = 1 THEN "swap" ELSE "roll") /\ inst.idx = i OBVIOUS
    <3> HIDE DEF inst
    <3>2. Moves(inst, L, L) /\ Ordinary(inst) BY <1>2, <2>2, <3>1 DEF Moves, Ordinary, Builtins
    <3> QED BY <1>2, <2>2, <3>2, EmitsOne
  <2> QED BY <2>1, <2>2
<1> HIDE DEF d
<1>4. Behind(RollValue(d, i), in, L) /\ Len(RollValue(d, i).vstack) = L BY <1>2, <1>3, BehindRoll
<1> QED BY <1>1, <1>4 DEF WellBuilt

LEMMA InstSelectIsBuilt ==
    ASSUME NEW c, NEW in, WellBuilt(c, in), NEW n \in Nat, n >= 2, Has(c, n + 1)
    PROVE  WellBuilt(InstSelect(c, n), in)
<1> DEFINE L == Len(c.vstack)
           inst == [op |-> "select", idx |-> n - 1]
<1>1. InstSelect(c, n) = PushOutput(Emit(PopValues(c, n + 1), <<inst>>), 1) BY DEF InstSelect, WithIdx
<1>2. L \in Nat /\ L >= n + 1 BY BuiltFacts DEF Has
<1>3. inst.op = "select" /\ inst.idx = n - 1 OBVIOUS
<1> HIDE DEF inst
<1>4. (L - (n + 1)) + 1 = L - (inst.idx + 1) /\ inst.idx \in Nat /\ L >= inst.idx + 2 BY <1>2, <1>3
<1>5. Moves(inst, L, (L - (n + 1)) + 1) /\ Ordinary(inst) BY <1>3, <1>4 DEF Moves, Ordinary, Builtins
<1> QED BY <1>1, <1>5, PopsAndPushes

LEMMA InstPanicIfIsBuilt ==
    ASSUME NEW c, NEW in, WellBuilt(c, in), Has(c, 2)
    PROVE  WellBuilt(InstPanicIf(c), in)
<1> DEFINE L == Len(c.vstack)
           inst == [op |-> "panic_if"]
           d == PopValues(c, 2)
<1>1. InstPanicIf(c) = Emit(d, <<inst>>) BY DEF InstPanicIf, None
<1>2. Behind(c, in, L) /\ L \in Nat /\ c.max \in Nat /\ L <= c.max /\ L >= 2 BY BuiltFacts DEF Has
<1>3. inst.op = "panic_if" OBVIOUS
<1> HIDE DEF inst
<1>4. Moves(inst, L, L - 2) /\ Ordinary(inst) BY <1>2, <1>3 DEF Moves, Ordinary, Builtins
<1>5. Behind(d, in, L) /\ Len(d.vstack) = L - 2 /\ d.max = c.max
  BY <1>2, BehindPops, PoppedValues DEF Behind, Pops
<1> HIDE DEF d
<1>6. L - 2 \in Nat /\ L - 2 <= d.max BY <1>2, <1>5
<1>7. Behind(Emit(d, <<inst>>), in, L - 2) /\ Emit(d, <<inst>>).vstack = d.vstack BY <1>4, <1>5, <1>6, EmitsOne
<1> QED BY <1>1, <1>5, <1>7 DEF WellBuilt

(* Calls                                                                     *)

LEMMA LegalIsCallable == ASSUME NEW b, LegalBuiltin(b) PROVE Callable(b)
<1>1. b.name \notin Stores BY DEF LegalBuiltin, Stores, Accessors
<1> QED BY <1>1, Zenon DEF LegalBuiltin, Callable

LEMMA AccessorIsCallable ==
    ASSUME NEW name, NEW in, NEW out,
           \/ name \in Stores /\ in = 3 /\ out = 0
           \/ name \in Accessors \ Stores /\ in = 2 /\ out = 1
    PROVE  Callable(Accessor(name, in, out))
<1> DEFINE b == Accessor(name, in, out)
<1>1. b.name = name /\ b.in = in /\ b.out = out /\ b.fold = FALSE BY DEF Accessor
<1>2. Stores \subseteq Accessors BY DEF Stores, Accessors
<1>3. b.in \in Nat /\ b.out \in Nat BY <1>1
<1> HIDE DEF b
<1>4. b.name \in Stores => b.in = 3 /\ b.out = 0 BY <1>1
<1>5. b.name \in Accessors \ Stores => b.in = 2 /\ b.out = 1 BY <1>1
<1>6. b.name \in Accessors BY <1>1, <1>2
<1> QED BY <1>3, <1>4, <1>5, <1>6, Zenon DEF Callable, b

CallOp(b) == IF b.no_process /\ b.no_panic THEN "call_builtin_no_regs" ELSE "call_builtin"

LEMMA AddCallBuiltinIsBuilt ==
    ASSUME NEW c, NEW in, NEW b, Callable(b), Behind(c, in, Len(c.vstack) + b.in)
    PROVE  /\ WellBuilt(AddCallBuiltin(c, b), in)
           /\ AddCallBuiltin(c, b).insts
                = c.insts \o (<<[op |-> CallOp(b), callee |-> b]>>
                                 \o <<[op |-> "call_builtin_sig", in |-> b.in, out |-> b.out]>>)
<1> DEFINE call == [op |-> CallOp(b), callee |-> b]
           sig == [op |-> "call_builtin_sig", in |-> b.in, out |-> b.out]
           insts == <<call>> \o <<sig>>
           n == Len(c.vstack) + b.in
           to == Len(c.vstack) + b.out
           d == Emit(c, insts)
<1>1. AddCallBuiltin(c, b) = PushOutput(d, b.out) BY Zenon DEF AddCallBuiltin, WithSig, CallOp
<1>2. b.in \in Nat /\ b.out \in Nat BY Zenon DEF Callable
<1>3. Len(c.vstack) \in Nat /\ IsCode(c) BY CodeFields DEF Behind
<1>4. call.op \in Builtins /\ call.callee = b BY Zenon DEF CallOp, Builtins
<1>5. sig.op = "call_builtin_sig" OBVIOUS
<1> HIDE DEF call, sig
<1>6. n >= b.in /\ to = (n - b.in) + b.out /\ to \in Nat BY <1>2, <1>3
<1> HIDE DEF n, to
<1>7. Moves(call, n, to) BY <1>2, <1>4, <1>6 DEF Moves, Exchanges
<1>8. IsList(insts) /\ Reaches(insts, n, to) BY <1>4, <1>5, <1>6, <1>7, ReachesCall
<1> HIDE DEF insts
<1>9. Emits(c, d, insts) BY <1>3, <1>8, Emitted
<1> HIDE DEF d
<1>10. Behind(c, in, n) BY DEF n
<1>11. Reaches(insts, n, Len(c.vstack) + b.out) BY <1>8 DEF to
<1>12. WellBuilt(PushOutput(d, b.out), in) BY <1>2, <1>9, <1>10, <1>11, ReachesAndPushesOutput
<1>13. PushOutput(d, b.out).insts = c.insts \o insts BY <1>2, <1>9, PushedOutput DEF Emits, Pushes
<1> QED BY <1>1, <1>12, <1>13 DEF insts, call, sig

LEMMA InstCallBuiltinIsBuilt ==
    ASSUME NEW c, NEW in, WellBuilt(c, in), NEW b, Known(b), Callable(b), Has(c, b.in)
    PROVE  WellBuilt(InstCallBuiltin(c, b), in)
<1> DEFINE L == Len(c.vstack)
           p == PopValues(c, b.in)
<1>1. b.in \in Nat /\ b.out \in Nat BY Zenon DEF Known
<1>2. Behind(c, in, L) /\ L \in Nat /\ b.in <= L BY BuiltFacts DEF Has
<1>3. Behind(p, in, L) /\ Len(p.vstack) = L - b.in BY <1>1, <1>2, BehindPops
<1>4. CASE ~Folds(c, b)
  <2>1. InstCallBuiltin(c, b) = AddCallBuiltin(p, b) BY <1>4, NotFolded
  <2>2. L = Len(p.vstack) + b.in BY <1>1, <1>2, <1>3
  <2> HIDE DEF p, L
  <2> QED BY <1>3, <2>1, <2>2, AddCallBuiltinIsBuilt
<1>5. CASE Folds(c, b)
  <2>1. PICK f, v : IsList(v) /\ Len(v) = b.out /\ FoldsTo(c, b, f, v) BY <1>5, Folded
  <2> DEFINE n == Len(v)
             a == PopTop(p, b.in)
             S == {k \in Nat : k \in 0..n => WellBuilt(f[k], in)}
  <2>2. f = [k \in 0..n |-> IF k = 0 THEN a ELSE InstUint(f[k - 1], v[n - k + 1])] /\ InstCallBuiltin(c, b) = f[n]
    BY <2>1 DEF FoldsTo
  <2>3. WellBuilt(a, in)
    <3> DEFINE less == L - b.in
    <3>1. less \in Nat /\ L = less + b.in BY <1>1, <1>2
    <3> HIDE DEF less, p
    <3>2. Behind(p, in, less + b.in) BY <1>3, <3>1
    <3>3. Behind(a, in, less) /\ Len(a.vstack) = Len(p.vstack) BY <1>1, <3>1, <3>2, BehindPopTop
    <3> QED BY <1>3, <3>3 DEF WellBuilt, less
  <2>4. n \in Nat BY <1>1, <2>1
  <2> HIDE DEF a, n
  <2>5. 0 \in S BY <2>2, <2>3, <2>4
  <2>6. ASSUME NEW k \in Nat, k \in S PROVE k + 1 \in S
    <3>1. CASE k + 1 \in 0..n
      <4>1. k \in 0..n /\ k + 1 # 0 /\ (k + 1) - 1 = k BY <2>4, <3>1
      <4>2. f[k + 1] = InstUint(f[k], v[n - (k + 1) + 1]) BY <2>2, <3>1, <4>1
      <4>3. WellBuilt(f[k], in) BY <2>6, <4>1
      <4> QED BY <4>2, <4>3, InstUintIsBuilt
    <3> QED BY <3>1
  <2> HIDE DEF S
  <2>7. n \in S BY <2>4, <2>5, <2>6, Induction
  <2>8. WellBuilt(f[n], in) BY <2>4, <2>7 DEF S
  <2> QED BY <2>2, <2>8
<1> QED BY <1>4, <1>5

LEMMA InstCallIsBuilt ==
    ASSUME NEW c, NEW in, WellBuilt(c, in), NEW f \in DOMAIN Functions, Has(c, Functions[f].in)
    PROVE  WellBuilt(InstCall(c, f), in)
<1> DEFINE L == Len(c.vstack)
           inst == [op |-> "call", value |-> f]
           i == Functions[f].in
           o == Functions[f].out
<1>1. InstCall(c, f) = PushOutput(Emit(PopValues(c, i), <<inst>>), o) BY DEF InstCall, WithValue
<1>2. L \in Nat /\ L >= i /\ i \in Nat /\ o \in Nat BY MachineAssumption, BuiltFacts DEF Has
<1>3. inst.op = "call" /\ inst.value = f OBVIOUS
<1> HIDE DEF inst
<1>4. Moves(inst, L, (L - i) + o) /\ Ordinary(inst) BY <1>2, <1>3 DEF Moves, Exchanges, Ordinary, Builtins
<1> QED BY <1>1, <1>2, <1>4, PopsAndPushes

(* A function that is known to be called at this place, if any, has the      *)
(* signature that its address promises.                                      *)
Promised(c, in, out) ==
    IsConstantFunction(Top(c), in, out) =>
        LET f == Functions[FunctionAddressOf(Top(c).word).index] IN f.in = in /\ f.out = out

LEMMA InstCallIndirectIsBuilt ==
    ASSUME NEW c, NEW n, WellBuilt(c, n), NEW in \in Nat, NEW out \in Nat, Has(c, in + 1), Promised(c, in, out)
    PROVE  WellBuilt(InstCallIndirect(c, in, out), n)
<1> DEFINE L == Len(c.vstack)
           f == FunctionAddressOf(Top(c).word).index
           call == [op |-> "call", value |-> f]
           inst == [op |-> "call_indirect", in |-> in, out |-> out]
           d == PopTop(PopValues(c, in + 1), 1)
<1>1. IF IsConstantFunction(Top(c), in, out)
      THEN InstCallIndirect(c, in, out) = PushOutput(Emit(d, <<call>>), out)
      ELSE InstCallIndirect(c, in, out) = PushOutput(Emit(PopValues(c, in + 1), <<inst>>), out)
  BY DEF InstCallIndirect, WithValue, WithSig
<1>2. L \in Nat /\ L >= in + 1 BY BuiltFacts DEF Has
<1>3. inst.op = "call_indirect" /\ inst.in = in /\ inst.out = out OBVIOUS
<1>4. call.op = "call" /\ call.value = f OBVIOUS
<1>5. IsConstantFunction(Top(c), in, out) => Functions[f].in = in /\ Functions[f].out = out BY DEF Promised
<1> HIDE DEF inst, call, f
<1>6. WellBuilt(PushOutput(Emit(PopValues(c, in + 1), <<inst>>), out), n)
  <2>1. Moves(inst, L, (L - (in + 1)) + out) /\ Ordinary(inst)
    BY <1>2, <1>3 DEF Moves, Exchanges, Ordinary, Builtins
  <2> QED BY <2>1, PopsAndPushes
<1>7. CASE IsConstantFunction(Top(c), in, out)
  <2>1. /\ Behind(d, n, L - 1) /\ Len(d.vstack) = L - (in + 1)
        /\ L - 1 \in Nat /\ L - (in + 1) \in Nat
    BY PopsAndTakes
  <2> HIDE DEF d
  <2>2. L - 1 >= in /\ Len(d.vstack) + out = ((L - 1) - in) + out BY <1>2, <2>1
  <2>3. Moves(call, L - 1, Len(d.vstack) + out) /\ Ordinary(call)
    BY <1>4, <1>5, <1>7, <2>2 DEF Moves, Exchanges, Ordinary, Builtins
  <2>4. WellBuilt(PushOutput(Emit(d, <<call>>), out), n) BY <2>1, <2>3, EmitsAndPushes
  <2> QED BY <1>1, <1>7, <2>4
<1> QED BY <1>1, <1>6, <1>7

LEMMA InstFiberIsBuilt ==
    ASSUME NEW c, NEW n, WellBuilt(c, n), NEW in \in Nat, NEW out \in Nat
    PROVE  /\ Has(c, in + 1) => \A op \in {"fiber_resume", "fiber_transfer"} : WellBuilt(InstFiberSwitch(c, op, in, out), n)
           /\ Has(c, in) => WellBuilt(InstFiberSuspend(c, in, out), n)
<1> DEFINE L == Len(c.vstack)
<1>1. L \in Nat BY BuiltFacts
<1>2. ASSUME Has(c, in + 1), NEW op \in {"fiber_resume", "fiber_transfer"}
      PROVE  WellBuilt(InstFiberSwitch(c, op, in, out), n)
  <2> DEFINE inst == [op |-> op, in |-> in, out |-> out]
  <2>1. InstFiberSwitch(c, op, in, out) = PushOutput(Emit(PopValues(c, in + 1), <<inst>>), out)
    BY DEF InstFiberSwitch, WithSig
  <2>2. inst.op = op /\ inst.in = in /\ inst.out = out OBVIOUS
  <2> HIDE DEF inst
  <2>3. L >= in + 1 BY <1>2 DEF Has
  <2>4. Moves(inst, L, (L - (in + 1)) + out) /\ Ordinary(inst)
    BY <1>1, <2>2, <2>3 DEF Moves, Exchanges, Ordinary, Builtins
  <2> QED BY <1>2, <2>1, <2>4, PopsAndPushes
<1>3. ASSUME Has(c, in) PROVE WellBuilt(InstFiberSuspend(c, in, out), n)
  <2> DEFINE inst == [op |-> "fiber_suspend", in |-> in, out |-> out]
  <2>1. InstFiberSuspend(c, in, out) = PushOutput(Emit(PopValues(c, in), <<inst>>), out)
    BY DEF InstFiberSuspend, WithSig
  <2>2. inst.op = "fiber_suspend" /\ inst.in = in /\ inst.out = out OBVIOUS
  <2> HIDE DEF inst
  <2>3. L >= in BY <1>3 DEF Has
  <2>4. Moves(inst, L, (L - in) + out) /\ Ordinary(inst)
    BY <1>1, <2>2, <2>3 DEF Moves, Exchanges, Ordinary, Builtins
  <2> QED BY <1>3, <2>1, <2>4, PopsAndPushes
<1> QED BY <1>2, <1>3

(* Memory                                                                    *)

LEMMA InstArrayElementIsBuilt ==
    ASSUME NEW c, NEW in, WellBuilt(c, in), Has(c, 2), NEW l
    PROVE  WellBuilt(InstArrayElement(c, l), in)
<1> DEFINE L == Len(c.vstack)
           multiple == RoundUp(l.size, l.align)
           d == PopTop(PopValues(c, 2), 1)
           offset == AsSint(Top(c).word) * multiple
           member == [op |-> "aggregate_member", value |-> offset]
           element == [op |-> "array_element", value |-> multiple]
<1>1. \/ InstArrayElement(c, l) = PushOutput(Emit(d, <<member>>), 1)
      \/ InstArrayElement(c, l) = PushOutput(d, 1)
      \/ InstArrayElement(c, l) = PushOutput(Emit(PopValues(c, 2), <<element>>), 1)
  BY DEF InstArrayElement, WithValue
<1>2. member.op = "aggregate_member" /\ element.op = "array_element" OBVIOUS
<1> HIDE DEF member, element, offset, multiple
<1>3. L \in Nat /\ L >= 2 BY BuiltFacts DEF Has
<1>4. /\ Behind(d, in, L - 1) /\ Len(d.vstack) = L - 2
      /\ L - 1 \in Nat /\ L - 2 \in Nat /\ L - 1 = (L - 2) + 1
  BY <1>3, PopsAndTakes
<1> HIDE DEF d
<1>5. WellBuilt(PushOutput(Emit(d, <<member>>), 1), in)
  <2>1. Moves(member, L - 1, Len(d.vstack) + 1) /\ Ordinary(member)
    BY <1>2, <1>3, <1>4 DEF Moves, ChangesOne, Ordinary, Builtins
  <2> QED BY <1>4, <2>1, EmitsAndPushes
<1>6. WellBuilt(PushOutput(d, 1), in) BY <1>4, PushesOnly
<1>7. WellBuilt(PushOutput(Emit(PopValues(c, 2), <<element>>), 1), in)
  <2>1. (L - 2) + 1 = L - 1 BY <1>3
  <2>2. Moves(element, L, (L - 2) + 1) /\ Ordinary(element)
    BY <1>2, <1>3, <2>1 DEF Moves, Ordinary, Builtins
  <2> QED BY <2>2, PopsAndPushes
<1> QED BY <1>1, <1>5, <1>6, <1>7

(* An instruction that changes the top                                       *)
LEMMA ChangesTop ==
    ASSUME NEW c, NEW in, WellBuilt(c, in), Has(c, 1), NEW inst, inst.op \in ChangesOne \ {"cc"}
    PROVE  /\ WellBuilt(PushOutput(Emit(PopValues(c, 1), <<inst>>), 1), in)
           /\ Len(PushOutput(Emit(PopValues(c, 1), <<inst>>), 1).vstack) = Len(c.vstack)
<1> DEFINE L == Len(c.vstack)
           d == PopValues(c, 1)
<1>1. Behind(c, in, L) /\ L \in Nat /\ L >= 1 BY BuiltFacts DEF Has
<1>2. Behind(d, in, L) /\ Len(d.vstack) = L - 1 BY <1>1, BehindPops
<1>3. (L - 1) + 1 = L BY <1>1
<1> DEFINE one == 1
<1> HIDE DEF d
<1>4. Moves(inst, L, Len(d.vstack) + one) /\ Ordinary(inst) /\ one \in Nat
  BY <1>1, <1>2, <1>3 DEF Moves, ChangesOne, Ordinary, Builtins
<1> HIDE DEF one, L
<1>5. /\ WellBuilt(PushOutput(Emit(d, <<inst>>), one), in)
      /\ Len(PushOutput(Emit(d, <<inst>>), one).vstack) = Len(d.vstack) + one
  BY <1>2, <1>4, EmitsAndPushes
<1> QED BY <1>2, <1>3, <1>5 DEF d, one, L

LEMMA InstAggregateMemberIsBuilt ==
    ASSUME NEW c, NEW in, WellBuilt(c, in), Has(c, 1), NEW members, NEW index
    PROVE  WellBuilt(InstAggregateMember(c, members, index), in)
<1> DEFINE offset == AggregateSize(SubSeq(members, 1, index)) - members[index].size
           inst == [op |-> "aggregate_member", value |-> offset]
<1>1. \/ InstAggregateMember(c, members, index) = PushOutput(Emit(PopValues(c, 1), <<inst>>), 1)
      \/ InstAggregateMember(c, members, index) = c
  BY DEF InstAggregateMember, WithValue
<1>2. inst.op \in ChangesOne \ {"cc"} BY DEF ChangesOne
<1> HIDE DEF inst
<1> QED BY <1>1, <1>2, ChangesTop

LEMMA DerefIsBuilt ==
    ASSUME NEW c, NEW in, WellBuilt(c, in), Has(c, 1), NEW inst, inst.op \in ChangesOne \ {"cc"}
    PROVE  LET d == InstUint(PushOutput(Emit(PopValues(c, 1), <<inst>>), 1), 0)
           IN  WellBuilt(d, in) /\ Len(d.vstack) = Len(c.vstack) + 1
<1> DEFINE e == PushOutput(Emit(PopValues(c, 1), <<inst>>), 1)
<1>1. WellBuilt(e, in) /\ Len(e.vstack) = Len(c.vstack) BY ChangesTop
<1> HIDE DEF e
<1>2. WellBuilt(InstUint(e, 0), in) /\ Len(InstUint(e, 0).vstack) = Len(c.vstack) + 1 BY <1>1, InstUintIsBuilt
<1> QED BY <1>2 DEF e

LEMMA InstLoadFieldIsBuilt ==
    ASSUME NEW c, NEW in, WellBuilt(c, in), Has(c, 1), NEW type \in {ValueType, SintType, UintType, EmptyType}
    PROVE  WellBuilt(InstLoadField(c, type), in)
<1> DEFINE L == Len(c.vstack)
           t == PopTop(PopValues(c, 1), 1)
           l == locals[Top(c).word + 1]
           g == AddressOf(Top(c).word).allocation
           deref == [op |-> "deref_const", size |-> type.size, align |-> type.align]
           d == InstUint(PushOutput(Emit(PopValues(c, 1), <<deref>>), 1), 0)
           a == Accessor(type.load, 2, 1)
           fromLocal == [op |-> "load_local_value", index |-> l.index, offset |-> l.offset]
           fromGlobal == [op |-> "load_global_value", value |-> g]
<1>1. \/ InstLoadField(c, type) = PushOutput(Emit(t, <<fromLocal>>), 1)
      \/ InstLoadField(c, type) = PushOutput(Emit(t, <<fromGlobal>>), 1)
      \/ InstLoadField(c, type) = InstUint(t, 0)
      \/ ~(type.size = 0 /\ type.load = "none") /\ InstLoadField(c, type) = InstCallBuiltin(d, a)
  BY Zenon DEF InstLoadField, WithLocal, WithValue, WithLayout
<1>2. fromLocal.op = "load_local_value" /\ fromGlobal.op = "load_global_value" /\ deref.op = "deref_const" OBVIOUS
<1> HIDE DEF fromLocal, fromGlobal, deref, l, g
<1>3. L \in Nat /\ L >= 1 BY BuiltFacts DEF Has
<1>4. Behind(t, in, L - 1) /\ Len(t.vstack) = L - 1 /\ L - 1 \in Nat BY PopsAndTakes
<1> HIDE DEF t
<1>5. ASSUME NEW inst, inst.op \in Pushing PROVE WellBuilt(PushOutput(Emit(t, <<inst>>), 1), in)
  <2>1. Moves(inst, L - 1, Len(t.vstack) + 1) /\ Ordinary(inst)
    BY <1>4, <1>5 DEF Moves, Pushing, Ordinary, Builtins
  <2> QED BY <1>4, <2>1, EmitsAndPushes
<1>6. WellBuilt(PushOutput(Emit(t, <<fromLocal>>), 1), in) /\ WellBuilt(PushOutput(Emit(t, <<fromGlobal>>), 1), in)
  BY <1>2, <1>5 DEF Pushing
<1>7. WellBuilt(InstUint(t, 0), in)
  <2>1. WellBuilt(t, in) BY <1>4 DEF WellBuilt
  <2> QED BY <2>1, InstUintIsBuilt
<1>8. CASE ~(type.size = 0 /\ type.load = "none")
  <2>1. WellBuilt(d, in) /\ Len(d.vstack) = L + 1 BY <1>2, DerefIsBuilt DEF ChangesOne
  <2>2. Known(a) /\ a.in = 2
    <3>1. Known(a) BY AccessorIsKnown
    <3> QED BY <3>1 DEF Accessor
  <2>3. type.load \in Accessors \ Stores
    BY <1>8 DEF ValueType, SintType, UintType, EmptyType, Accessors, Stores
  <2>4. Callable(a) BY <2>3, AccessorIsCallable
  <2> HIDE DEF d, a
  <2>5. Has(d, a.in) BY <1>3, <2>1, <2>2 DEF Has
  <2> QED BY <2>1, <2>2, <2>4, <2>5, <1>1, <1>6, <1>7, InstCallBuiltinIsBuilt
<1> QED BY <1>1, <1>6, <1>7, <1>8, Zenon

LEMMA InstStoreFieldIsBuilt ==
    ASSUME NEW c, NEW in, WellBuilt(c, in), Has(c, 2), NEW type \in {ValueType, SintType, UintType, EmptyType}
    PROVE  WellBuilt(InstStoreField(c, type), in)
<1> DEFINE L == Len(c.vstack)
           p == PopValues(c, 1)
           t == PopTop(p, 1)
           l == locals[Top(c).word + 1]
           g == AddressOf(Top(c).word).allocation
           deref == [op |-> "deref_mut", size |-> type.size, align |-> type.align]
           d == InstUint(PushOutput(Emit(p, <<deref>>), 1), 0)
           a == Accessor(type.store, 3, 0)
           toLocal == [op |-> "store_local_value", index |-> l.index, offset |-> l.offset]
           toGlobal == [op |-> "store_global_value", value |-> g]
<1>1. \/ InstStoreField(c, type) = PopValues(Emit(t, <<toLocal>>), 1)
      \/ InstStoreField(c, type) = PopValues(Emit(t, <<toGlobal>>), 1)
      \/ InstStoreField(c, type) = PopTop(PopValues(p, 1), 2)
      \/ ~(type.size = 0 /\ type.store = "none") /\ InstStoreField(c, type) = InstCallBuiltin(d, a)
  BY Zenon DEF InstStoreField, WithLocal, WithValue, WithLayout
<1>2. toLocal.op = "store_local_value" /\ toGlobal.op = "store_global_value" /\ deref.op = "deref_mut" OBVIOUS
<1> HIDE DEF toLocal, toGlobal, deref, l, g
<1>0. Has(c, 1) BY BuiltFacts DEF Has
<1>3. Behind(c, in, L) /\ L \in Nat /\ L >= 2 BY BuiltFacts DEF Has
<1>4. Behind(t, in, L - 1) /\ Len(t.vstack) = L - 1 /\ L - 1 \in Nat BY <1>0, PopsAndTakes
<1>5. ASSUME NEW inst, inst.op \in {"store_local_value", "store_global_value"}
      PROVE  WellBuilt(PopValues(Emit(t, <<inst>>), 1), in)
  <2> HIDE DEF t
  <2> DEFINE e == Emit(t, <<inst>>)
  <2>1. L - 2 \in Nat /\ (L - 1) - 1 = L - 2 /\ L - 1 >= 1 BY <1>3
  <2>2. Moves(inst, L - 1, L - 2) /\ Ordinary(inst) BY <1>5, <2>1 DEF Moves, Ordinary, Builtins
  <2>3. L - 2 <= t.max
    <3>1. Leaves(t.insts, in, L - 1, t.max) BY <1>4 DEF Behind
    <3>2. L - 1 \in 0..t.max /\ t.max \in Nat BY <3>1, LeavesFacts
    <3> QED BY <2>1, <3>2
  <2>4. Behind(e, in, L - 2) /\ e.vstack = t.vstack BY <1>4, <2>1, <2>2, <2>3, EmitsOne
  <2> HIDE DEF e
  <2>5. 1 <= Len(e.vstack) /\ 1 \in Nat BY <1>3, <1>4, <2>4
  <2>6. Behind(PopValues(e, 1), in, L - 2) /\ Len(PopValues(e, 1).vstack) = L - 2
    BY <1>4, <2>1, <2>4, <2>5, BehindPops
  <2> QED BY <2>6 DEF WellBuilt, e
<1>6. WellBuilt(PopValues(Emit(t, <<toLocal>>), 1), in) /\ WellBuilt(PopValues(Emit(t, <<toGlobal>>), 1), in)
  BY <1>2, <1>5
<1>7. WellBuilt(PopTop(PopValues(p, 1), 2), in)
  <2> DEFINE n == L - 2
             two == 2
             q == PopValues(p, 1)
  <2>1. Behind(p, in, L) /\ Len(p.vstack) = L - 1 BY <1>3, BehindPops
  <2> HIDE DEF p
  <2>2. 1 <= Len(p.vstack) /\ 1 \in Nat BY <1>3, <2>1
  <2>3. Behind(q, in, L) /\ Len(q.vstack) = n
    <3>1. Behind(q, in, L) /\ Len(q.vstack) = Len(p.vstack) - 1 BY <2>1, <2>2, BehindPops
    <3> QED BY <1>3, <2>1, <3>1
  <2>4. n \in Nat /\ two \in Nat /\ L = n + two BY <1>3
  <2> HIDE DEF n, two, q, L
  <2>5. Behind(q, in, n + two) BY <2>3, <2>4
  <2>6. Behind(PopTop(q, two), in, n) /\ Len(PopTop(q, two).vstack) = Len(q.vstack) BY <2>4, <2>5, BehindPopTop
  <2>7. WellBuilt(PopTop(q, two), in) BY <2>3, <2>6 DEF WellBuilt
  <2> QED BY <2>7 DEF q, two
<1>8. CASE ~(type.size = 0 /\ type.store = "none")
  <2>1. WellBuilt(d, in) /\ Len(d.vstack) = L + 1 BY <1>0, <1>2, DerefIsBuilt DEF ChangesOne
  <2>2. Known(a) /\ a.in = 3
    <3>1. Known(a) BY AccessorIsKnown
    <3> QED BY <3>1 DEF Accessor
  <2>3. type.store \in Stores
    BY <1>8 DEF ValueType, SintType, UintType, EmptyType, Stores
  <2>4. Callable(a) BY <2>3, AccessorIsCallable
  <2> HIDE DEF d, a
  <2>5. Has(d, a.in) BY <1>3, <2>1, <2>2 DEF Has
  <2>6. WellBuilt(InstCallBuiltin(d, a), in) BY <2>1, <2>2, <2>4, <2>5, InstCallBuiltinIsBuilt
  <2> HIDE DEF t, p
  <2> QED BY <2>6, <1>1, <1>6, <1>7
<1> HIDE DEF t, p, d, a
<1> QED BY <1>1, <1>6, <1>7, <1>8, Zenon

-----------------------------------------------------------------------------
(* The heights of the stack in every block: its code begins with the inputs  *)
(* of the block, and ends with what the terminator takes and what the next   *)
(* block begins with.                                                        *)

Branches == {"branch_ne_eq", "branch_lt_ge", "branch_le_gt"}

(* How many values there are before the terminator: a branch and a panic     *)
(* take one.                                                                 *)
Left(term, vstack) == IF term \in Branches \cup {"panic"} THEN Len(vstack) + 1 ELSE Len(vstack)
Exit(block) == Left(block.term, block.vstack)

(* A call that does not return: the builtin panics whatever it is given.     *)
AlwaysPanics(b) == b.always_panic /\ b.name \notin Accessors

EndsInPanic(insts) ==
    /\ Len(insts) >= 2
    /\ insts[Len(insts) - 1].op \in Builtins
    /\ AlwaysPanics(insts[Len(insts) - 1].callee)

Terms == {"unterminated", "terminated", "return_", "panic", "jump"} \cup Branches

Highs(block) ==
    /\ block.inputs \in Nat
    /\ block.term \in Terms
    /\ Leaves(block.insts, block.inputs, Exit(block), block.max)
    /\ block.term = "terminated" => EndsInPanic(block.insts)

Enters(bs, d, n) == d \in 1..Len(bs) /\ bs[d].inputs = n

GoesTo(bs, block) ==
    /\ block.term = "jump" => Enters(bs, block.next[1], Len(block.vstack))
    /\ block.term \in Branches => \A i \in {1, 2} : Enters(bs, block.next[i], Len(block.vstack))

AllHighs(bs) == \A b \in 1..Len(bs) : Highs(bs[b]) /\ GoesTo(bs, bs[b])

HeightsInv ==
    /\ BlocksInv
    /\ cur # 0 => blocks[cur].term = "unterminated"
    /\ blocks[1].inputs = script.in
    /\ AllHighs(blocks)

LEMMA GoesOn ==
    ASSUME NEW bs, NEW t, NEW block, GoesTo(bs, block), Len(bs) \in Nat, Len(t) \in Nat, Len(bs) <= Len(t),
           \A j \in 1..Len(bs) : t[j].inputs = bs[j].inputs
    PROVE  GoesTo(t, block)
<1>1. ASSUME NEW d, NEW n, Enters(bs, d, n) PROVE Enters(t, d, n)
  <2>1. d \in 1..Len(bs) /\ d \in 1..Len(t) BY <1>1 DEF Enters
  <2> QED BY <1>1, <2>1 DEF Enters
<1> QED BY <1>1, Zenon DEF GoesTo

LEMMA HighsChanged ==
    ASSUME NEW bs, GoodBlocks(bs), AllHighs(bs), NEW i \in 1..Len(bs), NEW b, Highs(b), GoesTo(bs, b),
           b.inputs = bs[i].inputs
    PROVE  AllHighs([bs EXCEPT ![i] = b]) /\ [bs EXCEPT ![i] = b][1].inputs = bs[1].inputs
<1> DEFINE t == [bs EXCEPT ![i] = b]
<1>1. IsList(bs) /\ Len(bs) \in Nat /\ 1 \in 1..Len(bs) BY ListFacts DEF GoodBlocks
<1>2. Len(t) = Len(bs) /\ t[i] = b /\ \A j \in 1..Len(bs) : j # i => t[j] = bs[j] BY <1>1, ListChanged
<1> HIDE DEF t
<1>3. \A j \in 1..Len(bs) : t[j].inputs = bs[j].inputs BY <1>2
<1>4. ASSUME NEW j \in 1..Len(bs) PROVE Highs(t[j]) /\ GoesTo(t, t[j])
  <2>1. Highs(t[j]) /\ GoesTo(bs, t[j]) BY <1>2 DEF AllHighs
  <2> QED BY <1>1, <1>2, <1>3, <2>1, GoesOn
<1>5. AllHighs(t) BY <1>2, <1>4 DEF AllHighs
<1> QED BY <1>1, <1>3, <1>5 DEF t

LEMMA HighsNew == ASSUME NEW n \in Nat, NEW bs PROVE Highs(NewBlock(n)) /\ GoesTo(bs, NewBlock(n))
<1> DEFINE b == NewBlock(n)
<1>1. /\ b.inputs = n /\ b.insts = <<>> /\ b.vstack = Inputs(n) /\ b.max = n /\ b.term = "unterminated"
  BY BlockNew
<1>2. Len(b.vstack) = n BY <1>1, InputsList
<1> HIDE DEF b
<1>3. Exit(b) = n BY <1>1, <1>2 DEF Exit, Left, Branches
<1>4. Leaves(b.insts, b.inputs, Exit(b), b.max) BY <1>1, <1>3, LeavesNothing
<1>5. Highs(b) BY <1>1, <1>4 DEF Highs, Terms
<1>6. GoesTo(bs, b) BY <1>1 DEF GoesTo, Branches
<1> QED BY <1>5, <1>6 DEF b

LEMMA HighsAppended ==
    ASSUME NEW bs, GoodBlocks(bs), AllHighs(bs), NEW n \in Nat
    PROVE  AllHighs(Append(bs, NewBlock(n))) /\ \A j \in 1..Len(bs) : Append(bs, NewBlock(n))[j] = bs[j]
<1> DEFINE b == NewBlock(n)
           t == Append(bs, b)
           L == Len(bs)
<1>1. IsList(bs) /\ L \in Nat BY ListFacts DEF GoodBlocks
<1>2. Len(t) = L + 1 /\ t[L + 1] = b /\ \A j \in 1..L : t[j] = bs[j] BY <1>1, ListAppended
<1>3. Highs(b) /\ GoesTo(t, b) BY HighsNew
<1> HIDE DEF t, b
<1>4. Len(t) \in Nat /\ L <= Len(t) BY <1>1, <1>2
<1>5. ASSUME NEW j \in 1..Len(t) PROVE Highs(t[j]) /\ GoesTo(t, t[j])
  <2>1. CASE j = L + 1 BY <1>2, <1>3, <2>1
  <2>2. CASE j # L + 1
    <3>1. j \in 1..L BY <1>1, <1>2, <2>2
    <3>2. Highs(bs[j]) /\ GoesTo(bs, bs[j]) /\ t[j] = bs[j] BY <1>2, <3>1 DEF AllHighs
    <3>3. \A k \in 1..L : t[k].inputs = bs[k].inputs BY <1>2
    <3> QED BY <1>1, <1>4, <3>2, <3>3, GoesOn
  <2> QED BY <2>1, <2>2
<1>6. AllHighs(t) BY <1>5 DEF AllHighs
<1> QED BY <1>2, <1>6 DEF t, b

LEMMA HighsFirst == ASSUME NEW n \in Nat PROVE AllHighs(<<NewBlock(n)>>) /\ <<NewBlock(n)>>[1].inputs = n
<1> DEFINE b == NewBlock(n)
           t == <<b>>
<1>1. Len(t) = 1 /\ t[1] = b BY OneList
<1>2. Highs(b) /\ GoesTo(t, b) /\ b.inputs = n BY HighsNew, BlockNew
<1> HIDE DEF t, b
<1>3. AllHighs(t) BY <1>1, <1>2 DEF AllHighs
<1> QED BY <1>1, <1>2, <1>3 DEF t, b

(* The current block, which is not ended yet                                 *)
LEMMA CurrentIsBuilt ==
    ASSUME HeightsInv, cur # 0
    PROVE  /\ cur \in 1..Len(blocks) /\ IsBlock(blocks[cur]) /\ IsCode(Code)
           /\ blocks[cur].term = "unterminated" /\ blocks[cur].inputs \in Nat
           /\ WellBuilt(Code, blocks[cur].inputs)
           /\ Highs(blocks[cur]) /\ GoodBlocks(blocks) /\ AllHighs(blocks)
<1>1. /\ cur \in 1..Len(blocks) /\ IsBlock(blocks[cur]) /\ IsCode(Code)
      /\ Code.insts = blocks[cur].insts /\ Code.vstack = blocks[cur].vstack /\ Code.max = blocks[cur].max
  BY CurrentBlock DEF HeightsInv
<1>2. blocks[cur].term = "unterminated" /\ Highs(blocks[cur]) BY <1>1 DEF HeightsInv, AllHighs
<1>3. Exit(blocks[cur]) = Len(blocks[cur].vstack) BY <1>2 DEF Exit, Left, Branches
<1>4. Leaves(blocks[cur].insts, blocks[cur].inputs, Len(blocks[cur].vstack), blocks[cur].max)
  BY <1>2, <1>3 DEF Highs
<1>5. WellBuilt(Code, blocks[cur].inputs) BY <1>1, <1>4 DEF WellBuilt, Behind
<1> QED BY <1>1, <1>2, <1>5 DEF HeightsInv, BlocksInv, Highs

LEMMA BuildsHighs ==
    ASSUME HeightsInv, cur # 0, NEW o, NEW c, WellBuilt(c, blocks[cur].inputs), Builds(o, c)
    PROVE  HeightsInv'
<1> DEFINE w == WithCode(blocks[cur], c)
<1>1. IsCode(c) BY DEF WellBuilt, Behind
<1>2. BlocksInv' BY <1>1, BuildsKeeps DEF HeightsInv
<1>3. /\ cur \in 1..Len(blocks) /\ IsBlock(blocks[cur]) /\ blocks[cur].term = "unterminated"
      /\ blocks[cur].inputs \in Nat /\ GoodBlocks(blocks) /\ AllHighs(blocks)
  BY CurrentIsBuilt
<1>4. /\ w.inputs = blocks[cur].inputs /\ w.insts = c.insts /\ w.vstack = c.vstack /\ w.max = c.max
      /\ w.term = "unterminated"
  BY <1>1, <1>3, WithCodeIs
<1>5. blocks' = [blocks EXCEPT ![cur] = w] /\ UNCHANGED <<cur, frontend>> BY DEF Builds, Asks
<1> HIDE DEF w
<1>6. Exit(w) = Len(c.vstack) BY <1>4 DEF Exit, Left, Branches
<1>7. Highs(w) BY <1>3, <1>4, <1>6 DEF Highs, Terms, WellBuilt, Behind
<1>8. GoesTo(blocks, w) BY <1>4 DEF GoesTo, Branches
<1> DEFINE u == blocks'
<1>9. AllHighs(u) /\ u[1].inputs = blocks[1].inputs BY <1>3, <1>4, <1>5, <1>7, <1>8, HighsChanged
<1>10. u[cur] = w BY <1>3, <1>5, ListChanged DEF GoodBlocks
<1> HIDE DEF u
<1>11. cur' # 0 => u[cur'].term = "unterminated" BY <1>4, <1>5, <1>10
<1>12. u[1].inputs = script'.in BY <1>5, <1>9 DEF HeightsInv, script
<1> QED BY <1>2, <1>9, <1>11, <1>12 DEF HeightsInv, u

(* An end of the block that fits its stack and what follows                  *)
LEMMA TerminatesHighs ==
    ASSUME HeightsInv, cur # 0, NEW o, NEW c, NEW term \in Terms, NEW next, Terminates(o, c, term, next),
           Behind(c, blocks[cur].inputs, Left(term, c.vstack)),
           term = "terminated" => EndsInPanic(c.insts),
           term = "jump" => Enters(blocks, next[1], Len(c.vstack)),
           term \in Branches => \A i \in {1, 2} : Enters(blocks, next[i], Len(c.vstack))
    PROVE  HeightsInv'
<1> DEFINE v == WithCode(blocks[cur], c)
           w == [v EXCEPT !.term = term, !.next = next]
<1>1. IsCode(c) BY DEF Behind
<1>2. BlocksInv' BY <1>1, TerminatesKeeps DEF HeightsInv
<1>3. /\ cur \in 1..Len(blocks) /\ IsBlock(blocks[cur])
      /\ blocks[cur].inputs \in Nat /\ GoodBlocks(blocks) /\ AllHighs(blocks)
  BY CurrentIsBuilt
<1>4. IsBlock(v) /\ v.inputs = blocks[cur].inputs /\ v.insts = c.insts /\ v.vstack = c.vstack /\ v.max = c.max
  BY <1>1, <1>3, WithCodeIs
<1>5. blocks' = [blocks EXCEPT ![cur] = w] /\ cur' = 0 /\ UNCHANGED frontend BY DEF Terminates, Asks
<1> HIDE DEF v
<1>6. /\ w.inputs = blocks[cur].inputs /\ w.insts = c.insts /\ w.vstack = c.vstack /\ w.max = c.max
      /\ w.term = term /\ w.next = next
  <2>1. EndedIs(w, v, term, next) BY <1>4, BlockEnded
  <2> HIDE DEF w
  <2> QED BY <1>4, <2>1 DEF EndedIs
<1> HIDE DEF w
<1>7. Exit(w) = Left(term, c.vstack) BY <1>6 DEF Exit
<1>8. Highs(w) BY <1>3, <1>6, <1>7 DEF Highs, Behind
<1>9. GoesTo(blocks, w) BY <1>6, Zenon DEF GoesTo
<1> DEFINE u == blocks'
<1>10. AllHighs(u) /\ u[1].inputs = blocks[1].inputs BY <1>3, <1>5, <1>6, <1>8, <1>9, HighsChanged
<1> HIDE DEF u
<1>11. u[1].inputs = script'.in BY <1>5, <1>10 DEF HeightsInv, script
<1> QED BY <1>2, <1>5, <1>10, <1>11 DEF HeightsInv, u

(* A function that a frontend calls through an address, and that the builder *)
(* knows, has the signature that the address says it has: the builder takes  *)
(* it from there (get_constant_function), and a frontend that makes an       *)
(* address out of numbers could have made up another.                        *)
CallsFit == \A o \in Asked("call_indirect") : Has(Code, o.in + 1) => Promised(Code, o.in, o.out)

LEMMA BuildingHighs ==
    ASSUME HeightsInv,
           \/ Uint \/ Sint \/ AddNull \/ Layout \/ GlobalAddr \/ TakeLocalAddr \/ FunctionAddr
           \/ Cc \/ Pop \/ Pick \/ Roll \/ Select
    PROVE  HeightsInv'
<1>0. BlocksInv BY DEF HeightsInv
<1>1. CASE Uint
  <2>1. PICK o \in Asked("uint") : Builds(o, InstUint(Code, o.v)) BY <1>1 DEF Uint
  <2> QED BY <1>0, <2>1, AskedOf, CurrentIsBuilt, InstUintIsBuilt, BuildsHighs
<1>2. CASE Sint
  <2>1. PICK o \in Asked("sint") : Builds(o, InstUint(Code, AsUint(o.i))) BY <1>2 DEF Sint, InstSint
  <2> QED BY <1>0, <2>1, AskedOf, CurrentIsBuilt, InstUintIsBuilt, BuildsHighs
<1>3. CASE AddNull
  <2>1. PICK o \in Asked("null") : Builds(o, InstNull(Code)) BY <1>3 DEF AddNull
  <2> QED BY <1>0, <2>1, AskedOf, CurrentIsBuilt, InstAddrIsBuilt, BuildsHighs
<1>4. CASE Layout
  <2>1. PICK o \in Asked("layout") : Builds(o, InstLayout(Code, o.layout)) BY <1>4 DEF Layout
  <2> QED BY <1>0, <2>1, AskedOf, CurrentIsBuilt, InstLayoutIsBuilt, BuildsHighs
<1>5. CASE GlobalAddr
  <2>1. PICK o \in Asked("global_addr") : Builds(o, InstGlobalAddr(Code, o.g)) BY <1>5 DEF GlobalAddr
  <2> QED BY <1>0, <2>1, AskedOf, CurrentIsBuilt, InstAddrIsBuilt, BuildsHighs
<1>6. CASE TakeLocalAddr
  <2>1. PICK o \in Asked("local_addr") : Builds(o, InstLocalAddr(Code, locals[o.l + 1])) BY <1>6 DEF TakeLocalAddr
  <2> QED BY <1>0, <2>1, AskedOf, CurrentIsBuilt, InstLocalAddrIsBuilt, BuildsHighs
<1>7. CASE FunctionAddr
  <2>1. PICK o \in Asked("function_addr") : Builds(o, InstFunctionAddr(Code, o.f)) BY <1>7 DEF FunctionAddr
  <2> QED BY <1>0, <2>1, AskedOf, CurrentIsBuilt, InstAddrIsBuilt, BuildsHighs
<1>8. CASE Cc
  <2>1. PICK o \in Asked("cc") : Has(Code, 1) /\ Builds(o, InstCc(Code, o.cc)) BY <1>8 DEF Cc
  <2>2. o.cc \in Conditions BY <1>0, AskedOf DEF Legal
  <2> QED BY <1>0, <2>1, <2>2, AskedOf, CurrentIsBuilt, InstCcIsBuilt, BuildsHighs
<1>9. CASE Pop
  <2>1. PICK o \in Asked("pop") : Has(Code, o.i + 1) /\ Builds(o, InstPop(Code, o.i)) BY <1>9 DEF Pop
  <2>2. o.i \in Nat BY <1>0, AskedOf DEF Legal
  <2> QED BY <1>0, <2>1, <2>2, AskedOf, CurrentIsBuilt, InstPopIsBuilt, BuildsHighs
<1>10. CASE Pick
  <2>1. PICK o \in Asked("pick") : Has(Code, o.i + 1) /\ Builds(o, InstPick(Code, o.i)) BY <1>10 DEF Pick
  <2>2. o.i \in Nat BY <1>0, AskedOf DEF Legal
  <2> QED BY <1>0, <2>1, <2>2, AskedOf, CurrentIsBuilt, InstPickIsBuilt, BuildsHighs
<1>11. CASE Roll
  <2>1. PICK o \in Asked("roll") : Has(Code, o.i + 1) /\ Builds(o, InstRoll(Code, o.i)) BY <1>11 DEF Roll
  <2>2. o.i \in Nat BY <1>0, AskedOf DEF Legal
  <2> QED BY <1>0, <2>1, <2>2, AskedOf, CurrentIsBuilt, InstRollIsBuilt, BuildsHighs
<1>12. CASE Select
  <2>1. PICK o \in Asked("select") : o.n >= 2 /\ Has(Code, o.n + 1) /\ Builds(o, InstSelect(Code, o.n))
    BY <1>12 DEF Select
  <2>2. o.n \in Nat BY <1>0, AskedOf DEF Legal
  <2> QED BY <1>0, <2>1, <2>2, AskedOf, CurrentIsBuilt, InstSelectIsBuilt, BuildsHighs
<1> QED BY <1>1, <1>2, <1>3, <1>4, <1>5, <1>6, <1>7, <1>8, <1>9, <1>10, <1>11, <1>12

LEMMA MemoryHighs ==
    ASSUME HeightsInv, ArrayElement \/ AggregateMember \/ LoadField \/ StoreField
    PROVE  HeightsInv'
<1>0. BlocksInv BY DEF HeightsInv
<1>1. CASE ArrayElement
  <2>1. PICK o \in Asked("array_element") : Has(Code, 2) /\ Builds(o, InstArrayElement(Code, o.layout))
    BY <1>1 DEF ArrayElement
  <2> QED BY <1>0, <2>1, AskedOf, CurrentIsBuilt, InstArrayElementIsBuilt, BuildsHighs
<1>2. CASE AggregateMember
  <2>1. PICK o \in Asked("aggregate_member") :
          Has(Code, 1) /\ Builds(o, InstAggregateMember(Code, o.members, o.index))
    BY <1>2 DEF AggregateMember
  <2> QED BY <1>0, <2>1, AskedOf, CurrentIsBuilt, InstAggregateMemberIsBuilt, BuildsHighs
<1>3. CASE LoadField
  <2>1. PICK o \in Asked("load_field") : Has(Code, 1) /\ Builds(o, InstLoadField(Code, o.type)) BY <1>3 DEF LoadField
  <2>2. o.type \in {ValueType, SintType, UintType, EmptyType} BY <1>0, AskedOf DEF Legal
  <2> QED BY <1>0, <2>1, <2>2, AskedOf, CurrentIsBuilt, InstLoadFieldIsBuilt, BuildsHighs
<1>4. CASE StoreField
  <2>1. PICK o \in Asked("store_field") : Has(Code, 2) /\ Builds(o, InstStoreField(Code, o.type))
    BY <1>4 DEF StoreField
  <2>2. o.type \in {ValueType, SintType, UintType, EmptyType} BY <1>0, AskedOf DEF Legal
  <2> QED BY <1>0, <2>1, <2>2, AskedOf, CurrentIsBuilt, InstStoreFieldIsBuilt, BuildsHighs
<1> QED BY <1>1, <1>2, <1>3, <1>4

LEMMA CallAtEnd ==
    ASSUME NEW s, IsList(s), NEW call, NEW sig, call.op \in Builtins, AlwaysPanics(call.callee)
    PROVE  EndsInPanic(s \o (<<call>> \o <<sig>>))
<1> DEFINE both == <<call>> \o <<sig>>
           all == s \o both
           L == Len(s)
<1>1. IsList(<<call>>) /\ IsList(<<sig>>) /\ Len(<<call>>) = 1 /\ Len(<<sig>>) = 1 /\ <<call>>[1] = call
  BY OneList
<1>2. IsList(both) /\ Len(both) = 2 /\ both[1] = call
  <2>1. Len(both) = 1 + 1 /\ \A i \in 1..1 : both[i] = <<call>>[i] BY <1>1, Joined
  <2> QED BY <1>1, <2>1, Joined
<1> HIDE DEF both
<1>3. Len(all) = L + Len(both) /\ \A i \in 1..Len(both) : all[L + i] = both[i] 
  <2>1. IsList(both) BY <1>2
  <2> QED BY <2>1, Joined
<1>4. L \in Nat BY ListFacts
<1> HIDE DEF all, L
<1>5. Len(all) = L + 2 /\ all[L + 1] = call BY <1>2, <1>3, <1>4
<1>6. Len(all) >= 2 /\ Len(all) - 1 = L + 1 BY <1>4, <1>5
<1> DEFINE x == all[Len(all) - 1]
<1>7. x = call BY <1>5, <1>6
<1>9. EndsInPanic(all) BY <1>6, <1>7 DEF EndsInPanic
<1> QED BY <1>9 DEF all, both

(* A builtin that always panics is called, never folded.                     *)
LEMMA PanicEnds ==
    ASSUME NEW c, NEW in, WellBuilt(c, in), NEW b, LegalBuiltin(b), AlwaysPanics(b), Has(c, b.in)
    PROVE  EndsInPanic(InstCallBuiltin(c, b).insts)
<1>1. Known(b) /\ Callable(b) BY LegalIsKnown, LegalIsCallable
<1>2. b.in \in Nat BY <1>1, Zenon DEF Known
<1>3. ~Folds(c, b)
  <2>1. Folds(c, b) => b \in Library BY <1>1, Zenon DEF Folds, Known
  <2>2. b \in Library => b.always_panic = FALSE BY LibraryGives, Zenon
  <2> QED BY <2>1, <2>2, Zenon DEF AlwaysPanics
<1> DEFINE L == Len(c.vstack)
           p == PopValues(c, b.in)
           call == [op |-> CallOp(b), callee |-> b]
           sig == [op |-> "call_builtin_sig", in |-> b.in, out |-> b.out]
<1>4. InstCallBuiltin(c, b) = AddCallBuiltin(p, b) BY <1>3, NotFolded
<1>5. Behind(c, in, L) /\ L \in Nat /\ b.in <= L BY BuiltFacts DEF Has
<1>6. Behind(p, in, L) /\ Len(p.vstack) = L - b.in BY <1>2, <1>5, BehindPops
<1>7. L = Len(p.vstack) + b.in BY <1>2, <1>5, <1>6
<1> HIDE DEF p, L
<1>8. InstCallBuiltin(c, b).insts = p.insts \o (<<call>> \o <<sig>>)
  BY <1>1, <1>4, <1>6, <1>7, AddCallBuiltinIsBuilt
<1>9. call.op \in Builtins /\ call.callee = b BY Zenon DEF CallOp, Builtins
<1> HIDE DEF call, sig
<1>10. IsList(p.insts) BY <1>6, CodeFields DEF Behind
<1> DEFINE s == p.insts
<1> HIDE DEF s
<1>11. EndsInPanic(s \o (<<call>> \o <<sig>>)) BY <1>9, <1>10, CallAtEnd DEF s
<1> QED BY <1>8, <1>11 DEF s

LEMMA CallsHighs ==
    ASSUME HeightsInv, CallsFit, Call \/ CallIndirectly \/ CallABuiltin \/ PanicIf \/ FiberSwitch \/ FiberSuspend
    PROVE  HeightsInv'
<1>0. BlocksInv BY DEF HeightsInv
<1>1. CASE Call
  <2>1. PICK o \in Asked("call") : Has(Code, Functions[o.f].in) /\ Builds(o, InstCall(Code, o.f)) BY <1>1 DEF Call
  <2>2. o.f \in DOMAIN Functions BY <1>0, AskedOf DEF Legal
  <2> QED BY <1>0, <2>1, <2>2, AskedOf, CurrentIsBuilt, InstCallIsBuilt, BuildsHighs
<1>2. CASE CallIndirectly
  <2>1. PICK o \in Asked("call_indirect") : Has(Code, o.in + 1) /\ Builds(o, InstCallIndirect(Code, o.in, o.out))
    BY <1>2 DEF CallIndirectly
  <2>2. o.in \in Nat /\ o.out \in Nat BY <1>0, AskedOf DEF Legal
  <2>3. Promised(Code, o.in, o.out) BY <2>1 DEF CallsFit
  <2> QED BY <1>0, <2>1, <2>2, <2>3, AskedOf, CurrentIsBuilt, InstCallIndirectIsBuilt, BuildsHighs
<1>3. CASE CallABuiltin
  <2>1. PICK o \in Asked("call_builtin") :
          /\ Has(Code, o.b.in)
          /\ \/ AlwaysPanics(o.b) /\ Terminates(o, InstCallBuiltin(Code, o.b), "terminated", <<0, 0>>)
             \/ Builds(o, InstCallBuiltin(Code, o.b))
    <3>1. PICK o \in Asked("call_builtin") :
            /\ Has(Code, o.b.in)
            /\ \/ o.b.always_panic /\ Terminates(o, InstCallBuiltin(Code, o.b), "terminated", <<0, 0>>)
               \/ Builds(o, InstCallBuiltin(Code, o.b))
      BY <1>3, Zenon DEF CallABuiltin
    <3>2. o.op = "call_builtin" /\ Legal(o) BY <1>0, AskedOf, Zenon
    <3>3. o.b.name \notin Accessors BY <3>2, Zenon DEF Legal, LegalBuiltin
    <3> QED BY <3>1, <3>3, Zenon DEF AlwaysPanics
  <2>2. cur # 0 /\ WellBuilt(Code, blocks[cur].inputs) BY <1>0, AskedOf, CurrentIsBuilt
  <2>3. LegalBuiltin(o.b) BY <1>0, AskedOf DEF Legal
  <2> DEFINE c == InstCallBuiltin(Code, o.b)
  <2>4. WellBuilt(c, blocks[cur].inputs) BY <2>1, <2>2, <2>3, LegalIsKnown, LegalIsCallable, InstCallBuiltinIsBuilt
  <2>5. AlwaysPanics(o.b) => EndsInPanic(c.insts) BY <2>1, <2>2, <2>3, PanicEnds
  <2> HIDE DEF c
  <2>6. CASE Builds(o, c) BY <2>2, <2>4, <2>6, BuildsHighs
  <2>7. CASE AlwaysPanics(o.b) /\ Terminates(o, c, "terminated", <<0, 0>>)
    <3> DEFINE t == "terminated"
               next == <<0, 0>>
    <3>1. t \in Terms /\ t \notin Branches \cup {"panic"} /\ t # "jump" BY DEF Terms, Branches
    <3>2. EndsInPanic(c.insts) /\ Terminates(o, c, t, next) BY <2>5, <2>7
    <3>3. Left(t, c.vstack) = Len(c.vstack) BY <3>1 DEF Left
    <3> HIDE DEF t, next
    <3>4. Behind(c, blocks[cur].inputs, Left(t, c.vstack)) BY <2>4, <3>3 DEF WellBuilt
    <3>5. t \notin Branches BY <3>1
    <3> QED BY <2>2, <3>1, <3>2, <3>4, <3>5, TerminatesHighs
  <2> QED BY <2>1, <2>6, <2>7 DEF c
<1>4. CASE PanicIf
  <2>1. PICK o \in Asked("panic_if") : Has(Code, 2) /\ Builds(o, InstPanicIf(Code)) BY <1>4 DEF PanicIf
  <2> QED BY <1>0, <2>1, AskedOf, CurrentIsBuilt, InstPanicIfIsBuilt, BuildsHighs
<1>5. CASE FiberSwitch
  <2>1. PICK o \in Asked("fiber_resume") \cup Asked("fiber_transfer") :
          Has(Code, o.in + 1) /\ Builds(o, InstFiberSwitch(Code, o.op, o.in, o.out))
    BY <1>5 DEF FiberSwitch
  <2>2. Legal(o) /\ o.op \in {"fiber_resume", "fiber_transfer"} /\ cur # 0 BY <1>0, AskedOf
  <2>3. o.in \in Nat /\ o.out \in Nat BY <2>2 DEF Legal
  <2> QED BY <2>1, <2>2, <2>3, CurrentIsBuilt, InstFiberIsBuilt, BuildsHighs
<1>6. CASE FiberSuspend
  <2>1. PICK o \in Asked("fiber_suspend") : Has(Code, o.in) /\ Builds(o, InstFiberSuspend(Code, o.in, o.out))
    BY <1>6 DEF FiberSuspend
  <2>2. o.in \in Nat /\ o.out \in Nat BY <1>0, AskedOf DEF Legal
  <2> QED BY <1>0, <2>1, <2>2, AskedOf, CurrentIsBuilt, InstFiberIsBuilt, BuildsHighs
<1> QED BY <1>1, <1>2, <1>3, <1>4, <1>5, <1>6

(* The comparison before a branch is taken back: it left as many values as   *)
(* it found.                                                                 *)
LEMMA BehindFront ==
    ASSUME NEW c, NEW in, NEW n, Behind(c, in, n), c.insts # <<>>, Last(c.insts).op = "cc"
    PROVE  /\ Behind([c EXCEPT !.insts = Front(@)], in, n) /\ [c EXCEPT !.insts = Front(@)].vstack = c.vstack
           /\ Last(c.insts).cc \in Conditions
<1> DEFINE d == [c EXCEPT !.insts = Front(@)]
           L == Len(c.insts)
<1>1. IsCode(c) /\ Leaves(c.insts, in, n, c.max) BY DEF Behind
<1>2. IsCode(d) /\ d.insts = SubSeq(c.insts, 1, L - 1) /\ d.vstack = c.vstack /\ d.max = c.max
  BY <1>1, FrontIsCode
<1> HIDE DEF d
<1>3. IsList(c.insts) BY <1>1, CodeFields
<1>4. L # 0 /\ c.insts[L].op = "cc" /\ Last(c.insts) = c.insts[L] BY <1>3, NotEmpty, LastIs
<1>5. PICK from \in 0..c.max : Leaves(SubSeq(c.insts, 1, L - 1), in, from, c.max) /\ Moves(c.insts[L], from, n)
  <2>1. c.insts[L].op # "call_builtin_sig" BY <1>4
  <2> QED BY <1>1, <1>4, <2>1, LeavesLess
<1>6. from = n /\ c.insts[L].cc \in Conditions BY <1>4, <1>5 DEF Moves, Pushing, Builtins
<1> QED BY <1>2, <1>4, <1>5, <1>6 DEF Behind, d

LEMMA BranchOnIs ==
    ASSUME NEW cc
    PROVE  cc \in Conditions => BranchOn(cc)[1] \in Branches
BY DEF Conditions, BranchOn, Branches

LEMMA EndsHighs ==
    ASSUME HeightsInv, FunctionReturn \/ Jump \/ FunctionPanic
    PROVE  HeightsInv'
<1>0. BlocksInv BY DEF HeightsInv
<1> DEFINE next == <<0, 0>>
           L == Len(Code.vstack)
           in == blocks[cur].inputs
<1>1. CASE FunctionReturn
  <2>1. PICK o \in Asked("return") : Terminates(o, Code, "return_", next) BY <1>1 DEF FunctionReturn
  <2>2. cur # 0 /\ Behind(Code, in, L) BY <1>0, AskedOf, CurrentIsBuilt DEF WellBuilt
  <2> DEFINE t == "return_"
  <2>3. t \in Terms /\ t \notin Branches /\ t # "jump" /\ t # "terminated" /\ Left(t, Code.vstack) = L
    BY DEF Terms, Branches, Left
  <2>4. Terminates(o, Code, t, next) BY <2>1
  <2> HIDE DEF t, next
  <2> QED BY <2>2, <2>3, <2>4, TerminatesHighs
<1>2. CASE Jump
  <2>1. PICK o \in Asked("jump") :
          o.dest \in DOMAIN blocks /\ L = blocks[o.dest].inputs /\ Terminates(o, Code, "jump", <<o.dest, 0>>)
    BY <1>2 DEF Jump
  <2>2. cur # 0 /\ Behind(Code, in, L) BY <1>0, AskedOf, CurrentIsBuilt DEF WellBuilt
  <2> DEFINE t == "jump"
             to == <<o.dest, 0>>
  <2>3. t \in Terms /\ t \notin Branches /\ t # "terminated" /\ Left(t, Code.vstack) = L
    BY DEF Terms, Branches, Left
  <2>4. Terminates(o, Code, t, to) BY <2>1
  <2>5. to[1] = o.dest OBVIOUS
  <2>6. o.dest \in 1..Len(blocks) BY <1>0, <2>1, ListFacts DEF BlocksInv, GoodBlocks
  <2>7. Enters(blocks, to[1], L) BY <2>1, <2>5, <2>6 DEF Enters
  <2> HIDE DEF t, to
  <2> QED BY <2>2, <2>3, <2>4, <2>7, TerminatesHighs
<1>3. CASE FunctionPanic
  <2> DEFINE c == PopValues(Code, 1)
             one == 1
  <2>1. PICK o \in Asked("panic") : Has(Code, one) /\ Terminates(o, c, "panic", next) BY <1>3 DEF FunctionPanic
  <2>2. cur # 0 /\ Behind(Code, in, L) /\ IsCode(Code) BY <1>0, AskedOf, CurrentIsBuilt DEF WellBuilt
  <2>3. L \in Nat /\ one \in Nat /\ one <= L BY <2>1, <2>2, CodeFields DEF Has
  <2>4. Behind(PopValues(Code, one), in, L) /\ Len(PopValues(Code, one).vstack) = L - one
    <3> HIDE DEF one
    <3> QED BY <2>2, <2>3, BehindPops
  <2>5. Len(c.vstack) + 1 = L BY <2>3, <2>4
  <2> DEFINE t == "panic"
  <2>6. t \in Terms /\ t \notin Branches /\ t # "jump" /\ t # "terminated" BY DEF Terms, Branches
  <2>7. Behind(c, in, L) /\ Terminates(o, c, t, next) BY <2>1, <2>4
  <2> HIDE DEF c
  <2>8. Left(t, c.vstack) = L BY <2>5 DEF Left
  <2> HIDE DEF t, next
  <2> QED BY <2>2, <2>6, <2>7, <2>8, TerminatesHighs
<1> QED BY <1>1, <1>2, <1>3

LEMMA BranchHighs == ASSUME HeightsInv, ABranch PROVE HeightsInv'
<1>0. BlocksInv BY DEF HeightsInv
<1> DEFINE L == Len(Code.vstack)
           in == blocks[cur].inputs
           popped == PopValues(Code, 1)
<1>1. PICK o \in Asked("branch") :
        /\ Has(Code, 1)
        /\ {o.if_true, o.if_false} \subseteq DOMAIN blocks
        /\ blocks[o.if_true].inputs = Len(Code.vstack) - 1
        /\ blocks[o.if_false].inputs = Len(Code.vstack) - 1
        /\ \/ \E d \in {o.if_true, o.if_false} : Terminates(o, PopTop(popped, 1), "jump", <<d, 0>>)
           \/ \E x, y \in {o.if_true, o.if_false} :
                 /\ ~(popped.insts # <<>> /\ Last(popped.insts).op = "cc")
                 /\ Terminates(o, popped, "branch_ne_eq", <<x, y>>)
           \/ \E x, y \in {o.if_true, o.if_false} :
                 /\ popped.insts # <<>> /\ Last(popped.insts).op = "cc"
                 /\ Terminates(o, [popped EXCEPT !.insts = Front(@)], BranchOn(Last(popped.insts).cc)[1], <<x, y>>)
  BY <1>0 DEF ABranch
<1> DEFINE one == 1
<1>2. cur # 0 /\ Behind(Code, in, L) /\ IsCode(Code) BY <1>0, AskedOf, CurrentIsBuilt DEF WellBuilt
<1>3. L \in Nat /\ one \in Nat /\ one <= L BY <1>1, <1>2, CodeFields DEF Has
<1>4. Behind(PopValues(Code, one), in, L) /\ Len(PopValues(Code, one).vstack) = L - one
  <2> HIDE DEF one
  <2> QED BY <1>2, <1>3, BehindPops
<1>5. Behind(popped, in, L) /\ Len(popped.vstack) = L - 1 /\ (L - 1) + 1 = L /\ L - 1 \in Nat BY <1>3, <1>4
<1>6. ASSUME NEW d \in {o.if_true, o.if_false} PROVE Enters(blocks, d, L - 1)
  <2>1. d \in 1..Len(blocks) /\ blocks[d].inputs = L - 1
    BY <1>0, <1>1, ListFacts DEF BlocksInv, GoodBlocks
  <2> QED BY <2>1 DEF Enters
<1> HIDE DEF popped, L
<1>7. ASSUME NEW d \in {o.if_true, o.if_false}, Terminates(o, PopTop(popped, 1), "jump", <<d, 0>>)
      PROVE  HeightsInv'
  <2> DEFINE c == PopTop(popped, one)
             less == L - 1
             t == "jump"
             to == <<d, 0>>
  <2>1. L = less + one BY <1>5
  <2>2. less \in Nat BY <1>5
  <2> HIDE DEF less, one
  <2>3. Behind(popped, in, less + one) BY <1>5, <2>1
  <2>4. Behind(c, in, less) /\ Len(c.vstack) = Len(popped.vstack) BY <1>3, <2>2, <2>3, BehindPopTop
  <2>5. Len(c.vstack) = less BY <1>5, <2>4 DEF less
  <2>6. Terminates(o, c, t, to) BY <1>7 DEF one
  <2> HIDE DEF c
  <2>7. t \in Terms /\ t \notin Branches /\ t # "terminated" /\ Left(t, c.vstack) = less
    BY <2>5 DEF Terms, Branches, Left
  <2>8. to[1] = d OBVIOUS
  <2>9. Enters(blocks, to[1], Len(c.vstack)) BY <1>6, <2>5, <2>8 DEF less
  <2> HIDE DEF t, to
  <2> QED BY <1>2, <2>4, <2>6, <2>7, <2>9, TerminatesHighs
<1>8. ASSUME NEW c, Behind(c, in, L), c.vstack = popped.vstack, NEW term \in Branches,
             NEW x \in {o.if_true, o.if_false}, NEW y \in {o.if_true, o.if_false},
             Terminates(o, c, term, <<x, y>>)
      PROVE  HeightsInv'
  <2> DEFINE to == <<x, y>>
  <2>1. term \in Terms /\ term # "jump" /\ term # "terminated" BY <1>8 DEF Terms, Branches
  <2>2. Left(term, c.vstack) = L BY <1>5, <1>8 DEF Left
  <2>3. \A i \in {1, 2} : to[i] \in {o.if_true, o.if_false} OBVIOUS
  <2>4. \A i \in {1, 2} : Enters(blocks, to[i], Len(c.vstack)) BY <1>5, <1>6, <1>8, <2>3
  <2>5. Terminates(o, c, term, to) BY <1>8
  <2> HIDE DEF to
  <2> QED BY <1>2, <1>8, <2>1, <2>2, <2>4, <2>5, TerminatesHighs
<1>9. ASSUME NEW x \in {o.if_true, o.if_false}, NEW y \in {o.if_true, o.if_false},
             popped.insts # <<>>, Last(popped.insts).op = "cc",
             Terminates(o, [popped EXCEPT !.insts = Front(@)], BranchOn(Last(popped.insts).cc)[1], <<x, y>>)
      PROVE  HeightsInv'
  <2> DEFINE c == [popped EXCEPT !.insts = Front(@)]
  <2>1. Behind(c, in, L) /\ c.vstack = popped.vstack /\ Last(popped.insts).cc \in Conditions
    BY <1>5, <1>9, BehindFront
  <2>2. BranchOn(Last(popped.insts).cc)[1] \in Branches BY <2>1, BranchOnIs
  <2> DEFINE term == BranchOn(Last(popped.insts).cc)[1]
  <2>3. Terminates(o, c, term, <<x, y>>) /\ term \in Branches BY <1>9, <2>2
  <2> HIDE DEF c, term
  <2> QED BY <1>8, <2>1, <2>3
<1>10. "branch_ne_eq" \in Branches BY DEF Branches
<1> QED BY <1>1, <1>5, <1>7, <1>8, <1>9, <1>10, Zenon DEF popped

(* A block of which the code, the number of values and the end are the same  *)
SameHeights(b, block) ==
    /\ b.inputs = block.inputs /\ b.insts = block.insts /\ Len(b.vstack) = Len(block.vstack)
    /\ b.max = block.max /\ b.term = block.term /\ b.next = block.next

LEMMA HighsSame ==
    ASSUME HeightsInv, cur # 0, NEW b, SameHeights(b, blocks[cur]), BlocksInv',
           blocks' = [blocks EXCEPT ![cur] = b], UNCHANGED <<cur, frontend>>
    PROVE  HeightsInv'
<1>1. /\ cur \in 1..Len(blocks) /\ Highs(blocks[cur]) /\ GoodBlocks(blocks) /\ AllHighs(blocks)
      /\ blocks[cur].term = "unterminated"
  BY CurrentIsBuilt
<1>2. Exit(b) = Exit(blocks[cur]) BY DEF SameHeights, Exit, Left
<1>3. Highs(b) BY <1>1, <1>2 DEF SameHeights, Highs
<1>4. GoesTo(blocks, b) BY <1>1 DEF SameHeights, GoesTo, Branches
<1>5. b.inputs = blocks[cur].inputs /\ b.term = "unterminated" BY <1>1 DEF SameHeights
<1> DEFINE u == blocks'
<1>6. AllHighs(u) /\ u[1].inputs = blocks[1].inputs BY <1>1, <1>3, <1>4, <1>5, HighsChanged
<1>7. u[cur] = b BY <1>1, ListChanged DEF GoodBlocks
<1> HIDE DEF u
<1>8. cur' # 0 => u[cur'].term = "unterminated" BY <1>5, <1>7
<1>9. u[1].inputs = script'.in BY <1>6 DEF HeightsInv, script
<1> QED BY <1>6, <1>8, <1>9 DEF HeightsInv, u

LEMMA NamesHighs == ASSUME HeightsInv, Value PROVE HeightsInv'
<1>0. BlocksInv /\ BlocksInv' BY NamesKeep DEF HeightsInv
<1>1. PICK o \in Asked("value") :
        /\ Has(Code, o.i + 1)
        /\ \E id, all : /\ Asks(all)
                        /\ blocks' = [blocks EXCEPT ![cur].vstack[o.i + 1].id = id]
        /\ UNCHANGED cur
  BY Zenon DEF Value
<1>2. PICK id : blocks' = [blocks EXCEPT ![cur].vstack[o.i + 1].id = id] BY <1>1
<1>3. UNCHANGED <<cur, frontend>> BY <1>1 DEF Asks
<1> DEFINE block == blocks[cur]
           i == o.i + 1
           x == [block.vstack[i] EXCEPT !.id = id]
           v == [block.vstack EXCEPT ![i] = x]
           b == [block EXCEPT !.vstack = v]
<1>4. cur \in 1..Len(blocks) /\ IsBlock(block) /\ Code.vstack = block.vstack /\ IsCode(Code) /\ cur # 0
  BY <1>0, AskedOf, CurrentBlock
<1>5. blocks' = [blocks EXCEPT ![cur] = b] BY <1>2
<1>6. o.i \in Nat BY <1>0, AskedOf DEF Legal
<1>7. i \in 1..Len(block.vstack) BY <1>1, <1>4, <1>6, CodeFields DEF Has
<1>8. IsList(block.vstack) BY <1>4, BlockFields
<1> DEFINE s == block.vstack
<1>9. IsList(v) /\ Len(v) = Len(block.vstack)
  <2>1. IsList(s) /\ i \in 1..Len(s) /\ v = [s EXCEPT ![i] = x] BY <1>7, <1>8
  <2> HIDE DEF x, i, s, v
  <2>2. IsList(v) /\ Len(v) = Len(s) BY <2>1, ListChanged
  <2> QED BY <2>2 DEF s
<1> HIDE DEF v, x
<1>10. NamedIs(b, block, v) BY <1>4, <1>9, BlockNamed
<1> HIDE DEF b
<1>11. SameHeights(b, block) BY <1>9, <1>10 DEF NamedIs, SameHeights
<1> QED BY <1>0, <1>3, <1>4, <1>5, <1>11, HighsSame

LEMMA LocatesHighs == ASSUME HeightsInv, DebugLocation PROVE HeightsInv'
<1>0. BlocksInv /\ BlocksInv' BY OthersKeep DEF HeightsInv
<1>1. PICK o \in Asked("debug_location") :
        /\ \/ blocks' = blocks
           \/ \E d : blocks' = [blocks EXCEPT ![cur].debug = d]
        /\ UNCHANGED <<frontend, cur>>
  BY DEF DebugLocation
<1>2. CASE blocks' = blocks BY <1>0, <1>1, <1>2 DEF HeightsInv, script
<1>3. CASE \E d : blocks' = [blocks EXCEPT ![cur].debug = d]
  <2> DEFINE block == blocks[cur]
  <2>1. PICK d : blocks' = [blocks EXCEPT ![cur] = [block EXCEPT !.debug = d]] BY <1>3
  <2> DEFINE b == [block EXCEPT !.debug = d]
  <2>2. IsBlock(block) /\ cur # 0 BY <1>0, AskedOf, CurrentBlock
  <2> HIDE DEF block
  <2>3. LocatedIs(b, block, d) BY <2>2, BlockLocated
  <2>4. blocks' = [blocks EXCEPT ![cur] = b] BY <2>1
  <2> HIDE DEF b
  <2>5. SameHeights(b, block) BY <2>3 DEF LocatedIs, SameHeights
  <2> QED BY <1>0, <1>1, <2>2, <2>4, <2>5, HighsSame DEF block
<1> QED BY <1>1, <1>2, <1>3

LEMMA OthersHighs ==
    ASSUME HeightsInv, BuildLocal \/ DeclareBlock \/ BuildBlock \/ Dropped \/ Finish \/ Reset
    PROVE  HeightsInv'
<1>0. BlocksInv /\ BlocksInv' BY OthersKeep DEF HeightsInv
<1>1. CASE UNCHANGED <<blocks, frontend, cur>> BY <1>0, <1>1 DEF HeightsInv, script
<1>2. CASE BuildLocal \/ Dropped \/ Finish
  <2>1. UNCHANGED <<blocks, frontend, cur>> BY <1>2 DEF BuildLocal, Dropped, Finish
  <2> QED BY <1>1, <2>1
<1>3. CASE DeclareBlock
  <2>1. PICK o \in Requests("declare_block") :
          blocks' = Append(blocks, NewBlock(o.in)) /\ UNCHANGED <<frontend, cur>>
    BY <1>3 DEF DeclareBlock
  <2>2. o.in \in Nat BY <1>0, Requested DEF Legal
  <2>3. /\ GoodBlocks(blocks) /\ AllHighs(blocks) /\ Len(blocks) \in Nat /\ 1 \in 1..Len(blocks)
        /\ cur \in 0..Len(blocks)
    BY <1>0, ListFacts DEF HeightsInv, BlocksInv, GoodBlocks
  <2> DEFINE u == blocks'
  <2>4. AllHighs(u) /\ \A j \in 1..Len(blocks) : u[j] = blocks[j] BY <2>1, <2>2, <2>3, HighsAppended
  <2> HIDE DEF u
  <2>5. u[1] = blocks[1] /\ (cur # 0 => u[cur] = blocks[cur]) BY <2>3, <2>4
  <2>6. u[1].inputs = script'.in BY <2>1, <2>5 DEF HeightsInv, script
  <2>7. cur' # 0 => u[cur'].term = "unterminated" BY <2>1, <2>5 DEF HeightsInv
  <2> QED BY <1>0, <2>4, <2>6, <2>7 DEF HeightsInv, u
<1>4. CASE BuildBlock
  <2>1. PICK o : blocks[o.block].term = "unterminated" /\ cur' = o.block /\ UNCHANGED <<frontend, blocks>>
    BY <1>4 DEF BuildBlock
  <2> QED BY <1>0, <2>1 DEF HeightsInv, script
<1>5. CASE Reset
  <2>1. frontend' = (frontend % Len(Scripts)) + 1 /\ cur' = 1 /\ blocks' = <<NewBlock(Scripts[frontend'].in)>>
    BY <1>5 DEF Reset
  <2>2. Scripts[frontend'].in \in Nat BY <1>0, ScriptIn DEF BlocksInv
  <2> DEFINE n == Scripts[frontend'].in
             u == blocks'
  <2>3. AllHighs(u) /\ u[1].inputs = n BY <2>1, <2>2, HighsFirst
  <2>4. u[1].term = "unterminated"
    <3>1. NewBlock(n).term = "unterminated" BY <2>2, BlockNew
    <3> DEFINE b == NewBlock(n)
    <3> HIDE DEF b
    <3>2. <<b>>[1] = b OBVIOUS
    <3> QED BY <2>1, <3>1, <3>2 DEF b
  <2> HIDE DEF u
  <2>5. u[1].inputs = script'.in BY <2>3 DEF script
  <2> QED BY <1>0, <2>1, <2>3, <2>4, <2>5 DEF HeightsInv, u
<1> QED BY <1>2, <1>3, <1>4, <1>5

LEMMA HeightsInit == Init => HeightsInv
<1> SUFFICES ASSUME Init PROVE HeightsInv
  OBVIOUS
<1>1. BlocksInv BY BlocksInit
<1>2. script.in \in Nat BY <1>1, ScriptIn DEF script, BlocksInv
<1> DEFINE n == script.in
<1>3. blocks = <<NewBlock(n)>> /\ cur = 1 BY DEF Init
<1>4. AllHighs(blocks) /\ blocks[1].inputs = n BY <1>2, <1>3, HighsFirst
<1>5. blocks[1].term = "unterminated" BY <1>2, <1>3, BlockNew
<1> QED BY <1>1, <1>3, <1>4, <1>5 DEF HeightsInv

LEMMA HeightsNext == HeightsInv /\ CallsFit /\ [Next]_vars => HeightsInv'
<1> SUFFICES ASSUME HeightsInv, CallsFit, [Next]_vars PROVE HeightsInv'
  OBVIOUS
<1>1. CASE UNCHANGED vars
  <2>1. BlocksInv' BY <1>1, BlocksNext DEF HeightsInv
  <2>2. UNCHANGED <<blocks, frontend, cur>> BY <1>1 DEF vars
  <2> QED BY <2>1, <2>2 DEF HeightsInv, script
<1>2. CASE Next
  BY <1>2, BuildingHighs, MemoryHighs, CallsHighs, EndsHighs, BranchHighs, NamesHighs, LocatesHighs, OthersHighs
     DEF Next
<1> QED BY <1>1, <1>2

(* The vstack that the builder pictures is the vstack that the instructions  *)
(* make, in every block, whatever the frontend asks for and the builder      *)
(* skips, folds or replaces on the way: the instructions of a block start    *)
(* from its inputs, take no value that is not there and never hold more      *)
(* than its max_vstack_size, end with what its terminator takes and with     *)
(* what the blocks it goes on to begin with, and a block without a           *)
(* terminator ends in a panic (lauf_asm_block_impl, the lauf_asm_inst_*, and *)
(* the lauf_asm_inst_* that terminate a block). CallsFit is about            *)
(* lauf_asm_inst_call_indirect: a constant address of a function is trusted  *)
(* to have the signature of the call (get_constant_function).                *)
THEOREM Heights_Follow == Spec /\ []CallsFit => []HeightsInv
<1>1. Init => HeightsInv BY HeightsInit
<1>2. HeightsInv /\ CallsFit /\ [Next]_vars => HeightsInv' BY HeightsNext
<1> QED BY <1>1, <1>2, PTL DEF Spec

-----------------------------------------------------------------------------
(* The machine that executes the code: what an instruction makes of the      *)
(* height of its stack                                                       *)

MachineOf(ip, vs, status, peak, env, next, ls, limit, frame, globals, events) ==
    [ip |-> ip, vs |-> vs, status |-> status, peak |-> peak, env |-> env, next_offset |-> next,
     locals |-> ls, limit |-> limit, frame |-> frame, globals |-> globals, events |-> events]

IsMachine(m) ==
    \E ip, vs, status, peak, env, next, ls, limit, frame, globals, events :
        /\ m = MachineOf(ip, vs, status, peak, env, next, ls, limit, frame, globals, events)
        /\ ip \in Nat
        /\ IsList(vs)
        /\ peak \in Nat

LEMMA MachineIs ==
    ASSUME NEW ip \in Nat, NEW vs, NEW status, NEW peak \in Nat, NEW env, NEW next, NEW ls, NEW limit, NEW frame,
           NEW globals, NEW events, IsList(vs)
    PROVE  LET m == MachineOf(ip, vs, status, peak, env, next, ls, limit, frame, globals, events)
           IN  IsMachine(m) /\ m.ip = ip /\ m.vs = vs /\ m.status = status /\ m.peak = peak
<1> DEFINE m == MachineOf(ip, vs, status, peak, env, next, ls, limit, frame, globals, events)
<1>1. m.ip = ip /\ m.vs = vs /\ m.status = status /\ m.peak = peak BY DEF MachineOf
<1>2. IsMachine(m) BY Zenon DEF IsMachine
<1> QED BY <1>1, <1>2

LEMMA MachineFields ==
    ASSUME NEW m, IsMachine(m)
    PROVE  m.ip \in Nat /\ IsList(m.vs) /\ m.peak \in Nat /\ Len(m.vs) \in Nat
<1>1. m.ip \in Nat /\ IsList(m.vs) /\ m.peak \in Nat BY DEF IsMachine, MachineOf
<1> QED BY <1>1, ListFacts

(* The same machine but for what it has in memory, and whether it goes on    *)
Alike(n, m) == IsMachine(n) /\ n.ip = m.ip /\ n.vs = m.vs /\ n.peak = m.peak

LEMMA AlikeWith ==
    ASSUME NEW m, IsMachine(m), NEW x
    PROVE  /\ Alike([m EXCEPT !.status = x], m) /\ [m EXCEPT !.status = x].status = x
           /\ Alike([m EXCEPT !.next_offset = x], m) /\ [m EXCEPT !.next_offset = x].status = m.status
           /\ Alike([m EXCEPT !.locals = x], m) /\ [m EXCEPT !.locals = x].status = m.status
           /\ Alike([m EXCEPT !.frame = x], m) /\ [m EXCEPT !.frame = x].status = m.status
           /\ Alike([m EXCEPT !.globals = x], m) /\ [m EXCEPT !.globals = x].status = m.status
           /\ Alike([m EXCEPT !.events = x], m) /\ [m EXCEPT !.events = x].status = m.status
<1>1. PICK ip, vs, status, peak, env, next, ls, limit, frame, globals, events :
        /\ m = MachineOf(ip, vs, status, peak, env, next, ls, limit, frame, globals, events)
        /\ ip \in Nat /\ IsList(vs) /\ peak \in Nat
  BY DEF IsMachine
<1> DEFINE R == MachineOf(ip, vs, status, peak, env, next, ls, limit, frame, globals, events)
           Q(a, b, c, d, e, f) == MachineOf(ip, vs, a, peak, env, b, c, limit, d, e, f)
<1>2. \A a, b, c, d, e, f : /\ IsMachine(Q(a, b, c, d, e, f)) /\ Q(a, b, c, d, e, f).ip = ip
                            /\ Q(a, b, c, d, e, f).vs = vs /\ Q(a, b, c, d, e, f).peak = peak
                            /\ Q(a, b, c, d, e, f).status = a
  BY <1>1, MachineIs
<1>3. [R EXCEPT !.status = x] = Q(x, next, ls, frame, globals, events) BY DEF MachineOf
<1>4. [R EXCEPT !.next_offset = x] = Q(status, x, ls, frame, globals, events) BY DEF MachineOf
<1>5. [R EXCEPT !.locals = x] = Q(status, next, x, frame, globals, events) BY DEF MachineOf
<1>6. [R EXCEPT !.frame = x] = Q(status, next, ls, x, globals, events) BY DEF MachineOf
<1>7. [R EXCEPT !.globals = x] = Q(status, next, ls, frame, x, events) BY DEF MachineOf
<1>8. [R EXCEPT !.events = x] = Q(status, next, ls, frame, globals, x) BY DEF MachineOf
<1>9. m = R /\ R = Q(status, next, ls, frame, globals, events) BY <1>1
<1> HIDE DEF R, Q
<1>10. m.ip = ip /\ m.vs = vs /\ m.peak = peak /\ m.status = status BY <1>2, <1>9
<1> QED BY <1>2, <1>3, <1>4, <1>5, <1>6, <1>7, <1>8, <1>9, <1>10 DEF Alike

LEMMA MachineWith ==
    ASSUME NEW m, IsMachine(m)
    PROVE  /\ \A x \in Nat : LET n == [m EXCEPT !.ip = x]
                            IN  IsMachine(n) /\ n.ip = x /\ n.vs = m.vs /\ n.peak = m.peak /\ n.status = m.status
           /\ \A x : IsList(x) => LET n == [m EXCEPT !.vs = x]
                                  IN  IsMachine(n) /\ n.ip = m.ip /\ n.vs = x /\ n.peak = m.peak /\ n.status = m.status
           /\ \A x \in Nat : LET n == [m EXCEPT !.peak = x]
                            IN  IsMachine(n) /\ n.ip = m.ip /\ n.vs = m.vs /\ n.peak = x /\ n.status = m.status
<1>1. PICK ip, vs, status, peak, env, next, ls, limit, frame, globals, events :
        /\ m = MachineOf(ip, vs, status, peak, env, next, ls, limit, frame, globals, events)
        /\ ip \in Nat /\ IsList(vs) /\ peak \in Nat
  BY DEF IsMachine
<1> DEFINE R == MachineOf(ip, vs, status, peak, env, next, ls, limit, frame, globals, events)
           Q(a, b, c) == MachineOf(a, b, status, c, env, next, ls, limit, frame, globals, events)
<1>2. \A a \in Nat : \A b : \A c \in Nat :
        IsList(b) => /\ IsMachine(Q(a, b, c)) /\ Q(a, b, c).ip = a
                     /\ Q(a, b, c).vs = b /\ Q(a, b, c).peak = c /\ Q(a, b, c).status = status
  BY MachineIs
<1>3. \A x : [R EXCEPT !.ip = x] = Q(x, vs, peak) BY DEF MachineOf
<1>4. \A x : [R EXCEPT !.vs = x] = Q(ip, x, peak) BY DEF MachineOf
<1>5. \A x : [R EXCEPT !.peak = x] = Q(ip, vs, x) BY DEF MachineOf
<1>6. m = R /\ R = Q(ip, vs, peak) BY <1>1
<1> HIDE DEF R, Q
<1>7. m.ip = ip /\ m.vs = vs /\ m.peak = peak /\ m.status = status BY <1>1, <1>2, <1>6
<1>8. ASSUME NEW x \in Nat
      PROVE  LET n == [m EXCEPT !.ip = x]
             IN  IsMachine(n) /\ n.ip = x /\ n.vs = m.vs /\ n.peak = m.peak /\ n.status = m.status
  <2>1. [m EXCEPT !.ip = x] = Q(x, vs, peak) BY <1>3, <1>6
  <2> QED BY <1>1, <1>2, <1>7, <2>1
<1>9. ASSUME NEW x, IsList(x)
      PROVE  LET n == [m EXCEPT !.vs = x]
             IN  IsMachine(n) /\ n.ip = m.ip /\ n.vs = x /\ n.peak = m.peak /\ n.status = m.status
  <2>1. [m EXCEPT !.vs = x] = Q(ip, x, peak) BY <1>4, <1>6
  <2> QED BY <1>1, <1>2, <1>7, <1>9, <2>1
<1>10. ASSUME NEW x \in Nat
       PROVE  LET n == [m EXCEPT !.peak = x]
              IN  IsMachine(n) /\ n.ip = m.ip /\ n.vs = m.vs /\ n.peak = x /\ n.status = m.status
  <2>1. [m EXCEPT !.peak = x] = Q(ip, vs, x) BY <1>5, <1>6
  <2> QED BY <1>1, <1>2, <1>7, <2>1
<1> QED BY <1>8, <1>9, <1>10

(* An instruction has made of m a machine with to values, at ip, unless it   *)
(* does not go on; its stack has not been above top.                         *)
Goes(n, ip, to, top) ==
    /\ IsMachine(n)
    /\ n.peak <= top
    /\ n.status = "running" => n.ip = ip /\ Len(n.vs) = to

LEMMA AlikeGoes ==
    ASSUME NEW n, NEW m, Alike(n, m), NEW ip, NEW to, NEW top, Goes(m, ip, to, top), m.status = "running"
    PROVE  Goes(n, ip, to, top)
BY DEF Alike, Goes

LEMMA Replaced ==
    ASSUME NEW m, IsMachine(m), NEW k \in Nat, k <= Len(m.vs), NEW values, IsList(values),
           NEW top \in Nat, m.peak <= top, (Len(m.vs) - k) + Len(values) <= top
    PROVE  LET n == Replace(m, k, values)
           IN  /\ IsMachine(n) /\ n.peak <= top /\ n.ip = m.ip + 1
               /\ Len(n.vs) = (Len(m.vs) - k) + Len(values) /\ n.status = m.status
<1> DEFINE L == Len(m.vs)
           rest == SubSeq(m.vs, k + 1, L)
           vs == values \o rest
           peak == IF Len(vs) > m.peak THEN Len(vs) ELSE m.peak
           ip == m.ip + 1
           n1 == [m EXCEPT !.vs = vs]
           n2 == [n1 EXCEPT !.ip = ip]
           n3 == [n2 EXCEPT !.peak = peak]
<1>1. m.ip \in Nat /\ IsList(m.vs) /\ m.peak \in Nat /\ L \in Nat BY MachineFields
<1>2. Replace(m, k, values) = n3
  <2>1. [m EXCEPT !.vs = vs, !.ip = ip, !.peak = peak] = n3 OBVIOUS
  <2> HIDE DEF n3
  <2>2. Replace(m, k, values) = [m EXCEPT !.vs = vs, !.ip = m.ip + 1, !.peak = IF Len(vs) > m.peak THEN Len(vs) ELSE m.peak]
    BY DEF Replace
  <2> QED BY <2>1, <2>2
<1>3. IsList(rest) /\ Len(rest) = L - k
  <2>1. k + 1 \in Nat \ {0} /\ L <= Len(m.vs) /\ k + 1 <= L + 1 /\ L - (k + 1) + 1 = L - k BY <1>1
  <2> QED BY <1>1, <2>1, Cut
<1> HIDE DEF rest
<1>4. IsList(vs) /\ Len(vs) = Len(values) + Len(rest) BY <1>3, Joined
<1> HIDE DEF vs
<1>5. Len(values) \in Nat BY ListFacts
<1>6. Len(vs) = (L - k) + Len(values) /\ Len(vs) \in Nat /\ Len(vs) <= top BY <1>1, <1>3, <1>4, <1>5
<1>7. peak \in Nat /\ peak <= top /\ ip \in Nat BY <1>1, <1>6
<1> HIDE DEF peak, ip
<1>8. IsMachine(n1) /\ n1.ip = m.ip /\ n1.vs = vs /\ n1.status = m.status BY <1>4, MachineWith
<1> HIDE DEF n1
<1>9. IsMachine(n2) /\ n2.ip = ip /\ n2.vs = vs /\ n2.status = m.status BY <1>7, <1>8, MachineWith
<1> HIDE DEF n2
<1>10. IsMachine(n3) /\ n3.ip = ip /\ n3.vs = vs /\ n3.peak = peak /\ n3.status = m.status BY <1>7, <1>9, MachineWith
<1> HIDE DEF n3
<1> QED BY <1>2, <1>6, <1>7, <1>10 DEF ip

LEMMA ReplaceGoes ==
    ASSUME NEW m, IsMachine(m), NEW k \in Nat, k <= Len(m.vs), NEW values, IsList(values),
           NEW top \in Nat, m.peak <= top, NEW to, to = (Len(m.vs) - k) + Len(values), to <= top
    PROVE  Goes(Replace(m, k, values), m.ip + 1, to, top)
BY Replaced DEF Goes

(* k values are replaced by c others.                                        *)
Acts(n, m, k, c) == \E values : IsList(values) /\ Len(values) = c /\ n = Replace(m, k, values)

LEMMA DoesValues ==
    ASSUME NEW m, NEW k
    PROVE  /\ Acts(Replace(m, k, <<>>), m, k, 0)
           /\ \A x : Acts(Replace(m, k, <<x>>), m, k, 1)
           /\ \A values : IsList(values) => Acts(Replace(m, k, values), m, k, Len(values))
BY EmptyList, OneList, Zenon DEF Acts

LEMMA DoesGoes ==
    ASSUME NEW m, IsMachine(m), NEW like, Alike(like, m), NEW k \in Nat, k <= Len(m.vs), NEW c, NEW n, Acts(n, like, k, c),
           NEW top \in Nat, m.peak <= top, NEW to, to = (Len(m.vs) - k) + c, to <= top
    PROVE  Goes(n, m.ip + 1, to, top)
<1>1. PICK values : IsList(values) /\ Len(values) = c /\ n = Replace(like, k, values) BY DEF Acts
<1>2. IsMachine(like) /\ like.vs = m.vs /\ like.ip = m.ip /\ like.peak = m.peak BY DEF Alike
<1> QED BY <1>1, <1>2, ReplaceGoes

LEMMA StopsGoes ==
    ASSUME NEW n, NEW m, Alike(n, m), n.status # "running", NEW top, m.peak <= top, NEW ip, NEW to
    PROVE  Goes(n, ip, to, top)
BY DEF Alike, Goes

LEMMA Panicked ==
    ASSUME NEW m, IsMachine(m), NEW message
    PROVE  /\ Alike(Panic(m), m) /\ Panic(m).status # "running"
           /\ Alike(PanicWith(m, message), m) /\ PanicWith(m, message).status # "running"
<1>0. \A y : Alike([m EXCEPT !.status = y], m) /\ [m EXCEPT !.status = y].status = y
  <2> TAKE y
  <2>1. Alike([m EXCEPT !.status = y], m) BY AlikeWith
  <2>2. [m EXCEPT !.status = y].status = y BY AlikeWith
  <2> QED BY <2>1, <2>2
<1> DEFINE p == Panic(m)
           x == Append(p.events, <<"panic", message>>)
           stopped == "panicked"
<1>1. Alike(p, m) /\ p.status # "running"
  <2>1. p = [m EXCEPT !.status = stopped] /\ stopped # "running" BY DEF Panic
  <2> HIDE DEF p, stopped
  <2> QED BY <1>0, <2>1
<1>2. PanicWith(m, message) = [p EXCEPT !.events = x] BY DEF PanicWith
<1> HIDE DEF p, x
<1>3. IsMachine(p) BY <1>1 DEF Alike
<1>4. Alike([p EXCEPT !.events = x], p) /\ [p EXCEPT !.events = x].status = p.status BY <1>3, AlikeWith
<1> QED BY <1>1, <1>2, <1>4 DEF Alike, p

LEMMA Itself == ASSUME NEW m, IsMachine(m) PROVE Alike(m, m)
BY DEF Alike

LEMMA ExecuteIs ==
    ASSUME NEW m, NEW inst
    PROVE  /\ inst.op \in ValueOps => Execute(m, inst) = ValueInstruction(m, inst)
           /\ inst.op \in StackOps => Execute(m, inst) = StackInstruction(m, inst)
           /\ inst.op \in LocalOps => Execute(m, inst) = LocalInstruction(m, inst)
           /\ inst.op \in MemoryOps => Execute(m, inst) = MemoryInstruction(m, inst)
           /\ inst.op \in ControlOps => Execute(m, inst) = ControlInstruction(m, inst)
           /\ inst.op \in CallOps => Execute(m, inst) = CallInstruction(m, inst)
BY DEF Execute, ValueOps, StackOps, LocalOps, MemoryOps, ControlOps, CallOps, BranchOps

(* What an instruction that goes on may make of the machine: it replaces k   *)
(* values by c, or it ends the execution.                                    *)
Performs(n, m, k, c) ==
    \/ \E like : Alike(like, m) /\ Acts(n, like, k, c)
    \/ Alike(n, m) /\ n.status # "running"

LEMMA PerformsGoes ==
    ASSUME NEW m, IsMachine(m), NEW k \in Nat, k <= Len(m.vs), NEW c, NEW n, Performs(n, m, k, c),
           NEW top \in Nat, m.peak <= top, NEW to, to = (Len(m.vs) - k) + c, to <= top
    PROVE  Goes(n, m.ip + 1, to, top)
BY DoesGoes, StopsGoes DEF Performs

LEMMA PerformsReplace ==
    ASSUME NEW m, IsMachine(m), NEW k
    PROVE  /\ Performs(Replace(m, k, <<>>), m, k, 0)
           /\ \A x : Performs(Replace(m, k, <<x>>), m, k, 1)
           /\ \A values : IsList(values) => Performs(Replace(m, k, values), m, k, Len(values))
BY DoesValues, Itself, Zenon DEF Performs

LEMMA PerformsPanic ==
    ASSUME NEW m, IsMachine(m), NEW k, NEW c
    PROVE  Performs(Panic(m), m, k, c) /\ \A message : Performs(PanicWith(m, message), m, k, c)
BY Panicked, Zenon DEF Performs

-----------------------------------------------------------------------------
(* The instructions                                                          *)

LEMMA ValuesPerform ==
    ASSUME NEW m, IsMachine(m), NEW inst
    PROVE  /\ inst.op \in {"push", "pushn", "global_addr", "function_addr", "local_addr"} =>
                Performs(Execute(m, inst), m, 0, 1)
           /\ inst.op \in {"push2", "push3", "cc"} => Performs(Execute(m, inst), m, 1, 1)
<1> DEFINE n == Execute(m, inst)
<1>1. ASSUME inst.op \in {"push", "pushn", "global_addr", "function_addr", "local_addr"}
      PROVE  Performs(n, m, 0, 1)
  <2>1. inst.op \in ValueOps BY <1>1 DEF ValueOps
  <2>2. n = ValueInstruction(m, inst) BY <2>1, ExecuteIs
  <2>3. \E x : ValueInstruction(m, inst) = Replace(m, 0, <<x>>) BY <1>1, Zenon DEF ValueInstruction
  <2> QED BY <2>2, <2>3, PerformsReplace
<1>2. ASSUME inst.op \in {"push2", "push3", "cc"} PROVE Performs(n, m, 1, 1)
  <2>1. inst.op \in ValueOps BY <1>2 DEF ValueOps
  <2>2. n = ValueInstruction(m, inst) BY <2>1, ExecuteIs
  <2>3. \E x : ValueInstruction(m, inst) = Replace(m, 1, <<x>>) BY <1>2, Zenon DEF ValueInstruction
  <2> QED BY <2>2, <2>3, PerformsReplace
<1> QED BY <1>1, <1>2

LEMMA StacksPerform ==
    ASSUME NEW m, IsMachine(m), NEW inst
    PROVE  /\ inst.op \in {"pick", "dup"} => Performs(Execute(m, inst), m, 0, 1)
           /\ inst.op = "pop_top" => Performs(Execute(m, inst), m, 1, 0)
           /\ inst.op = "swap" => Performs(Execute(m, inst), m, 2, 2)
           /\ inst.op = "select" => Performs(Execute(m, inst), m, inst.idx + 2, 1)
           /\ inst.op = "pop" /\ inst.idx \in Nat /\ Len(m.vs) >= inst.idx + 1 =>
                Performs(Execute(m, inst), m, inst.idx + 1, inst.idx)
           /\ inst.op = "roll" /\ inst.idx \in Nat /\ Len(m.vs) >= inst.idx + 1 =>
                Performs(Execute(m, inst), m, inst.idx + 1, 1 + inst.idx)
<1> DEFINE n == Execute(m, inst)
           i == inst.idx
           above == SubSeq(m.vs, 1, i)
<1>0. IsList(m.vs) /\ Len(m.vs) \in Nat BY MachineFields
<1>1. inst.op \in StackOps => n = StackInstruction(m, inst) BY ExecuteIs
<1>2. ASSUME inst.op \in {"pick", "dup"} PROVE Performs(n, m, 0, 1)
  <2>1. n = StackInstruction(m, inst) BY <1>1, <1>2 DEF StackOps
  <2>2. \E x : StackInstruction(m, inst) = Replace(m, 0, <<x>>) BY <1>2, Zenon DEF StackInstruction
  <2> QED BY <2>1, <2>2, PerformsReplace
<1>3. ASSUME inst.op = "pop_top" PROVE Performs(n, m, 1, 0)
  <2>1. n = StackInstruction(m, inst) BY <1>1, <1>3 DEF StackOps
  <2>2. StackInstruction(m, inst) = Replace(m, 1, <<>>) BY <1>3 DEF StackInstruction
  <2> QED BY <2>1, <2>2, PerformsReplace
<1>4. ASSUME inst.op = "swap" PROVE Performs(n, m, 2, 2)
  <2>1. n = StackInstruction(m, inst) BY <1>1, <1>4 DEF StackOps
  <2> DEFINE a == m.vs[2]
             b == m.vs[1]
             v == <<a, b>>
  <2>2. StackInstruction(m, inst) = Replace(m, 2, v) BY <1>4 DEF StackInstruction
  <2> HIDE DEF a, b
  <2>3. v \in Seq({a, b}) /\ Len(v) = 2 OBVIOUS
  <2> HIDE DEF v
  <2>4. IsList(v) /\ Len(v) = 2 BY <2>3 DEF IsList
  <2>5. Performs(Replace(m, 2, v), m, 2, Len(v)) BY <2>4, PerformsReplace
  <2> QED BY <2>1, <2>2, <2>4, <2>5
<1>5. ASSUME inst.op = "select" PROVE Performs(n, m, i + 2, 1)
  <2>1. n = StackInstruction(m, inst) BY <1>1, <1>5 DEF StackOps
  <2>2. \/ StackInstruction(m, inst) = Panic(m)
        \/ \E x : StackInstruction(m, inst) = Replace(m, inst.idx + 2, <<x>>)
    BY <1>5, Zenon DEF StackInstruction
  <2> DEFINE k == inst.idx + 2
  <2>3. n = Panic(m) \/ \E x : n = Replace(m, k, <<x>>) BY <2>1, <2>2
  <2> HIDE DEF k, n
  <2>4. Performs(n, m, k, 1) BY <2>3, PerformsReplace, PerformsPanic
  <2> QED BY <2>4 DEF k, n
<1>6. ASSUME i \in Nat, Len(m.vs) >= i + 1 PROVE IsList(above) /\ Len(above) = i
  <2>1. i <= Len(m.vs) BY <1>0, <1>6
  <2> QED BY <1>0, <1>6, <2>1, CutFirst
<1>7. ASSUME inst.op = "pop", i \in Nat, Len(m.vs) >= i + 1 PROVE Performs(n, m, i + 1, i)
  <2>1. n = StackInstruction(m, inst) BY <1>1, <1>7 DEF StackOps
  <2>2. StackInstruction(m, inst) = Replace(m, i + 1, above) BY <1>7 DEF StackInstruction
  <2>3. IsList(above) /\ Len(above) = i BY <1>6, <1>7
  <2> DEFINE k == i + 1
  <2> HIDE DEF above, k
  <2>4. Performs(Replace(m, k, above), m, k, Len(above)) BY <2>3, PerformsReplace
  <2> QED BY <2>1, <2>2, <2>3, <2>4 DEF k
<1>8. ASSUME inst.op = "roll", i \in Nat, Len(m.vs) >= i + 1 PROVE Performs(n, m, i + 1, 1 + i)
  <2> DEFINE x == m.vs[i + 1]
             one == <<x>>
             v == one \o above
             k == i + 1
  <2>1. n = StackInstruction(m, inst) BY <1>1, <1>8 DEF StackOps
  <2>2. StackInstruction(m, inst) = Replace(m, k, v) BY <1>8 DEF StackInstruction
  <2>3. IsList(above) /\ Len(above) = i BY <1>6, <1>8
  <2>4. IsList(one) /\ Len(one) = 1 BY OneList
  <2> HIDE DEF above, k, x, one
  <2>9. Len(one \o above) = Len(one) + Len(above) BY <2>3, <2>4, Joined
  <2>5. IsList(v) /\ Len(v) = 1 + i BY <2>3, <2>4, <2>9, Joined
  <2> HIDE DEF v
  <2>6. Performs(Replace(m, k, v), m, k, Len(v)) BY <2>5, PerformsReplace
  <2> QED BY <2>1, <2>2, <2>5, <2>6 DEF k
<1> QED BY <1>2, <1>3, <1>4, <1>5, <1>7, <1>8

-----------------------------------------------------------------------------
(* Memory *)

LEMMA WriteIs ==
    ASSUME NEW m, IsMachine(m), NEW p, NEW units
    PROVE  Alike(Write(m, p, units), m)
<1>1. \/ \E x : Write(m, p, units) = [m EXCEPT !.frame = x]
      \/ \E x : Write(m, p, units) = [m EXCEPT !.status = x]
      \/ \E x : Write(m, p, units) = [m EXCEPT !.globals = x]
  <2> DEFINE hit == p.at..p.at + Len(units) - 1
             fr == [at \in DOMAIN m.frame |-> IF at \in hit THEN units[at - p.at + 1] ELSE m.frame[at]]
             gl == [m.globals EXCEPT ![p.index] =
                      [at \in DOMAIN @ |-> IF at - 1 \in hit THEN units[at - p.at] ELSE @[at]]]
             cr == "corrupt"
  <2>1. [m EXCEPT !.globals[p.index] =
                      [at \in DOMAIN @ |-> IF at - 1 \in hit THEN units[at - p.at] ELSE @[at]]]
          = [m EXCEPT !.globals = gl] OBVIOUS
  <2>2. \/ Write(m, p, units) = [m EXCEPT !.frame = fr]
        \/ Write(m, p, units) = [m EXCEPT !.status = cr]
        \/ Write(m, p, units) = [m EXCEPT !.globals = gl]
    BY <2>1 DEF Write
  <2> HIDE DEF fr, gl, cr
  <2> QED BY <2>2
<1>2. ASSUME NEW x PROVE Alike([m EXCEPT !.frame = x], m) BY AlikeWith
<1>3. ASSUME NEW x PROVE Alike([m EXCEPT !.status = x], m) BY AlikeWith
<1>4. ASSUME NEW x PROVE Alike([m EXCEPT !.globals = x], m) BY AlikeWith
<1> QED BY <1>1, <1>2, <1>3, <1>4

LEMMA PerformsOn ==
    ASSUME NEW m, NEW like, Alike(like, m), NEW k, NEW values, IsList(values)
    PROVE  Performs(Replace(like, k, values), m, k, Len(values))
BY DEF Performs, Acts

LEMMA DerefPerforms ==
    ASSUME NEW m, IsMachine(m), NEW inst, NEW store
    PROVE  Performs(Deref(m, inst, store), m, 1, 1)
<1>1. \/ Deref(m, inst, store) = Panic(m)
      \/ \E x : Deref(m, inst, store) = Replace(m, 1, <<x>>)
  BY Zenon DEF Deref
<1> QED BY <1>1, PerformsReplace, PerformsPanic

LEMMA AccessPerforms ==
    ASSUME NEW m, IsMachine(m), NEW p
    PROVE  Performs(LoadValue(m, p), m, 0, 1) /\ Performs(StoreValue(m, p), m, 1, 0)
<1>1. Performs(LoadValue(m, p), m, 0, 1)
  <2> DEFINE cr == "corrupt"
             c == [m EXCEPT !.status = cr]
  <2>1. LoadValue(m, p) = c \/ \E x : LoadValue(m, p) = Replace(m, 0, <<x>>) BY Zenon DEF LoadValue
  <2>2. cr # "running" OBVIOUS
  <2> HIDE DEF cr
  <2>3. Alike(c, m) BY AlikeWith
  <2>4. c.status = cr BY AlikeWith
  <2> HIDE DEF c
  <2>5. Performs(c, m, 0, 1) BY <2>2, <2>3, <2>4 DEF Performs
  <2> QED BY <2>1, <2>5, PerformsReplace
<1>2. Performs(StoreValue(m, p), m, 1, 0)
  <2> DEFINE w == Write(m, p, WordUnits(m.vs[1]))
             e == <<>>
  <2>1. Alike(w, m) BY WriteIs
  <2>2. StoreValue(m, p) = Replace(w, 1, e) BY DEF StoreValue
  <2>3. IsList(e) /\ Len(e) = 0 BY EmptyList
  <2> HIDE DEF w, e
  <2>4. Performs(Replace(w, 1, e), m, 1, Len(e)) BY <2>1, <2>3, PerformsOn
  <2> QED BY <2>2, <2>3, <2>4
<1> QED BY <1>1, <1>2

LEMMA MemoryPerforms ==
    ASSUME NEW m, IsMachine(m), NEW inst
    PROVE  /\ inst.op \in {"deref_const", "deref_mut", "aggregate_member"} => Performs(Execute(m, inst), m, 1, 1)
           /\ inst.op = "array_element" => Performs(Execute(m, inst), m, 2, 1)
           /\ inst.op \in {"load_local_value", "load_global_value"} => Performs(Execute(m, inst), m, 0, 1)
           /\ inst.op \in {"store_local_value", "store_global_value"} => Performs(Execute(m, inst), m, 1, 0)
<1> DEFINE n == Execute(m, inst)
<1>1. inst.op \in MemoryOps => n = MemoryInstruction(m, inst) BY ExecuteIs
<1>2. ASSUME inst.op \in {"deref_const", "deref_mut"} PROVE Performs(n, m, 1, 1)
  <2>1. n = MemoryInstruction(m, inst) BY <1>1, <1>2 DEF MemoryOps
  <2>2. \E store : MemoryInstruction(m, inst) = Deref(m, inst, store) BY <1>2, Zenon DEF MemoryInstruction
  <2> QED BY <2>1, <2>2, DerefPerforms
<1>3. ASSUME inst.op = "aggregate_member" PROVE Performs(n, m, 1, 1)
  <2>1. n = MemoryInstruction(m, inst) BY <1>1, <1>3 DEF MemoryOps
  <2>2. \E x : MemoryInstruction(m, inst) = Replace(m, 1, <<x>>) BY <1>3, Zenon DEF MemoryInstruction
  <2> QED BY <2>1, <2>2, PerformsReplace
<1>4. ASSUME inst.op = "array_element" PROVE Performs(n, m, 2, 1)
  <2>1. n = MemoryInstruction(m, inst) BY <1>1, <1>4 DEF MemoryOps
  <2>2. \E x : MemoryInstruction(m, inst) = Replace(m, 2, <<x>>) BY <1>4, Zenon DEF MemoryInstruction
  <2> QED BY <2>1, <2>2, PerformsReplace
<1>5. ASSUME inst.op \in {"load_local_value", "load_global_value"} PROVE Performs(n, m, 0, 1)
  <2>1. n = MemoryInstruction(m, inst) BY <1>1, <1>5 DEF MemoryOps
  <2>2. \E p : MemoryInstruction(m, inst) = LoadValue(m, p) BY <1>5, Zenon DEF MemoryInstruction
  <2> QED BY <2>1, <2>2, AccessPerforms
<1>6. ASSUME inst.op \in {"store_local_value", "store_global_value"} PROVE Performs(n, m, 1, 0)
  <2>1. n = MemoryInstruction(m, inst) BY <1>1, <1>6 DEF MemoryOps
  <2>2. \E p : MemoryInstruction(m, inst) = StoreValue(m, p) BY <1>6, Zenon DEF MemoryInstruction
  <2> QED BY <2>1, <2>2, AccessPerforms
<1> QED BY <1>2, <1>3, <1>4, <1>5, <1>6

-----------------------------------------------------------------------------
(* Calls *)

LEMMA EventPerforms ==
    ASSUME NEW m, IsMachine(m), NEW name, NEW in, NEW out \in Nat
    PROVE  Performs(Event(m, name, in, out), m, in, out)
<1> DEFINE x == Append(m.events, <<name>> \o SubSeq(m.vs, 1, in))
           h == [m EXCEPT !.events = x]
           g == Given(Len(m.events), out)
<1>1. Event(m, name, in, out) = Replace(h, in, g) BY DEF Event
<1>2. IsList(g) /\ Len(g) = out
  <2>1. g = [k \in 1..out |-> g[k]] BY DEF Given
  <2> HIDE DEF g
  <2> QED BY <2>1, FunctionList
<1> HIDE DEF x, g
<1>3. Alike(h, m) BY AlikeWith
<1> HIDE DEF h
<1>4. Performs(Replace(h, in, g), m, in, Len(g)) BY <1>2, <1>3, PerformsOn
<1> QED BY <1>1, <1>2, <1>4

LEMMA CallsPerform ==
    ASSUME NEW m, IsMachine(m), NEW inst
    PROVE  /\ inst.op = "call" /\ Functions[inst.value].out \in Nat =>
                Performs(Execute(m, inst), m, Functions[inst.value].in, Functions[inst.value].out)
           /\ inst.op \in {"fiber_resume", "fiber_transfer"} /\ inst.out \in Nat =>
                Performs(Execute(m, inst), m, inst.in + 1, inst.out)
           /\ inst.op = "fiber_suspend" /\ inst.out \in Nat => Performs(Execute(m, inst), m, inst.in, inst.out)
           /\ inst.op = "panic_if" => Performs(Execute(m, inst), m, 2, 0)
<1> DEFINE n == Execute(m, inst)
<1>1. inst.op \in CallOps => n = CallInstruction(m, inst) BY ExecuteIs
<1>2. ASSUME inst.op = "call", Functions[inst.value].out \in Nat
      PROVE  Performs(n, m, Functions[inst.value].in, Functions[inst.value].out)
  <2>1. n = CallInstruction(m, inst) BY <1>1, <1>2 DEF CallOps
  <2>2. \E name : CallInstruction(m, inst) = Event(m, name, Functions[inst.value].in, Functions[inst.value].out)
    BY <1>2, Zenon DEF CallInstruction
  <2> QED BY <1>2, <2>1, <2>2, EventPerforms
<1>3. ASSUME inst.op \in {"fiber_resume", "fiber_transfer"}, inst.out \in Nat
      PROVE  Performs(n, m, inst.in + 1, inst.out)
  <2>1. n = CallInstruction(m, inst) BY <1>1, <1>3 DEF CallOps
  <2>2. \E name : CallInstruction(m, inst) = Event(m, name, inst.in + 1, inst.out)
    BY <1>3, Zenon DEF CallInstruction
  <2> DEFINE k == inst.in + 1
  <2> HIDE DEF n
  <2>3. \E name : n = Event(m, name, k, inst.out) BY <2>1, <2>2 DEF n
  <2> HIDE DEF k
  <2>4. Performs(n, m, k, inst.out) BY <1>3, <2>3, EventPerforms
  <2> QED BY <2>4 DEF k, n
<1>4. ASSUME inst.op = "fiber_suspend", inst.out \in Nat PROVE Performs(n, m, inst.in, inst.out)
  <2>1. n = CallInstruction(m, inst) BY <1>1, <1>4 DEF CallOps
  <2>2. \E name : CallInstruction(m, inst) = Event(m, name, inst.in, inst.out)
    BY <1>4, Zenon DEF CallInstruction
  <2> QED BY <1>4, <2>1, <2>2, EventPerforms
<1>5. ASSUME inst.op = "panic_if" PROVE Performs(n, m, 2, 0)
  <2>1. n = ControlInstruction(m, inst) BY <1>5, ExecuteIs DEF ControlOps
  <2>2. ControlInstruction(m, inst) = PanicWith(m, m.vs[1]) \/ ControlInstruction(m, inst) = Replace(m, 2, <<>>)
    BY <1>5, Zenon DEF ControlInstruction
  <2> QED BY <2>1, <2>2, PerformsReplace, PerformsPanic
<1> QED BY <1>2, <1>3, <1>4, <1>5

(* A call through an address takes the address first.                        *)
LEMMA IndirectGoes ==
    ASSUME NEW m, IsMachine(m), NEW inst, inst.op = "call_indirect", inst.in \in Nat, inst.out \in Nat,
           Len(m.vs) >= inst.in + 1, NEW top \in Nat, m.peak <= top,
           NEW to, to = (Len(m.vs) - (inst.in + 1)) + inst.out, to <= top
    PROVE  Goes(Execute(m, inst), m.ip + 1, to, top)
<1> DEFINE n == Execute(m, inst)
           L == Len(m.vs)
           in == inst.in
           out == inst.out
           rest == Tail(m.vs)
           t == [m EXCEPT !.vs = rest]
<1>1. n = CallIndirect(m, inst)
  <2>1. n = CallInstruction(m, inst) BY ExecuteIs DEF CallOps
  <2> QED BY <2>1 DEF CallInstruction
<1>2. \/ CallIndirect(m, inst) = Panic(m)
      \/ \E name : CallIndirect(m, inst) = Event(t, name, in, out)
  BY Zenon DEF CallIndirect
<1>3. IsList(m.vs) /\ L \in Nat BY MachineFields
<1>4. IsList(rest) /\ Len(rest) = L - 1
  <2>1. rest = SubSeq(m.vs, 2, L)
    <3>1. PICK S : m.vs \in Seq(S) BY <1>3 DEF IsList
    <3>2. m.vs # <<>> BY <1>3, EmptyList
    <3> DEFINE s == m.vs
    <3> HIDE DEF s
    <3>3. s \in Seq(S) /\ s # <<>> BY <3>1, <3>2 DEF s
    <3>4. Tail(s) = SubSeq(s, 2, Len(s)) BY <3>3
    <3> QED BY <3>4 DEF s
  <2> DEFINE two == 2
  <2>2. two \in Nat \ {0} /\ L <= Len(m.vs) /\ two <= L + 1 /\ L - two + 1 = L - 1 BY <1>3
  <2>3. rest = SubSeq(m.vs, two, L) BY <2>1
  <2> HIDE DEF two, rest
  <2>4. IsList(SubSeq(m.vs, two, L)) /\ Len(SubSeq(m.vs, two, L)) = L - two + 1 BY <1>3, <2>2, Cut
  <2> QED BY <2>2, <2>3, <2>4
<1> HIDE DEF rest
<1>5. IsMachine(t) /\ t.ip = m.ip /\ t.vs = rest /\ t.peak = m.peak BY <1>4, MachineWith
<1> HIDE DEF t
<1>6. CASE n = Panic(m)
  <2>1. Alike(n, m) /\ n.status # "running" BY <1>6, Panicked
  <2> HIDE DEF n
  <2>2. Goes(n, m.ip + 1, to, top) BY <2>1, StopsGoes
  <2> QED BY <2>2 DEF n
<1>7. CASE \E name : n = Event(t, name, in, out)
  <2>1. Performs(n, t, in, out) BY <1>5, <1>7, EventPerforms
  <2>2. in <= Len(t.vs) /\ to = (Len(t.vs) - in) + out BY <1>3, <1>4, <1>5
  <2> HIDE DEF n, in, out, L
  <2>3. in \in Nat BY DEF in
  <2>4. Goes(n, t.ip + 1, to, top) BY <1>5, <2>1, <2>2, <2>3, PerformsGoes
  <2> QED BY <1>5, <2>4 DEF n
<1> QED BY <1>1, <1>2, <1>6, <1>7

-----------------------------------------------------------------------------
(* Builtins *)

LEMMA AccessorPerforms ==
    ASSUME NEW m, IsMachine(m), NEW b
    PROVE  /\ b.name \in Stores => Performs(CallAccessor(m, b), m, 3, 0)
           /\ b.name \in Accessors \ Stores => Performs(CallAccessor(m, b), m, 2, 1)
<1>1. ASSUME b.name \in Stores PROVE Performs(CallAccessor(m, b), m, 3, 0)
  <2>1. PICK units : CallAccessor(m, b) = Replace(Write(m, m.vs[2], units), 3, <<>>)
    BY <1>1, Zenon DEF CallAccessor, Stores
  <2> DEFINE w == Write(m, m.vs[2], units)
             e == <<>>
  <2>2. Alike(w, m) BY WriteIs
  <2>3. IsList(e) /\ Len(e) = 0 BY EmptyList
  <2>4. CallAccessor(m, b) = Replace(w, 3, e) BY <2>1
  <2> HIDE DEF w, e
  <2>5. Performs(Replace(w, 3, e), m, 3, Len(e)) BY <2>2, <2>3, PerformsOn
  <2> QED BY <2>3, <2>4, <2>5
<1>2. ASSUME b.name \in Accessors \ Stores PROVE Performs(CallAccessor(m, b), m, 2, 1)
  <2>0. b.name \in {"load_value", "load_sint", "load_uint"} BY <1>2 DEF Accessors, Stores
  <2>1. \E x : CallAccessor(m, b) = Replace(m, 2, <<x>>) BY <2>0, Zenon DEF CallAccessor
  <2> QED BY <2>1, PerformsReplace
<1> QED BY <1>1, <1>2

OneOrPanic(n, m, k) == n = Panic(m) \/ \E x : n = Replace(m, k, <<x>>)

LEMMA OneOrPanicPerforms ==
    ASSUME NEW m, IsMachine(m), NEW n, NEW k, OneOrPanic(n, m, k)
    PROVE  Performs(n, m, k, 1)
BY PerformsReplace, PerformsPanic DEF OneOrPanic

LEMMA FillsPerform ==
    ASSUME NEW m, IsMachine(m), NEW n, n = Panic(m) \/ \E p, units : n = Replace(Write(m, p, units), 3, <<>>)
    PROVE  Performs(n, m, 3, 0)
<1>1. CASE n = Panic(m) BY <1>1, PerformsPanic
<1>2. CASE \E p, units : n = Replace(Write(m, p, units), 3, <<>>)
  <2>1. PICK p, units : n = Replace(Write(m, p, units), 3, <<>>) BY <1>2
  <2> DEFINE w == Write(m, p, units)
             e == <<>>
  <2>2. Alike(w, m) BY WriteIs
  <2>3. IsList(e) /\ Len(e) = 0 BY EmptyList
  <2>4. n = Replace(w, 3, e) BY <2>1
  <2> HIDE DEF w, e
  <2>5. Performs(Replace(w, 3, e), m, 3, Len(e)) BY <2>2, <2>3, PerformsOn
  <2> QED BY <2>3, <2>4, <2>5
<1> QED BY <1>1, <1>2

(* The builtins that need the memory, and what they take and give            *)
LEMMA MemoryBuiltinIs ==
    ASSUME NEW b \in MemoryLibrary
    PROVE  /\ \/ b.name \in {"addr_add", "addr_sub", "addr_distance"} /\ b.in = 2 /\ b.out = 1
              \/ b.name \in {"copy", "fill"} /\ b.in = 3 /\ b.out = 0
              \/ b.name = "cmp" /\ b.in = 3 /\ b.out = 1
           /\ b.always_panic = FALSE
<1>1. \E name, variant, in, out :
        /\ b = MemoryBuiltin(name, variant, in, out)
        /\ \/ name \in {"addr_add", "addr_sub", "addr_distance"} /\ in = 2 /\ out = 1
           \/ name \in {"copy", "fill"} /\ in = 3 /\ out = 0
           \/ name = "cmp" /\ in = 3 /\ out = 1
  <2>1. CASE b \in {MemoryBuiltin(f[1], f[2], 2, 1) : f \in {"addr_add", "addr_sub"} \X AddrOverflows}
    <3>1. PICK f \in {"addr_add", "addr_sub"} \X AddrOverflows : b = MemoryBuiltin(f[1], f[2], 2, 1)
      BY <2>1
    <3>2. f[1] \in {"addr_add", "addr_sub", "addr_distance"} OBVIOUS
    <3> QED BY <3>1, <3>2
  <2>2. CASE b \in {MemoryBuiltin("addr_distance", "", 2, 1), MemoryBuiltin("copy", "", 3, 0),
                    MemoryBuiltin("fill", "", 3, 0), MemoryBuiltin("cmp", "", 3, 1)}
    BY <2>2
  <2> QED BY <2>1, <2>2 DEF MemoryLibrary
<1>2. PICK name, variant, in, out :
        /\ b = MemoryBuiltin(name, variant, in, out)
        /\ \/ name \in {"addr_add", "addr_sub", "addr_distance"} /\ in = 2 /\ out = 1
           \/ name \in {"copy", "fill"} /\ in = 3 /\ out = 0
           \/ name = "cmp" /\ in = 3 /\ out = 1
  BY <1>1
<1>3. b.name = name /\ b.in = in /\ b.out = out BY <1>2 DEF MemoryBuiltin
<1>4. b.always_panic = FALSE BY <1>2 DEF MemoryBuiltin
<1> QED BY <1>2, <1>3, <1>4

LEMMA MemoryLibraryPerforms ==
    ASSUME NEW m, IsMachine(m), NEW b \in MemoryLibrary
    PROVE  Performs(CallMemoryLibrary(m, b), m, b.in, b.out)
<1> DEFINE n == CallMemoryLibrary(m, b)
<1>1. CASE b.name \in {"addr_add", "addr_sub", "addr_distance"} /\ b.in = 2 /\ b.out = 1
  <2>1. \/ \E by : n = AddrBy(m, b.variant, by)
        \/ n = addr_distance(m)
    BY <1>1, Zenon DEF CallMemoryLibrary
  <2>2. \A v, by : OneOrPanic(AddrBy(m, v, by), m, 2) BY Zenon DEF AddrBy, OneOrPanic
  <2>3. OneOrPanic(addr_distance(m), m, 2) BY Zenon DEF addr_distance, OneOrPanic
  <2>4. OneOrPanic(n, m, 2) BY <2>1, <2>2, <2>3
  <2> HIDE DEF n
  <2>5. Performs(n, m, 2, 1) BY <2>4, OneOrPanicPerforms
  <2> QED BY <1>1, <2>5 DEF n
<1>2. CASE b.name \in {"copy", "fill"} /\ b.in = 3 /\ b.out = 0
  <2>1. n = copy(m) \/ n = fill(m) BY <1>2, Zenon DEF CallMemoryLibrary
  <2>2. copy(m) = Panic(m) \/ \E p, units : copy(m) = Replace(Write(m, p, units), 3, <<>>)
    BY Zenon DEF copy
  <2>3. fill(m) = Panic(m) \/ \E p, units : fill(m) = Replace(Write(m, p, units), 3, <<>>)
    BY Zenon DEF fill
  <2> HIDE DEF n
  <2>4. n = Panic(m) \/ \E p, units : n = Replace(Write(m, p, units), 3, <<>>) BY <2>1, <2>2, <2>3
  <2>5. Performs(n, m, 3, 0) BY <2>4, FillsPerform
  <2> QED BY <1>2, <2>5 DEF n
<1>3. CASE b.name = "cmp" /\ b.in = 3 /\ b.out = 1
  <2>1. n = cmp(m) BY <1>3, Zenon DEF CallMemoryLibrary
  <2>2. OneOrPanic(cmp(m), m, 3) BY Zenon DEF cmp, OneOrPanic
  <2> HIDE DEF n
  <2>3. Performs(n, m, 3, 1) BY <2>1, <2>2, OneOrPanicPerforms
  <2> QED BY <1>3, <2>3 DEF n
<1> QED BY <1>1, <1>2, <1>3, MemoryBuiltinIs

(* The signature after a call of a builtin is skipped.                       *)
LEMMA SkipGoes ==
    ASSUME NEW n, NEW ip \in Nat, NEW to, NEW top, Goes(n, ip, to, top)
    PROVE  Goes([n EXCEPT !.ip = @ + 1], ip + 1, to, top)
<1> DEFINE x == n.ip + 1
           s == [n EXCEPT !.ip = x]
<1>1. IsMachine(n) /\ n.peak <= top /\ (n.status = "running" => n.ip = ip /\ Len(n.vs) = to) BY DEF Goes
<1>2. x \in Nat BY <1>1, MachineFields
<1>3. n.status = "running" => x = ip + 1 BY <1>1
<1>4. [n EXCEPT !.ip = @ + 1] = s OBVIOUS
<1> HIDE DEF x
<1>5. IsMachine(s) /\ s.ip = x /\ s.vs = n.vs /\ s.peak = n.peak /\ s.status = n.status
  BY <1>1, <1>2, MachineWith
<1> HIDE DEF s
<1>6. Goes(s, ip + 1, to, top) BY <1>1, <1>3, <1>5 DEF Goes
<1> QED BY <1>4, <1>6

Skipped(n) == [n EXCEPT !.ip = @ + 1]

(* How a builtin is called: those of which nothing is known are events.      *)
LEMMA CallBuiltinIs ==
    ASSUME NEW m, NEW b
    PROVE  /\ b.name \in Accessors => CallBuiltin(m, b) = Skipped(CallAccessor(m, b))
           /\ b.name \notin Accessors /\ b \in MemoryLibrary =>
                CallBuiltin(m, b) = Skipped(CallMemoryLibrary(m, b))
           /\ b.name \notin Accessors /\ b \notin MemoryLibrary /\ b.always_panic =>
                CallBuiltin(m, b) = [Panic(m) EXCEPT !.events = Append(@, <<b.name>>)]
           /\ b.name \notin Accessors /\ b \notin MemoryLibrary /\ ~b.always_panic /\ b.fold =>
                LET result == CallLibrary(b, SubSeq(m.vs, 1, b.in))
                IN  CallBuiltin(m, b) = IF result.panics THEN Panic(m) ELSE Skipped(Replace(m, b.in, result.values))
           /\ b.name \notin Accessors /\ b \notin MemoryLibrary /\ ~b.always_panic /\ ~b.fold =>
                CallBuiltin(m, b) = Skipped(Event(m, b.name, b.in, b.out))
BY Zenon DEF CallBuiltin, Skipped

LEMMA StopsWithEvent ==
    ASSUME NEW m, IsMachine(m), NEW x
    PROVE  /\ Alike([Panic(m) EXCEPT !.events = x], m)
           /\ [Panic(m) EXCEPT !.events = x].status # "running"
<1> DEFINE p == Panic(m)
<1>1. Alike(p, m) /\ p.status # "running" BY Panicked
<1> HIDE DEF p
<1>2. IsMachine(p) BY <1>1 DEF Alike
<1>3. Alike([p EXCEPT !.events = x], p) BY <1>2, AlikeWith
<1>4. [p EXCEPT !.events = x].status = p.status BY <1>2, AlikeWith
<1> DEFINE q == [p EXCEPT !.events = x]
<1>5. Alike(q, p) /\ q.status = p.status BY <1>3, <1>4
<1> HIDE DEF q
<1>6. Alike(q, m) /\ q.status # "running" BY <1>1, <1>5 DEF Alike
<1> QED BY <1>6 DEF p, q

(* What a call of a builtin makes of the stack                               *)
LEMMA BuiltinGoes ==
    ASSUME NEW m, IsMachine(m), NEW inst, inst.op \in Builtins, Callable(inst.callee),
           inst.callee.in <= Len(m.vs), NEW top \in Nat, m.peak <= top,
           NEW to, to = (Len(m.vs) - inst.callee.in) + inst.callee.out, to <= top
    PROVE  /\ Goes(Execute(m, inst), m.ip + 2, to, top)
           /\ AlwaysPanics(inst.callee) => Execute(m, inst).status # "running"
<1> DEFINE n == Execute(m, inst)
           b == inst.callee
           ip == m.ip + 1
<1>1. n = CallBuiltin(m, b)
  <2>1. n = CallInstruction(m, inst) BY ExecuteIs DEF CallOps, Builtins
  <2> QED BY <2>1 DEF CallInstruction, Builtins
<1>2. b.in \in Nat /\ b.out \in Nat BY Zenon DEF Callable
<1>3. m.ip \in Nat /\ ip \in Nat /\ ip + 1 = m.ip + 2 BY MachineFields
<1> HIDE DEF n
<1>4. ASSUME NEW x, Performs(x, m, b.in, b.out) PROVE Goes(Skipped(x), m.ip + 2, to, top)
  <2> DEFINE in == b.in
             out == b.out
  <2>1. in \in Nat /\ in <= Len(m.vs) /\ to = (Len(m.vs) - in) + out /\ Performs(x, m, in, out) BY <1>2, <1>4
  <2> HIDE DEF in, out
  <2>2. Goes(x, ip, to, top) BY <2>1, PerformsGoes
  <2> HIDE DEF ip
  <2>3. Goes(Skipped(x), ip + 1, to, top) BY <1>3, <2>2, SkipGoes DEF Skipped
  <2> QED BY <1>3, <2>3
<1>5. CASE b.name \in Accessors
  <2>1. n = Skipped(CallAccessor(m, b)) BY <1>1, <1>5, CallBuiltinIs
  <2>2. \/ b.name \in Stores /\ b.in = 3 /\ b.out = 0
        \/ b.name \in Accessors \ Stores /\ b.in = 2 /\ b.out = 1
    BY <1>5, Zenon DEF Callable
  <2>3. Performs(CallAccessor(m, b), m, b.in, b.out) BY <2>2, AccessorPerforms
  <2>4. ~AlwaysPanics(b) BY <1>5, Zenon DEF AlwaysPanics
  <2> QED BY <1>4, <2>1, <2>3, <2>4 DEF n
<1>6. CASE b.name \notin Accessors /\ b \in MemoryLibrary
  <2>1. n = Skipped(CallMemoryLibrary(m, b)) BY <1>1, <1>6, CallBuiltinIs
  <2>2. Performs(CallMemoryLibrary(m, b), m, b.in, b.out) BY <1>6, MemoryLibraryPerforms
  <2>3. ~AlwaysPanics(b)
    <3>1. b.always_panic = FALSE BY <1>6, MemoryBuiltinIs
    <3> QED BY <3>1, Zenon DEF AlwaysPanics
  <2> QED BY <1>4, <2>1, <2>2, <2>3 DEF n
<1>7. CASE b.name \notin Accessors /\ b \notin MemoryLibrary /\ AlwaysPanics(b)
  <2>1. b.always_panic BY <1>7, Zenon DEF AlwaysPanics
  <2> DEFINE p == Panic(m)
             x == Append(p.events, <<b.name>>)
  <2>2. n = [p EXCEPT !.events = x] BY <1>1, <1>7, <2>1, CallBuiltinIs
  <2> HIDE DEF x
  <2>3. Alike(n, m) /\ n.status # "running" BY <2>2, StopsWithEvent
  <2>4. Goes(n, m.ip + 2, to, top) BY <2>3, StopsGoes
  <2> QED BY <2>3, <2>4 DEF n
<1>8. CASE b.name \notin Accessors /\ b \notin MemoryLibrary /\ ~AlwaysPanics(b) /\ b.fold
  <2>1. ~b.always_panic BY <1>8, Zenon DEF AlwaysPanics
  <2> DEFINE r == CallLibrary(b, SubSeq(m.vs, 1, b.in))
  <2>2. n = IF r.panics THEN Panic(m) ELSE Skipped(Replace(m, b.in, r.values))
    BY <1>1, <1>8, <2>1, CallBuiltinIs
  <2>3. b \in Library BY <1>8, Zenon DEF Callable
  <2>4. Gives(r, b.out) BY <2>3, LibraryGives
  <2> HIDE DEF r
  <2>5. ~r.panics => IsList(r.values) /\ Len(r.values) = b.out BY <2>4, Zenon DEF Gives
  <2>6. n = Panic(m) \/ (n = Skipped(Replace(m, b.in, r.values)) /\ IsList(r.values) /\ Len(r.values) = b.out)
    BY <2>2, <2>5, Zenon
  <2>7. CASE n = Panic(m)
    <3>1. Alike(n, m) /\ n.status # "running" BY <2>7, Panicked
    <3>2. Goes(n, m.ip + 2, to, top) BY <3>1, StopsGoes
    <3> QED BY <1>8, <3>2 DEF n
  <2>8. CASE n = Skipped(Replace(m, b.in, r.values)) /\ IsList(r.values) /\ Len(r.values) = b.out
    <3> DEFINE v == r.values
               k == b.in
    <3>1. IsList(v) /\ Len(v) = b.out /\ n = Skipped(Replace(m, k, v)) BY <2>8
    <3> HIDE DEF v, k
    <3>2. Performs(Replace(m, k, v), m, k, Len(v)) BY <3>1, PerformsReplace
    <3>3. Goes(Skipped(Replace(m, k, v)), m.ip + 2, to, top) BY <1>4, <3>1, <3>2 DEF k
    <3> QED BY <1>8, <3>1, <3>3 DEF n
  <2> QED BY <2>6, <2>7, <2>8
<1>9. CASE b.name \notin Accessors /\ b \notin MemoryLibrary /\ ~AlwaysPanics(b) /\ ~b.fold
  <2>1. ~b.always_panic BY <1>9, Zenon DEF AlwaysPanics
  <2>2. n = Skipped(Event(m, b.name, b.in, b.out)) BY <1>1, <1>9, <2>1, CallBuiltinIs
  <2>3. Performs(Event(m, b.name, b.in, b.out), m, b.in, b.out) BY <1>2, EventPerforms
  <2>4. Goes(n, m.ip + 2, to, top) BY <1>4, <2>2, <2>3
  <2> QED BY <1>9, <2>4 DEF n
<1> QED BY <1>5, <1>6, <1>7, <1>8, <1>9

(* An instruction that is not a call of a builtin makes of the stack what    *)
(* the builder counts, or ends the execution.                                *)
LEMMA StepGoes ==
    ASSUME NEW m, IsMachine(m), NEW inst, Ordinary(inst), NEW to \in Nat, Moves(inst, Len(m.vs), to),
           NEW top \in Nat, m.peak <= top, to <= top
    PROVE  Goes(Execute(m, inst), m.ip + 1, to, top)
<1> DEFINE n == Execute(m, inst)
           L == Len(m.vs)
           i == inst.idx
<1>0. L \in Nat BY MachineFields
<1>1. ASSUME NEW k \in Nat, NEW c, Performs(n, m, k, c), k <= L, to = (L - k) + c
      PROVE  Goes(n, m.ip + 1, to, top)
  BY <1>1, PerformsGoes
<1>2. CASE inst.op \in Pushing /\ to = L + 1
  <2>1. Performs(n, m, 0, 1) BY <1>2, ValuesPerform, MemoryPerforms DEF Pushing
  <2>2. 0 \in Nat /\ 0 <= L /\ to = (L - 0) + 1 BY <1>0, <1>2
  <2> HIDE DEF n, L
  <2>3. Goes(n, m.ip + 1, to, top) BY <1>1, <2>1, <2>2
  <2> QED BY <2>3 DEF n
<1>3. CASE \/ inst.op = "dup" /\ L >= 1 /\ to = L + 1
           \/ inst.op = "pick" /\ i \in Nat /\ L >= i + 1 /\ to = L + 1
  <2>1. Performs(n, m, 0, 1) BY <1>3, StacksPerform
  <2>2. 0 \in Nat /\ 0 <= L /\ to = (L - 0) + 1 BY <1>0, <1>3
  <2> HIDE DEF n, L
  <2>3. Goes(n, m.ip + 1, to, top) BY <1>1, <2>1, <2>2
  <2> QED BY <2>3 DEF n
<1>4. CASE inst.op \in ChangesOne /\ L >= 1 /\ to = L
  <2>1. Performs(n, m, 1, 1) BY <1>4, ValuesPerform, MemoryPerforms DEF ChangesOne
  <2>2. 1 \in Nat /\ 1 <= L /\ to = (L - 1) + 1 BY <1>0, <1>4
  <2> HIDE DEF n, L
  <2>3. Goes(n, m.ip + 1, to, top) BY <1>1, <2>1, <2>2
  <2> QED BY <2>3 DEF n
<1>5. CASE inst.op = "array_element" /\ L >= 2 /\ to = L - 1
  <2>1. Performs(n, m, 2, 1) BY <1>5, MemoryPerforms
  <2>2. 2 \in Nat /\ 2 <= L /\ to = (L - 2) + 1 BY <1>0, <1>5
  <2> HIDE DEF n, L
  <2>3. Goes(n, m.ip + 1, to, top) BY <1>1, <2>1, <2>2
  <2> QED BY <2>3 DEF n
<1>6. CASE inst.op = "pop" /\ i \in Nat /\ L >= i + 1 /\ to = L - 1
  <2>1. Performs(n, m, i + 1, i) BY <1>6, StacksPerform
  <2>2. i + 1 \in Nat /\ i + 1 <= L /\ to = (L - (i + 1)) + i BY <1>0, <1>6
  <2> DEFINE k == i + 1
  <2> HIDE DEF n, L, i, k
  <2>3. Goes(n, m.ip + 1, to, top) BY <1>1, <2>1, <2>2 DEF k
  <2> QED BY <2>3 DEF n
<1>7. CASE \/ inst.op = "pop_top" /\ L >= 1 /\ to = L - 1
           \/ inst.op \in {"store_local_value", "store_global_value"} /\ L >= 1 /\ to = L - 1
  <2>1. Performs(n, m, 1, 0) BY <1>7, StacksPerform, MemoryPerforms
  <2>2. 1 \in Nat /\ 1 <= L /\ to = (L - 1) + 0 BY <1>0, <1>7
  <2> HIDE DEF n, L
  <2>3. Goes(n, m.ip + 1, to, top) BY <1>1, <2>1, <2>2
  <2> QED BY <2>3 DEF n
<1>8. CASE inst.op = "roll" /\ i \in Nat /\ L >= i + 1 /\ to = L
  <2>1. Performs(n, m, i + 1, 1 + i) BY <1>8, StacksPerform
  <2>2. i + 1 \in Nat /\ i + 1 <= L /\ to = (L - (i + 1)) + (1 + i) BY <1>0, <1>8
  <2> DEFINE k == i + 1
             c == 1 + i
  <2> HIDE DEF n, L, i, k, c
  <2>3. Goes(n, m.ip + 1, to, top) BY <1>1, <2>1, <2>2 DEF k, c
  <2> QED BY <2>3 DEF n
<1>9. CASE inst.op = "swap" /\ L >= 2 /\ to = L
  <2>1. Performs(n, m, 2, 2) BY <1>9, StacksPerform
  <2>2. 2 \in Nat /\ 2 <= L /\ to = (L - 2) + 2 BY <1>0, <1>9
  <2> HIDE DEF n, L
  <2>3. Goes(n, m.ip + 1, to, top) BY <1>1, <2>1, <2>2
  <2> QED BY <2>3 DEF n
<1>10. CASE inst.op = "select" /\ i \in Nat /\ L >= i + 2 /\ to = L - (i + 1)
  <2>1. Performs(n, m, i + 2, 1) BY <1>10, StacksPerform
  <2>2. i + 2 \in Nat /\ i + 2 <= L /\ to = (L - (i + 2)) + 1 BY <1>0, <1>10
  <2> DEFINE k == i + 2
  <2> HIDE DEF n, L, i, k
  <2>3. Goes(n, m.ip + 1, to, top) BY <1>1, <2>1, <2>2 DEF k
  <2> QED BY <2>3 DEF n
<1>11. CASE inst.op = "panic_if" /\ L >= 2 /\ to = L - 2
  <2>1. Performs(n, m, 2, 0) BY <1>11, CallsPerform
  <2>2. 2 \in Nat /\ 2 <= L /\ to = (L - 2) + 0 BY <1>0, <1>11
  <2> HIDE DEF n, L
  <2>3. Goes(n, m.ip + 1, to, top) BY <1>1, <2>1, <2>2
  <2> QED BY <2>3 DEF n
<1>12. CASE inst.op = "call" /\ Exchanges(L, to, Functions[inst.value].in, Functions[inst.value].out)
  <2> DEFINE k == Functions[inst.value].in
             c == Functions[inst.value].out
  <2>1. k \in Nat /\ c \in Nat /\ L >= k /\ to = (L - k) + c BY <1>12 DEF Exchanges
  <2>2. Performs(n, m, k, c) BY <1>12, <2>1, CallsPerform
  <2> HIDE DEF n, L, k, c
  <2>3. Goes(n, m.ip + 1, to, top) BY <1>0, <1>1, <2>1, <2>2
  <2> QED BY <2>3 DEF n
<1>13. CASE inst.op \in {"fiber_resume", "fiber_transfer"} /\ inst.in \in Nat /\ Exchanges(L, to, inst.in + 1, inst.out)
  <2> DEFINE k == inst.in + 1
             c == inst.out
  <2>1. k \in Nat /\ c \in Nat /\ L >= k /\ to = (L - k) + c BY <1>13 DEF Exchanges
  <2>2. Performs(n, m, k, c) BY <1>13, <2>1, CallsPerform
  <2> HIDE DEF n, L, k, c
  <2>3. Goes(n, m.ip + 1, to, top) BY <1>0, <1>1, <2>1, <2>2
  <2> QED BY <2>3 DEF n
<1>14. CASE inst.op = "fiber_suspend" /\ Exchanges(L, to, inst.in, inst.out)
  <2> DEFINE k == inst.in
             c == inst.out
  <2>1. k \in Nat /\ c \in Nat /\ L >= k /\ to = (L - k) + c BY <1>14 DEF Exchanges
  <2>2. Performs(n, m, k, c) BY <1>14, <2>1, CallsPerform
  <2> HIDE DEF n, L, k, c
  <2>3. Goes(n, m.ip + 1, to, top) BY <1>0, <1>1, <2>1, <2>2
  <2> QED BY <2>3 DEF n
<1>15. CASE inst.op = "call_indirect" /\ inst.in \in Nat /\ Exchanges(L, to, inst.in + 1, inst.out)
  <2> DEFINE k == inst.in + 1
             c == inst.out
  <2>1. c \in Nat /\ L >= k /\ to = (L - k) + c BY <1>15 DEF Exchanges
  <2> QED BY <1>15, <2>1, IndirectGoes
<1>16. /\ inst.op \notin Builtins
       /\ inst.op # "call_builtin_sig"
  BY DEF Ordinary
<1>17. Moves(inst, L, to) OBVIOUS
<1> HIDE DEF L, n
<1> QED BY <1>2, <1>3, <1>4, <1>5, <1>6, <1>7, <1>8, <1>9, <1>10, <1>11, <1>12, <1>13, <1>14, <1>15, <1>16, <1>17
        DEF Moves, n

-----------------------------------------------------------------------------
(* The instructions of the prologue and of the terminators                   *)

LEMMA AlikeStatusGoes ==
    ASSUME NEW n, NEW g, Alike(n, g), n.status = g.status, NEW ip, NEW to, NEW top, Goes(g, ip, to, top)
    PROVE  Goes(n, ip, to, top)
BY DEF Alike, Goes

(* An instruction that only goes on                                          *)
LEMMA GoGoes ==
    ASSUME NEW m, IsMachine(m), NEW top \in Nat, m.peak <= top, Len(m.vs) <= top
    PROVE  Goes(Replace(m, 0, <<>>), m.ip + 1, Len(m.vs), top)
<1> DEFINE L == Len(m.vs)
           e == <<>>
           k == 0
<1>1. L \in Nat BY MachineFields
<1>2. IsList(e) /\ Len(e) = 0 BY EmptyList
<1>3. k \in Nat /\ k <= L /\ L = (L - k) + Len(e) BY <1>1, <1>2
<1> HIDE DEF k, e, L
<1>4. Goes(Replace(m, k, e), m.ip + 1, L, top) BY <1>2, <1>3, ReplaceGoes DEF L
<1> QED BY <1>4 DEF k, e, L

LEMMA LocalGoes ==
    ASSUME NEW m, IsMachine(m), NEW inst, inst.op \in LocalOps \cup {"block"},
           NEW top \in Nat, m.peak <= top, Len(m.vs) <= top
    PROVE  Goes(Execute(m, inst), m.ip + 1, Len(m.vs), top)
<1> DEFINE n == Execute(m, inst)
           go == Replace(m, 0, <<>>)
           L == Len(m.vs)
           ip == m.ip + 1
<1>1. Goes(go, ip, L, top) BY GoGoes
<1>2. IsMachine(go) BY <1>1 DEF Goes
<1>3. CASE inst.op = "block"
  <2>1. n = ControlInstruction(m, inst) BY <1>3, ExecuteIs DEF ControlOps
  <2>2. ControlInstruction(m, inst) = go BY <1>3 DEF ControlInstruction
  <2> QED BY <1>1, <2>1, <2>2
<1>4. CASE inst.op \in LocalOps
  <2>1. n = LocalInstruction(m, inst) BY <1>4, ExecuteIs
  <2>2. \/ \E x : n = [go EXCEPT !.locals = x]
        \/ \E x : n = [go EXCEPT !.next_offset = x]
        \/ \E x, y : n = [[go EXCEPT !.next_offset = x] EXCEPT !.locals = y]
    <3> DEFINE new(a, used) == [go EXCEPT !.next_offset = @ + used,
                                          !.locals = Append(@, [at |-> a, size |-> inst.size])]
               two(a, used) == [[go EXCEPT !.next_offset = go.next_offset + used]
                                   EXCEPT !.locals = Append(go.locals, [at |-> a, size |-> inst.size])]
    <3>1. \/ LocalInstruction(m, inst) = [go EXCEPT !.locals = <<>>]
          \/ \E a, used : LocalInstruction(m, inst) = new(a, used)
          \/ LocalInstruction(m, inst) = [go EXCEPT !.next_offset = @ + inst.value]
      BY <1>4, Zenon DEF LocalInstruction, LocalOps
    <3>2. ASSUME NEW a, NEW used PROVE new(a, used) = two(a, used) OBVIOUS
    <3>3. CASE \E a, used : LocalInstruction(m, inst) = new(a, used)
      <4>1. PICK a, used : LocalInstruction(m, inst) = two(a, used) BY <3>2, <3>3
      <4> HIDE DEF go, n
      <4> QED BY <2>1, <4>1
    <3>4. CASE LocalInstruction(m, inst) = [go EXCEPT !.locals = <<>>]
      <4> HIDE DEF go, n
      <4> QED BY <2>1, <3>4
    <3>5. CASE LocalInstruction(m, inst) = [go EXCEPT !.next_offset = @ + inst.value]
      <4> HIDE DEF go, n
      <4>1. n = [go EXCEPT !.next_offset = go.next_offset + inst.value] BY <2>1, <3>5
      <4> QED BY <4>1
    <3> QED BY <3>1, <3>3, <3>4, <3>5
  <2> HIDE DEF go, n, ip, L
  <2>3. ASSUME NEW x PROVE LET s == [go EXCEPT !.locals = x] IN Goes(s, ip, L, top)
    <3>1. Alike([go EXCEPT !.locals = x], go) BY <1>2, AlikeWith
    <3>2. [go EXCEPT !.locals = x].status = go.status BY <1>2, AlikeWith
    <3> QED BY <1>1, <3>1, <3>2, AlikeStatusGoes
  <2>4. ASSUME NEW x PROVE LET s == [go EXCEPT !.next_offset = x] IN Goes(s, ip, L, top)
    <3>1. Alike([go EXCEPT !.next_offset = x], go) BY <1>2, AlikeWith
    <3>2. [go EXCEPT !.next_offset = x].status = go.status BY <1>2, AlikeWith
    <3> QED BY <1>1, <3>1, <3>2, AlikeStatusGoes
  <2>5. ASSUME NEW x, NEW y, n = [[go EXCEPT !.next_offset = x] EXCEPT !.locals = y]
        PROVE  Goes(n, ip, L, top)
    <3> DEFINE s == [go EXCEPT !.next_offset = x]
    <3>1. Goes(s, ip, L, top) BY <2>4
    <3>2. n = [s EXCEPT !.locals = y] BY <2>5
    <3> HIDE DEF s
    <3>3. IsMachine(s) BY <3>1 DEF Goes
    <3>4. Alike([s EXCEPT !.locals = y], s) BY <3>3, AlikeWith
    <3>5. [s EXCEPT !.locals = y].status = s.status BY <3>3, AlikeWith
    <3> QED BY <3>1, <3>2, <3>4, <3>5, AlikeStatusGoes
  <2>6. Goes(n, ip, L, top) BY <2>2, <2>3, <2>4, <2>5
  <2> QED BY <2>6 DEF n, ip, L
<1> QED BY <1>3, <1>4

LEMMA EndGoes ==
    ASSUME NEW m, IsMachine(m), NEW inst, inst.op \in {"return_", "return_free", "panic"}, NEW top, m.peak <= top
    PROVE  IsMachine(Execute(m, inst)) /\ Execute(m, inst).peak <= top /\ Execute(m, inst).status # "running"
<1> DEFINE n == Execute(m, inst)
           returned == "returned"
           s == [m EXCEPT !.status = returned]
<1>0. n = ControlInstruction(m, inst) BY ExecuteIs DEF ControlOps
<1>1. Alike(s, m) /\ s.status = returned /\ returned # "running"
  <2>1. returned # "running" OBVIOUS
  <2> HIDE DEF returned
  <2>2. Alike([m EXCEPT !.status = returned], m) BY AlikeWith
  <2>3. [m EXCEPT !.status = returned].status = returned BY AlikeWith
  <2> QED BY <2>1, <2>2, <2>3
<1>2. CASE inst.op = "return_"
  <2>1. n = s BY <1>0, <1>2 DEF ControlInstruction
  <2> HIDE DEF s, n
  <2>2. IsMachine(n) /\ n.peak <= top /\ n.status # "running" BY <1>1, <2>1 DEF Alike
  <2> QED BY <2>2 DEF n
<1>3. CASE inst.op = "return_free"
  <2> DEFINE x == SubSeq(m.locals, inst.value + 1, Len(m.locals))
  <2>1. ControlInstruction(m, inst) = [m EXCEPT !.status = returned, !.locals = SubSeq(@, inst.value + 1, Len(@))]
    BY <1>3 DEF ControlInstruction
  <2>2. n = [s EXCEPT !.locals = x] BY <1>0, <2>1
  <2> HIDE DEF s, n, x
  <2>3. IsMachine(s) BY <1>1 DEF Alike
  <2>4. Alike([s EXCEPT !.locals = x], s) BY <2>3, AlikeWith
  <2>5. [s EXCEPT !.locals = x].status = s.status BY <2>3, AlikeWith
  <2>6. IsMachine(n) /\ n.peak <= top /\ n.status # "running" BY <1>1, <2>2, <2>4, <2>5 DEF Alike
  <2> QED BY <2>6 DEF n
<1>4. CASE inst.op = "panic"
  <2>1. ControlInstruction(m, inst) = PanicWith(m, m.vs[1]) BY <1>4 DEF ControlInstruction
  <2>2. Alike(n, m) /\ n.status # "running" BY <1>0, <2>1, Panicked
  <2> HIDE DEF n
  <2>3. IsMachine(n) /\ n.peak <= top /\ n.status # "running" BY <2>2 DEF Alike
  <2> QED BY <2>3 DEF n
<1> QED BY <1>2, <1>3, <1>4

LEMMA JumpGoes ==
    ASSUME NEW m, IsMachine(m), NEW inst, inst.op = "jump", NEW at \in Nat, at = m.ip + inst.offset,
           NEW top, m.peak <= top
    PROVE  Goes(Execute(m, inst), at, Len(m.vs), top)
<1> DEFINE n == Execute(m, inst)
           s == [m EXCEPT !.ip = at]
<1>1. n = s
  <2>1. n = ControlInstruction(m, inst) BY ExecuteIs DEF ControlOps
  <2>2. ControlInstruction(m, inst) = [m EXCEPT !.ip = @ + inst.offset] BY DEF ControlInstruction
  <2> QED BY <2>1, <2>2
<1>2. IsMachine(s) /\ s.ip = at /\ s.vs = m.vs /\ s.peak = m.peak BY MachineWith
<1> HIDE DEF s, n
<1>3. Goes(n, at, Len(m.vs), top) BY <1>1, <1>2 DEF Goes
<1> QED BY <1>3 DEF n

LEMMA BranchGoes ==
    ASSUME NEW m, IsMachine(m), NEW inst, inst.op \in BranchOps, Len(m.vs) >= 1, NEW at \in Nat,
           at = m.ip + inst.offset, NEW top \in Nat, m.peak <= top, Len(m.vs) - 1 <= top
    PROVE  \/ Goes(Execute(m, inst), at, Len(m.vs) - 1, top)
           \/ Goes(Execute(m, inst), m.ip + 1, Len(m.vs) - 1, top)
<1> DEFINE n == Execute(m, inst)
           p == Replace(m, 1, <<>>)
           to == Len(m.vs) - 1
           s == [p EXCEPT !.ip = at]
<1>1. n = s \/ n = p
  <2>1. n = ControlInstruction(m, inst) BY ExecuteIs DEF ControlOps
  <2>2. \E cc : ControlInstruction(m, inst) = Branch(m, inst, cc) BY Zenon DEF ControlInstruction, BranchOps
  <2>3. PICK cc : n = Branch(m, inst, cc) BY <2>1, <2>2
  <2>4. Branch(m, inst, cc) = [p EXCEPT !.ip = m.ip + inst.offset] \/ Branch(m, inst, cc) = p BY Zenon DEF Branch
  <2> QED BY <2>3, <2>4
<1>2. Goes(p, m.ip + 1, to, top)
  <2> DEFINE e == <<>>
             k == 1
             L == Len(m.vs)
  <2>1. IsList(e) /\ Len(e) = 0 /\ L \in Nat BY EmptyList, MachineFields
  <2>2. k \in Nat /\ k <= L /\ to = (L - k) + Len(e) /\ to <= top BY <2>1
  <2> HIDE DEF k, e, L, to
  <2>3. Goes(Replace(m, k, e), m.ip + 1, to, top) BY <2>1, <2>2, ReplaceGoes DEF L
  <2> QED BY <2>3 DEF k, e
<1> HIDE DEF p, to
<1>3. IsMachine(p) BY <1>2 DEF Goes
<1>4. IsMachine(s) /\ s.ip = at /\ s.vs = p.vs /\ s.peak = p.peak /\ s.status = p.status BY <1>3, MachineWith
<1> HIDE DEF s, n
<1>5. Goes(s, at, to, top) BY <1>2, <1>4 DEF Goes
<1>6. Goes(n, at, to, top) \/ Goes(n, m.ip + 1, to, top) BY <1>1, <1>2, <1>5
<1> QED BY <1>6 DEF n, to

-----------------------------------------------------------------------------
(* How the blocks follow each other: the ones that can be reached go on to   *)
(* others that can, and the code of one ends where the next one begins.      *)

Closed(S) == 1 \in S /\ \A b \in S : Successors(b) \subseteq S

LEMMA ReachableIs ==
    Reachable = {b \in 1..Len(blocks) : \A S \in SUBSET (1..Len(blocks)) : Closed(S) => b \in S}
BY Zenon DEF Reachable, Closed

LEMMA ReachesFirst == ASSUME HeightsInv PROVE 1 \in Reachable
<1>1. 1 \in 1..Len(blocks) BY ListFacts DEF HeightsInv, BlocksInv, GoodBlocks
<1>2. \A S : Closed(S) => 1 \in S BY DEF Closed
<1> QED BY <1>1, <1>2, ReachableIs

LEMMA ReachesNext ==
    ASSUME HeightsInv, NEW b \in Reachable, NEW d \in Successors(b), d \in 1..Len(blocks)
    PROVE  d \in Reachable
<1>1. ASSUME NEW S \in SUBSET (1..Len(blocks)), Closed(S) PROVE d \in S
  <2>1. b \in S BY <1>1, ReachableIs
  <2> QED BY <1>1, <2>1 DEF Closed
<1> QED BY <1>1, ReachableIs

(* Where a block that can be reached goes on to.                             *)
Begins(d, n) == d \in Reachable /\ d \in 1..Len(blocks) /\ blocks[d].inputs = n

LEMMA GoesToBlock ==
    ASSUME HeightsInv, NEW b \in Reachable
    PROVE  /\ b \in 1..Len(blocks) /\ Highs(blocks[b]) /\ IsBlock(blocks[b])
           /\ blocks[b].term = "jump" => Begins(blocks[b].next[1], Len(blocks[b].vstack))
           /\ blocks[b].term \in Branches =>
                 /\ Begins(blocks[b].next[1], Len(blocks[b].vstack))
                 /\ Begins(blocks[b].next[2], Len(blocks[b].vstack))
<1> DEFINE next == blocks[b].next
           n == Len(blocks[b].vstack)
<1>1. b \in 1..Len(blocks) BY ReachableIs
<1>2. Highs(blocks[b]) /\ GoesTo(blocks, blocks[b]) BY <1>1 DEF HeightsInv, AllHighs
<1>3. IsBlock(blocks[b]) BY <1>1 DEF HeightsInv, BlocksInv, GoodBlocks, GoodBlock
<1>4. blocks[b].term = "jump" => Begins(next[1], n)
  <2> SUFFICES ASSUME blocks[b].term = "jump" PROVE Begins(next[1], n) OBVIOUS
  <2>1. Enters(blocks, next[1], n) BY <1>2 DEF GoesTo
  <2>2. next[1] \in Successors(b) BY DEF Successors
  <2> QED BY <2>1, <2>2, ReachesNext DEF Begins, Enters
<1>5. blocks[b].term \in Branches => Begins(next[1], n) /\ Begins(next[2], n)
  <2> SUFFICES ASSUME blocks[b].term \in Branches PROVE Begins(next[1], n) /\ Begins(next[2], n) OBVIOUS
  <2>1. Enters(blocks, next[1], n) /\ Enters(blocks, next[2], n) BY <1>2 DEF GoesTo
  <2>2. next[1] \in Successors(b) /\ next[2] \in Successors(b) BY DEF Successors, Branches
  <2> QED BY <2>1, <2>2, ReachesNext DEF Begins, Enters
<1> QED BY <1>1, <1>2, <1>3, <1>4, <1>5

(* The least of some numbers                                                 *)
LEMMA LeastIs ==
    ASSUME NEW S, S \subseteq Nat, S # {}
    PROVE  Min(S) \in S /\ \A x \in S : Min(S) <= x
<1> DEFINE F(n) == \E x \in S : x <= n
           T == {n \in Nat : F(n) => \E m \in S : \A x \in S : m <= x}
<1>1. 0 \in T
  <2> SUFFICES ASSUME NEW y \in S, y <= 0 PROVE \E m \in S : \A x \in S : m <= x OBVIOUS
  <2>1. \A x \in S : y <= x OBVIOUS
  <2> QED BY <2>1
<1>2. ASSUME NEW n \in Nat, n \in T PROVE n + 1 \in T
  <2> SUFFICES ASSUME NEW y \in S, y <= n + 1, ~F(n) PROVE \E m \in S : \A x \in S : m <= x
    BY <1>2
  <2>1. \A x \in S : y <= x OBVIOUS
  <2> QED BY <2>1
<1> HIDE DEF T
<1>3. Nat \subseteq T BY <1>1, <1>2, Induction
<1>4. PICK y \in S : TRUE OBVIOUS
<1>5. y \in T /\ F(y) BY <1>3
<1>6. \E m \in S : \A x \in S : m <= x BY <1>5 DEF T
<1> QED BY <1>6, Zenon DEF Min

LEMMA FollowingIs ==
    ASSUME HeightsInv, NEW b \in Reachable, Following(b) # NoFollowing
    PROVE  /\ Following(b) \in Reachable /\ Following(b) > b
           /\ \A c \in Reachable : c > b => Following(b) <= c
<1> DEFINE later == {c \in Reachable : c > b}
<1>1. later # {} /\ Following(b) = Min(later) BY DEF Following
<1>2. later \subseteq Nat BY ReachableIs
<1>3. Min(later) \in later /\ \A x \in later : Min(later) <= x BY <1>1, <1>2, LeastIs
<1> QED BY <1>1, <1>3

(* Nothing is laid out between a block and the one that follows it.          *)
LEMMA NothingBetween ==
    ASSUME NEW ss, NEW n \in Nat, \A i \in 1..n : IsList(ss[i]), NEW b \in 0..n, NEW c \in b..n,
           \A i \in b + 1..c : Len(ss[i]) = 0
    PROVE  Len(UpTo(ss, c)) = Len(UpTo(ss, b))
<1> DEFINE u(m) == Len(UpTo(ss, m))
           T == {m \in Nat : m \in b..c => u(m) = u(b)}
<1>1. \A m \in 0..n : u(m) \in Nat BY UpToParts
<1>2. \A i \in 1..n : u(i) = u(i - 1) + Len(ss[i]) BY UpToParts
<1> HIDE DEF u
<1>3. 0 \in T
  <2>1. 0 \in b..c => b = 0 OBVIOUS
  <2> QED BY <2>1
<1>4. ASSUME NEW m \in Nat, m \in T PROVE m + 1 \in T
  <2>1. CASE m \in b..c /\ m + 1 \in b..c
    <3>1. m + 1 \in 1..n /\ (m + 1) - 1 = m /\ m \in 0..n /\ m + 1 \in b + 1..c BY <2>1
    <3>2. u(m + 1) = u(m) + Len(ss[m + 1]) /\ Len(ss[m + 1]) = 0 /\ u(m) \in Nat BY <1>1, <1>2, <3>1
    <3>3. u(m) = u(b) BY <1>4, <2>1
    <3> QED BY <3>2, <3>3
  <2>2. CASE m \notin b..c /\ m + 1 \in b..c
    <3>1. m + 1 = b BY <2>2
    <3> QED BY <3>1
  <2>3. CASE m + 1 \notin b..c BY <2>3
  <2> QED BY <2>1, <2>2, <2>3
<1> HIDE DEF T
<1>5. Nat \subseteq T BY <1>3, <1>4, Induction
<1>6. c \in T /\ c \in b..c BY <1>5
<1> QED BY <1>6 DEF T, u

LEMMA OffsetIs ==
    ASSUME BlocksInv, NEW b \in 1..Len(blocks)
    PROVE  /\ Offsets[b] = Len(Prologue) + Len(UpTo(Emitted_blocks, b - 1))
           /\ Len(Prologue) \in Nat /\ Len(UpTo(Emitted_blocks, b - 1)) \in Nat
           /\ Offsets[b] \in Nat
<1> DEFINE P == Len(Prologue)
           u == Len(UpTo(Emitted_blocks, b - 1))
           o == Offsets
<1>1. IsList(blocks) /\ IsList(locals) BY DEF BlocksInv, GoodBlocks
<1>2. b - 1 \in 0..Len(blocks) BY <1>1, ListFacts
<1>3. o[b] = Len(EmitBody(b - 1)) BY DEF Offsets
<1>4. Len(EmitBody(b - 1)) = P + u /\ IsList(UpTo(Emitted_blocks, b - 1)) BY <1>2, EmitBodyIs
<1>5. P \in Nat /\ u \in Nat BY <1>1, <1>4, PrologueList, ListFacts
<1> HIDE DEF P, u, o
<1>6. o[b] = P + u /\ o[b] \in Nat BY <1>3, <1>4, <1>5
<1> QED BY <1>5, <1>6 DEF P, u, o

LEMMA BlocksEmitted ==
    ASSUME BlocksInv
    PROVE  /\ Len(blocks) \in Nat \ {0}
           /\ \A i \in 1..Len(blocks) : IsList(Emitted_blocks[i]) /\ Emitted_blocks[i] = EmitBlock(i)
           /\ \A i \in 1..Len(blocks) : i \notin Reachable => Len(Emitted_blocks[i]) = 0
<1>1. Len(blocks) \in Nat \ {0}
  <2>1. IsList(blocks) /\ Len(blocks) # 0 BY DEF BlocksInv, GoodBlocks
  <2> QED BY <2>1, ListFacts
<1>2. ASSUME NEW i \in 1..Len(blocks)
      PROVE  /\ IsList(Emitted_blocks[i]) /\ Emitted_blocks[i] = EmitBlock(i)
             /\ i \notin Reachable => Len(Emitted_blocks[i]) = 0
  <2>1. Emitted_blocks[i] = EmitBlock(i) BY DEF Emitted_blocks
  <2>2. IsList(EmitBlock(i)) /\ (i \notin Reachable => EmitBlock(i) = <<>>) BY EmitBlockList
  <2> DEFINE e == EmitBlock(i)
             x == Emitted_blocks[i]
  <2> HIDE DEF e, x
  <2>3. x = e /\ IsList(e) /\ (i \notin Reachable => e = <<>>) BY <2>1, <2>2 DEF e, x
  <2>4. IsList(x) /\ x = e /\ (i \notin Reachable => Len(x) = 0) BY <2>3, EmptyList
  <2> QED BY <2>4 DEF e, x
<1> QED BY <1>1, <1>2

LEMMA FirstOffset == ASSUME BlocksInv PROVE Offsets[1] = Len(Prologue)
<1> DEFINE P == Len(Prologue)
           u == Len(UpTo(Emitted_blocks, 0))
           o == Offsets
<1>0. Len(blocks) \in Nat \ {0} BY BlocksEmitted
<1>1. 1 \in 1..Len(blocks) /\ 1 - 1 = 0 BY <1>0
<1>2. o[1] = P + u /\ P \in Nat BY <1>1, OffsetIs
<1>3. u = 0 BY UpToNothing, EmptyList
<1> HIDE DEF P, u, o
<1>4. o[1] = P BY <1>2, <1>3
<1> QED BY <1>4 DEF P, o

LEMMA NextOffset ==
    ASSUME HeightsInv, NEW b \in Reachable, Following(b) # NoFollowing
    PROVE  Offsets[Following(b)] = Offsets[b] + Len(EmitBlock(b))
<1> DEFINE n == Len(blocks)
           ss == Emitted_blocks
           u(m) == Len(UpTo(ss, m))
           f == Following(b)
           P == Len(Prologue)
           o == Offsets
<1>0. BlocksInv BY DEF HeightsInv
<1>1. /\ n \in Nat
      /\ \A i \in 1..n : IsList(ss[i]) /\ ss[i] = EmitBlock(i)
      /\ \A i \in 1..n : i \notin Reachable => Len(ss[i]) = 0
  BY <1>0, BlocksEmitted
<1>2. f \in Reachable /\ f > b /\ \A c \in Reachable : c > b => f <= c BY FollowingIs
<1>3. b \in 1..n /\ f \in 1..n BY <1>2, ReachableIs
<1>4. o[b] = P + u(b - 1) /\ P \in Nat /\ u(b - 1) \in Nat BY <1>0, <1>3, OffsetIs
<1>5. o[f] = P + u(f - 1) BY <1>0, <1>3, OffsetIs
<1>6. ss[b] = EmitBlock(b) BY <1>1, <1>3
<1> DEFINE g == f - 1
<1> HIDE DEF f, ss, n
<1>7. b \in 0..n /\ g \in b..n BY <1>1, <1>2, <1>3
<1>8. \A i \in b + 1..g : Len(ss[i]) = 0
  <2> SUFFICES ASSUME NEW i \in b + 1..g PROVE Len(ss[i]) = 0 OBVIOUS
  <2>1. i \in 1..n /\ i > b /\ ~(f <= i) BY <1>1, <1>2, <1>3
  <2>2. i \notin Reachable BY <1>2, <2>1
  <2> QED BY <1>1, <2>1, <2>2
<1> HIDE DEF g
<1>9. u(g) = u(b) BY <1>1, <1>7, <1>8, NothingBetween
<1>10. u(b) = u(b - 1) + Len(ss[b]) BY <1>1, <1>3, UpToParts
<1> DEFINE x == u(b - 1)
           y == u(g)
           e == Len(EmitBlock(b))
<1>11. y = x + e BY <1>6, <1>9, <1>10
<1>12. o[b] = P + x /\ P \in Nat /\ x \in Nat /\ o[f] = P + y BY <1>4, <1>5 DEF g
<1>13. e \in Nat BY <1>1, <1>3, <1>6, ListFacts
<1> HIDE DEF x, y, e, P, o
<1>14. o[f] = o[b] + e BY <1>11, <1>12, <1>13
<1> QED BY <1>14 DEF o, f, e

(* The code of a function                                                    *)
Whole == EmitBody(Len(blocks))

LEMMA WholeIs ==
    ASSUME BlocksInv
    PROVE  /\ IsList(Whole) /\ Len(Whole) \in Nat
           /\ Len(Prologue) \in Nat /\ Len(Prologue) <= Len(Whole)
           /\ \A p \in 1..Len(Prologue) : Whole[p] = Prologue[p]
           /\ \A b \in 1..Len(blocks) : \A j \in 1..Len(EmitBlock(b)) :
                 /\ Offsets[b] + j \in 1..Len(Whole)
                 /\ Whole[Offsets[b] + j] = EmitBlock(b)[j]
<1> DEFINE n == Len(blocks)
           ss == Emitted_blocks
           u == UpTo(ss, n)
           P == Prologue
           o == Offsets
           w == Whole
<1>1. IsList(blocks) /\ IsList(locals) /\ n \in Nat /\ n \in 0..n BY BlocksEmitted DEF BlocksInv, GoodBlocks
<1>2. w = P \o u /\ IsList(u) BY <1>1, EmitBodyIs DEF Whole
<1>3. IsList(P) /\ Len(P) \in Nat BY <1>1, PrologueList
<1>4. \A i \in 1..n : IsList(ss[i]) /\ ss[i] = EmitBlock(i) BY BlocksEmitted
<1> HIDE DEF ss, n
<1>5. AllAt(ss, n) BY <1>1, <1>4, UpToAt
<1>6. \A b \in 1..n : \A k \in 1..Len(ss[b]) : u[Len(UpTo(ss, b - 1)) + k] = ss[b][k] BY <1>5 DEF AllAt
<1> HIDE DEF u, P, w
<1>7. /\ IsList(w) /\ Len(w) = Len(P) + Len(u)
      /\ \A i \in 1..Len(P) : w[i] = P[i]
      /\ \A i \in 1..Len(u) : w[Len(P) + i] = u[i]
  BY <1>2, <1>3, Joined
<1>8. Len(u) \in Nat BY <1>2, ListFacts
<1>9. Len(w) \in Nat /\ Len(P) <= Len(w) BY <1>3, <1>7, <1>8
<1>10. ASSUME NEW b \in 1..n, NEW j \in 1..Len(ss[b])
       PROVE  o[b] + j \in 1..Len(w) /\ w[o[b] + j] = ss[b][j]
  <2> DEFINE x == Len(UpTo(ss, b - 1))
             z == Len(ss[b])
             y == Len(UpTo(ss, b))
             q == Len(P)
             v == Len(u)
  <2>1. o[b] = q + x /\ x \in Nat BY <1>10, OffsetIs DEF n, ss, P
  <2>2. y = x + z BY <1>1, <1>4, UpToParts
  <2>3. y <= v
    <3>1. b \in 0..n /\ n \in b..n BY <1>1
    <3> QED BY <1>1, <1>4, <3>1, UpToOrdered DEF u
  <2>4. u[x + j] = ss[b][j] BY <1>6
  <2>5. z \in Nat BY <1>4, ListFacts
  <2>6. q \in Nat /\ v \in Nat /\ Len(w) = q + v BY <1>3, <1>7, <1>8
  <2>7. j \in 1..z OBVIOUS
  <2> HIDE DEF x, y, z, q, v, o
  <2>8. x + j \in 1..v /\ o[b] + j = q + (x + j) /\ o[b] + j \in 1..Len(w)
    BY <2>1, <2>2, <2>3, <2>5, <2>6, <2>7
  <2>9. w[q + (x + j)] = u[x + j] BY <1>7, <2>8 DEF q, v
  <2> QED BY <2>4, <2>8, <2>9
<1>11. \A b \in 1..n : \A j \in 1..Len(EmitBlock(b)) : o[b] + j \in 1..Len(w) /\ w[o[b] + j] = EmitBlock(b)[j]
  <2> SUFFICES ASSUME NEW b \in 1..n, NEW j \in 1..Len(EmitBlock(b))
               PROVE  o[b] + j \in 1..Len(w) /\ w[o[b] + j] = EmitBlock(b)[j]
    OBVIOUS
  <2>1. ss[b] = EmitBlock(b) BY <1>4
  <2> HIDE DEF o
  <2> QED BY <1>10, <2>1
<1> QED BY <1>3, <1>7, <1>9, <1>11 DEF w, P, n, o

-----------------------------------------------------------------------------
(* The instructions that are laid out                                        *)

LEMMA PrologueOps ==
    ASSUME IsList(locals), NEW p \in 1..Len(Prologue)
    PROVE  Prologue[p].op \in LocalOps
<1> DEFINE n == Len(locals)
<1>1. n \in Nat BY ListFacts
<1>2. CASE localAddrs > 0
  <2> DEFINE a == WithValue("setup_local_alloc", n)
             f == [l \in 1..n |-> Alloc(locals[l])]
             P == Prologue
  <2>1. P = a \o f BY <1>2 DEF Prologue, Alloc
  <2>2. IsList(a) /\ Len(a) = 1 /\ a[1].op = "setup_local_alloc" BY OneList DEF WithValue
  <2>3. f = [l \in 1..n |-> f[l]] OBVIOUS
  <2>4. \A l \in 1..n : f[l].op \in {"local_alloc", "local_alloc_aligned"} BY DEF Alloc
  <2> HIDE DEF a, f, P
  <2>5. IsList(f) /\ Len(f) = n
    <3> HIDE DEF n
    <3> QED BY <1>1, <2>3, FunctionList
  <2>6. /\ Len(P) = 1 + n
        /\ \A i \in 1..Len(a) : P[i] = a[i]
        /\ \A i \in 1..Len(f) : P[Len(a) + i] = f[i]
    <3>1. Len(a \o f) = Len(a) + Len(f) BY <2>2, <2>5, Joined
    <3>2. \A i \in 1..Len(a) : (a \o f)[i] = a[i] BY <2>2, <2>5, Joined
    <3>3. \A i \in 1..Len(f) : (a \o f)[Len(a) + i] = f[i]
      <4>1. IsList(a) /\ IsList(f) BY <2>2, <2>5
      <4> QED BY <4>1, Joined
    <3> QED BY <2>1, <2>2, <2>5, <3>1, <3>2, <3>3
  <2>7. p \in 1..1 + n BY <2>6 DEF P
  <2>8. CASE p = 1
    <3>1. P[1] = a[1] BY <2>2, <2>6
    <3> QED BY <2>2, <2>8, <3>1 DEF LocalOps, P
  <2>9. CASE p # 1
    <3> DEFINE q == p - 1
    <3>1. q \in 1..n /\ p = 1 + q BY <1>1, <2>7, <2>9
    <3> HIDE DEF q
    <3>2. P[1 + q] = f[q] BY <2>2, <2>5, <2>6, <3>1
    <3>3. P[p].op \in {"local_alloc", "local_alloc_aligned"} BY <2>4, <3>1, <3>2
    <3> QED BY <3>3 DEF LocalOps, P
  <2> QED BY <2>8, <2>9
<1>3. CASE ~(localAddrs > 0)
  <2> DEFINE ss == [l \in 1..n |-> Storage(locals[l])]
             P == Prologue
  <2>1. P = FlattenSeq(ss) BY <1>3 DEF Prologue, Storage
  <2>2. [i \in 1..n |-> ss[i]] = ss OBVIOUS
  <2>3. ASSUME NEW i \in 1..n PROVE IsList(ss[i]) /\ \A k \in 1..Len(ss[i]) : ss[i][k].op = "local_storage"
    <3>1. IsList(ss[i]) BY StorageList
    <3>2. ss[i] = <<>> \/ ss[i] = WithValue("local_storage", SpaceOf(locals[i])) BY DEF Storage
    <3> DEFINE w == WithValue("local_storage", SpaceOf(locals[i]))
               x == ss[i]
    <3>3. Len(w) = 1 /\ w[1].op = "local_storage" BY OneList DEF WithValue
    <3>4. x = <<>> \/ x = w BY <3>2
    <3> HIDE DEF w, x
    <3>5. \A k \in 1..Len(x) : x[k].op = "local_storage"
      <4>1. CASE x = <<>> BY <4>1, EmptyList
      <4>2. CASE x = w
        <5>1. \A k \in 1..1 : k = 1 OBVIOUS
        <5> QED BY <3>3, <4>2, <5>1
      <4> QED BY <3>4, <4>1, <4>2
    <3> QED BY <3>1, <3>5 DEF x
  <2> HIDE DEF ss, P
  <2>4. P = UpTo(ss, n) BY <2>1, <2>2 DEF UpTo
  <2> HIDE DEF n
  <2>5. n \in 0..n BY <1>1
  <2>6. AllAt(ss, n) BY <1>1, <2>3, <2>5, UpToAt
  <2>7. p \in 1..Len(P) BY DEF P
  <2>8. PICK b \in 1..n : \E k \in 1..Len(ss[b]) : p = Len(UpTo(ss, b - 1)) + k BY <2>4, <2>6, <2>7 DEF AllAt
  <2>9. PICK k \in 1..Len(ss[b]) : p = Len(UpTo(ss, b - 1)) + k BY <2>8
  <2>10. P[p] = ss[b][k] BY <2>4, <2>6, <2>9 DEF AllAt
  <2>11. P[p].op = "local_storage" BY <2>3, <2>10
  <2> QED BY <2>11 DEF P, LocalOps
<1> QED BY <1>2, <1>3

(* A jump or a branch to a block, before its offset is known                 *)
Jumps(inst, d)    == inst.op = "jump" /\ inst.dest = d
Diverts(inst, d)  == inst.op \in BranchOps /\ inst.dest = d

LEMMA JumpIs ==
    ASSUME NEW d
    PROVE  /\ IsList(JumpTo("jump", d)) /\ Len(JumpTo("jump", d)) = 1
           /\ Jumps(JumpTo("jump", d)[1], d)
<1> DEFINE x == [op |-> "jump", dest |-> d]
<1>1. IsList(<<x>>) /\ Len(<<x>>) = 1 /\ <<x>>[1] = x BY OneList
<1>2. JumpTo("jump", d) = <<x>> BY DEF JumpTo
<1>3. Jumps(x, d) BY DEF Jumps
<1> HIDE DEF x
<1> QED BY <1>1, <1>2, <1>3

LEMMA DivertIs ==
    ASSUME NEW op \in BranchOps, NEW d
    PROVE  /\ IsList(JumpTo(op, d)) /\ Len(JumpTo(op, d)) = 1
           /\ Diverts(JumpTo(op, d)[1], d)
<1> DEFINE x == [op |-> op, dest |-> d]
<1>1. IsList(<<x>>) /\ Len(<<x>>) = 1 /\ <<x>>[1] = x BY OneList
<1>2. JumpTo(op, d) = <<x>> BY DEF JumpTo
<1>3. Diverts(x, d) BY DEF Diverts
<1> HIDE DEF x
<1> QED BY <1>1, <1>2, <1>3

LEMMA WaysAre ==
    ASSUME NEW term \in Branches
    PROVE  WaysToBranch(term)[1] \in BranchOps /\ WaysToBranch(term)[2] \in BranchOps
<1>1. CASE term = "branch_ne_eq" BY <1>1 DEF WaysToBranch, BranchOps
<1>2. CASE term = "branch_lt_ge" BY <1>2 DEF WaysToBranch, BranchOps
<1>3. CASE term = "branch_le_gt" BY <1>3 DEF WaysToBranch, BranchOps
<1> QED BY <1>1, <1>2, <1>3 DEF Branches

(* What follows the instructions of a block                                  *)
Ends(t)             == Len(t) = 1 /\ t[1].op \in {"return_", "return_free", "panic"}
JumpsTo(t, d)       == Len(t) = 1 /\ Jumps(t[1], d)
DivertsTo(t, d)     == Len(t) = 1 /\ Diverts(t[1], d)
Chooses(t, d, e)    == Len(t) = 2 /\ Diverts(t[1], d) /\ Jumps(t[2], e)

TerminatorOf(block, following, t) ==
    \/ block.term = "terminated" /\ Len(t) = 0
    \/ block.term = "return_" /\ Ends(t)
    \/ block.term = "panic" /\ Ends(t)
    \/ block.term = "jump" /\ block.next[1] = following /\ Len(t) = 0
    \/ block.term = "jump" /\ JumpsTo(t, block.next[1])
    \/ block.term \in Branches /\ block.next[1] = following /\ DivertsTo(t, block.next[2])
    \/ block.term \in Branches /\ block.next[2] = following /\ DivertsTo(t, block.next[1])
    \/ block.term \in Branches /\ Chooses(t, block.next[2], block.next[1])

LEMMA TerminatorIs ==
    ASSUME NEW b, NEW following, blocks[b].term \in Terms, blocks[b].term # "unterminated"
    PROVE  TerminatorOf(blocks[b], following, Terminator(b, following))
<1> DEFINE block == blocks[b]
           term == block.term
           next == block.next
           ways == WaysToBranch(term)
           t == Terminator(b, following)
           y1 == next[1]
           y2 == next[2]
<1>1. CASE term = "terminated"
  <2>1. t = <<>> BY <1>1 DEF Terminator
  <2>2. Len(t) = 0 BY <2>1, EmptyList
  <2> QED BY <1>1, <2>2 DEF TerminatorOf
<1>2. CASE term = "return_"
  <2>1. t = Return BY <1>2 DEF Terminator
  <2>2. t = WithValue("return_free", Len(locals)) \/ t = None("return_") BY <2>1 DEF Return
  <2> HIDE DEF t
  <2>3. Ends(t) BY <2>2, OneList DEF Ends, WithValue, None
  <2> QED BY <1>2, <2>3 DEF TerminatorOf, t
<1>3. CASE term = "panic"
  <2>1. t = None("panic") BY <1>3 DEF Terminator
  <2> HIDE DEF t
  <2>3. Ends(t) BY <2>1, OneList DEF Ends, None
  <2> QED BY <1>3, <2>3 DEF TerminatorOf, t
<1>4. CASE term = "jump"
  <2>1. (y1 = following /\ t = <<>>) \/ t = JumpTo("jump", y1) BY <1>4 DEF Terminator
  <2> HIDE DEF t, y1
  <2>2. CASE y1 = following /\ t = <<>>
    <3>1. Len(t) = 0 BY <2>2, EmptyList
    <3> QED BY <1>4, <2>2, <3>1 DEF TerminatorOf, t, y1
  <2>3. CASE t = JumpTo("jump", y1)
    <3>1. JumpsTo(t, y1) BY <2>3, JumpIs DEF JumpsTo
    <3> QED BY <1>4, <3>1 DEF TerminatorOf, t, y1
  <2> QED BY <2>1, <2>2, <2>3
<1>5. CASE term \in Branches
  <2>1. ways[1] \in BranchOps /\ ways[2] \in BranchOps BY <1>5, WaysAre
  <2>2. term \notin {"unterminated", "terminated", "return_", "panic", "jump"} BY <1>5 DEF Branches
  <2>3. \/ y1 = following /\ t = JumpTo(ways[2], y2)
        \/ y2 = following /\ t = JumpTo(ways[1], y1)
        \/ t = JumpTo(ways[2], y2) \o JumpTo("jump", y1)
    BY <2>2 DEF Terminator
  <2> HIDE DEF t, y1, y2, ways
  <2>4. CASE y1 = following /\ t = JumpTo(ways[2], y2)
    <3>1. DivertsTo(t, y2) BY <2>1, <2>4, DivertIs DEF DivertsTo
    <3> QED BY <1>5, <2>4, <3>1 DEF TerminatorOf, t, y1, y2
  <2>5. CASE y2 = following /\ t = JumpTo(ways[1], y1)
    <3>1. DivertsTo(t, y1) BY <2>1, <2>5, DivertIs DEF DivertsTo
    <3> QED BY <1>5, <2>5, <3>1 DEF TerminatorOf, t, y1, y2
  <2>6. CASE t = JumpTo(ways[2], y2) \o JumpTo("jump", y1)
    <3> DEFINE x == JumpTo(ways[2], y2)
               z == JumpTo("jump", y1)
    <3>1. IsList(x) /\ Len(x) = 1 /\ Diverts(x[1], y2) BY <2>1, DivertIs
    <3>2. IsList(z) /\ Len(z) = 1 /\ Jumps(z[1], y1) BY JumpIs
    <3>3. t = x \o z BY <2>6
    <3> HIDE DEF x, z
    <3>7. Len(x \o z) = Len(x) + Len(z) BY <3>1, <3>2, Joined
    <3>8. \A i \in 1..Len(x) : (x \o z)[i] = x[i] BY <3>1, <3>2, Joined
    <3>9. \A i \in 1..Len(z) : (x \o z)[Len(x) + i] = z[i]
      <4>1. IsList(x) /\ IsList(z) BY <3>1, <3>2
      <4> QED BY <4>1, Joined
    <3>4. Len(t) = Len(x) + Len(z) /\ (\A i \in 1..Len(x) : t[i] = x[i]) /\ \A i \in 1..Len(z) : t[Len(x) + i] = z[i]
      BY <3>3, <3>7, <3>8, <3>9
    <3>5. Len(t) = 2 /\ t[1] = x[1] /\ t[2] = z[1]
      <4>1. 1 \in 1..1 /\ 1 + 1 = 2 OBVIOUS
      <4>2. t[1 + 1] = z[1] BY <3>1, <3>2, <3>4, <4>1
      <4> QED BY <3>1, <3>2, <3>4, <4>1, <4>2
    <3>6. Chooses(t, y2, y1) BY <3>1, <3>2, <3>5 DEF Chooses
    <3> QED BY <1>5, <3>6 DEF TerminatorOf, t, y1, y2
  <2> QED BY <2>3, <2>4, <2>5, <2>6
<1> QED BY <1>1, <1>2, <1>3, <1>4, <1>5 DEF Terms

(* The finished code                                                         *)
LEMMA PatchedIs ==
    ASSUME NEW code, NEW offset, Len(code) \in Nat, NEW p \in 1..Len(code)
    PROVE  /\ code[p].op \notin {"jump"} \cup BranchOps => Patched(code, offset)[p] = code[p]
           /\ code[p].op \in {"jump"} \cup BranchOps =>
                 /\ Patched(code, offset)[p].op = code[p].op
                 /\ Patched(code, offset)[p].offset = (offset[code[p].dest] + 1) - (p - 1)
<1> DEFINE x == code[p]
           at == (offset[x.dest] + 1) - (p - 1)
           y == Patched(code, offset)[p]
<1>1. y = IF x.op \in {"jump"} \cup BranchOps THEN [op |-> x.op, offset |-> at] ELSE x
  BY DEF Patched
<1> HIDE DEF x, y, at
<1>2. /\ x.op \notin {"jump"} \cup BranchOps => y = x
      /\ x.op \in {"jump"} \cup BranchOps => y.op = x.op /\ y.offset = at
  BY <1>1
<1> QED BY <1>2 DEF x, y, at

-----------------------------------------------------------------------------
(* How high the stack is where the machine is: every instruction has a       *)
(* height, but for the signature of a builtin, which is skipped.             *)

Chosen(block) == CHOOSE h : Heights(h, block.insts, block.inputs, Exit(block), block.max)

HeightAt(b, j, L) ==
    \/ j = 1 /\ L = blocks[b].inputs
    \/ \E k \in 1..Len(blocks[b].insts) :
          /\ j = 1 + k
          /\ blocks[b].insts[k].op # "call_builtin_sig"
          /\ L = Chosen(blocks[b])[k - 1]
    \/ j = 2 + Len(blocks[b].insts) /\ L = Exit(blocks[b])
    \/ j = 3 + Len(blocks[b].insts) /\ L = Len(blocks[b].vstack)

Place(p, L) ==
    \/ p \in 1..Len(Prologue) /\ L = script.in
    \/ \E b \in Reachable : \E j \in 1..Len(EmitBlock(b)) : p = Offsets[b] + j /\ HeightAt(b, j, L)

(* All that can be reached is terminated.                                    *)
Complete == HeightsInv /\ \A b \in Reachable : blocks[b].term # "unterminated"

LEMMA ChosenIs ==
    ASSUME NEW block, Highs(block)
    PROVE  /\ Heights(Chosen(block), block.insts, block.inputs, Exit(block), block.max)
           /\ IsList(block.insts) /\ Len(block.insts) \in Nat /\ Followed(block.insts) /\ block.max \in Nat
           /\ Chosen(block)[0] = block.inputs /\ Chosen(block)[Len(block.insts)] = Exit(block)
           /\ \A k \in 0..Len(block.insts) : Chosen(block)[k] \in 0..block.max
           /\ \A k \in 1..Len(block.insts) : Moves(block.insts[k], Chosen(block)[k - 1], Chosen(block)[k])
<1> DEFINE F(h) == Heights(h, block.insts, block.inputs, Exit(block), block.max)
           c == Chosen(block)
<1>1. Leaves(block.insts, block.inputs, Exit(block), block.max) BY DEF Highs
<1>2. IsList(block.insts) /\ Len(block.insts) \in Nat /\ Followed(block.insts) /\ block.max \in Nat
  BY <1>1, LeavesFacts DEF Leaves
<1>3. \E h : F(h) BY <1>1 DEF Leaves
<1>4. c = CHOOSE h : F(h) BY DEF Chosen
<1> HIDE DEF F, c
<1>5. F(c) BY <1>3, <1>4, Zenon
<1>6. Heights(c, block.insts, block.inputs, Exit(block), block.max) BY <1>5 DEF F
<1>7. \A k \in 0..Len(block.insts) : c[k] \in 0..block.max BY <1>6 DEF Heights
<1>8. c[0] = block.inputs /\ c[Len(block.insts)] = Exit(block) BY <1>6 DEF Heights
<1>9. \A k \in 1..Len(block.insts) : Moves(block.insts[k], c[k - 1], c[k]) BY <1>6 DEF Heights
<1> QED BY <1>2, <1>6, <1>7, <1>8, <1>9 DEF c

LEMMA BlockPlaced ==
    ASSUME Complete, NEW b \in Reachable
    PROVE  /\ b \in 1..Len(blocks)
           /\ Highs(blocks[b])
           /\ Len(blocks[b].insts) \in Nat
           /\ Len(Terminator(b, Following(b))) \in Nat
           /\ Len(EmitBlock(b)) = 1 + Len(blocks[b].insts) + Len(Terminator(b, Following(b)))
           /\ EmitBlock(b)[1].op = "block"
           /\ \A k \in 1..Len(blocks[b].insts) : EmitBlock(b)[1 + k] = blocks[b].insts[k]
           /\ \A k \in 1..Len(Terminator(b, Following(b))) :
                 EmitBlock(b)[1 + Len(blocks[b].insts) + k] = Terminator(b, Following(b))[k]
           /\ TerminatorOf(blocks[b], Following(b), Terminator(b, Following(b)))
           /\ Offsets[b] \in Nat
<1>1. BlocksInv /\ blocks[b].term # "unterminated" BY DEF Complete, HeightsInv
<1>2. b \in 1..Len(blocks) /\ Highs(blocks[b]) BY GoesToBlock DEF Complete
<1>3. Len(blocks[b].insts) \in Nat BY <1>2, ChosenIs
<1>4. Len(Terminator(b, Following(b))) \in Nat BY TerminatorList
<1>5. Offsets[b] \in Nat BY <1>1, <1>2, OffsetIs
<1>6. blocks[b].term \in Terms BY <1>2 DEF Highs
<1>7. TerminatorOf(blocks[b], Following(b), Terminator(b, Following(b))) BY <1>1, <1>6, TerminatorIs
<1>8. EmitBlock(b)[1] = [op |-> "block", in |-> blocks[b].inputs, out |-> Len(blocks[b].vstack)]
  BY <1>1, <1>2, EmitBlockList
<1>9. EmitBlock(b)[1].op = "block" BY <1>8
<1>10. /\ Len(EmitBlock(b)) = 1 + Len(blocks[b].insts) + Len(Terminator(b, Following(b)))
       /\ \A k \in 1..Len(blocks[b].insts) : EmitBlock(b)[1 + k] = blocks[b].insts[k]
       /\ \A k \in 1..Len(Terminator(b, Following(b))) :
             EmitBlock(b)[1 + Len(blocks[b].insts) + k] = Terminator(b, Following(b))[k]
  BY <1>1, <1>2, EmitBlockList
<1> QED BY <1>2, <1>3, <1>4, <1>5, <1>7, <1>9, <1>10

(* At the beginning of a block the stack has its inputs.                     *)
LEMMA PlaceBegins ==
    ASSUME Complete, NEW d, NEW n, Begins(d, n)
    PROVE  Place(Offsets[d] + 1, n)
<1>1. d \in Reachable /\ n = blocks[d].inputs BY DEF Begins
<1> DEFINE e == Len(EmitBlock(d))
<1>2. 1 \in 1..e
  <2> DEFINE i == Len(blocks[d].insts)
             t == Len(Terminator(d, Following(d)))
  <2>1. e = 1 + i + t /\ i \in Nat /\ t \in Nat BY <1>1, BlockPlaced
  <2> HIDE DEF e, i, t
  <2> QED BY <2>1
<1> HIDE DEF e
<1>3. HeightAt(d, 1, n) BY <1>1 DEF HeightAt
<1>4. \E j \in 1..Len(EmitBlock(d)) : Offsets[d] + 1 = Offsets[d] + j /\ HeightAt(d, j, n)
  BY <1>2, <1>3 DEF e
<1> QED BY <1>1, <1>4 DEF Place

(* After the k-th instruction it has what the instructions leave.            *)
LEMMA PlaceArrives ==
    ASSUME Complete, NEW b \in Reachable, NEW k \in 0..Len(blocks[b].insts),
           k < Len(blocks[b].insts) => blocks[b].insts[k + 1].op # "call_builtin_sig",
           k = Len(blocks[b].insts) => blocks[b].term # "terminated"
    PROVE  Place(Offsets[b] + (2 + k), Chosen(blocks[b])[k])
<1> DEFINE i == Len(blocks[b].insts)
           t == Len(Terminator(b, Following(b)))
           e == Len(EmitBlock(b))
           L == Chosen(blocks[b])[k]
           j == 2 + k
           f == Following(b)
<1>1. /\ i \in Nat /\ t \in Nat /\ e = 1 + i + t /\ Highs(blocks[b])
      /\ TerminatorOf(blocks[b], f, Terminator(b, f))
  BY BlockPlaced
<1>2. Chosen(blocks[b])[i] = Exit(blocks[b]) BY <1>1, ChosenIs
<1>3. CASE k < i
  <2> DEFINE l == k + 1
  <2>1. l \in 1..i /\ j = 1 + l /\ l - 1 = k BY <1>1, <1>3
  <2>2. blocks[b].insts[l].op # "call_builtin_sig" BY <1>3
  <2>3. L = Chosen(blocks[b])[l - 1] BY <2>1
  <2>4. j \in 1..e
    <3> HIDE DEF i, t, e, j
    <3> QED BY <1>1, <1>3, <2>1
  <2> HIDE DEF l, j, L
  <2>5. HeightAt(b, j, L) BY <2>1, <2>2, <2>3 DEF HeightAt
  <2>6. Place(Offsets[b] + j, L) BY <2>4, <2>5 DEF Place
  <2> QED BY <2>6 DEF j, L
<1>4. CASE k = i /\ t # 0
  <2>1. j = 2 + i /\ L = Exit(blocks[b]) BY <1>2, <1>4
  <2>2. j \in 1..e
    <3> HIDE DEF i, t, e, L
    <3> QED BY <1>1, <1>4
  <2> HIDE DEF j, L
  <2>3. HeightAt(b, j, L) BY <2>1 DEF HeightAt
  <2>4. Place(Offsets[b] + j, L) BY <2>2, <2>3 DEF Place
  <2> QED BY <2>4 DEF j, L
<1>5. CASE k = i /\ t = 0
  <2>1. blocks[b].term = "jump" /\ blocks[b].next[1] = f
    <3>1. blocks[b].term # "terminated" BY <1>5
    <3>2. Len(Terminator(b, f)) = 0 BY <1>5
    <3> HIDE DEF f
    <3> QED BY <1>1, <3>1, <3>2 DEF TerminatorOf, Ends, JumpsTo, DivertsTo, Chooses
  <2>2. Begins(f, Len(blocks[b].vstack)) BY <2>1, GoesToBlock DEF Complete
  <2>3. Place(Offsets[f] + 1, Len(blocks[b].vstack)) BY <2>2, PlaceBegins
  <2>4. f # NoFollowing BY <2>2 DEF Begins, NoFollowing
  <2>5. Offsets[f] = Offsets[b] + e BY <2>4, NextOffset DEF Complete
  <2>6. Exit(blocks[b]) = Len(blocks[b].vstack) BY <2>1 DEF Exit, Left, Branches
  <2>7. L = Len(blocks[b].vstack) BY <1>2, <1>5, <2>6
  <2> DEFINE o == Offsets[b]
             g == Offsets[f]
  <2>8. o \in Nat BY BlockPlaced
  <2>9. g = o + e BY <2>5
  <2> HIDE DEF i, t, e, L, o, g
  <2>10. g + 1 = o + (2 + k) BY <1>1, <1>5, <2>8, <2>9
  <2> QED BY <2>3, <2>7, <2>10 DEF o, g, L
<1> QED BY <1>1, <1>3, <1>4, <1>5

(* A jump skips the instruction that a block begins with.                    *)
LEMMA PlaceEnters ==
    ASSUME Complete, NEW d, NEW n, Begins(d, n)
    PROVE  Place(Offsets[d] + 2, n)
<1> DEFINE i == Len(blocks[d].insts)
           k == 0
<1>1. d \in Reachable /\ n = blocks[d].inputs BY DEF Begins
<1>2. Highs(blocks[d]) /\ i \in Nat BY <1>1, BlockPlaced
<1>3. Chosen(blocks[d])[0] = n /\ Followed(blocks[d].insts) BY <1>1, <1>2, ChosenIs
<1>4. k < i => blocks[d].insts[k + 1].op # "call_builtin_sig"
  <2> SUFFICES ASSUME 0 < i PROVE blocks[d].insts[1].op # "call_builtin_sig" OBVIOUS
  <2>1. 1 \in 1..i /\ ~(1 > 1) BY <1>2
  <2> QED BY <1>3, <2>1 DEF Followed
<1>5. k = i => blocks[d].term # "terminated" BY <1>2 DEF Highs, EndsInPanic
<1>6. k \in 0..i /\ 2 + k = 2 /\ Chosen(blocks[d])[k] = n BY <1>2, <1>3
<1> HIDE DEF k
<1>7. Place(Offsets[d] + (2 + k), Chosen(blocks[d])[k]) BY <1>1, <1>4, <1>5, <1>6, PlaceArrives
<1> QED BY <1>6, <1>7

-----------------------------------------------------------------------------
(* A step of the machine within the code of a function                       *)

Laid == Patched(Whole, Offsets)

(* Where an instruction goes when it is a jump or a branch to block d        *)
Targets(inst, p, d) == p + inst.offset = Offsets[d] + 2

LEMMA LaidIs ==
    ASSUME BlocksInv, NEW p \in 1..Len(Whole)
    PROVE  /\ Whole[p].op \notin {"jump"} \cup BranchOps => Laid[p] = Whole[p]
           /\ \A d \in 1..Len(blocks) :
                 /\ Jumps(Whole[p], d) => Laid[p].op = "jump" /\ Targets(Laid[p], p, d)
                 /\ Diverts(Whole[p], d) => Laid[p].op \in BranchOps /\ Targets(Laid[p], p, d)
<1>1. Len(Whole) \in Nat BY WholeIs
<1>2. /\ Whole[p].op \notin {"jump"} \cup BranchOps => Laid[p] = Whole[p]
      /\ Whole[p].op \in {"jump"} \cup BranchOps =>
            /\ Laid[p].op = Whole[p].op
            /\ Laid[p].offset = (Offsets[Whole[p].dest] + 1) - (p - 1)
  BY <1>1, PatchedIs DEF Laid
<1>3. ASSUME NEW d \in 1..Len(blocks), Whole[p].op \in {"jump"} \cup BranchOps, Whole[p].dest = d
      PROVE  Laid[p].op = Whole[p].op /\ Targets(Laid[p], p, d)
  <2> DEFINE o == Offsets
             y == Laid[p].offset
  <2>1. y = (o[d] + 1) - (p - 1) BY <1>2, <1>3
  <2>2. o[d] \in Nat BY OffsetIs
  <2> HIDE DEF o, y
  <2>3. p + y = o[d] + 2 BY <1>1, <2>1, <2>2
  <2> QED BY <1>2, <1>3, <2>3 DEF Targets, o, y
<1>4. ASSUME NEW d \in 1..Len(blocks), Jumps(Whole[p], d)
      PROVE  Laid[p].op = "jump" /\ Targets(Laid[p], p, d)
  BY <1>3, <1>4 DEF Jumps
<1>5. ASSUME NEW d \in 1..Len(blocks), Diverts(Whole[p], d)
      PROVE  Laid[p].op \in BranchOps /\ Targets(Laid[p], p, d)
  BY <1>3, <1>5 DEF Diverts
<1> QED BY <1>2, <1>4, <1>5

LEMMA LaidInBlock ==
    ASSUME Complete, NEW b \in Reachable, NEW j \in 1..Len(EmitBlock(b))
    PROVE  /\ Offsets[b] + j \in 1..Len(Whole)
           /\ EmitBlock(b)[j].op \notin {"jump"} \cup BranchOps => Laid[Offsets[b] + j] = EmitBlock(b)[j]
           /\ \A d \in 1..Len(blocks) :
                 /\ Jumps(EmitBlock(b)[j], d) =>
                       Laid[Offsets[b] + j].op = "jump" /\ Targets(Laid[Offsets[b] + j], Offsets[b] + j, d)
                 /\ Diverts(EmitBlock(b)[j], d) =>
                       Laid[Offsets[b] + j].op \in BranchOps /\ Targets(Laid[Offsets[b] + j], Offsets[b] + j, d)
<1> DEFINE p == Offsets[b] + j
<1>0. BlocksInv /\ b \in 1..Len(blocks) BY BlockPlaced DEF Complete, HeightsInv
<1>1. p \in 1..Len(Whole) /\ Whole[p] = EmitBlock(b)[j] BY <1>0, WholeIs
<1> HIDE DEF p
<1>2. /\ Whole[p].op \notin {"jump"} \cup BranchOps => Laid[p] = Whole[p]
      /\ \A d \in 1..Len(blocks) :
            /\ Jumps(Whole[p], d) => Laid[p].op = "jump" /\ Targets(Laid[p], p, d)
            /\ Diverts(Whole[p], d) => Laid[p].op \in BranchOps /\ Targets(Laid[p], p, d)
  BY <1>0, <1>1, LaidIs
<1> QED BY <1>1, <1>2 DEF p

(* The machine has not been higher than top, and is where it has to be.      *)
Stays(n, top) ==
    /\ IsMachine(n)
    /\ n.peak <= top
    /\ n.status = "running" => Place(n.ip, Len(n.vs))

LEMMA GoesStays ==
    ASSUME NEW n, NEW ip, NEW to, NEW top, Goes(n, ip, to, top), Place(ip, to)
    PROVE  Stays(n, top)
BY DEF Goes, Stays

Bounds(top) == top \in Nat /\ \A b \in 1..Len(blocks) : blocks[b].max <= top

LEMMA Bounded ==
    ASSUME Complete, NEW top, Bounds(top), NEW b \in Reachable
    PROVE  /\ \A k \in 0..Len(blocks[b].insts) : Chosen(blocks[b])[k] \in Nat /\ Chosen(blocks[b])[k] <= top
           /\ blocks[b].inputs \in Nat /\ blocks[b].inputs <= top
           /\ Exit(blocks[b]) \in Nat /\ Exit(blocks[b]) <= top
<1> DEFINE c == Chosen(blocks[b])
           i == Len(blocks[b].insts)
           M == blocks[b].max
<1>1. b \in 1..Len(blocks) /\ Highs(blocks[b]) /\ i \in Nat BY BlockPlaced
<1>2. M \in Nat /\ M <= top /\ top \in Nat BY <1>1, ChosenIs DEF Bounds
<1>3. /\ \A k \in 0..i : c[k] \in 0..M
      /\ c[0] = blocks[b].inputs /\ c[i] = Exit(blocks[b])
  BY <1>1, ChosenIs
<1> HIDE DEF c, i, M
<1>4. \A k \in 0..i : c[k] \in Nat /\ c[k] <= top BY <1>2, <1>3
<1>5. 0 \in 0..i /\ i \in 0..i BY <1>1 DEF i
<1> QED BY <1>3, <1>4, <1>5 DEF c, i

(* The prologue, and the instruction a block begins with                     *)
LEMMA PrologueStays ==
    ASSUME Complete, NEW top, Bounds(top), NEW m, IsMachine(m), m.peak <= top,
           m.ip \in 1..Len(Prologue), Len(m.vs) = script.in
    PROVE  Stays(Execute(m, Laid[m.ip]), top)
<1> DEFINE p == m.ip
           P == Len(Prologue)
           L == Len(m.vs)
           n == Execute(m, Laid[p])
<1>1. BlocksInv /\ blocks[1].inputs = script.in BY DEF Complete, HeightsInv
<1>2. 1 \in Reachable /\ 1 \in 1..Len(blocks) /\ Begins(1, L)
  <2>1. 1 \in Reachable BY ReachesFirst DEF Complete
  <2> QED BY <1>1, <2>1, BlockPlaced DEF Begins
<1>3. p \in 1..Len(Whole) /\ Whole[p] = Prologue[p] /\ P \in Nat
  <2>1. Len(Prologue) \in Nat /\ Len(Whole) \in Nat /\ Len(Prologue) <= Len(Whole) /\ Whole[p] = Prologue[p]
    BY <1>1, WholeIs
  <2> QED BY <2>1
<1>4. Prologue[p].op \in LocalOps BY <1>1, PrologueOps DEF BlocksInv
<1>5. Laid[p] = Prologue[p]
  <2>1. Whole[p].op \notin {"jump"} \cup BranchOps BY <1>3, <1>4 DEF LocalOps, BranchOps
  <2> QED BY <1>1, <1>3, <2>1, LaidIs
<1>6. L <= top /\ top \in Nat
  <2>1. blocks[1].inputs <= top BY <1>2, Bounded
  <2> QED BY <1>1, <2>1 DEF Bounds
<1>7. Laid[p].op \in LocalOps \cup {"block"} BY <1>4, <1>5
<1> DEFINE ip == p + 1
<1>8. Goes(n, ip, L, top) BY <1>6, <1>7, LocalGoes
<1>9. Place(ip, L)
  <2>1. CASE p < P
    <3>1. ip \in 1..P BY <1>3, <2>1
    <3> QED BY <3>1 DEF Place
  <2>2. CASE p = P
    <3>1. Offsets[1] = P BY <1>1, FirstOffset
    <3>2. Place(Offsets[1] + 1, L) BY <1>2, PlaceBegins
    <3> QED BY <2>2, <3>1, <3>2
  <2> QED BY <1>3, <2>1, <2>2
<1> HIDE DEF n, ip, L
<1>10. Stays(n, top) BY <1>8, <1>9, GoesStays
<1> QED BY <1>10 DEF n

LEMMA BeginningStays ==
    ASSUME Complete, NEW top, Bounds(top), NEW m, IsMachine(m), m.peak <= top,
           NEW b \in Reachable, m.ip = Offsets[b] + 1, Len(m.vs) = blocks[b].inputs
    PROVE  Stays(Execute(m, Laid[m.ip]), top)
<1> DEFINE p == m.ip
           L == Len(m.vs)
           n == Execute(m, Laid[p])
           j == 1
           e == Len(EmitBlock(b))
           i == Len(blocks[b].insts)
           t == Len(Terminator(b, Following(b)))
<1>1. /\ b \in 1..Len(blocks) /\ EmitBlock(b)[1].op = "block" /\ Offsets[b] \in Nat
      /\ e = 1 + i + t /\ i \in Nat /\ t \in Nat
  BY BlockPlaced
<1>2. j \in 1..e
  <2> HIDE DEF e, i, t
  <2> QED BY <1>1
<1>3. Laid[p] = EmitBlock(b)[1]
  <2>1. EmitBlock(b)[1].op \notin {"jump"} \cup BranchOps BY <1>1 DEF BranchOps
  <2> QED BY <1>2, <2>1, LaidInBlock
<1>4. L <= top /\ top \in Nat BY Bounded DEF Bounds
<1>5. Laid[p].op \in LocalOps \cup {"block"} BY <1>1, <1>3
<1> DEFINE ip == p + 1
<1>6. Goes(n, ip, L, top) BY <1>4, <1>5, LocalGoes
<1>7. Begins(b, L) BY <1>1 DEF Begins
<1>8. Place(Offsets[b] + 2, L) BY <1>7, PlaceEnters
<1>9. ip = Offsets[b] + 2 BY <1>1
<1>10. Place(ip, L) BY <1>8, <1>9
<1> HIDE DEF n, ip, L
<1>11. Stays(n, top) BY <1>6, <1>10, GoesStays
<1> QED BY <1>11 DEF n

(* What an instruction does when it is called after a jump or branch that    *)
(* is not there: nothing of a block is one but its terminator.               *)
LEMMA MovesNotAJump ==
    ASSUME NEW inst, NEW a, NEW c, Moves(inst, a, c)
    PROVE  inst.op \notin {"jump"} \cup BranchOps
BY DEF Moves, Pushing, ChangesOne, Builtins, BranchOps

LEMMA MovesSignature ==
    ASSUME NEW inst, NEW a, NEW c, Moves(inst, a, c), inst.op = "call_builtin_sig"
    PROVE  c = a
BY DEF Moves, Pushing, ChangesOne, Builtins

LEMMA MovesBuiltin ==
    ASSUME NEW inst, NEW a, NEW c, Moves(inst, a, c), inst.op \in Builtins
    PROVE  Callable(inst.callee) /\ Exchanges(a, c, inst.callee.in, inst.callee.out)
BY DEF Moves, Pushing, ChangesOne, Builtins

(* The instructions of a block, a builtin together with its signature        *)
LEMMA InstructionStays ==
    ASSUME Complete, NEW top, Bounds(top), NEW m, IsMachine(m), m.peak <= top,
           NEW b \in Reachable, NEW k \in 1..Len(blocks[b].insts), m.ip = Offsets[b] + (1 + k),
           blocks[b].insts[k].op # "call_builtin_sig", Len(m.vs) = Chosen(blocks[b])[k - 1]
    PROVE  Stays(Execute(m, Laid[m.ip]), top)
<1> DEFINE block == blocks[b]
           insts == block.insts
           i == Len(insts)
           inst == insts[k]
           c == Chosen(block)
           p == m.ip
           L == Len(m.vs)
           n == Execute(m, Laid[p])
           e == Len(EmitBlock(b))
           t == Len(Terminator(b, Following(b)))
           o == Offsets[b]
<1>1. /\ b \in 1..Len(blocks) /\ Highs(block) /\ EmitBlock(b)[1 + k] = inst /\ o \in Nat
      /\ e = 1 + i + t /\ i \in Nat /\ t \in Nat
  BY BlockPlaced
<1>2. Followed(insts) /\ \A l \in 1..i : Moves(insts[l], c[l - 1], c[l]) BY <1>1, ChosenIs
<1>3. \A l \in 0..i : c[l] \in Nat /\ c[l] <= top BY Bounded
<1>4. top \in Nat BY DEF Bounds
<1>5. Moves(inst, L, c[k]) BY <1>2
<1>6. Laid[p] = inst
  <2> DEFINE j == 1 + k
  <2>1. j \in 1..e
    <3>1. k \in 1..i OBVIOUS
    <3> HIDE DEF e, i, t
    <3> QED BY <1>1, <3>1
  <2>2. EmitBlock(b)[j].op \notin {"jump"} \cup BranchOps BY <1>1, <1>5, MovesNotAJump
  <2>3. p = o + j OBVIOUS
  <2> HIDE DEF j, o
  <2>4. Laid[Offsets[b] + j] = EmitBlock(b)[j] BY <2>1, <2>2, LaidInBlock
  <2>5. EmitBlock(b)[j] = inst BY <1>1 DEF j
  <2> QED BY <2>3, <2>4, <2>5 DEF o
<1>7. k \in 1..i OBVIOUS
<1>11. p = o + (1 + k) /\ o \in Nat /\ k \in Nat BY <1>1
<1>8. block.term = "terminated" => i >= 2 /\ insts[i - 1].op \in Builtins /\ AlwaysPanics(insts[i - 1].callee)
  BY <1>1 DEF Highs, EndsInPanic
<1>9. CASE inst.op \notin Builtins
  <2> DEFINE to == c[k]
             ip == p + 1
  <2>1. Ordinary(inst) BY <1>9 DEF Ordinary
  <2>2. to \in Nat /\ to <= top BY <1>1, <1>3
  <2>3. Goes(n, ip, to, top) BY <1>4, <1>5, <1>6, <2>1, <2>2, StepGoes
  <2>4. k < i => insts[k + 1].op # "call_builtin_sig"
    <3> SUFFICES ASSUME k < i, insts[k + 1].op = "call_builtin_sig" PROVE FALSE OBVIOUS
    <3> DEFINE l == k + 1
    <3>1. l \in 1..i /\ l - 1 = k BY <1>1
    <3>2. insts[l - 1].op \in Builtins BY <1>2, <3>1 DEF Followed
    <3> QED BY <1>9, <3>1, <3>2
  <2>5. k = i => block.term # "terminated"
    <3> SUFFICES ASSUME k = i, block.term = "terminated" PROVE FALSE OBVIOUS
    <3> DEFINE l == i - 1
    <3>1. l \in 1..i /\ insts[l].op \in Builtins /\ l + 1 = k BY <1>1, <1>8
    <3> HIDE DEF l
    <3>2. insts[l + 1].op = "call_builtin_sig" BY <1>2, <3>1 DEF Followed
    <3> QED BY <3>1, <3>2
  <2>6. k \in 0..i BY <1>7
  <2>7. Place(Offsets[b] + (2 + k), to) BY <2>4, <2>5, <2>6, PlaceArrives
  <2>8. ip = o + (2 + k)
    <3> HIDE DEF p, o
    <3> QED BY <1>11
  <2>9. Place(ip, to) BY <2>7, <2>8
  <2> HIDE DEF n, ip, to
  <2>10. Stays(n, top) BY <2>3, <2>9, GoesStays
  <2> QED BY <2>10 DEF n
<1>10. CASE inst.op \in Builtins
  <2> DEFINE l == k + 1
             to == c[k]
             ip == p + 2
             f == inst.callee
  <2>1. k < i /\ insts[l].op = "call_builtin_sig" BY <1>2, <1>10 DEF Followed
  <2>2. l \in 1..i /\ l - 1 = k BY <1>1, <2>1
  <2>3. c[l] = to
    <3>1. Moves(insts[l], c[l - 1], c[l]) BY <1>2, <2>2
    <3>2. c[l] = c[l - 1] BY <2>1, <3>1, MovesSignature
    <3> QED BY <2>2, <3>2
  <2>4. to \in Nat /\ to <= top BY <1>7, <1>3
  <2>5. Callable(f) /\ Exchanges(L, to, f.in, f.out) BY <1>5, <1>10, MovesBuiltin
  <2>6. L \in Nat BY MachineFields
  <2>7. f.in \in Nat /\ f.in <= L /\ to = (L - f.in) + f.out BY <2>5, <2>6 DEF Exchanges
  <2>8. /\ Goes(n, ip, to, top)
        /\ AlwaysPanics(f) => n.status # "running"
    <3> HIDE DEF ip, to, f
    <3>1. inst.callee.in <= Len(m.vs) /\ to = (Len(m.vs) - inst.callee.in) + inst.callee.out
      BY <2>7 DEF f
    <3>2. Callable(inst.callee) BY <2>5 DEF f
    <3>3. /\ Goes(Execute(m, inst), m.ip + 2, to, top)
          /\ AlwaysPanics(inst.callee) => Execute(m, inst).status # "running"
      BY <1>4, <1>10, <2>4, <3>1, <3>2, BuiltinGoes
    <3> QED BY <1>6, <3>3 DEF ip, f
  <2>9. CASE l = i /\ block.term = "terminated"
    <3>1. AlwaysPanics(f) BY <1>8, <2>2, <2>9
    <3>2. n.status # "running" BY <2>8, <3>1
    <3> QED BY <2>8, <3>2 DEF Goes, Stays
  <2>10. CASE ~(l = i /\ block.term = "terminated")
    <3>1. l < i => insts[l + 1].op # "call_builtin_sig"
      <4> SUFFICES ASSUME l < i, insts[l + 1].op = "call_builtin_sig" PROVE FALSE OBVIOUS
      <4> DEFINE q == l + 1
      <4>1. q \in 1..i /\ q - 1 = l BY <1>1, <2>2
      <4>2. insts[q - 1].op \in Builtins BY <1>2, <4>1 DEF Followed
      <4> QED BY <2>1, <4>1, <4>2 DEF Builtins
    <3>2. l \in 0..i BY <2>2
    <3> HIDE DEF l
    <3>3. Place(Offsets[b] + (2 + l), Chosen(blocks[b])[l]) BY <2>10, <3>1, <3>2, PlaceArrives
    <3>4. ip = o + (2 + l)
      <4> HIDE DEF p, o
      <4> QED BY <1>11 DEF l
    <3>5. Place(ip, to) BY <2>3, <3>3, <3>4
    <3> HIDE DEF n, ip, to
    <3>6. Stays(n, top) BY <2>8, <3>5, GoesStays
    <3> QED BY <3>6 DEF n
  <2> QED BY <2>9, <2>10
<1> QED BY <1>9, <1>10

(* A jump or a branch goes to a block that begins with what there is.        *)
LEMMA JumpStays ==
    ASSUME Complete, NEW top, NEW m, IsMachine(m), m.peak <= top, NEW inst, inst.op = "jump",
           NEW d, Begins(d, Len(m.vs)), Targets(inst, m.ip, d)
    PROVE  Stays(Execute(m, inst), top)
<1> DEFINE at == Offsets[d] + 2
           n == Execute(m, inst)
           L == Len(m.vs)
<1>1. Offsets[d] \in Nat BY BlockPlaced DEF Begins
<1>2. at \in Nat /\ at = m.ip + inst.offset BY <1>1 DEF Targets
<1>3. Place(at, L) BY PlaceEnters
<1> HIDE DEF at
<1>4. Goes(n, at, L, top) BY <1>2, JumpGoes
<1> HIDE DEF n, L
<1>5. Stays(n, top) BY <1>3, <1>4, GoesStays
<1> QED BY <1>5 DEF n

LEMMA BranchStays ==
    ASSUME Complete, NEW top \in Nat, NEW m, IsMachine(m), m.peak <= top, NEW inst, inst.op \in BranchOps,
           Len(m.vs) <= top,
           NEW n \in Nat, Len(m.vs) = n + 1, NEW d, Begins(d, n), Targets(inst, m.ip, d), Place(m.ip + 1, n)
    PROVE  Stays(Execute(m, inst), top)
<1> DEFINE at == Offsets[d] + 2
           x == Execute(m, inst)
           L == Len(m.vs)
           ip == m.ip + 1
<1>1. Offsets[d] \in Nat BY BlockPlaced DEF Begins
<1>2. at \in Nat /\ at = m.ip + inst.offset BY <1>1 DEF Targets
<1>3. Place(at, n) /\ Place(ip, n) BY PlaceEnters
<1>4. L >= 1 /\ L - 1 = n /\ L - 1 <= top OBVIOUS
<1> HIDE DEF at
<1>5. Goes(x, at, L - 1, top) \/ Goes(x, ip, L - 1, top) BY <1>2, <1>4, BranchGoes
<1> HIDE DEF x, L, ip
<1>6. Goes(x, at, n, top) \/ Goes(x, ip, n, top) BY <1>4, <1>5
<1>7. Stays(x, top) BY <1>3, <1>6, GoesStays
<1> QED BY <1>7 DEF x

LEMMA TerminatorStays ==
    ASSUME Complete, NEW top, Bounds(top), NEW m, IsMachine(m), m.peak <= top,
           NEW b \in Reachable, 2 + Len(blocks[b].insts) <= Len(EmitBlock(b)),
           m.ip = Offsets[b] + (2 + Len(blocks[b].insts)), Len(m.vs) = Exit(blocks[b])
    PROVE  Stays(Execute(m, Laid[m.ip]), top)
<1> DEFINE block == blocks[b]
           i == Len(block.insts)
           p == m.ip
           L == Len(m.vs)
           inst == Laid[p]
           n == Execute(m, inst)
           e == Len(EmitBlock(b))
           t == Terminator(b, Following(b))
           f == Following(b)
           o == Offsets[b]
           V == Len(block.vstack)
           j == 2 + i
           x == EmitBlock(b)[j]
           y1 == block.next[1]
           y2 == block.next[2]
<1>1. /\ b \in 1..Len(blocks) /\ Highs(block) /\ o \in Nat
      /\ e = 1 + i + Len(t) /\ i \in Nat /\ Len(t) \in Nat
      /\ \A k \in 1..Len(t) : EmitBlock(b)[1 + i + k] = t[k]
      /\ TerminatorOf(block, f, t)
  BY BlockPlaced
<1>2. j \in 1..e /\ p = o + j /\ Len(t) >= 1
  <2>1. 2 + i <= e OBVIOUS
  <2>2. p = o + (2 + i) OBVIOUS
  <2> HIDE DEF p, o, i, e, t
  <2> QED BY <1>1, <2>1, <2>2
<1>3. x = t[1]
  <2>1. 1 \in 1..Len(t) /\ 1 + i + 1 = j
    <3> HIDE DEF i, t
    <3> QED BY <1>1, <1>2
  <2>2. EmitBlock(b)[1 + i + 1] = t[1] BY <1>1, <2>1
  <2> HIDE DEF i, t, j
  <2> QED BY <2>1, <2>2
<1>4. /\ x.op \notin {"jump"} \cup BranchOps => inst = x
      /\ \A d \in 1..Len(blocks) :
            /\ Jumps(x, d) => inst.op = "jump" /\ Targets(inst, p, d)
            /\ Diverts(x, d) => inst.op \in BranchOps /\ Targets(inst, p, d)
  <2> HIDE DEF j
  <2>1. /\ EmitBlock(b)[j].op \notin {"jump"} \cup BranchOps => Laid[Offsets[b] + j] = EmitBlock(b)[j]
        /\ \A d \in 1..Len(blocks) :
              /\ Jumps(EmitBlock(b)[j], d) =>
                    Laid[Offsets[b] + j].op = "jump" /\ Targets(Laid[Offsets[b] + j], Offsets[b] + j, d)
              /\ Diverts(EmitBlock(b)[j], d) =>
                    Laid[Offsets[b] + j].op \in BranchOps /\ Targets(Laid[Offsets[b] + j], Offsets[b] + j, d)
    BY <1>2, LaidInBlock
  <2>2. Offsets[b] + j = p BY <1>2
  <2> QED BY <2>1, <2>2
<1>5. top \in Nat /\ L \in Nat /\ L <= top BY Bounded DEF Bounds
<1>6. V \in Nat
  <2>1. IsBlock(block) BY GoesToBlock DEF Complete
  <2> QED BY <2>1, BlockFields
<1>7. L = Left(block.term, block.vstack) BY DEF Exit
<1>8. CASE Ends(t)
  <2>1. x.op \in {"return_", "return_free", "panic"} BY <1>3, <1>8 DEF Ends
  <2>2. x.op \notin {"jump"} \cup BranchOps BY <2>1 DEF BranchOps
  <2>3. inst.op \in {"return_", "return_free", "panic"} BY <1>4, <2>1, <2>2
  <2> HIDE DEF inst
  <2>4. IsMachine(n) /\ n.peak <= top /\ n.status # "running" BY <2>3, EndGoes
  <2> QED BY <2>4 DEF Stays, inst
<1>9. CASE block.term = "jump" /\ JumpsTo(t, y1)
  <2>1. Begins(y1, V) BY <1>9, GoesToBlock DEF Complete
  <2>2. L = V BY <1>7, <1>9 DEF Left, Branches
  <2>3. Jumps(x, y1) BY <1>3, <1>9 DEF JumpsTo
  <2>4. y1 \in 1..Len(blocks) BY <2>1 DEF Begins
  <2> HIDE DEF y1, x
  <2>5. inst.op = "jump" /\ Targets(inst, p, y1) BY <1>4, <2>3, <2>4
  <2>6. Begins(y1, L) BY <2>1, <2>2
  <2> HIDE DEF inst
  <2>7. Stays(n, top) BY <2>5, <2>6, JumpStays
  <2> QED BY <2>7 DEF inst
<1>10. ASSUME block.term \in Branches
       PROVE  Begins(y1, V) /\ Begins(y2, V) /\ L = V + 1 /\ y1 \in 1..Len(blocks) /\ y2 \in 1..Len(blocks)
  <2>1. Begins(y1, V) /\ Begins(y2, V) BY <1>10, GoesToBlock DEF Complete
  <2>2. L = V + 1 BY <1>7, <1>10 DEF Left
  <2> QED BY <2>1, <2>2 DEF Begins
<1>11. ASSUME NEW d, block.term \in Branches, f = d, Begins(d, V), Len(t) = 1
       PROVE  Place(p + 1, V)
  <2>1. f # NoFollowing BY <1>11, ReachableIs DEF Begins, NoFollowing
  <2>2. Offsets[f] = Offsets[b] + e BY <2>1, NextOffset DEF Complete
  <2>3. Place(Offsets[d] + 1, V) BY <1>11, PlaceBegins
  <2> DEFINE g == Offsets[f]
  <2>4. g = o + e BY <2>2
  <2>5. Place(g + 1, V) BY <1>11, <2>3
  <2>6. g + 1 = p + 1
    <3> DEFINE l == Len(t)
    <3>1. l = 1 /\ e = 1 + i + l /\ p = o + (2 + i) /\ o \in Nat /\ i \in Nat BY <1>1, <1>2, <1>11
    <3> HIDE DEF g, o, e, p, i, l
    <3> QED BY <2>4, <3>1
  <2> QED BY <2>5, <2>6
<1>12. ASSUME NEW d \in 1..Len(blocks), block.term \in Branches, Begins(d, V), Diverts(x, d), Place(p + 1, V)
       PROVE  Stays(n, top)
  <2>1. inst.op \in BranchOps /\ Targets(inst, p, d) BY <1>4, <1>12
  <2>2. L = V + 1 BY <1>10, <1>12
  <2> HIDE DEF inst, V
  <2> QED BY <1>5, <1>6, <1>12, <2>1, <2>2, BranchStays
<1>13. CASE block.term \in Branches /\ y1 = f /\ DivertsTo(t, y2)
  <2>1. Diverts(x, y2) /\ Len(t) = 1 BY <1>3, <1>13 DEF DivertsTo
  <2>2. Place(p + 1, V) BY <1>10, <1>11, <1>13, <2>1
  <2> QED BY <1>10, <1>12, <1>13, <2>1, <2>2
<1>14. CASE block.term \in Branches /\ y2 = f /\ DivertsTo(t, y1)
  <2>1. Diverts(x, y1) /\ Len(t) = 1 BY <1>3, <1>14 DEF DivertsTo
  <2>2. Place(p + 1, V) BY <1>10, <1>11, <1>14, <2>1
  <2> QED BY <1>10, <1>12, <1>14, <2>1, <2>2
<1>15. CASE block.term \in Branches /\ Chooses(t, y2, y1)
  <2>1. Diverts(x, y2) /\ Len(t) = 2 BY <1>3, <1>15 DEF Chooses
  <2>2. Place(p + 1, V)
    <3> DEFINE k == 3 + i
    <3>1. k \in 1..e /\ p + 1 = o + k
      <4> HIDE DEF p, o, e, i, t
      <4> QED BY <1>1, <1>2, <2>1
    <3>2. HeightAt(b, k, V) BY DEF HeightAt
    <3> HIDE DEF k
    <3>3. Place(Offsets[b] + k, V) BY <3>1, <3>2 DEF Place
    <3> QED BY <3>1, <3>3
  <2> QED BY <1>10, <1>12, <1>15, <2>1, <2>2
<1>16. \/ Len(t) = 0 \/ Ends(t)
       \/ block.term = "jump" /\ JumpsTo(t, y1)
       \/ block.term \in Branches /\ y1 = f /\ DivertsTo(t, y2)
       \/ block.term \in Branches /\ y2 = f /\ DivertsTo(t, y1)
       \/ block.term \in Branches /\ Chooses(t, y2, y1)
  BY <1>1, Zenon DEF TerminatorOf
<1>17. Len(t) # 0 BY <1>2
<1> QED BY <1>8, <1>9, <1>13, <1>14, <1>15, <1>16, <1>17

(* The jump after a branch that is not taken                                 *)
LEMMA OtherwiseStays ==
    ASSUME Complete, NEW top, NEW m, IsMachine(m), m.peak <= top,
           NEW b \in Reachable, 3 + Len(blocks[b].insts) <= Len(EmitBlock(b)),
           m.ip = Offsets[b] + (3 + Len(blocks[b].insts)), Len(m.vs) = Len(blocks[b].vstack)
    PROVE  Stays(Execute(m, Laid[m.ip]), top)
<1> DEFINE block == blocks[b]
           i == Len(block.insts)
           p == m.ip
           L == Len(m.vs)
           inst == Laid[p]
           n == Execute(m, inst)
           e == Len(EmitBlock(b))
           t == Terminator(b, Following(b))
           f == Following(b)
           o == Offsets[b]
           V == Len(block.vstack)
           j == 3 + i
           x == EmitBlock(b)[j]
           y1 == block.next[1]
           y2 == block.next[2]
<1>1. /\ b \in 1..Len(blocks) /\ Highs(block) /\ o \in Nat
      /\ e = 1 + i + Len(t) /\ i \in Nat /\ Len(t) \in Nat
      /\ \A k \in 1..Len(t) : EmitBlock(b)[1 + i + k] = t[k]
      /\ TerminatorOf(block, f, t)
  BY BlockPlaced
<1>2. j \in 1..e /\ p = o + j /\ Len(t) >= 2
  <2>1. 3 + i <= e OBVIOUS
  <2>2. p = o + (3 + i) OBVIOUS
  <2> HIDE DEF p, o, i, e, t
  <2> QED BY <1>1, <2>1, <2>2
<1>3. x = t[2]
  <2>1. 2 \in 1..Len(t) /\ 1 + i + 2 = j
    <3> HIDE DEF i, t
    <3> QED BY <1>1, <1>2
  <2>2. EmitBlock(b)[1 + i + 2] = t[2] BY <1>1, <2>1
  <2> HIDE DEF i, t, j
  <2> QED BY <2>1, <2>2
<1>4. block.term \in Branches /\ Chooses(t, y2, y1)
  <2>1. Len(t) # 0 /\ Len(t) # 1
    <3> DEFINE l == Len(t)
    <3>1. l >= 2 BY <1>2
    <3> HIDE DEF l
    <3>2. l # 0 /\ l # 1 BY <3>1
    <3> QED BY <3>2 DEF l
  <2> HIDE DEF t, f
  <2> QED BY <1>1, <2>1 DEF TerminatorOf, Ends, JumpsTo, DivertsTo
<1>5. Jumps(x, y1) BY <1>3, <1>4 DEF Chooses
<1>6. Begins(y1, L) BY <1>4, GoesToBlock DEF Complete
<1>7. y1 \in 1..Len(blocks) BY <1>6 DEF Begins
<1>8. inst.op = "jump" /\ Targets(inst, p, y1)
  <2> HIDE DEF j
  <2>1. \A d \in 1..Len(blocks) :
           Jumps(EmitBlock(b)[j], d) =>
              Laid[Offsets[b] + j].op = "jump" /\ Targets(Laid[Offsets[b] + j], Offsets[b] + j, d)
    BY <1>2, LaidInBlock
  <2>2. Offsets[b] + j = p BY <1>2
  <2> HIDE DEF y1
  <2> QED BY <1>5, <1>7, <2>1, <2>2
<1> HIDE DEF inst, y1
<1>9. Stays(n, top) BY <1>6, <1>8, JumpStays
<1> QED BY <1>9 DEF inst

LEMMA CodeStays ==
    ASSUME Complete, NEW top, Bounds(top), NEW m, Stays(m, top), m.status = "running"
    PROVE  Stays(Execute(m, Laid[m.ip]), top)
<1>1. IsMachine(m) /\ m.peak <= top /\ Place(m.ip, Len(m.vs)) BY DEF Stays
<1>2. CASE m.ip \in 1..Len(Prologue) /\ Len(m.vs) = script.in BY <1>1, <1>2, PrologueStays
<1>3. ASSUME NEW b \in Reachable, NEW j \in 1..Len(EmitBlock(b)), m.ip = Offsets[b] + j,
             HeightAt(b, j, Len(m.vs))
      PROVE  Stays(Execute(m, Laid[m.ip]), top)
  <2>1. CASE j = 1 /\ Len(m.vs) = blocks[b].inputs BY <1>1, <1>3, <2>1, BeginningStays
  <2>2. ASSUME NEW k \in 1..Len(blocks[b].insts), j = 1 + k, blocks[b].insts[k].op # "call_builtin_sig",
               Len(m.vs) = Chosen(blocks[b])[k - 1]
        PROVE  Stays(Execute(m, Laid[m.ip]), top)
    BY <1>1, <1>3, <2>2, InstructionStays
  <2>3. j <= Len(EmitBlock(b)) OBVIOUS
  <2>4. CASE j = 2 + Len(blocks[b].insts) /\ Len(m.vs) = Exit(blocks[b])
    BY <1>1, <1>3, <2>3, <2>4, TerminatorStays
  <2>5. CASE j = 3 + Len(blocks[b].insts) /\ Len(m.vs) = Len(blocks[b].vstack)
    BY <1>1, <1>3, <2>3, <2>5, OtherwiseStays
  <2> QED BY <1>3, <2>1, <2>2, <2>4, <2>5 DEF HeightAt
<1> QED BY <1>1, <1>2, <1>3 DEF Place

-----------------------------------------------------------------------------
(* The dispatch loop                                                         *)

Onward(code, m) == IF Halted(code, m) THEN m ELSE Execute(m, code[m.ip])
RunsTo(f, code, m, n) == f = [k \in 0..n |-> IF k = 0 THEN m ELSE Onward(code, f[k - 1])]

LEMMA RunsExist ==
    ASSUME NEW code, NEW m, NEW n \in Nat
    PROVE  \E f : RunsTo(f, code, m, n)
<1> DEFINE F(l) == \E f : RunsTo(f, code, m, l)
           S == {l \in Nat : F(l)}
<1>1. 0 \in S
  <2> DEFINE e == [k \in 0..0 |-> m]
  <2>1. ASSUME NEW k \in 0..0 PROVE e[k] = IF k = 0 THEN m ELSE Onward(code, e[k - 1]) OBVIOUS
  <2>2. e = [k \in 0..0 |-> e[k]] OBVIOUS
  <2> HIDE DEF e
  <2>3. RunsTo(e, code, m, 0) BY <2>1, <2>2 DEF RunsTo
  <2> QED BY <2>3
<1>2. ASSUME NEW l \in Nat, l \in S PROVE l + 1 \in S
  <2>1. PICK f : f = [k \in 0..l |-> IF k = 0 THEN m ELSE Onward(code, f[k - 1])] BY <1>2 DEF RunsTo
  <2> DEFINE g == [k \in 0..l + 1 |-> IF k = l + 1 THEN Onward(code, f[l]) ELSE f[k]]
  <2>2. ASSUME NEW k \in 0..l + 1 PROVE g[k] = IF k = 0 THEN m ELSE Onward(code, g[k - 1])
    <3>1. CASE k = l + 1
      <4>1. k # 0 /\ k - 1 = l /\ l \in 0..l + 1 /\ l # l + 1 BY <3>1
      <4>2. g[l] = f[l] BY <4>1
      <4>3. g[k] = Onward(code, f[l]) BY <3>1
      <4> HIDE DEF g
      <4> QED BY <4>1, <4>2, <4>3
    <3>2. CASE k # l + 1
      <4>1. k \in 0..l BY <3>2
      <4>2. f[k] = IF k = 0 THEN m ELSE Onward(code, f[k - 1]) BY <2>1, <4>1
      <4>3. g[k] = f[k] BY <3>2, <4>1
      <4>4. k # 0 => k - 1 \in 0..l + 1 /\ k - 1 # l + 1 BY <4>1
      <4>5. k # 0 => g[k - 1] = f[k - 1] BY <4>4
      <4> HIDE DEF g
      <4> QED BY <4>2, <4>3, <4>5
    <3> QED BY <3>1, <3>2
  <2>3. g = [k \in 0..l + 1 |-> g[k]] OBVIOUS
  <2> HIDE DEF g
  <2>4. RunsTo(g, code, m, l + 1) BY <2>2, <2>3 DEF RunsTo
  <2>5. F(l + 1) BY <2>4
  <2> HIDE DEF F
  <2>6. l + 1 \in Nat OBVIOUS
  <2> QED BY <2>5, <2>6
<1>3. \A l \in Nat : l \in S => l + 1 \in S BY <1>2
<1> HIDE DEF S
<1>4. n \in S BY <1>1, <1>3, Induction
<1>5. F(n) BY <1>4 DEF S
<1> QED BY <1>5

RunIs(x, f, code, n) == x = IF Halted(code, f[n]) THEN f[n] ELSE [f[n] EXCEPT !.status = "diverges"]

LEMMA RunsAre ==
    ASSUME NEW code, NEW m, NEW n \in Nat
    PROVE  \E f : RunsTo(f, code, m, n) /\ RunIs(Run(code, m, n), f, code, n)
<1> DEFINE T(f) == f = [k \in 0..n |-> IF k = 0 THEN m ELSE
                                         LET at == f[k - 1]
                                         IN  IF Halted(code, at) THEN at ELSE Execute(at, code[at.ip])]
           f == CHOOSE f : T(f)
<1>1. Run(code, m, n) = IF Halted(code, f[n]) THEN f[n] ELSE [f[n] EXCEPT !.status = "diverges"]
  BY Zenon DEF Run
<1>2. \A g : T(g) <=> RunsTo(g, code, m, n) BY Zenon DEF RunsTo, Onward
<1>3. \E g : RunsTo(g, code, m, n) BY RunsExist
<1> HIDE DEF T
<1>4. \E g : T(g) BY <1>2, <1>3
<1>5. T(f) BY <1>4, Zenon
<1> HIDE DEF f
<1>6. RunsTo(f, code, m, n) BY <1>2, <1>5
<1>7. RunIs(Run(code, m, n), f, code, n) BY <1>1 DEF RunIs
<1> QED BY <1>6, <1>7

(* The greatest of some numbers                                              *)
LEMMA GreatestIs ==
    ASSUME NEW S, S \subseteq Nat, S # {}, NEW N \in Nat, \A x \in S : x <= N
    PROVE  Max(S) \in S /\ \A x \in S : x <= Max(S)
<1> DEFINE F(n) == \E y \in S : \A x \in S : x <= y + n
           G    == \E y \in S : \A x \in S : x <= y
           T    == {n \in Nat : F(n) => G}
<1>1. 0 \in T
  <2> SUFFICES ASSUME NEW y \in S, \A x \in S : x <= y + 0 PROVE G OBVIOUS
  <2>1. \A x \in S : x <= y OBVIOUS
  <2> QED BY <2>1
<1>2. ASSUME NEW n \in Nat, n \in T PROVE n + 1 \in T
  <2> SUFFICES ASSUME NEW y \in S, \A x \in S : x <= y + (n + 1) PROVE G OBVIOUS
  <2>1. CASE y + (n + 1) \in S
    <3> DEFINE z == y + (n + 1)
    <3>1. z \in S /\ \A x \in S : x <= z BY <2>1
    <3> HIDE DEF z
    <3> QED BY <3>1
  <2>2. CASE y + (n + 1) \notin S
    <3>1. \A x \in S : x <= y + n
      <4> SUFFICES ASSUME NEW x \in S PROVE x <= y + n OBVIOUS
      <4>1. x <= y + (n + 1) /\ x # y + (n + 1) /\ x \in Nat /\ y \in Nat BY <2>2
      <4> QED BY <4>1
    <3>2. F(n) BY <3>1
    <3> QED BY <1>2, <3>2
  <2> QED BY <2>1, <2>2
<1> HIDE DEF T
<1>3. Nat \subseteq T BY <1>1, <1>2, Induction
<1>4. PICK y \in S : TRUE OBVIOUS
<1>5. \A x \in S : x <= y + N BY <1>4
<1>6. N \in T /\ F(N) BY <1>3, <1>5
<1>7. G BY <1>6 DEF T
<1> QED BY <1>7, Zenon DEF Max

LEMMA SomeBound ==
    ASSUME NEW v, NEW n \in Nat, \A i \in 1..n : v[i] \in Nat
    PROVE  \E N \in Nat : \A i \in 1..n : v[i] <= N
<1> DEFINE F(m) == \E N \in Nat : \A i \in 1..m : v[i] <= N
           T == {m \in Nat : m <= n => F(m)}
<1>1. 0 \in T
  <2>1. F(0)
    <3>1. 0 \in Nat /\ \A i \in 1..0 : v[i] <= 0 OBVIOUS
    <3> QED BY <3>1
  <2> HIDE DEF F
  <2> QED BY <2>1
<1>2. ASSUME NEW m \in Nat, m \in T PROVE m + 1 \in T
  <2>1. CASE m + 1 <= n
    <3>1. PICK N \in Nat : \A i \in 1..m : v[i] <= N BY <1>2, <2>1
    <3> DEFINE x == v[m + 1]
               M == N + x
    <3>2. m + 1 \in 1..n BY <2>1
    <3>3. x \in Nat BY <3>2
    <3>4. ASSUME NEW i \in 1..m + 1 PROVE v[i] <= M
      <4>1. CASE i = m + 1
        <5>1. v[i] = x BY <4>1
        <5> HIDE DEF x
        <5>2. x <= N + x BY <3>3
        <5> QED BY <5>1, <5>2
      <4>2. CASE i # m + 1
        <5>1. i \in 1..m /\ i \in 1..n BY <2>1, <4>2
        <5>2. v[i] <= N /\ v[i] \in Nat BY <3>1, <5>1
        <5> HIDE DEF x
        <5>3. v[i] <= N + x BY <3>3, <5>2
        <5> QED BY <5>3
      <4> QED BY <4>1, <4>2
    <3>5. M \in Nat
      <4> HIDE DEF x
      <4> QED BY <3>3
    <3> HIDE DEF M
    <3>6. F(m + 1) BY <3>4, <3>5
    <3> HIDE DEF F
    <3> QED BY <3>6
  <2>2. CASE ~(m + 1 <= n) BY <2>2
  <2> QED BY <2>1, <2>2
<1> HIDE DEF T
<1>3. Nat \subseteq T BY <1>1, <1>2, Induction
<1>4. n \in T BY <1>3
<1>5. F(n) BY <1>4 DEF T
<1> QED BY <1>5

LEMMA GreatestBounds == ASSUME HeightsInv PROVE Bounds(Max({blocks[b].max : b \in 1..Len(blocks)}))
<1> DEFINE n == Len(blocks)
           v == [b \in 1..n |-> blocks[b].max]
           S == {blocks[b].max : b \in 1..n}
<1>1. n \in Nat /\ 1 \in 1..n
  <2>1. n \in Nat \ {0} BY BlocksEmitted DEF HeightsInv
  <2> QED BY <2>1
<1>2. \A b \in 1..n : blocks[b].max \in Nat
  <2> SUFFICES ASSUME NEW b \in 1..n PROVE blocks[b].max \in Nat OBVIOUS
  <2>1. Highs(blocks[b]) BY DEF HeightsInv, AllHighs
  <2> QED BY <2>1, ChosenIs
<1>3. \A b \in 1..n : v[b] = blocks[b].max /\ v[b] \in Nat BY <1>2
<1> HIDE DEF v, n
<1>4. PICK N \in Nat : \A b \in 1..n : v[b] <= N BY <1>1, <1>3, SomeBound
<1>5. S \subseteq Nat /\ S # {} /\ \A x \in S : x <= N
  <2>1. S \subseteq Nat /\ S # {} BY <1>1, <1>2
  <2>2. \A x \in S : x <= N BY <1>3, <1>4
  <2> QED BY <2>1, <2>2
<1>6. \A b \in 1..n : blocks[b].max \in S OBVIOUS
<1> HIDE DEF S
<1>7. Max(S) \in S /\ \A x \in S : x <= Max(S) BY <1>5, GreatestIs
<1>8. Max(S) \in Nat /\ \A b \in 1..n : blocks[b].max <= Max(S) BY <1>5, <1>6, <1>7
<1> QED BY <1>8 DEF Bounds, S, n

LEMMA StartStays ==
    ASSUME Complete, NEW top, Bounds(top), NEW env, NEW limit, NEW garbage, NEW stack, IsList(stack),
           Len(stack) = script.in
    PROVE  Stays(Start(env, stack, limit, garbage), top)
<1> DEFINE m == Start(env, stack, limit, garbage)
           L == Len(stack)
           running == "running"
           one == 1
           frame == [at \in HeaderSize..limit - 1 |-> garbage]
           globals == [g \in DOMAIN Globals |-> Globals[g].units]
           none == <<>>
           ls == <<>>
           R == MachineOf(one, stack, running, L, env, HeaderSize, ls, limit, frame, globals, none)
<1>1. m = R BY DEF Start, MachineOf
<1>2. L \in Nat /\ one \in Nat BY ListFacts
<1> HIDE DEF one, frame, globals, none, ls, running
<1>3. IsMachine(R) /\ R.ip = one /\ R.vs = stack /\ R.peak = L BY <1>2, MachineIs
<1>4. BlocksInv /\ blocks[1].inputs = script.in BY DEF Complete, HeightsInv
<1>5. 1 \in Reachable BY ReachesFirst DEF Complete
<1>6. 1 \in 1..Len(blocks) BY <1>5, BlockPlaced
<1>7. L <= top
  <2>1. blocks[1].inputs <= top BY <1>5, Bounded
  <2> QED BY <1>4, <2>1
<1>8. Place(one, L)
  <2> DEFINE P == Len(Prologue)
  <2>1. P \in Nat BY <1>4, WholeIs
  <2>2. CASE P # 0
    <3>1. one \in 1..P BY <2>1, <2>2 DEF one
    <3> QED BY <3>1 DEF Place
  <2>3. CASE P = 0
    <3>1. Begins(1, L) BY <1>4, <1>5, <1>6 DEF Begins
    <3>2. Place(Offsets[1] + 1, L) BY <3>1, PlaceBegins
    <3>3. Offsets[1] = 0 BY <1>4, <2>3, FirstOffset
    <3>4. Place(0 + 1, L) BY <3>2, <3>3
    <3>5. 0 + 1 = one BY DEF one
    <3> QED BY <3>4, <3>5
  <2> QED BY <2>2, <2>3
<1> HIDE DEF m, R, L
<1>9. Stays(R, top) BY <1>3, <1>7, <1>8 DEF Stays, L
<1> QED BY <1>1, <1>9 DEF m

LEMMA RunStays ==
    ASSUME Complete, NEW top, Bounds(top), NEW m, Stays(m, top), NEW fuel \in Nat
    PROVE  Run(Laid, m, fuel).peak <= top
<1> DEFINE x == Run(Laid, m, fuel)
           code == Laid
<1>1. PICK f : RunsTo(f, code, m, fuel) /\ RunIs(x, f, code, fuel) BY RunsAre
<1> DEFINE T == {n \in Nat : n \in 0..fuel => Stays(f[n], top)}
<1>2. 0 \in T
  <2>1. 0 \in 0..fuel OBVIOUS
  <2>2. f[0] = m BY <1>1, <2>1 DEF RunsTo
  <2> QED BY <2>2
<1>3. ASSUME NEW n \in Nat, n \in T PROVE n + 1 \in T
  <2>1. CASE n + 1 \in 0..fuel
    <3>1. n \in 0..fuel /\ n + 1 # 0 /\ (n + 1) - 1 = n BY <2>1
    <3> DEFINE at == f[n]
    <3>2. f[n + 1] = Onward(code, at) BY <1>1, <2>1, <3>1 DEF RunsTo
    <3>3. Stays(at, top) BY <1>3, <3>1
    <3> HIDE DEF at, code
    <3>4. Stays(Onward(code, at), top)
      <4>1. CASE Halted(code, at) BY <3>3, <4>1 DEF Onward
      <4>2. CASE ~Halted(code, at)
        <5>1. at.status = "running" BY <4>2 DEF Halted
        <5>2. Stays(Execute(at, code[at.ip]), top) BY <3>3, <5>1, CodeStays DEF code
        <5> QED BY <4>2, <5>2 DEF Onward
      <4> QED BY <4>1, <4>2
    <3> QED BY <3>2, <3>4
  <2>2. CASE n + 1 \notin 0..fuel BY <2>2
  <2> QED BY <2>1, <2>2
<1> HIDE DEF T
<1>4. Nat \subseteq T BY <1>2, <1>3, Induction
<1> DEFINE last == f[fuel]
           s == [last EXCEPT !.status = "diverges"]
<1>5. fuel \in T /\ fuel \in 0..fuel BY <1>4
<1>6. Stays(last, top) BY <1>5 DEF T
<1>7. x = last \/ x = s BY <1>1 DEF RunIs
<1>8. IsMachine(last) /\ last.peak <= top BY <1>6 DEF Stays
<1> DEFINE diverges == "diverges"
           r == [last EXCEPT !.status = diverges]
<1>9. r = s OBVIOUS
<1> HIDE DEF last, diverges
<1>10. Alike(r, last) BY <1>8, AlikeWith
<1>11. r.peak <= top BY <1>8, <1>10 DEF Alike
<1> HIDE DEF r, s, x
<1>12. x.peak <= top BY <1>7, <1>8, <1>9, <1>11
<1> QED BY <1>12 DEF x

LEMMA FinishedEnough ==
    ASSUME Complete, NEW env, NEW stack, stack \in Samples(script.in)
    PROVE  Run(Body.insts, Start(env, stack, Body.max_cstack_size, Garbage), script.fuel).peak
             <= Body.max_vstack_size
<1> DEFINE top == Max({blocks[b].max : b \in 1..Len(blocks)})
           limit == Body.max_cstack_size
           m == Start(env, stack, limit, Garbage)
           n == script.in
<1>1. frontend \in 1..Len(Scripts) BY DEF Complete, HeightsInv, BlocksInv
<1>2. script.in \in Nat /\ script.fuel \in Nat BY <1>1, BuilderAssumption DEF script
<1>3. Body.insts = Laid /\ Body.max_vstack_size = top BY DEF Body, Laid, Whole, Offsets
<1>4. Bounds(top) BY GreatestBounds DEF Complete
<1>5. IsList(stack) /\ Len(stack) = script.in
  <2>1. stack = [i \in 1..n |-> stack[i]] BY DEF Samples
  <2>2. n \in Nat BY <1>2
  <2> HIDE DEF n
  <2>3. IsList(stack) /\ Len(stack) = n BY <2>1, <2>2, FunctionList
  <2> QED BY <2>3 DEF n
<1> HIDE DEF top, limit
<1>6. Stays(m, top) BY <1>4, <1>5, StartStays
<1> HIDE DEF m
<1>7. Run(Laid, m, script.fuel).peak <= top BY <1>2, <1>4, <1>6, RunStays
<1> QED BY <1>3, <1>7 DEF m, limit

(* The vstack of a finished function never grows above max_vstack_size,      *)
(* which lauf_asm_build_finish takes from the pictures of its blocks and for *)
(* which a call makes sure that there is room (LAUF_DO_CALL), whatever it is *)
(* given, whichever way it goes and however long it runs: no instruction     *)
(* after the first has to look.                                              *)
THEOREM VStack_Enough == Spec /\ []CallsFit => []VStackIsEnough
<1> DEFINE Inv == HeightsInv /\ VStackIsEnough
<1>1. Init => Inv
  <2>1. Init => VStackIsEnough BY DEF Init, VStackIsEnough, Finished
  <2> QED BY <2>1, HeightsInit
<1>2. Inv /\ CallsFit /\ [Next]_vars => Inv'
  <2> SUFFICES ASSUME HeightsInv, VStackIsEnough, CallsFit, [Next]_vars PROVE VStackIsEnough'
    BY HeightsNext
  <2>1. CASE UNCHANGED vars BY <2>1 DEF vars, VStackIsEnough, Finished, Executed, Samples, script
  <2>2. CASE Unfinished BY <2>2 DEF VStackIsEnough, Finished, Unfinished
  <2>3. CASE Finish
    <3>1. body' = Body /\ frontend' = frontend BY <2>3 DEF Finish
    <3>2. Complete BY <2>3 DEF Finish, Complete
    <3>3. \A env \in script.envs : \A stack \in Samples(script.in) :
             Run(Body.insts, Start(env, stack, Body.max_cstack_size, Garbage), script.fuel).peak
               <= Body.max_vstack_size
      BY <3>2, FinishedEnough
    <3> DEFINE x == Body
    <3> HIDE DEF x
    <3>4. body' = x BY <3>1 DEF x
    <3>5. \A env \in script.envs : \A stack \in Samples(script.in) :
             Run(x.insts, Start(env, stack, x.max_cstack_size, Garbage), script.fuel).peak
               <= x.max_vstack_size
      BY <3>3 DEF x
    <3> QED BY <3>1, <3>4, <3>5 DEF VStackIsEnough, Finished, Executed, Samples, script
  <2> QED BY <2>1, <2>2, <2>3, BodyNext
<1>3. Inv => VStackIsEnough OBVIOUS
<1> QED BY <1>1, <1>2, <1>3, PTL DEF Spec
=============================================================================
