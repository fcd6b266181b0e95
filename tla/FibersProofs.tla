---------------------------- MODULE FibersProofs ----------------------------
(***************************************************************************)
(* Theorems about Fibers, for every kind of program, every number of       *)
(* fibers and every depth of activations.                                  *)
(***************************************************************************)
EXTENDS Fibers, SequenceTheorems, WellFoundedInduction, TLAPS

-----------------------------------------------------------------------------
(* The invariant of every program *)

Depths == 1..Len(hosts)
Inner  == 2..Len(hosts)

(* What the activations and the current fiber refer to.                      *)
ControlInv ==
    /\ Len(table) <= program.fibers
    /\ control = "host" <=> hosts = <<>>
    /\ \A i \in Inner : hosts[i].call /\ hosts[i].until /\ hosts[i].saved \in Alive \cup {Dangling}
    /\ \A i \in Depths : hosts[i].initial \in Alive \cup {Dangling}
    /\ control = "returned" => cur \in Alive /\ table[cur].status \in {"suspended", "done"}

(* The fibers on the machine stack: those that run, each once.               *)
StackInv ==
    /\ \A h \in Alive : table[h].status = "running" <=>
          (control = "run" /\ h = cur) \/ \E i \in Inner : hosts[i].saved = h
    /\ control = "run" => cur \in Alive /\ \A i \in Inner : hosts[i].saved # cur
    /\ \A i, j \in Inner : i # j /\ hosts[i].saved = hosts[j].saved => hosts[i].saved = Dangling

Inv == TypeOK /\ (fault = "none" => ControlInv /\ StackInv)

-----------------------------------------------------------------------------
(* Numbers *)

(* A set of natural numbers has a least element.                             *)
LEMMA Least ==
    ASSUME NEW S, S \subseteq Nat, S # {}
    PROVE  \E m \in S : \A k \in S : m <= k
<1> DEFINE R == OpToRel(<, Nat)
<1>1. IsWellFoundedOn(R, Nat) BY NatLessThanWellFounded
<1>2. \A m, k \in Nat : k < m => <<k, m>> \in R
  <2> TAKE m, k \in Nat
  <2>1. <<k, m>> \in Nat \X Nat OBVIOUS
  <2> QED BY <2>1 DEF OpToRel
<1> HIDE DEF R
<1>3. PICK m \in S : \A k \in S : <<k, m>> \notin R BY <1>1, WFMin
<1>4. \A k \in S : ~(k < m) BY <1>2, <1>3
<1> QED BY <1>3, <1>4

-----------------------------------------------------------------------------
(* Records and tables *)

(* The records that the operations make of a fiber.                          *)
LEMMA RecordTypes ==
    ASSUME program \in Programs, NEW f \in FiberRecords, NEW n \in Arities, NEW p \in 0..MaxFibers
    PROVE  /\ SuspendedFor(f, n) \in FiberRecords
           /\ SuspendedFor(f, n).status = "suspended"
           /\ SuspendedFor(f, n).parent = f.parent
           /\ Resumed(f) \in FiberRecords
           /\ Resumed(f).status = "running"
           /\ Resumed(f).parent = f.parent
           /\ ResumedBy(f, p) \in FiberRecords
           /\ ResumedBy(f, p).status = "running"
           /\ ResumedBy(f, p).parent = p
           /\ Done(f) \in FiberRecords
           /\ Done(f).status = "done"
           /\ Done(f).parent = f.parent
           /\ Done(f).outputs = f.outputs
<1>1. 0 \in Arities BY FibersAssumption DEF FibersAssumption, Arities
<1> QED BY <1>1 DEF SuspendedFor, Resumed, ResumedBy, Done, FiberRecords, Statuses

(* A new fiber, and what is left of a destroyed one.                         *)
LEMMA NewRecordTypes ==
    ASSUME program \in Programs, NEW in \in Arities, NEW out \in Arities
    PROVE  /\ Fresh(in, out) \in FiberRecords
           /\ Fresh(in, out).status = "ready" /\ Fresh(in, out).parent = Null
           /\ Remains \in FiberRecords
           /\ Remains.status = "freed"
<1>1. 0 \in Arities /\ 0 \in 0..MaxFibers BY FibersAssumption DEF FibersAssumption, Arities
<1> QED BY <1>1 DEF Fresh, Remains, FiberRecords, Statuses, Null

(* The table u is the table t without the fibers of some handles, and        *)
(* perhaps without freed entries at its end.                                 *)
Without(t, u, handles) ==
    /\ u \in Seq(FiberRecords)
    /\ Len(u) \in Nat
    /\ Len(u) <= Len(t)
    /\ \A h \in 1..Len(u) : u[h] = IF h \in handles THEN Remains ELSE t[h]
    /\ \A h \in 1..Len(t) : h \notin handles /\ t[h].status # "freed" => h \in 1..Len(u)

(* remove_freed takes only freed entries away.                               *)
LEMMA TrimmedShape ==
    ASSUME NEW t \in Seq(FiberRecords)
    PROVE  Without(t, Trimmed(t), {})
<1> DEFINE P(n) == (n > 0 => t[n].status # "freed") /\ \A i \in n + 1..Len(t) : t[i].status = "freed"
           S == {n \in 0..Len(t) : \A i \in n + 1..Len(t) : t[i].status = "freed"}
<1>0. Len(t) \in Nat /\ \A i \in 1..Len(t) : t[i] \in FiberRecords BY LenProperties
<1>1. \E n \in 0..Len(t) : P(n)
  <2>1. S \subseteq Nat /\ Len(t) \in S BY <1>0
  <2>2. PICK n \in S : \A k \in S : n <= k
    <3> HIDE DEF S
    <3> QED BY <2>1, Least
  <2>3. n \in 0..Len(t) BY <2>2
  <2>4. ASSUME n > 0, t[n].status = "freed" PROVE FALSE
    <3>1. n - 1 \in 0..Len(t) BY <2>3, <2>4, <1>0
    <3>2. \A i \in n..Len(t) : t[i].status = "freed" BY <2>2, <2>3, <2>4, <1>0
    <3> DEFINE k == n - 1
    <3>3. k + 1 = n BY <2>3
    <3> HIDE DEF k
    <3>4. k \in 0..Len(t) /\ \A i \in k + 1..Len(t) : t[i].status = "freed" BY <3>1, <3>2, <3>3 DEF k
    <3>5. k \in S BY <3>4
    <3>6. n <= k
      <4> HIDE DEF S
      <4> QED BY <3>5, <2>2
    <3>7. n \in Int /\ k \in Int BY <2>3, <3>4
    <3> QED BY <3>3, <3>6, <3>7
  <2> QED BY <2>2, <2>3, <2>4
<1> DEFINE m == CHOOSE n \in 0..Len(t) : P(n)
<1>2. m \in 0..Len(t) /\ P(m) BY <1>1
<1>3. Trimmed(t) = SubSeq(t, 1, m) BY DEF Trimmed
<1> HIDE DEF m
<1>4. /\ Trimmed(t) \in Seq(FiberRecords)
      /\ Len(Trimmed(t)) = m
      /\ \A i \in 1..m : Trimmed(t)[i] = t[i]
  <2>1. m \in Int /\ 1 \in Int /\ \A i \in 1..m : t[i] \in FiberRecords BY <1>0, <1>2
  <2>2. /\ SubSeq(t, 1, m) \in Seq(FiberRecords)
        /\ Len(SubSeq(t, 1, m)) = IF 1 <= m THEN m - 1 + 1 ELSE 0
        /\ \A i \in 1..m - 1 + 1 : SubSeq(t, 1, m)[i] = t[1 + i - 1]
    BY <2>1, SubSeqProperties
  <2>3. \A i \in 1..m : i \in 1..m - 1 + 1 /\ 1 + i - 1 = i BY <2>1
  <2> QED BY <2>1, <2>2, <2>3, <1>2, <1>3, <1>0
<1> QED BY <1>0, <1>2, <1>4 DEF Without

(* lauf_runtime_fiber::destroy of some fibers, in the table.                 *)
LEMMA FreedShape ==
    ASSUME TypeOK, NEW handles
    PROVE  Without(table, Freed(handles), handles) /\ Len(Freed(handles)) = Len(table)
<1> DEFINE e(h) == IF h \in handles THEN Remains ELSE table[h]
<1>1. Len(table) \in Nat /\ \A h \in 1..Len(table) : table[h] \in FiberRecords BY LenProperties DEF TypeOK
<1>2. Remains \in FiberRecords
  <2>1. 0 \in Arities /\ program \in Programs BY FibersAssumption DEF FibersAssumption, Arities, TypeOK
  <2> QED BY <2>1, NewRecordTypes
<1>3. Freed(handles) = [h \in 1..Len(table) |-> e(h)] BY DEF Freed
<1>4. \A h \in 1..Len(table) : e(h) \in FiberRecords BY <1>1, <1>2
<1>5. Freed(handles) \in Seq(FiberRecords) /\ Len(Freed(handles)) = Len(table)
  <2> HIDE DEF e
  <2> QED BY <1>1, <1>3, <1>4
<1>6. \A h \in 1..Len(table) : Freed(handles)[h] = e(h)
  <2> HIDE DEF e
  <2> QED BY <1>3
<1> QED BY <1>1, <1>5, <1>6 DEF Without

(* lauf_runtime_fiber::destroy, and then remove_freed.                       *)
LEMMA FreedTrimmed ==
    ASSUME TypeOK, NEW handles
    PROVE  Without(table, Trimmed(Freed(handles)), handles)
<1>0. table \in Seq(FiberRecords) /\ Len(table) \in Nat BY LenProperties DEF TypeOK
<1>1. Without(table, Freed(handles), handles) BY FreedShape
<1>2. Without(Freed(handles), Trimmed(Freed(handles)), {}) BY <1>1, TrimmedShape DEF Without
<1> DEFINE t == Freed(handles)
           u == Trimmed(t)
<1> HIDE DEF t, u
<1>3. Without(table, t, handles) /\ Without(t, u, {}) /\ Len(t) = Len(table) BY <1>1, <1>2, FreedShape DEF t, u
<1>4. Without(table, u, handles) BY <1>0, <1>3 DEF Without
<1> QED BY <1>4 DEF u, t

(* Activations whose pointers to destroyed fibers dangle.                    *)
LEMMA PointersShape ==
    ASSUME NEW hs \in Seq(Activations), NEW handles
    PROVE  /\ Pointers(hs, handles) \in Seq(Activations)
           /\ Len(Pointers(hs, handles)) = Len(hs)
           /\ \A i \in 1..Len(hs) :
                /\ Pointers(hs, handles)[i].initial = Pointer(hs[i].initial, handles)
                /\ Pointers(hs, handles)[i].saved = Pointer(hs[i].saved, handles)
                /\ Pointers(hs, handles)[i].call = hs[i].call
                /\ Pointers(hs, handles)[i].until = hs[i].until
                /\ Pointers(hs, handles)[i].outputs = hs[i].outputs
<1> DEFINE e(i) == [hs[i] EXCEPT !.initial = Pointer(@, handles), !.saved = Pointer(@, handles)]
<1>1. Len(hs) \in Nat /\ \A i \in 1..Len(hs) : hs[i] \in Activations BY LenProperties
<1>2. ASSUME NEW i \in 1..Len(hs)
      PROVE  /\ e(i) \in Activations
             /\ e(i).initial = Pointer(hs[i].initial, handles) /\ e(i).saved = Pointer(hs[i].saved, handles)
             /\ e(i).call = hs[i].call /\ e(i).until = hs[i].until /\ e(i).outputs = hs[i].outputs
  <2>1. hs[i] \in Activations BY <1>1
  <2> QED BY <2>1 DEF Activations, FiberPointers, Pointer
<1>3. Pointers(hs, handles) = [i \in 1..Len(hs) |-> e(i)] BY DEF Pointers
<1> HIDE DEF e
<1>4. Pointers(hs, handles) \in Seq(Activations) /\ Len(Pointers(hs, handles)) = Len(hs)
  BY <1>1, <1>2, <1>3
<1>5. \A i \in 1..Len(hs) : Pointers(hs, handles)[i] = e(i) BY <1>3
<1> QED BY <1>2, <1>4, <1>5

(* The types in the next state are those of this one.                        *)
LEMMA InvNext ==
    ASSUME program \in Programs, program' = program,
           table' \in Seq(FiberRecords), cur' \in FiberPointers, hosts' \in Seq(Activations),
           control' \in Controls, yielded' \in Arities, fault' \in Faults,
           fault' = "none" => ControlInv' /\ StackInv'
    PROVE  Inv'
<1>1. Arities' = Arities BY DEF Arities
<1>2. FiberRecords' = FiberRecords /\ Activations' = Activations BY <1>1 DEF FiberRecords, Activations
<1>3. TypeOK' BY <1>1, <1>2 DEF TypeOK
<1> QED BY <1>3 DEF Inv

LEMMA FaultInv ==
    ASSUME Inv, NEW what \in Faults \ {"none"}, Fault(what), program' = program
    PROVE  Inv'
BY InvNext DEF Inv, TypeOK, Fault

(* What the types say of the table and the activations.                      *)
LEMMA Types ==
    ASSUME TypeOK
    PROVE  /\ program \in Programs /\ program.fibers \in Nat /\ program.fibers <= MaxFibers /\ MaxFibers \in Nat
           /\ 0 \in Arities
           /\ table \in Seq(FiberRecords) /\ Len(table) \in Nat
           /\ \A h \in 1..Len(table) : table[h] \in FiberRecords /\ table[h].parent \in 0..MaxFibers
                                                             /\ table[h].outputs \in Arities
           /\ hosts \in Seq(Activations) /\ Len(hosts) \in Nat
           /\ \A i \in 1..Len(hosts) : hosts[i] \in Activations
           /\ hosts # <<>> => Len(hosts) \in Nat \ {0}
<1>1. \A h \in 1..Len(table) : table[h] \in FiberRecords BY LenProperties DEF TypeOK
<1>2. table \in Seq(FiberRecords) /\ Len(table) \in Nat BY LenProperties DEF TypeOK
<1>3. /\ hosts \in Seq(Activations) /\ Len(hosts) \in Nat /\ \A i \in 1..Len(hosts) : hosts[i] \in Activations
  BY LenProperties DEF TypeOK
<1>4. hosts # <<>> => Len(hosts) \in Nat \ {0} BY <1>3, EmptySeq
<1>5. /\ program \in Programs /\ program.fibers \in Nat /\ program.fibers <= MaxFibers /\ MaxFibers \in Nat
      /\ 0 \in Arities
  BY FibersAssumption DEF FibersAssumption, ProgramKinds, Arities, TypeOK
<1>6. \A h \in 1..Len(table) : table[h].parent \in 0..MaxFibers /\ table[h].outputs \in Arities
  BY <1>1 DEF FiberRecords
<1> QED BY <1>1, <1>2, <1>3, <1>4, <1>5, <1>6

(* The fiber that executes.                                                  *)
LEMMA Current ==
    ASSUME Inv, Executing
    PROVE  /\ cur \in 1..Len(table) /\ cur \in 0..MaxFibers /\ cur \in FiberPointers
           /\ cur \in Alive
           /\ table[cur] \in FiberRecords
           /\ table[cur].status = "running"
           /\ hosts # <<>>
<1>1. ControlInv /\ StackInv /\ control = "run" BY DEF Inv, Executing
<1>2. cur \in Alive /\ table[cur].status = "running" BY <1>1 DEF StackInv
<1>3. hosts # <<>> BY <1>1 DEF ControlInv
<1>4. cur \in 1..Len(table) BY <1>2 DEF Alive
<1>5. TypeOK BY DEF Inv
<1>6. Len(table) \in Nat /\ Len(table) <= MaxFibers /\ MaxFibers \in Nat BY <1>1, <1>5, Types DEF ControlInv
<1>7. cur \in 0..MaxFibers /\ cur \in FiberPointers BY <1>4, <1>6 DEF FiberPointers, Handles
<1> QED BY <1>2, <1>3, <1>4, <1>5, <1>7, Types

-----------------------------------------------------------------------------
(* Steps of the fiber that executes *)

(* Control goes from the current fiber to one that does not run.             *)
LEMMA SwitchInv ==
    ASSUME Inv, Executing, NEW h \in Alive, table[h].status # "running",
           NEW a \in FiberRecords, a.status \in {"suspended", "done"},
           NEW b \in FiberRecords, b.status = "running",
           table' = [table EXCEPT ![cur] = a, ![h] = b], cur' = h,
           UNCHANGED <<program, hosts, control, yielded, fault>>
    PROVE  Inv'
<1>0. TypeOK /\ ControlInv /\ StackInv /\ fault = "none" /\ control = "run" BY DEF Inv, Executing
<1>1. h \in 1..Len(table) /\ cur \in 1..Len(table) /\ h # cur /\ table[cur].status = "running"
  BY Current DEF Alive
<1>2. /\ table' \in Seq(FiberRecords) /\ Len(table') = Len(table)
      /\ \A g \in 1..Len(table) : table'[g] = IF g = h THEN b ELSE IF g = cur THEN a ELSE table[g]
  <2> DEFINE t == [table EXCEPT ![cur] = a]
  <2>1. /\ t \in Seq(FiberRecords) /\ Len(t) = Len(table)
        /\ \A g \in 1..Len(table) : t[g] = IF g = cur THEN a ELSE table[g]
    BY <1>0, <1>1, Types, ExceptSeq
  <2>2. table' = [t EXCEPT ![h] = b] OBVIOUS
  <2> HIDE DEF t
  <2>3. /\ [t EXCEPT ![h] = b] \in Seq(FiberRecords) /\ Len([t EXCEPT ![h] = b]) = Len(t)
        /\ \A g \in 1..Len(t) : [t EXCEPT ![h] = b][g] = IF g = h THEN b ELSE t[g]
    BY <1>1, <2>1, ExceptSeq
  <2> QED BY <2>1, <2>2, <2>3
<1>3. Alive' = Alive
  <2>1. Alive' = {g \in 1..Len(table') : table'[g].status # "freed"} BY DEF Alive
  <2>2. table[cur].status # "freed" /\ table[h].status # "freed" BY <1>1 DEF Alive
  <2> QED BY <1>1, <1>2, <2>1, <2>2 DEF Alive
<1>4. ControlInv'
  <2>1. control' = "run" BY <1>0
  <2>2. Len(table') <= program'.fibers BY <1>0, <1>2 DEF ControlInv
  <2>3. hosts' # <<>> BY <1>0 DEF ControlInv
  <2>4. \A i \in Inner' : hosts'[i].call /\ hosts'[i].until /\ hosts'[i].saved \in Alive' \cup {Dangling}
    BY <1>0, <1>3 DEF ControlInv, Inner
  <2>5. \A i \in Depths' : hosts'[i].initial \in Alive' \cup {Dangling}
    BY <1>0, <1>3 DEF ControlInv, Depths
  <2> QED BY <2>1, <2>2, <2>3, <2>4, <2>5 DEF ControlInv
<1>5. StackInv'
  <2>1. h \in Alive /\ \A i \in Inner : hosts[i].saved # h /\ hosts[i].saved # cur BY <1>0 DEF StackInv
  <2>2. ASSUME NEW g \in Alive
        PROVE  table'[g].status = "running" <=> g = h \/ \E i \in Inner : hosts[i].saved = g
    <3>1. g \in 1..Len(table) BY DEF Alive
    <3>2. table'[g] = IF g = h THEN b ELSE IF g = cur THEN a ELSE table[g] BY <1>2, <3>1
    <3>3. CASE g = h BY <3>2, <3>3
    <3>4. CASE g = cur BY <3>2, <3>4, <1>1, <2>1
    <3>5. CASE g # h /\ g # cur BY <3>2, <3>5, <1>0 DEF StackInv
    <3> QED BY <3>3, <3>4, <3>5
  <2>3. Inner' = Inner BY DEF Inner
  <2> QED BY <1>0, <1>3, <2>1, <2>2, <2>3 DEF StackInv
<1> QED
  <2>1. cur' \in FiberPointers
    <3>1. Len(table) <= MaxFibers /\ Len(table) \in Nat BY <1>0, Types DEF ControlInv
    <3> QED BY <3>1, <1>1, <1>0, Types DEF FiberPointers, Handles
  <2>2. /\ program \in Programs /\ hosts' \in Seq(Activations) /\ control' \in Controls /\ yielded' \in Arities
        /\ fault' \in Faults
    BY <1>0 DEF TypeOK
  <2> QED BY <1>2, <1>4, <1>5, <2>1, <2>2, InvNext

(* The current fiber leaves the interpreter.                                 *)
LEMMA StopInv ==
    ASSUME Inv, Executing,
           NEW a \in FiberRecords, a.status \in {"suspended", "done"},
           table' = [table EXCEPT ![cur] = a],
           \/ control' = "returned" /\ cur' = cur
           \/ control' = "panicked" /\ cur' = Null,
           yielded' \in Arities,
           UNCHANGED <<program, hosts, fault>>
    PROVE  Inv'
<1>0. TypeOK /\ ControlInv /\ StackInv /\ fault = "none" /\ control = "run" BY DEF Inv, Executing
<1>1. cur \in 1..Len(table) /\ cur \in Alive /\ table[cur].status = "running" /\ hosts # <<>>
  BY Current
<1>2. /\ table' \in Seq(FiberRecords) /\ Len(table') = Len(table)
      /\ \A g \in 1..Len(table) : table'[g] = IF g = cur THEN a ELSE table[g]
  BY <1>0, <1>1, Types, ExceptSeq
<1>3. Alive' = Alive
  <2>1. Alive' = {g \in 1..Len(table') : table'[g].status # "freed"} BY DEF Alive
  <2> QED BY <1>1, <1>2, <2>1 DEF Alive
<1>4. ControlInv'
  <2>2. Len(table') <= program'.fibers BY <1>0, <1>2 DEF ControlInv
  <2>4. \A i \in Inner' : hosts'[i].call /\ hosts'[i].until /\ hosts'[i].saved \in Alive' \cup {Dangling}
    BY <1>0, <1>3 DEF ControlInv, Inner
  <2>5. \A i \in Depths' : hosts'[i].initial \in Alive' \cup {Dangling}
    BY <1>0, <1>3 DEF ControlInv, Depths
  <2>6. control' = "returned" => cur' \in Alive' /\ table'[cur'].status \in {"suspended", "done"}
    BY <1>1, <1>2, <1>3
  <2> QED BY <1>1, <2>2, <2>4, <2>5, <2>6 DEF ControlInv
<1>5. StackInv'
  <2>1. \A i \in Inner : hosts[i].saved # cur BY <1>0 DEF StackInv
  <2>2. ASSUME NEW g \in Alive
        PROVE  table'[g].status = "running" <=> \E i \in Inner : hosts[i].saved = g
    <3>1. g \in 1..Len(table) BY DEF Alive
    <3>2. table'[g] = IF g = cur THEN a ELSE table[g] BY <1>2, <3>1
    <3>4. CASE g = cur BY <3>2, <3>4, <1>1, <2>1
    <3>5. CASE g # cur BY <3>2, <3>5, <1>0 DEF StackInv
    <3> QED BY <3>4, <3>5
  <2>3. Inner' = Inner BY DEF Inner
  <2> QED BY <1>0, <1>3, <2>1, <2>2, <2>3 DEF StackInv
<1> QED
  <2>1. cur' \in FiberPointers BY Current DEF FiberPointers
  <2>2. /\ program \in Programs /\ hosts' \in Seq(Activations) /\ control' \in Controls /\ fault' \in Faults
    BY <1>0 DEF TypeOK, Controls
  <2> QED BY <1>2, <1>4, <1>5, <2>1, <2>2, InvNext

LEMMA PanicInv ==
    ASSUME Inv, Executing, Panic, program' = program
    PROVE  Inv'
<1>1. table[cur].status = "running" /\ table[cur] \in FiberRecords BY Current
<1>2. TypeOK /\ 0 \in Arities /\ program \in Programs /\ 0 \in 0..MaxFibers BY Types DEF Inv
<1> DEFINE a == SuspendedFor(table[cur], 0)
<1>3. /\ table' = [table EXCEPT ![cur] = a]
      /\ cur' = Null /\ control' = "panicked" /\ UNCHANGED <<hosts, yielded, fault>>
  BY <1>1 DEF Panic
<1>4. a \in FiberRecords /\ a.status = "suspended" BY <1>1, <1>2, RecordTypes
<1>5. yielded' \in Arities BY <1>2, <1>3 DEF TypeOK
<1> HIDE DEF a
<1> QED BY <1>3, <1>4, <1>5, StopInv

(* fiber_resume and fiber_transfer, when the target accepts.                 *)
LEMMA SwitchToInv ==
    ASSUME Inv, Executing, NEW h, NEW in, Accepts(h, in), NEW out \in Arities, NEW p \in 0..MaxFibers,
           SwitchTo(h, out, p), program' = program
    PROVE  Inv'
<1>1. h \in Alive /\ table[h].status # "running" BY DEF Accepts, Exists, Waits, Alive
<1>2. TypeOK /\ h \in 1..Len(table) BY <1>1 DEF Inv, Alive
<1>3. cur # h /\ table[cur] \in FiberRecords /\ cur \in 1..Len(table) BY <1>1, Current
<1> DEFINE a == SuspendedFor(table[cur], out)
           b == ResumedBy(table[h], p)
<1>4. table' = [table EXCEPT ![cur] = a, ![h] = b]
  <2>1. [table EXCEPT ![cur] = a][h] = table[h]
    <3> HIDE DEF a
    <3> QED BY <1>2, <1>3, Types
  <2> QED BY <2>1 DEF SwitchTo
<1>5. a \in FiberRecords /\ a.status = "suspended" /\ b \in FiberRecords /\ b.status = "running"
  <2>1. table[h] \in FiberRecords /\ program \in Programs BY <1>2, Types
  <2>2. a \in FiberRecords /\ a.status = "suspended" BY <1>3, <2>1, RecordTypes
  <2>3. b \in FiberRecords /\ b.status = "running" BY <2>1, RecordTypes
  <2> QED BY <2>2, <2>3
<1>6. cur' = h /\ UNCHANGED <<hosts, control, yielded, fault>> BY DEF SwitchTo
<1> HIDE DEF a, b
<1> QED BY <1>1, <1>4, <1>5, <1>6, SwitchInv

LEMMA ResumeInv ==
    ASSUME Inv, NEW h, NEW in, NEW out \in Arities, Resume(h, in, out) \/ Transfer(h, in, out),
           program' = program
    PROVE  Inv'
<1>1. Executing BY DEF Resume, Transfer
<1>2. cur \in 0..MaxFibers /\ table[cur].parent \in 0..MaxFibers
  BY <1>1, Current, Types DEF Inv
<1>3. CASE Accepts(h, in)
  BY <1>1, <1>2, <1>3, SwitchToInv DEF Resume, Transfer
<1>4. CASE ~Accepts(h, in)
  BY <1>1, <1>4, PanicInv DEF Resume, Transfer
<1> QED BY <1>3, <1>4

LEMMA SuspendInv ==
    ASSUME Inv, NEW in \in Arities, NEW out \in Arities, Suspend(in, out), program' = program
    PROVE  Inv'
<1> DEFINE p == table[cur].parent
           a == SuspendedFor(table[cur], out)
           b == Resumed(table[p])
<1>1. Executing BY DEF Suspend
<1>2. cur \in 1..Len(table) /\ table[cur] \in FiberRecords BY <1>1, Current
<1>3. TypeOK BY DEF Inv
<1>4. a \in FiberRecords /\ a.status = "suspended" BY <1>2, <1>3, Types, RecordTypes
<1>5. CASE /\ table' = [table EXCEPT ![cur] = a]
           /\ control' = "returned" /\ yielded' = in /\ UNCHANGED <<cur, hosts, fault>>
  <2> HIDE DEF a
  <2> QED BY <1>1, <1>4, <1>5, StopInv
<1>6. CASE Panic BY <1>1, <1>6, PanicInv
<1>7. CASE Fault("suspend to a fiber that does not wait") BY <1>7, FaultInv DEF Faults
<1>8. CASE /\ Exists(p) /\ Waits(p)
           /\ table' = [table EXCEPT ![cur] = SuspendedFor(@, out), ![p] = Resumed(@)]
           /\ cur' = p
           /\ UNCHANGED <<hosts, control, yielded, fault>>
  <2> HIDE DEF p
  <2>1. p \in Alive /\ table[p].status # "running" /\ p \in 1..Len(table) BY <1>8 DEF Exists, Waits, Alive
  <2>2. p # cur BY <1>1, <2>1, Current
  <2>3. table[p] \in FiberRecords BY <1>3, <2>1, Types
  <2>4. b \in FiberRecords /\ b.status = "running" BY <1>3, <2>3, Types, RecordTypes
  <2>5. [table EXCEPT ![cur] = a][p] = table[p]
    <3> HIDE DEF a
    <3> QED BY <1>2, <1>3, <2>1, <2>2, Types
  <2>6. table' = [table EXCEPT ![cur] = a, ![p] = b] BY <1>8, <2>5
  <2>7. cur' = p /\ UNCHANGED <<program, hosts, control, yielded, fault>> BY <1>8
  <2> HIDE DEF a, b
  <2> QED BY <1>1, <1>4, <2>1, <2>4, <2>6, <2>7, SwitchInv
<1> QED BY <1>5, <1>6, <1>7, <1>8 DEF Suspend

LEMMA ExitInv ==
    ASSUME Inv, Exit, program' = program
    PROVE  Inv'
<1> DEFINE p == table[cur].parent
           a == Done(table[cur])
           d == [table EXCEPT ![cur] = a]
           b == Resumed(d[p])
<1>1. Executing BY DEF Exit
<1>2. cur \in 1..Len(table) /\ table[cur] \in FiberRecords BY <1>1, Current
<1>3. TypeOK /\ yielded \in Arities BY DEF Inv, TypeOK
<1>4. a \in FiberRecords /\ a.status = "done" BY <1>2, <1>3, Types, RecordTypes
<1>5. CASE /\ table' = d
           /\ control' = "returned" /\ UNCHANGED <<cur, hosts, yielded, fault>>
  <2> HIDE DEF a
  <2> QED BY <1>1, <1>3, <1>4, <1>5, StopInv
<1>6. CASE \/ Fault("exit to a fiber that does not wait")
           \/ Fault("suspend() of a fiber that is done")
           \/ Fault("exit to a fiber that is not suspended")
  BY <1>6, FaultInv DEF Faults
<1>7. CASE /\ Exists(p) /\ Waits(p)
           /\ table' = [d EXCEPT ![p] = Resumed(@)]
           /\ cur' = p
           /\ UNCHANGED <<hosts, control, yielded, fault>>
  <2> HIDE DEF p
  <2>1. p \in Alive /\ table[p].status # "running" /\ p \in 1..Len(table) BY <1>7 DEF Exists, Waits, Alive
  <2>2. p # cur BY <1>1, <2>1, Current
  <2>3. d[p] = table[p] /\ table[p] \in FiberRecords
    <3> HIDE DEF a
    <3> QED BY <1>2, <1>3, <2>1, <2>2, Types
  <2>4. b \in FiberRecords /\ b.status = "running"
    <3> HIDE DEF d
    <3> QED BY <1>3, <2>3, Types, RecordTypes
  <2>5. table' = [table EXCEPT ![cur] = a, ![p] = b] BY <1>7
  <2>6. cur' = p /\ UNCHANGED <<program, hosts, control, yielded, fault>> BY <1>7
  <2> HIDE DEF a, b, d
  <2> QED BY <1>1, <1>4, <2>1, <2>4, <2>5, <2>6, SwitchInv
<1>8. \/ /\ table' = d /\ control' = "returned" /\ UNCHANGED <<cur, hosts, yielded, fault>>
      \/ /\ Exists(p)
         /\ IF ~Waits(p) THEN Fault("exit to a fiber that does not wait")
            ELSE IF table[p].expects # table[cur].outputs
            THEN Fault("suspend() of a fiber that is done")
            ELSE IF table[p].status = "ready" THEN Fault("exit to a fiber that is not suspended")
            ELSE /\ table' = [d EXCEPT ![p] = Resumed(@)]
                 /\ cur' = p
                 /\ UNCHANGED <<hosts, control, yielded, fault>>
  BY DEF Exit
<1> HIDE DEF p, d
<1> QED BY <1>5, <1>6, <1>7, <1>8

LEMMA CreateInv ==
    ASSUME Inv, NEW in \in Arities, NEW out \in Arities, Create(in, out), program' = program
    PROVE  Inv'
<1> DEFINE f == Fresh(in, out)
           n == Len(table)
<1>0. TypeOK /\ ControlInv /\ StackInv /\ fault = "none" /\ control \in {"run", "host"} BY DEF Inv, Create
<1>1. f \in FiberRecords /\ f.status = "ready" BY <1>0, Types, NewRecordTypes
<1>2. table' = Append(table, f) /\ UNCHANGED <<cur, hosts, control, yielded, fault>> /\ n < program.fibers
  BY DEF Create
<1> HIDE DEF f
<1>3. /\ table' \in Seq(FiberRecords) /\ Len(table') = n + 1
      /\ \A g \in 1..n : table'[g] = table[g]
      /\ table'[n + 1] = f
      /\ n \in Nat /\ program.fibers \in Nat
  BY <1>0, <1>1, <1>2, Types, AppendProperties
<1> HIDE DEF n
<1>4. Alive' = Alive \cup {n + 1} /\ n + 1 \notin Alive
  <2>1. Alive' = {g \in 1..Len(table') : table'[g].status # "freed"} BY DEF Alive
  <2>2. Alive = {g \in 1..n : table[g].status # "freed"} BY DEF Alive, n
  <2> QED BY <1>1, <1>3, <2>1, <2>2
<1>5. ControlInv'
  <2>1. Len(table') <= program'.fibers BY <1>2, <1>3
  <2>2. \A i \in Inner' : hosts'[i].call /\ hosts'[i].until /\ hosts'[i].saved \in Alive' \cup {Dangling}
    BY <1>0, <1>2, <1>4 DEF ControlInv, Inner
  <2>3. \A i \in Depths' : hosts'[i].initial \in Alive' \cup {Dangling}
    BY <1>0, <1>2, <1>4 DEF ControlInv, Depths
  <2>4. control' = "host" <=> hosts' = <<>> BY <1>0, <1>2 DEF ControlInv
  <2> QED BY <1>0, <1>2, <2>1, <2>2, <2>3, <2>4 DEF ControlInv
<1>6. StackInv'
  <2>1. ASSUME NEW g \in Alive'
        PROVE  table'[g].status = "running" <=>
                  (control = "run" /\ g = cur) \/ \E i \in Inner : hosts[i].saved = g
    <3>1. CASE g \in Alive
      <4>1. g \in 1..n BY <3>1 DEF Alive, n
      <4> QED BY <3>1, <4>1, <1>0, <1>3 DEF StackInv
    <3>2. CASE g = n + 1
      <4>1. table'[g].status # "running" BY <3>2, <1>1, <1>3
      <4>2. control = "run" => cur # g BY <3>2, <1>0, <1>4 DEF StackInv
      <4>3. \A i \in Inner : hosts[i].saved # g
        <5>1. g # Dangling BY <3>2, <1>3 DEF Dangling
        <5> QED BY <5>1, <3>2, <1>0, <1>4 DEF ControlInv
      <4> QED BY <4>1, <4>2, <4>3
    <3> QED BY <3>1, <3>2, <1>4
  <2>2. Inner' = Inner BY <1>2 DEF Inner
  <2>3. control = "run" => cur \in Alive' BY <1>0, <1>4 DEF StackInv
  <2> QED BY <1>0, <1>2, <2>1, <2>2, <2>3 DEF StackInv
<1> QED BY <1>0, <1>2, <1>3, <1>5, <1>6, InvNext DEF TypeOK

-----------------------------------------------------------------------------
(* Steps that destroy fibers or trim the table *)

(* Who is left, where the table and the pointers say so.                     *)
LEMMA WithoutAlive ==
    ASSUME TypeOK, NEW handles, Without(table, table', handles)
    PROVE  /\ Alive' = Alive \ handles
           /\ \A h \in Alive' : table'[h] = table[h] /\ h # Dangling
<1>1. Alive' = {g \in 1..Len(table') : table'[g].status # "freed"} BY DEF Alive
<1>2. Remains.status = "freed" BY DEF Remains
<1>3. Len(table) \in Nat /\ Len(table') \in Nat /\ Len(table') <= Len(table) BY Types DEF Without
<1>4. \A g \in 1..Len(table') : table'[g] = IF g \in handles THEN Remains ELSE table[g] BY DEF Without
<1>5. \A h \in 1..Len(table) : h \notin handles /\ table[h].status # "freed" => h \in 1..Len(table')
  BY DEF Without
<1>6. ASSUME NEW g \in Alive' PROVE g \in Alive /\ g \notin handles /\ table'[g] = table[g] /\ g # Dangling
  <2>1. g \in 1..Len(table') /\ table'[g].status # "freed" BY <1>1
  <2>2. g \notin handles /\ table'[g] = table[g] BY <1>2, <1>4, <2>1
  <2>3. g \in 1..Len(table) /\ g # Dangling BY <1>3, <2>1 DEF Dangling
  <2> QED BY <2>1, <2>2, <2>3 DEF Alive
<1>7. ASSUME NEW g \in Alive \ handles PROVE g \in Alive'
  <2>1. g \in 1..Len(table') BY <1>5 DEF Alive
  <2>2. table'[g] = table[g] BY <2>1, <1>4
  <2> QED BY <1>1, <2>1, <2>2 DEF Alive
<1> QED BY <1>6, <1>7

LEMMA DestroyInv ==
    ASSUME Inv, fault = "none", control \in {"run", "host"},
           NEW handles, control = "run" => cur \notin handles,
           NEW t, Without(table, t, handles), Destroy(handles, t),
           UNCHANGED <<program, control, yielded, fault>>
    PROVE  Inv'
<1>0. TypeOK /\ ControlInv /\ StackInv BY DEF Inv
<1>1. table' = t /\ cur' = Pointer(cur, handles) /\ hosts' = Pointers(hosts, handles) BY DEF Destroy
<1>2. Without(table, table', handles) BY <1>1
<1>3. Alive' = Alive \ handles /\ \A h \in Alive' : table'[h] = table[h] /\ h # Dangling
  BY <1>0, <1>2, WithoutAlive
<1>4. /\ hosts' \in Seq(Activations) /\ Len(hosts') = Len(hosts)
      /\ \A i \in 1..Len(hosts) :
           /\ hosts'[i].initial = Pointer(hosts[i].initial, handles)
           /\ hosts'[i].saved = Pointer(hosts[i].saved, handles)
           /\ hosts'[i].call = hosts[i].call
           /\ hosts'[i].until = hosts[i].until
  BY <1>0, <1>1, Types, PointersShape
<1>5. Depths' = Depths /\ Inner' = Inner /\ Inner \subseteq Depths /\ Len(hosts) \in Nat
  BY <1>0, <1>4, Types DEF Depths, Inner
<1>6. ASSUME NEW p \in Alive \cup {Dangling}
      PROVE  Pointer(p, handles) \in Alive' \cup {Dangling}
  BY <1>3 DEF Pointer
<1>7. ControlInv'
  <2>1. Len(table') <= program'.fibers
    <3>1. Len(table') <= Len(table) /\ Len(table) <= program.fibers /\ Len(table') \in Nat /\ Len(table) \in Nat
          /\ program.fibers \in Nat
      BY <1>0, <1>2, Types DEF ControlInv, Without
    <3> QED BY <3>1
  <2>2. control' = "host" <=> hosts' = <<>>
    <3>1. hosts = <<>> <=> Len(hosts) = 0 BY <1>0, Types, EmptySeq
    <3>2. hosts' = <<>> <=> Len(hosts') = 0 BY <1>4, EmptySeq
    <3> QED BY <3>1, <3>2, <1>0, <1>4 DEF ControlInv
  <2>3. ASSUME NEW i \in Inner' PROVE hosts'[i].call /\ hosts'[i].until /\ hosts'[i].saved \in Alive' \cup {Dangling}
    <3>1. i \in Inner /\ i \in 1..Len(hosts) BY <1>5 DEF Depths
    <3>2. hosts[i].call /\ hosts[i].until /\ hosts[i].saved \in Alive \cup {Dangling} BY <3>1, <1>0 DEF ControlInv
    <3> QED BY <3>1, <3>2, <1>4, <1>6
  <2>4. ASSUME NEW i \in Depths' PROVE hosts'[i].initial \in Alive' \cup {Dangling}
    <3>1. i \in 1..Len(hosts) /\ hosts[i].initial \in Alive \cup {Dangling} BY <1>5, <1>0 DEF Depths, ControlInv
    <3> QED BY <3>1, <1>4, <1>6
  <2>5. control' # "returned" OBVIOUS
  <2> QED BY <2>1, <2>2, <2>3, <2>4, <2>5 DEF ControlInv
<1>8. StackInv'
  <2>1. control' = control /\ (control = "run" => cur' = cur) BY <1>1 DEF Pointer
  <2>2. ASSUME NEW i \in Inner
        PROVE  hosts'[i].saved = IF hosts[i].saved \in handles THEN Dangling ELSE hosts[i].saved
    BY <1>4, <1>5 DEF Pointer, Depths
  <2>3. ASSUME NEW g \in Alive'
        PROVE  table'[g].status = "running" <=>
                  (control' = "run" /\ g = cur') \/ \E i \in Inner' : hosts'[i].saved = g
    <3>1. g \in Alive /\ g \notin handles /\ table'[g] = table[g] /\ g # Dangling BY <1>3
    <3>2. table[g].status = "running" <=> (control = "run" /\ g = cur) \/ \E i \in Inner : hosts[i].saved = g
      BY <3>1, <1>0 DEF StackInv
    <3>3. \A i \in Inner : hosts'[i].saved = g <=> hosts[i].saved = g BY <2>2, <3>1
    <3> QED BY <1>5, <2>1, <3>1, <3>2, <3>3
  <2>4. control' = "run" => cur' \in Alive' /\ \A i \in Inner' : hosts'[i].saved # cur'
    <3> SUFFICES ASSUME control = "run" PROVE cur' \in Alive' /\ \A i \in Inner : hosts'[i].saved # cur'
      BY <1>5
    <3>1. cur \in Alive /\ (\A i \in Inner : hosts[i].saved # cur) /\ cur' = cur BY <1>0, <2>1 DEF StackInv
    <3>2. cur \in Alive' BY <3>1, <1>3
    <3>3. cur # Dangling BY <3>2, <1>3
    <3> QED BY <3>1, <3>2, <3>3, <2>2
  <2>5. \A i, j \in Inner' : i # j /\ hosts'[i].saved = hosts'[j].saved => hosts'[i].saved = Dangling
    BY <1>0, <1>5, <2>2 DEF StackInv
  <2> QED BY <2>3, <2>4, <2>5 DEF StackInv
<1> QED
  <2>1. cur' \in FiberPointers BY <1>0, <1>1 DEF TypeOK, Pointer, FiberPointers
  <2>2. table' \in Seq(FiberRecords) BY <1>2 DEF Without
  <2>3. program \in Programs /\ control' \in Controls /\ yielded' \in Arities /\ fault' \in Faults BY <1>0 DEF TypeOK
  <2> QED BY <1>4, <1>7, <1>8, <2>1, <2>2, <2>3, InvNext

LEMMA DestroyFiberInv ==
    ASSUME Inv, NEW h, DestroyFiber(h), program' = program
    PROVE  Inv'
<1>1. fault = "none" /\ control \in {"run", "host"} BY DEF DestroyFiber, Executing
<1>2. CASE Fault("destroy of a fiber that executes") BY <1>2, FaultInv DEF Faults
<1>3. CASE ~Exists(h)
  <2>1. Executing /\ Panic BY <1>3 DEF DestroyFiber
  <2> QED BY <2>1, PanicInv
<1>4. CASE /\ Exists(h) /\ table[h].status # "running"
           /\ Destroy({h}, Trimmed(Freed({h}))) /\ UNCHANGED <<control, yielded, fault>>
  <2>1. Without(table, Trimmed(Freed({h})), {h}) BY FreedTrimmed DEF Inv
  <2>2. control = "run" => cur \notin {h}
    <3>1. control = "run" => table[cur].status = "running" BY <1>1, Current DEF Executing
    <3> QED BY <3>1, <1>4
  <2> QED BY <1>1, <1>4, <2>1, <2>2, DestroyInv
<1> QED BY <1>2, <1>3, <1>4 DEF DestroyFiber

LEMMA CollectInv ==
    ASSUME Inv, NEW handles, Collect(handles), program' = program
    PROVE  Inv'
<1>1. Without(table, Freed(handles), handles) BY FreedShape DEF Inv
<1>2. fault = "none" /\ control = "run" /\ cur \notin handles BY DEF Collect, Executing
<1>3. Destroy(handles, Freed(handles)) /\ UNCHANGED <<control, yielded, fault>> BY DEF Collect
<1> QED BY <1>1, <1>2, <1>3, DestroyInv

LEMMA ReturnFreeInv ==
    ASSUME Inv, ReturnFree, program' = program
    PROVE  Inv'
<1>1. Executing /\ table' = Trimmed(table) /\ UNCHANGED <<cur, hosts, control, yielded, fault>> BY DEF ReturnFree
<1>0. TypeOK /\ ControlInv /\ StackInv /\ fault = "none" /\ control = "run" BY <1>1 DEF Inv, Executing
<1>2. Without(table, table', {}) BY <1>0, <1>1, Types, TrimmedShape
<1>3. Alive' = Alive /\ \A h \in Alive' : table'[h] = table[h]
  BY <1>0, <1>2, WithoutAlive
<1>4. Depths' = Depths /\ Inner' = Inner BY <1>1 DEF Depths, Inner
<1>5. ControlInv'
  <2>1. Len(table') <= program'.fibers
    <3>1. Len(table') <= Len(table) /\ Len(table) <= program.fibers /\ Len(table') \in Nat /\ Len(table) \in Nat
          /\ program.fibers \in Nat
      BY <1>0, <1>2, Types DEF ControlInv, Without
    <3> QED BY <3>1
  <2>2. control' # "returned" BY <1>0, <1>1
  <2> QED BY <1>0, <1>1, <1>3, <1>4, <2>1, <2>2 DEF ControlInv
<1>6. StackInv' BY <1>0, <1>1, <1>3, <1>4 DEF StackInv
<1> QED
  <2>1. table' \in Seq(FiberRecords) BY <1>2 DEF Without
  <2> QED BY <1>0, <1>1, <1>5, <1>6, <2>1, InvNext DEF TypeOK

-----------------------------------------------------------------------------
(* Entering and leaving the interpreter *)

AliveIn(t) == {h \in 1..Len(t) : t[h].status # "freed"}

(* The fiber h of the table t may be entered in the activations hs: all that *)
(* run are below them.                                                       *)
MayRun(t, hs, h) ==
    /\ t \in Seq(FiberRecords) /\ Len(t) <= program.fibers
    /\ hs \in Seq(Activations) /\ hs # <<>>
    /\ \A i \in 2..Len(hs) : hs[i].call /\ hs[i].until /\ hs[i].saved \in AliveIn(t) \cup {Dangling}
    /\ \A i \in 1..Len(hs) : hs[i].initial \in AliveIn(t) \cup {Dangling}
    /\ h \in AliveIn(t) /\ t[h].status # "running"
    /\ \A g \in AliveIn(t) : t[g].status = "running" <=> \E i \in 2..Len(hs) : hs[i].saved = g
    /\ \A i, j \in 2..Len(hs) : i # j /\ hs[i].saved = hs[j].saved => hs[i].saved = Dangling

LEMMA EnterInv ==
    ASSUME TypeOK, fault = "none", NEW t, NEW h, NEW in, MayRun(t, hosts', h), Enter(t, h, in), program' = program
    PROVE  Inv'
<1> DEFINE r == ResumedBy(t[h], Null)
           s == SuspendedFor(r, 0)
           b == IF t[h].expects = in THEN r ELSE s
<1>0. program \in Programs /\ 0 \in Arities /\ program.fibers \in Nat /\ program.fibers <= MaxFibers /\ MaxFibers \in Nat
  BY Types
<1>1. /\ t \in Seq(FiberRecords) /\ Len(t) \in Nat /\ h \in 1..Len(t) /\ t[h] \in FiberRecords
      /\ Len(t) <= program.fibers /\ t[h].status # "freed" /\ t[h].status # "running"
  BY LenProperties DEF MayRun, AliveIn
<1>2. b \in FiberRecords /\ b.status = IF t[h].expects = in THEN "running" ELSE "suspended"
  <2>0. Null \in 0..MaxFibers BY <1>0 DEF Null
  <2>1. r \in FiberRecords /\ r.status = "running" BY <1>0, <1>1, <2>0, RecordTypes
  <2> HIDE DEF r
  <2>2. s \in FiberRecords /\ s.status = "suspended" BY <1>0, <2>0, <2>1, RecordTypes
  <2> HIDE DEF s
  <2> QED BY <2>1, <2>2
<1>3. table' = [t EXCEPT ![h] = b] /\ fault' = "none" /\ yielded' = 0
  BY DEF Enter
<1>4. \/ t[h].expects = in /\ cur' = h /\ control' = "run"
      \/ t[h].expects # in /\ cur' = Null /\ control' = "panicked"
  BY DEF Enter
<1> HIDE DEF b
<1>5. /\ table' \in Seq(FiberRecords) /\ Len(table') = Len(t)
      /\ \A g \in 1..Len(t) : table'[g] = IF g = h THEN b ELSE t[g]
  BY <1>1, <1>2, <1>3, ExceptSeq
<1>6. Alive' = AliveIn(t)
  <2>1. Alive' = {g \in 1..Len(table') : table'[g].status # "freed"} BY DEF Alive
  <2> QED BY <1>1, <1>2, <1>5, <2>1 DEF AliveIn
<1>7. ControlInv'
  <2>1. Len(table') <= program'.fibers BY <1>1, <1>5
  <2>2. control' # "host" /\ control' # "returned" /\ hosts' # <<>> BY <1>4 DEF MayRun
  <2>3. \A i \in Inner' : hosts'[i].call /\ hosts'[i].until /\ hosts'[i].saved \in Alive' \cup {Dangling}
    BY <1>6 DEF MayRun, Inner
  <2>4. \A i \in Depths' : hosts'[i].initial \in Alive' \cup {Dangling} BY <1>6 DEF MayRun, Depths
  <2> QED BY <2>1, <2>2, <2>3, <2>4 DEF ControlInv
<1>8. StackInv'
  <2>1. \A i \in Inner' : hosts'[i].saved # h BY <1>1 DEF MayRun, Inner
  <2>2. ASSUME NEW g \in Alive'
        PROVE  table'[g].status = "running" <=>
                  (control' = "run" /\ g = cur') \/ \E i \in Inner' : hosts'[i].saved = g
    <3>1. g \in AliveIn(t) /\ g \in 1..Len(t) BY <1>6 DEF AliveIn
    <3>2. t[g].status = "running" <=> \E i \in Inner' : hosts'[i].saved = g BY <3>1 DEF MayRun, Inner
    <3>3. table'[g] = IF g = h THEN b ELSE t[g] BY <3>1, <1>5
    <3>4. CASE g = h BY <3>3, <3>4, <2>1, <1>2, <1>4
    <3>5. CASE g # h BY <3>2, <3>3, <3>5, <1>4
    <3> QED BY <3>4, <3>5
  <2>3. control' = "run" => cur' \in Alive' /\ \A i \in Inner' : hosts'[i].saved # cur'
    BY <2>1, <1>4, <1>6 DEF MayRun
  <2>4. \A i, j \in Inner' : i # j /\ hosts'[i].saved = hosts'[j].saved => hosts'[i].saved = Dangling
    BY DEF MayRun, Inner
  <2> QED BY <2>2, <2>3, <2>4 DEF StackInv
<1> QED
  <2>1. cur' \in FiberPointers BY <1>0, <1>1, <1>4 DEF FiberPointers, Handles
  <2>2. control' \in Controls /\ yielded' \in Arities /\ fault' \in Faults BY <1>0, <1>3, <1>4 DEF Controls, Faults
  <2>3. hosts' \in Seq(Activations) BY DEF MayRun
  <2> QED BY <1>0, <1>5, <1>7, <1>8, <2>1, <2>2, <2>3, InvNext

(* The activations after one more.                                           *)
LEMMA HostsPushed ==
    ASSUME TypeOK, NEW a \in Activations, hosts' = Append(hosts, a)
    PROVE  /\ hosts' \in Seq(Activations) /\ hosts' # <<>> /\ Len(hosts') = Len(hosts) + 1
           /\ \A i \in 1..Len(hosts) : hosts'[i] = hosts[i]
           /\ hosts'[Len(hosts) + 1] = a
BY Types, AppendProperties

LEMMA CallInv ==
    ASSUME Inv, NEW in \in Arities, NEW out \in Arities, Call(in, out), program' = program
    PROVE  Inv'
<1> DEFINE n == Len(table)
           m == Len(hosts)
           f == Fresh(in, out)
           t == Append(table, f)
           a == [initial |-> n + 1, until |-> TRUE, outputs |-> out, call |-> TRUE, saved |-> cur]
<1>0. TypeOK /\ ControlInv /\ StackInv /\ fault = "none" /\ control \in {"run", "host"} BY DEF Inv, Call
<1>1. f \in FiberRecords /\ f.status = "ready" BY <1>0, Types, NewRecordTypes
<1>2. hosts' = Append(hosts, a) /\ Enter(t, n + 1, in) /\ n < program.fibers BY DEF Call
<1>3. /\ n \in Nat /\ m \in Nat /\ program.fibers \in Nat /\ program.fibers <= MaxFibers /\ MaxFibers \in Nat
      /\ table \in Seq(FiberRecords)
  BY <1>0, Types
<1> HIDE DEF f
<1>4. /\ t \in Seq(FiberRecords) /\ Len(t) = n + 1
      /\ \A g \in 1..n : t[g] = table[g]
      /\ t[n + 1] = f
  BY <1>1, <1>3, AppendProperties
<1>5. a \in Activations
  <2>1. n + 1 \in Handles BY <1>2, <1>3 DEF Handles
  <2> QED BY <1>0, <2>1 DEF Activations, TypeOK
<1>6. /\ hosts' \in Seq(Activations) /\ hosts' # <<>> /\ Len(hosts') = m + 1
      /\ \A i \in 1..m : hosts'[i] = hosts[i]
      /\ hosts'[m + 1] = a
  BY <1>0, <1>2, <1>5, HostsPushed
<1>7. AliveIn(t) = Alive \cup {n + 1} /\ n + 1 \notin Alive
  <2> HIDE DEF t
  <2> QED BY <1>1, <1>3, <1>4 DEF AliveIn, Alive
<1>8. a.initial = n + 1 /\ a.call /\ a.until /\ a.saved = cur OBVIOUS
<1>9. \A i \in 2..m + 1 : (i \in Inner /\ i \in 1..m /\ hosts'[i] = hosts[i]) \/ (i = m + 1 /\ hosts'[i] = a)
  BY <1>3, <1>6 DEF Inner
<1>10. ASSUME m + 1 >= 2 PROVE control = "run" /\ cur \in Alive /\ \A i \in Inner : hosts[i].saved # cur
  <2>1. hosts # <<>> BY <1>10, <1>3, EmptySeq
  <2> QED BY <2>1, <1>0 DEF ControlInv, StackInv
<1> HIDE DEF t, a, n, m
<1>11. \A i \in 2..m + 1 :
          /\ hosts'[i].call /\ hosts'[i].until /\ hosts'[i].saved \in AliveIn(t) \cup {Dangling}
  <2> TAKE i \in 2..m + 1
  <2>1. CASE i \in Inner /\ hosts'[i] = hosts[i] BY <2>1, <1>0, <1>7 DEF ControlInv
  <2>2. CASE i = m + 1 /\ hosts'[i] = a
    <3>1. m + 1 >= 2 BY <2>2, <1>3
    <3> QED BY <2>2, <3>1, <1>7, <1>8, <1>10
  <2> QED BY <2>1, <2>2, <1>9
<1>12. \A i \in 1..m + 1 : hosts'[i].initial \in AliveIn(t) \cup {Dangling}
  <2> TAKE i \in 1..m + 1
  <2>1. CASE i \in 1..m BY <2>1, <1>0, <1>6, <1>7 DEF ControlInv, Depths, m
  <2>2. CASE i = m + 1 BY <2>2, <1>6, <1>7, <1>8
  <2> QED BY <2>1, <2>2, <1>3
<1>13. ASSUME NEW g \in AliveIn(t)
       PROVE  t[g].status = "running" <=> \E i \in 2..m + 1 : hosts'[i].saved = g
  <2>1. CASE g \in Alive
    <3>1. g \in 1..n /\ t[g] = table[g] BY <2>1, <1>4 DEF Alive, n
    <3>2. t[g].status = "running" <=> (control = "run" /\ g = cur) \/ \E i \in Inner : hosts[i].saved = g
      BY <2>1, <3>1, <1>0 DEF StackInv
    <3>3. ASSUME control = "run" PROVE m + 1 \in 2..m + 1 /\ hosts'[m + 1].saved = cur
      <4>1. hosts # <<>> BY <3>3, <1>0 DEF ControlInv
      <4>2. m # 0 BY <4>1, <1>0, Types, EmptySeq DEF m
      <4> QED BY <4>2, <1>3, <1>6, <1>8
    <3>4. \A i \in Inner : i \in 2..m + 1 /\ hosts'[i] = hosts[i] BY <1>3, <1>6 DEF Inner, m
    <3>5. ASSUME NEW i \in 2..m + 1, hosts'[i].saved = g
          PROVE  (control = "run" /\ g = cur) \/ \E j \in Inner : hosts[j].saved = g
      <4>1. CASE i \in Inner /\ hosts'[i] = hosts[i] BY <4>1, <3>5
      <4>2. CASE i = m + 1 /\ hosts'[i] = a
        <5>1. m + 1 >= 2 BY <4>2, <1>3
        <5> QED BY <4>2, <5>1, <3>5, <1>8, <1>10
      <4> QED BY <4>1, <4>2, <1>9
    <3> QED BY <3>2, <3>3, <3>4, <3>5
  <2>2. CASE g = n + 1
    <3>1. t[g].status # "running" BY <2>2, <1>1, <1>4
    <3>2. ASSUME NEW i \in 2..m + 1 PROVE hosts'[i].saved # g
      <4>1. g # Dangling BY <2>2, <1>3 DEF Dangling
      <4>2. CASE i \in Inner /\ hosts'[i] = hosts[i] BY <4>1, <4>2, <2>2, <1>0, <1>7 DEF ControlInv
      <4>3. CASE i = m + 1 /\ hosts'[i] = a
        <5>1. m + 1 >= 2 BY <4>3, <1>3
        <5> QED BY <4>3, <5>1, <2>2, <1>7, <1>8, <1>10
      <4> QED BY <4>2, <4>3, <1>9
    <3> QED BY <3>1, <3>2
  <2> QED BY <2>1, <2>2, <1>7
<1>14. \A i, j \in 2..m + 1 : i # j /\ hosts'[i].saved = hosts'[j].saved => hosts'[i].saved = Dangling
  <2>1. ASSUME NEW i \in Inner PROVE hosts[i].saved # cur
    <3>1. m + 1 >= 2 BY <1>3 DEF Inner, m
    <3> QED BY <3>1, <1>10
  <2> SUFFICES ASSUME NEW i \in 2..m + 1, NEW j \in 2..m + 1, i # j, hosts'[i].saved = hosts'[j].saved
               PROVE  hosts'[i].saved = Dangling
    OBVIOUS
  <2>2. CASE (i \in Inner /\ hosts'[i] = hosts[i]) /\ (j \in Inner /\ hosts'[j] = hosts[j])
    BY <2>2, <1>0 DEF StackInv
  <2>3. CASE (i \in Inner /\ hosts'[i] = hosts[i]) /\ (j = m + 1 /\ hosts'[j] = a) BY <2>1, <2>3, <1>8
  <2>4. CASE (i = m + 1 /\ hosts'[i] = a) /\ (j \in Inner /\ hosts'[j] = hosts[j]) BY <2>1, <2>4, <1>8
  <2> QED BY <2>2, <2>3, <2>4, <1>9
<1>15. MayRun(t, hosts', n + 1)
  <2>1. t \in Seq(FiberRecords) /\ Len(t) <= program.fibers BY <1>2, <1>3, <1>4
  <2>2. n + 1 \in AliveIn(t) /\ t[n + 1].status # "running" BY <1>1, <1>4, <1>7
  <2>3. hosts' \in Seq(Activations) /\ hosts' # <<>> /\ Len(hosts') = m + 1 BY <1>6
  <2> QED BY <2>1, <2>2, <2>3, <1>11, <1>12, <1>13, <1>14 DEF MayRun
<1> QED BY <1>0, <1>2, <1>15, EnterInv

LEMMA HostResumeInv ==
    ASSUME Inv, NEW h \in Handles, NEW in \in Arities, NEW out \in Arities, NEW until \in BOOLEAN,
           HostResume(h, in, out, until), program' = program
    PROVE  Inv'
<1> DEFINE a == [initial |-> h, until |-> until, outputs |-> out, call |-> FALSE, saved |-> Null]
<1>0. TypeOK /\ ControlInv /\ StackInv /\ fault = "none" /\ control = "host" BY DEF Inv, HostResume
<1>1. CASE Fault("use of a destroyed fiber") BY <1>1, FaultInv DEF Faults
<1>2. CASE hosts' = Append(hosts, a) /\ Enter(table, h, in)
  <2>1. a \in Activations BY DEF Activations, FiberPointers
  <2>2. a.initial = h OBVIOUS
  <2> HIDE DEF a
  <2>3. Len(hosts) = 0 /\ hosts = <<>> BY <1>0, EmptySeq DEF ControlInv
  <2>4. hosts' \in Seq(Activations) /\ hosts' # <<>> /\ Len(hosts') = 1 /\ hosts'[1] = a
    <3>1. Len(hosts') = Len(hosts) + 1 /\ hosts'[Len(hosts) + 1] = a /\ hosts' \in Seq(Activations) /\ hosts' # <<>>
      BY <1>0, <1>2, <2>1, HostsPushed
    <3> QED BY <2>3, <3>1
  <2>5. h \in Alive /\ table[h].status # "running" /\ AliveIn(table) = Alive
    BY DEF HostResume, Exists, Waits, Alive, AliveIn
  <2>6. Inner = {} /\ 2..Len(hosts') = {} BY <2>3, <2>4 DEF Inner
  <2>7. table \in Seq(FiberRecords) /\ Len(table) <= program.fibers BY <1>0 DEF TypeOK, ControlInv
  <2>8. \A g \in Alive : table[g].status # "running" BY <1>0, <2>6 DEF StackInv
  <2>9. \A i \in 1..Len(hosts') : hosts'[i].initial \in AliveIn(table) \cup {Dangling}
    BY <2>2, <2>4, <2>5
  <2>10. MayRun(table, hosts', h) BY <2>4, <2>5, <2>6, <2>7, <2>8, <2>9 DEF MayRun
  <2> QED BY <1>0, <1>2, <2>10, EnterInv
<1> QED BY <1>1, <1>2 DEF HostResume

(* The activations below the innermost one.                                  *)
LEMMA HostsPopped ==
    ASSUME TypeOK, hosts # <<>>
    PROVE  LET below == SubSeq(hosts, 1, Len(hosts) - 1)
           IN  /\ below \in Seq(Activations)
               /\ Len(hosts) \in Nat \ {0}
               /\ Len(below) = Len(hosts) - 1
               /\ \A i \in 1..Len(hosts) - 1 : below[i] = hosts[i]
               /\ below = <<>> <=> Len(hosts) = 1
               /\ Top = hosts[Len(hosts)] /\ Top \in Activations
<1> DEFINE below == SubSeq(hosts, 1, Len(hosts) - 1)
           n == Len(hosts) - 1
<1>1. Len(hosts) \in Nat \ {0} /\ n \in Nat /\ \A i \in 1..Len(hosts) : hosts[i] \in Activations BY Types
<1>2. below = SubSeq(hosts, 1, n) OBVIOUS
<1> HIDE DEF n, below
<1>3. /\ below \in Seq(Activations) /\ Len(below) = n
      /\ \A i \in 1..n : below[i] = hosts[i]
  <2>1. n \in Int /\ 1 \in Int /\ \A i \in 1..n : hosts[i] \in Activations BY <1>1 DEF n
  <2>2. /\ SubSeq(hosts, 1, n) \in Seq(Activations)
        /\ Len(SubSeq(hosts, 1, n)) = IF 1 <= n THEN n - 1 + 1 ELSE 0
        /\ \A i \in 1..n - 1 + 1 : SubSeq(hosts, 1, n)[i] = hosts[1 + i - 1]
    BY <2>1, SubSeqProperties
  <2>3. \A i \in 1..n : i \in 1..n - 1 + 1 /\ 1 + i - 1 = i BY <2>1
  <2> QED BY <1>1, <1>2, <2>1, <2>2, <2>3
<1>4. below = <<>> <=> n = 0 BY <1>3, EmptySeq
<1>5. Top = hosts[Len(hosts)] /\ Top \in Activations BY <1>1 DEF Top
<1> QED BY <1>1, <1>3, <1>4, <1>5 DEF n, below

(* The activation ends.                                                      *)
LEMMA LeaveInv ==
    ASSUME Inv, fault = "none", control \in {"returned", "panicked"}, Leave, program' = program
    PROVE  Inv'
<1> DEFINE n == Len(hosts)
           below == SubSeq(hosts, 1, n - 1)
           saved == IF Top.call THEN Top.saved ELSE cur
           back  == IF below = <<>> THEN "host" ELSE "run"
           gone  == {Top.initial}
<1>0. TypeOK /\ ControlInv /\ StackInv BY DEF Inv
<1>1. hosts # <<>> BY <1>0 DEF ControlInv
<1>2. /\ below \in Seq(Activations)
      /\ n \in Nat \ {0}
      /\ Len(below) = n - 1
      /\ \A i \in 1..n - 1 : below[i] = hosts[i]
      /\ below = <<>> <=> n = 1
      /\ Top = hosts[n] /\ Top \in Activations
  BY <1>0, <1>1, HostsPopped
<1>3. saved \in FiberPointers BY <1>0, <1>2 DEF Activations, TypeOK
<1>4. \A g \in Alive : table[g].status = "running" <=> \E i \in Inner : hosts[i].saved = g
  BY <1>0 DEF StackInv
<1>5. n \in Depths /\ Inner = 2..n BY <1>2 DEF Depths, Inner
<1>6. n > 1 => /\ n \in Inner /\ Top.call /\ Top.until /\ saved = hosts[n].saved /\ back = "run"
               /\ saved \in Alive \cup {Dangling}
  BY <1>0, <1>2, <1>5 DEF ControlInv
<1>7. n = 1 => back = "host" /\ below = <<>> /\ Inner = {} BY <1>2, <1>5
<1>8. /\ program \in Programs /\ 0 \in Arities /\ control' \in {"host", "run"} =>
            (control' \in Controls /\ 0 \in Arities)
  BY <1>0, Types DEF Controls
<1>9. CASE ~Top.until
  <2>1. hosts' = below /\ cur' = saved /\ control' = back /\ yielded' = 0 /\ UNCHANGED <<table, fault>>
    BY <1>9 DEF Leave
  <2>2. n = 1 BY <1>2, <1>6, <1>9
  <2>3. hosts' = <<>> /\ control' = "host" /\ Len(hosts') = 0 BY <1>7, <2>1, <2>2, EmptySeq
  <2>4. Inner' = {} /\ Depths' = {} /\ Alive' = Alive BY <2>1, <2>3 DEF Inner, Depths, Alive
  <2>5. ControlInv' BY <1>0, <2>1, <2>3, <2>4 DEF ControlInv
  <2>6. StackInv' BY <1>4, <1>7, <2>1, <2>2, <2>3, <2>4 DEF StackInv
  <2> QED BY <1>0, <1>2, <1>3, <1>8, <2>1, <2>3, <2>5, <2>6, InvNext, Types DEF TypeOK
<1>10. CASE \/ Fault("destroy of a destroyed fiber")
            \/ Fault("destroy of a fiber that executes")
            \/ Fault("use of a destroyed fiber")
  BY <1>10, FaultInv DEF Faults
<1>11. CASE /\ Top.until /\ Top.initial # Dangling /\ table[Top.initial].status # "running"
            /\ ~(back = "run" /\ saved = Dangling)
            /\ table' = Trimmed(Freed(gone))
            /\ hosts' = Pointers(below, gone)
            /\ cur' = Pointer(saved, gone)
            /\ control' = back
            /\ yielded' = 0
            /\ UNCHANGED fault
  <2>1. Without(table, table', gone) BY <1>0, <1>11, FreedTrimmed
  <2>2. Alive' = Alive \ gone /\ \A g \in Alive' : table'[g] = table[g] /\ g # Dangling
    BY <1>0, <2>1, WithoutAlive
  <2> HIDE DEF below
  <2>3. /\ hosts' \in Seq(Activations) /\ Len(hosts') = n - 1
        /\ \A i \in 1..n - 1 :
             /\ hosts'[i].initial = Pointer(hosts[i].initial, gone)
             /\ hosts'[i].saved = Pointer(hosts[i].saved, gone)
             /\ hosts'[i].call = hosts[i].call
             /\ hosts'[i].until = hosts[i].until
    <3>1. hosts' = Pointers(below, gone) BY <1>11
    <3> HIDE DEF gone
    <3> QED BY <1>2, <3>1, PointersShape
  <2>4. ASSUME NEW p \in Alive \cup {Dangling}
        PROVE  Pointer(p, gone) \in Alive' \cup {Dangling}
    BY <2>2 DEF Pointer
  <2>5. Inner' = 2..n - 1 /\ Depths' = 1..n - 1 /\ Inner' \subseteq Inner /\ Depths' \subseteq Depths
    BY <1>2, <2>3 DEF Inner, Depths
  <2>6. \A i \in Inner' : i \in 1..n - 1 BY <2>5, <1>2
  <2>7. Top.initial \in Alive BY <1>0, <1>2, <1>5, <1>11 DEF ControlInv
  <2>8. \A i \in Inner : hosts[i].saved \notin gone BY <1>4, <1>11, <2>7
  <2>9. \A i \in Inner' : hosts'[i].saved = hosts[i].saved BY <2>3, <2>5, <2>6, <2>8 DEF Pointer
  <2>10. ControlInv'
    <3>1. Len(table') <= program'.fibers
      <4>1. Len(table') <= Len(table) /\ Len(table) <= program.fibers /\ Len(table') \in Nat /\ Len(table) \in Nat
            /\ program.fibers \in Nat
        BY <1>0, <2>1, Types DEF ControlInv, Without
      <4> QED BY <4>1
    <3>2. control' = "host" <=> hosts' = <<>>
      <4>1. hosts' = <<>> <=> n - 1 = 0 BY <2>3, EmptySeq
      <4> QED BY <4>1, <1>2, <1>6, <1>7, <1>11
    <3>3. ASSUME NEW i \in Inner' PROVE hosts'[i].call /\ hosts'[i].until /\ hosts'[i].saved \in Alive' \cup {Dangling}
      <4>1. hosts[i].call /\ hosts[i].until /\ hosts[i].saved \in Alive \cup {Dangling} BY <1>0, <2>5 DEF ControlInv
      <4> QED BY <4>1, <2>3, <2>4, <2>6
    <3>4. ASSUME NEW i \in Depths' PROVE hosts'[i].initial \in Alive' \cup {Dangling}
      <4>1. hosts[i].initial \in Alive \cup {Dangling} BY <1>0, <2>5 DEF ControlInv
      <4> QED BY <4>1, <2>3, <2>4, <2>5
    <3>5. control' # "returned" BY <1>11
    <3> QED BY <3>1, <3>2, <3>3, <3>4, <3>5 DEF ControlInv
  <2>11. StackInv'
    <3>1. control' = "run" => n > 1 /\ saved = hosts[n].saved /\ saved \in Alive /\ n \in Inner
      BY <1>2, <1>6, <1>7, <1>11
    <3>2. control' = "run" => cur' = hosts[n].saved
      <4>1. control' = "run" => cur' = saved BY <3>1, <2>8, <1>11 DEF Pointer
      <4> QED BY <4>1, <3>1
    <3>3. /\ n > 1 => Inner = Inner' \cup {n}
          /\ ~(n > 1) => Inner = {} /\ Inner' = {}
      <4>1. n \in Nat /\ Inner = 2..n /\ Inner' = 2..n - 1 BY <1>2, <1>5, <2>5
      <4> HIDE DEF n
      <4> QED BY <4>1
    <3>4. control' = "run" <=> n > 1 BY <1>2, <1>6, <1>7, <1>11
    <3>5. ASSUME NEW g \in Alive'
          PROVE  table'[g].status = "running" <=>
                    (control' = "run" /\ g = cur') \/ \E i \in Inner' : hosts'[i].saved = g
      <4>1. g \in Alive /\ table'[g] = table[g] BY <2>2
      <4>2. table[g].status = "running" <=> \E i \in Inner : hosts[i].saved = g BY <4>1, <1>4
      <4>3. CASE n > 1
        <5>1. (\E i \in Inner : hosts[i].saved = g) <=> hosts[n].saved = g \/ \E i \in Inner' : hosts[i].saved = g
          BY <3>3, <4>3
        <5>2. (\E i \in Inner' : hosts[i].saved = g) <=> \E i \in Inner' : hosts'[i].saved = g BY <2>9
        <5> QED BY <4>1, <4>2, <4>3, <5>1, <5>2, <3>2, <3>4
      <4>4. CASE ~(n > 1) BY <4>1, <4>2, <4>4, <3>3, <3>4
      <4> QED BY <4>3, <4>4
    <3>6. control' = "run" => cur' \in Alive' /\ \A i \in Inner' : hosts'[i].saved # cur'
      <4> SUFFICES ASSUME control' = "run" PROVE cur' \in Alive' /\ \A i \in Inner' : hosts'[i].saved # cur'
        OBVIOUS
      <4>1. n \in Inner /\ cur' = hosts[n].saved /\ cur' \in Alive BY <3>1, <3>2
      <4>2. cur' \in Alive' BY <4>1, <2>2, <2>8
      <4>3. cur' # Dangling BY <4>2, <2>2
      <4>4. \A i \in Inner' : i # n BY <2>5, <1>2
      <4> QED BY <4>1, <4>2, <4>3, <4>4, <2>5, <2>9, <1>0 DEF StackInv
    <3>7. \A i, j \in Inner' : i # j /\ hosts'[i].saved = hosts'[j].saved => hosts'[i].saved = Dangling
      BY <1>0, <2>5, <2>9 DEF StackInv
    <3> QED BY <3>5, <3>6, <3>7 DEF StackInv
  <2> QED
    <3>1. table' \in Seq(FiberRecords) BY <2>1 DEF Without
    <3>2. cur' \in FiberPointers BY <1>3, <1>11 DEF Pointer, FiberPointers
    <3>3. control' \in Controls /\ yielded' \in Arities /\ fault' \in Faults /\ program \in Programs
      BY <1>0, <1>11, Types DEF Controls, TypeOK
    <3> QED BY <2>3, <2>10, <2>11, <3>1, <3>2, <3>3, InvNext
<1> QED
  <2> HIDE DEF saved, back, below, gone
  <2> QED BY <1>9, <1>10, <1>11 DEF Leave, saved, back, below, gone

LEMMA ReturnInv ==
    ASSUME Inv, Return \/ ReturnPanic, program' = program
    PROVE  Inv'
<1>0. TypeOK /\ ControlInv /\ StackInv /\ fault = "none" /\ control \in {"returned", "panicked"}
  BY DEF Inv, Return, ReturnPanic
<1>1. CASE Fault("suspend() of a fiber that does not execute") BY <1>1, FaultInv DEF Faults
<1>2. CASE Leave BY <1>0, <1>2, LeaveInv
<1>3. CASE control = "returned" /\ Enter(table, cur, 0) /\ UNCHANGED hosts
  <2>1. table \in Seq(FiberRecords) /\ Len(table) <= program.fibers /\ hosts \in Seq(Activations) /\ hosts # <<>>
    BY <1>0 DEF TypeOK, ControlInv
  <2>2. AliveIn(table) = Alive /\ cur \in Alive /\ table[cur].status # "running"
    BY <1>0, <1>3 DEF AliveIn, Alive, ControlInv
  <2>3. hosts' = hosts BY <1>3
  <2>4. \A i \in 2..Len(hosts) : hosts[i].call /\ hosts[i].until /\ hosts[i].saved \in Alive \cup {Dangling}
    BY <1>0 DEF ControlInv, Inner
  <2>5. \A i \in 1..Len(hosts) : hosts[i].initial \in Alive \cup {Dangling} BY <1>0 DEF ControlInv, Depths
  <2>6. \A g \in Alive : table[g].status = "running" <=> \E i \in 2..Len(hosts) : hosts[i].saved = g
    BY <1>0, <1>3 DEF StackInv, Inner
  <2>7. \A i, j \in 2..Len(hosts) : i # j /\ hosts[i].saved = hosts[j].saved => hosts[i].saved = Dangling
    BY <1>0 DEF StackInv, Inner
  <2>8. MayRun(table, hosts', cur) BY <2>1, <2>2, <2>3, <2>4, <2>5, <2>6, <2>7 DEF MayRun
  <2> QED BY <1>0, <1>3, <2>8, EnterInv
<1> QED BY <1>0, <1>1, <1>2, <1>3 DEF Return, ReturnPanic

-----------------------------------------------------------------------------
(* The invariant *)

LEMMA InitInv == Init => Inv
<1> SUFFICES ASSUME Init PROVE Inv OBVIOUS
<1>1. /\ program \in Programs /\ hosts = <<>> /\ control = "host" /\ yielded = 0 /\ fault = "none"
  BY DEF Init
<1>2. /\ 0 \in Arities /\ program.fibers \in Nat \ {0} /\ program.fibers <= MaxFibers /\ MaxFibers \in Nat
  BY <1>1, FibersAssumption DEF FibersAssumption, ProgramKinds, Arities
<1>3. hosts \in Seq(Activations) /\ Len(hosts) = 0 BY <1>1, EmptySeq
<1>4. Inner = {} /\ Depths = {} BY <1>3 DEF Inner, Depths
<1>5. CASE table = <<>> /\ cur = Null
  <2>1. table \in Seq(FiberRecords) /\ Len(table) = 0 BY <1>5, EmptySeq
  <2>2. Alive = {} BY <2>1 DEF Alive
  <2>3. TypeOK BY <1>1, <1>2, <1>3, <1>5, <2>1 DEF TypeOK, FiberPointers, Controls, Faults
  <2>4. ControlInv /\ StackInv BY <1>1, <1>2, <1>4, <2>1, <2>2 DEF ControlInv, StackInv
  <2> QED BY <2>3, <2>4 DEF Inv
<1>6. CASE \E in, out \in Arities : table = <<Fresh(in, out)>> /\ cur = 1
  <2>1. PICK in \in Arities, out \in Arities : table = <<Fresh(in, out)>> BY <1>6
  <2> DEFINE f == Fresh(in, out)
  <2>2. f \in FiberRecords /\ f.status = "ready" BY <1>1, NewRecordTypes
  <2>3. table = <<f>> BY <2>1
  <2> HIDE DEF f
  <2>4. table \in Seq(FiberRecords) /\ Len(table) = 1 /\ table[1] = f BY <2>2, <2>3
  <2>5. 1 \in FiberPointers BY <1>2 DEF FiberPointers, Handles
  <2>6. TypeOK BY <1>1, <1>2, <1>3, <1>6, <2>4, <2>5 DEF TypeOK, Controls, Faults
  <2>7. \A h \in Alive : table[h].status # "running" BY <2>2, <2>4 DEF Alive
  <2>8. ControlInv /\ StackInv BY <1>1, <1>2, <1>4, <2>4, <2>7 DEF ControlInv, StackInv
  <2> QED BY <2>6, <2>8 DEF Inv
<1> QED BY <1>5, <1>6 DEF Init

LEMMA NextInv == Inv /\ [Next]_vars => Inv'
<1> SUFFICES ASSUME Inv, [Next]_vars PROVE Inv' OBVIOUS
<1>1. CASE UNCHANGED vars
  <2> USE <1>1 DEF vars
  <2>1. TypeOK' BY DEF Inv, TypeOK, FiberRecords, Arities, Activations
  <2>2. ControlInv' <=> ControlInv BY DEF ControlInv, Inner, Depths, Alive
  <2>3. StackInv' <=> StackInv BY DEF StackInv, Inner, Alive
  <2> QED BY <2>1, <2>2, <2>3 DEF Inv
<1>2. CASE Next
  <2>0. program' = program BY <1>2 DEF Next
  <2>1. ASSUME NEW in \in Arities, NEW out \in Arities, Create(in, out) PROVE Inv' BY <2>0, <2>1, CreateInv
  <2>2. ASSUME NEW in \in Arities, NEW out \in Arities, Call(in, out) PROVE Inv' BY <2>0, <2>2, CallInv
  <2>3. ASSUME NEW in \in Arities, NEW out \in Arities, Suspend(in, out) PROVE Inv' BY <2>0, <2>3, SuspendInv
  <2>4. ASSUME NEW in \in Arities, NEW out \in Arities, NEW h \in Handles,
               Resume(h, in, out) \/ Transfer(h, in, out)
        PROVE  Inv'
    BY <2>0, <2>4, ResumeInv
  <2>5. ASSUME NEW in \in Arities, NEW out \in Arities, NEW h \in Handles, NEW until \in BOOLEAN,
               HostResume(h, in, out, until)
        PROVE  Inv'
    BY <2>0, <2>5, HostResumeInv
  <2>6. ASSUME NEW h \in Handles, DestroyFiber(h) PROVE Inv' BY <2>0, <2>6, DestroyFiberInv
  <2>7. ASSUME NEW handles \in SUBSET (1..Len(table)), Collect(handles) PROVE Inv' BY <2>0, <2>7, CollectInv
  <2>8. CASE Exit BY <2>0, <2>8, ExitInv
  <2>9. CASE PanicInstruction BY <2>0, <2>9, PanicInv DEF PanicInstruction
  <2>10. CASE ReturnFree BY <2>0, <2>10, ReturnFreeInv
  <2>11. CASE Return \/ ReturnPanic BY <2>0, <2>11, ReturnInv
  <2> QED BY <1>2, <2>1, <2>2, <2>3, <2>4, <2>5, <2>6, <2>7, <2>8, <2>9, <2>10, <2>11 DEF Next
<1> QED BY <1>1, <1>2

LEMMA Invariant == Spec => []Inv
<1>1. Init => Inv BY InitInv
<1>2. Inv /\ [Next]_vars => Inv' BY NextInv
<1> QED BY <1>1, <1>2, PTL DEF Spec

(* Every variable keeps its type.                                            *)
THEOREM FibersTypeCorrect == Spec => []TypeOK
<1>1. Inv => TypeOK BY DEF Inv
<1> QED BY <1>1, Invariant, PTL

(* The fibers that run are those that have frames on the machine stack, the  *)
(* current one and the ones below an activation, and each of them once.      *)
THEOREM RunningAreOnStack == Spec => []RunningFibersAreOnStack
<1>1. Inv => RunningFibersAreOnStack
  <2> SUFFICES ASSUME Inv, fault = "none" PROVE RunningFibersAreOnStack
    BY DEF RunningFibersAreOnStack
  <2>1. ControlInv /\ StackInv BY DEF Inv
  <2>2. Below = {hosts[i].saved : i \in Inner} BY DEF Below, Inner
  <2>3. ASSUME NEW h \in Alive
        PROVE  table[h].status = "running" <=> (control = "run" /\ h = cur) \/ h \in Below
    BY <2>1, <2>2 DEF StackInv
  <2>4. Below \ {Dangling} \subseteq Alive BY <2>1, <2>2 DEF ControlInv
  <2>5. control = "run" => cur \in Alive \ Below BY <2>1, <2>2 DEF StackInv
  <2>6. Dangling \notin Alive
    <3>1. Len(table) \in Nat BY Types DEF Inv
    <3> QED BY <3>1 DEF Dangling, Alive
  <2>7. {h \in Alive : table[h].status = "running"}
           = (IF control = "run" THEN {cur} ELSE {}) \cup (Below \ {Dangling})
    BY <2>3, <2>4, <2>5, <2>6
  <2>8. Dangling \notin Below => \A i, j \in 2..Len(hosts) : i # j => hosts[i].saved # hosts[j].saved
    BY <2>1, <2>2 DEF StackInv, Inner
  <2> QED BY <2>5, <2>7, <2>8 DEF RunningFibersAreOnStack
<1> QED BY <1>1, Invariant, PTL

-----------------------------------------------------------------------------
(* The life of a fiber *)

(* The status of a fiber may go from old to new.                             *)
Onward(old, new) ==
    /\ old = "done"  => new \in {"done", "freed"}
    /\ old = "freed" => new = "freed"
    /\ old \in {"running", "suspended"} => new # "ready"

Forward(t, u) == \A h \in 1..Len(t) : h \in 1..Len(u) => Onward(t[h].status, u[h].status)

(* A fiber that is neither done nor destroyed, and is not made ready.        *)
LEMMA ForwardExcept ==
    ASSUME NEW t \in Seq(FiberRecords), NEW h \in 1..Len(t), NEW r \in FiberRecords,
           t[h].status \notin {"done", "freed"}, r.status # "ready"
    PROVE  Forward(t, [t EXCEPT ![h] = r])
<1>1. \A g \in 1..Len(t) : [t EXCEPT ![h] = r][g] = IF g = h THEN r ELSE t[g] BY ExceptSeq
<1> QED BY <1>1 DEF Forward, Onward

LEMMA ForwardWithout ==
    ASSUME NEW t, NEW u, NEW handles, Without(t, u, handles)
    PROVE  Forward(t, u)
<1>1. Remains.status = "freed" BY DEF Remains
<1> QED BY <1>1 DEF Without, Forward, Onward

(* The current fiber stops, and perhaps another one goes on.                 *)
LEMMA ForwardSwitch ==
    ASSUME Inv, Executing, NEW a \in FiberRecords, a.status # "ready",
           NEW h \in 1..Len(table), table[h].status \in {"ready", "suspended"}, NEW b \in FiberRecords, b.status # "ready"
    PROVE  /\ Forward(table, [table EXCEPT ![cur] = a])
           /\ Forward(table, [table EXCEPT ![cur] = a, ![h] = b])
           /\ [table EXCEPT ![cur] = a][h] = table[h]
<1> DEFINE t == [table EXCEPT ![cur] = a]
<1>1. cur \in 1..Len(table) /\ table[cur].status = "running" /\ h # cur BY Current
<1>2. table \in Seq(FiberRecords) BY Types DEF Inv
<1>3. Forward(table, t) BY <1>1, <1>2, ForwardExcept
<1>4. t \in Seq(FiberRecords) /\ Len(t) = Len(table) /\ t[h] = table[h] BY <1>1, <1>2, ExceptSeq
<1> HIDE DEF t
<1>5. Forward(t, [t EXCEPT ![h] = b]) BY <1>4, ForwardExcept
<1>6. Len([t EXCEPT ![h] = b]) = Len(t) /\ [t EXCEPT ![h] = b][h] = b
      /\ \A g \in 1..Len(t) : g # h => [t EXCEPT ![h] = b][g] = t[g]
  BY <1>4, ExceptSeq
<1>7. Forward(table, [t EXCEPT ![h] = b])
  BY <1>3, <1>4, <1>6 DEF Forward, Onward
<1> QED BY <1>3, <1>4, <1>7 DEF t

LEMMA ForwardPanic ==
    ASSUME Inv, Executing, Panic
    PROVE  Forward(table, table')
<1>1. cur \in 1..Len(table) /\ table[cur].status = "running" /\ table[cur] \in FiberRecords BY Current
<1>2. TypeOK /\ table \in Seq(FiberRecords) /\ 0 \in Arities /\ program \in Programs /\ 0 \in 0..MaxFibers
  BY Types DEF Inv
<1> DEFINE a == SuspendedFor(table[cur], 0)
<1>3. table' = [table EXCEPT ![cur] = a] BY <1>1 DEF Panic
<1>4. a \in FiberRecords /\ a.status = "suspended" BY <1>1, <1>2, RecordTypes
<1> HIDE DEF a
<1> QED BY <1>1, <1>2, <1>3, <1>4, ForwardExcept

LEMMA ForwardEnter ==
    ASSUME program \in Programs, NEW t \in Seq(FiberRecords), NEW h \in 1..Len(t), t[h].status \in {"ready", "suspended"},
           NEW in, Enter(t, h, in)
    PROVE  Forward(t, table') /\ Len(table') = Len(t)
<1> DEFINE r == ResumedBy(t[h], Null)
           s == SuspendedFor(r, 0)
           b == IF t[h].expects = in THEN r ELSE s
<1>1. t[h] \in FiberRecords BY LenProperties
<1>2. b \in FiberRecords /\ b.status # "ready"
  <2>1. Null \in 0..MaxFibers /\ 0 \in Arities BY FibersAssumption DEF FibersAssumption, Null, Arities
  <2>2. r \in FiberRecords /\ r.status = "running" BY <1>1, <2>1, RecordTypes
  <2> HIDE DEF r
  <2>3. s \in FiberRecords /\ s.status = "suspended" BY <2>1, <2>2, RecordTypes
  <2> HIDE DEF s
  <2> QED BY <2>2, <2>3
<1>3. table' = [t EXCEPT ![h] = b] BY DEF Enter
<1> HIDE DEF b
<1>4. h \in 1..Len(t) /\ t[h].status # "done" /\ t[h].status # "freed" OBVIOUS
<1>5. Forward(t, table') BY <1>2, <1>3, <1>4, ForwardExcept
<1>6. Len(table') = Len(t) BY <1>2, <1>3, <1>4, ExceptSeq
<1> QED BY <1>5, <1>6

LEMMA ForwardSame == ASSUME NEW t PROVE Forward(t, t)
BY DEF Forward, Onward

LEMMA NextForward ==
    ASSUME Inv, Next
    PROVE  Forward(table, table')
<1>0. TypeOK /\ table \in Seq(FiberRecords) /\ program \in Programs /\ 0 \in Arities /\ Len(table) \in Nat
      /\ 0 \in 0..MaxFibers
  BY Types DEF Inv
<1>1. ASSUME NEW what, Fault(what) PROVE Forward(table, table') BY <1>1, ForwardSame DEF Fault
<1>2. ASSUME NEW in \in Arities, NEW out \in Arities, Create(in, out) PROVE Forward(table, table')
  <2> DEFINE f == Fresh(in, out)
  <2>1. f \in FiberRecords /\ table' = Append(table, f) BY <1>0, <1>2, NewRecordTypes DEF Create
  <2> HIDE DEF f
  <2>2. \A h \in 1..Len(table) : table'[h] = table[h] BY <1>0, <2>1, AppendProperties
  <2> QED BY <2>2 DEF Forward, Onward
<1>3. ASSUME NEW in \in Arities, NEW out \in Arities, Call(in, out) PROVE Forward(table, table')
  <2> DEFINE f == Fresh(in, out)
             n == Len(table)
             t == Append(table, f)
  <2>1. f \in FiberRecords /\ f.status = "ready" /\ Enter(t, n + 1, in) BY <1>0, <1>3, NewRecordTypes DEF Call
  <2> HIDE DEF f
  <2>2. t \in Seq(FiberRecords) /\ Len(t) = n + 1 /\ t[n + 1] = f /\ \A h \in 1..n : t[h] = table[h]
    BY <1>0, <2>1, AppendProperties
  <2> HIDE DEF t
  <2>3. Forward(t, table') BY <1>0, <2>1, <2>2, ForwardEnter
  <2> QED BY <1>0, <2>2, <2>3 DEF Forward
<1>4. ASSUME NEW in \in Arities, NEW out \in Arities, NEW h, NEW p \in 0..MaxFibers,
             Executing, Accepts(h, in), SwitchTo(h, out, p)
      PROVE  Forward(table, table')
  <2> DEFINE a == SuspendedFor(table[cur], out)
             b == ResumedBy(table[h], p)
  <2>1. h \in 1..Len(table) /\ table[h].status \in {"ready", "suspended"} BY <1>4 DEF Accepts, Exists, Waits
  <2>2. table[cur] \in FiberRecords /\ table[h] \in FiberRecords BY <1>0, <1>4, <2>1, Current, Types
  <2>3. a \in FiberRecords /\ a.status = "suspended" BY <1>0, <2>2, RecordTypes
  <2>4. b \in FiberRecords /\ b.status = "running" BY <1>0, <2>2, RecordTypes
  <2>5. [table EXCEPT ![cur] = a][h] = table[h]
    <3> HIDE DEF a, b
    <3> QED BY <1>4, <2>1, <2>3, <2>4, ForwardSwitch
  <2>6. table' = [table EXCEPT ![cur] = a, ![h] = b] BY <1>4, <2>5 DEF SwitchTo
  <2> HIDE DEF a, b
  <2> QED BY <1>4, <2>1, <2>3, <2>4, <2>6, ForwardSwitch
<1>5. ASSUME NEW in \in Arities, NEW out \in Arities, NEW h \in Handles, Resume(h, in, out) \/ Transfer(h, in, out)
      PROVE  Forward(table, table')
  <2>1. Executing BY <1>5 DEF Resume, Transfer
  <2>2. cur \in 0..MaxFibers /\ table[cur].parent \in 0..MaxFibers BY <1>0, <2>1, Current, Types
  <2> QED BY <1>4, <1>5, <2>1, <2>2, ForwardPanic DEF Resume, Transfer
<1>6. ASSUME NEW in \in Arities, NEW out \in Arities, Suspend(in, out) PROVE Forward(table, table')
  <2> DEFINE p == table[cur].parent
             a == SuspendedFor(table[cur], out)
             b == Resumed(table[p])
  <2>1. Executing BY <1>6 DEF Suspend
  <2>2. cur \in 1..Len(table) /\ table[cur] \in FiberRecords /\ table[cur].status = "running" BY <2>1, Current
  <2>3. a \in FiberRecords /\ a.status = "suspended" BY <1>0, <2>2, RecordTypes
  <2>4. CASE table' = [table EXCEPT ![cur] = a]
    <3> HIDE DEF a
    <3> QED BY <1>0, <2>2, <2>3, <2>4, ForwardExcept
  <2>5. CASE Panic BY <2>1, <2>5, ForwardPanic
  <2>6. CASE Exists(p) /\ Waits(p) /\ table' = [table EXCEPT ![cur] = SuspendedFor(@, out), ![p] = Resumed(@)]
    <3> HIDE DEF p
    <3>1. p \in 1..Len(table) /\ table[p].status \in {"ready", "suspended"} BY <2>6 DEF Exists, Waits
    <3>2. b \in FiberRecords /\ b.status = "running" BY <1>0, <3>1, Types, RecordTypes
    <3>3. [table EXCEPT ![cur] = a][p] = table[p]
      <4> HIDE DEF a, b
      <4> QED BY <2>1, <2>3, <3>1, <3>2, ForwardSwitch
    <3>4. table' = [table EXCEPT ![cur] = a, ![p] = b] BY <2>6, <3>3
    <3> HIDE DEF a, b
    <3> QED BY <2>1, <2>3, <3>1, <3>2, <3>4, ForwardSwitch
  <2> QED BY <1>1, <1>6, <2>4, <2>5, <2>6 DEF Suspend
<1>7. CASE Exit
  <2> DEFINE p == table[cur].parent
             a == Done(table[cur])
             d == [table EXCEPT ![cur] = a]
             b == Resumed(table[p])
  <2>1. Executing BY <1>7 DEF Exit
  <2>2. cur \in 1..Len(table) /\ table[cur] \in FiberRecords /\ table[cur].status = "running" BY <2>1, Current
  <2>3. a \in FiberRecords /\ a.status = "done" BY <1>0, <2>2, RecordTypes
  <2>4. CASE table' = d
    <3> HIDE DEF a
    <3> QED BY <1>0, <2>2, <2>3, <2>4, ForwardExcept
  <2>5. CASE Exists(p) /\ Waits(p) /\ table' = [d EXCEPT ![p] = Resumed(@)]
    <3> HIDE DEF p
    <3>1. p \in 1..Len(table) /\ table[p].status \in {"ready", "suspended"} BY <2>5 DEF Exists, Waits
    <3>2. b \in FiberRecords /\ b.status = "running" BY <1>0, <3>1, Types, RecordTypes
    <3>3. d[p] = table[p]
      <4> HIDE DEF a, b
      <4> QED BY <2>1, <2>3, <3>1, <3>2, ForwardSwitch
    <3>4. table' = [table EXCEPT ![cur] = a, ![p] = b] BY <2>5, <3>3
    <3> HIDE DEF a, b
    <3> QED BY <2>1, <2>3, <3>1, <3>2, <3>4, ForwardSwitch
  <2>6. \/ table' = d
        \/ Exists(p) /\ Waits(p) /\ table' = [d EXCEPT ![p] = Resumed(@)]
        \/ \E what \in Faults : Fault(what)
    BY <1>7 DEF Exit, Faults
  <2> HIDE DEF p, d
  <2> QED BY <1>1, <2>4, <2>5, <2>6
<1>8. CASE PanicInstruction BY <1>8, ForwardPanic DEF PanicInstruction
<1>9. ASSUME NEW h \in Handles, DestroyFiber(h) PROVE Forward(table, table')
  <2>1. CASE Exists(h)
    <3>1. Without(table, Trimmed(Freed({h})), {h}) BY <1>0, FreedTrimmed
    <3>2. table' = Trimmed(Freed({h})) \/ table' = table BY <1>9, <2>1 DEF DestroyFiber, Destroy, Fault
    <3> QED BY <3>1, <3>2, ForwardWithout, ForwardSame
  <2>2. CASE ~Exists(h) BY <1>9, <2>2, ForwardPanic DEF DestroyFiber
  <2> QED BY <2>1, <2>2
<1>10. ASSUME NEW handles, Collect(handles) PROVE Forward(table, table')
  <2>1. Without(table, Freed(handles), handles) BY <1>0, FreedShape
  <2>2. table' = Freed(handles) BY <1>10 DEF Collect, Destroy
  <2> QED BY <2>1, <2>2, ForwardWithout
<1>11. CASE ReturnFree
  <2>1. Without(table, table', {}) BY <1>0, <1>11, TrimmedShape DEF ReturnFree
  <2> QED BY <2>1, ForwardWithout
<1>12. ASSUME NEW h \in Handles, NEW in \in Arities, NEW out \in Arities, NEW until \in BOOLEAN,
              HostResume(h, in, out, until)
       PROVE  Forward(table, table')
  <2>1. h \in 1..Len(table) /\ table[h].status \in {"ready", "suspended"} BY <1>12 DEF HostResume, Exists, Waits
  <2>2. CASE Enter(table, h, in) BY <1>0, <2>1, <2>2, ForwardEnter
  <2> QED BY <1>1, <1>12, <2>2 DEF HostResume
<1>13. ASSUME Leave PROVE Forward(table, table')
  <2>1. Without(table, Trimmed(Freed({Top.initial})), {Top.initial}) BY <1>0, FreedTrimmed
  <2>2. table' = table \/ table' = Trimmed(Freed({Top.initial})) BY <1>13 DEF Leave, Fault
  <2> QED BY <2>1, <2>2, ForwardWithout, ForwardSame
<1>14. CASE Return
  <2>1. control = "returned" /\ fault = "none" BY <1>14 DEF Return
  <2>2. cur \in 1..Len(table) /\ table[cur].status \in {"suspended", "done"} BY <2>1 DEF Inv, ControlInv, Alive
  <2>3. CASE Enter(table, cur, 0) /\ table[cur].status # "done"
    <3>1. table[cur].status \in {"ready", "suspended"} BY <2>2, <2>3
    <3> QED BY <1>0, <2>2, <2>3, <3>1, ForwardEnter
  <2> QED BY <1>1, <1>13, <1>14, <2>3 DEF Return
<1>15. CASE ReturnPanic BY <1>13, <1>15 DEF ReturnPanic
<1> QED BY <1>2, <1>3, <1>5, <1>6, <1>7, <1>8, <1>9, <1>10, <1>11, <1>12, <1>14, <1>15 DEF Next

(* A fiber that is done stays done until it is destroyed, one that has been  *)
(* destroyed is gone, and one that has started is never ready again.         *)
THEOREM LivesGoForward == Spec => LifeGoesForward
<1>1. Inv /\ [Next]_vars =>
         [\A h \in 1..Len(table) : h \in 1..Len(table') =>
             LET old == table[h].status
                 new == table'[h].status
             IN  /\ old = "done"  => new \in {"done", "freed"}
                 /\ old = "freed" => new = "freed"
                 /\ old \in {"running", "suspended"} => new # "ready"]_vars
  BY NextForward DEF Forward, Onward
<1> QED BY <1>1, Invariant, PTL DEF Spec, LifeGoesForward

-----------------------------------------------------------------------------
(* What the rules of a disciplined program are good for.                     *)
(*                                                                           *)
(* The fibers on the machine stack are the roots of a forest of parents:     *)
(* each has a chain of fibers that wait for it, and no fiber waits in two    *)
(* chains, or twice in one.  The lemmas about chains are about any table and *)
(* any set of roots; the steps of Fibers are combinations of a few changes   *)
(* of table and roots.                                                       *)


(* The set S has the parents of f and of all of its own.                     *)
Closed(t, f, S) ==
    \A h \in 1..Len(t) : h = f \/ h \in S =>
        (t[h].parent \in 1..Len(t) => t[h].parent \in S)

(* Ancestors, of the table t                                                 *)
Anc(t, f) == {h \in 1..Len(t) : \A S \in SUBSET (1..Len(t)) : Closed(t, f, S) => h \in S}

(* The ancestors that Fibers defines are these.                              *)
LEMMA AncestorsAre == \A f : Ancestors(f) = Anc(table, f)
<1> TAKE f
<1>1. ASSUME NEW S \in SUBSET (1..Len(table))
      PROVE  Parents({f} \cup S) \cap 1..Len(table) \subseteq S <=> Closed(table, f, S)
  BY DEF Parents, Closed
<1> QED BY <1>1 DEF Ancestors, Anc

(* The ancestors are closed, ...                                             *)
LEMMA AncClosed ==
    ASSUME NEW t, NEW f
    PROVE  Closed(t, f, Anc(t, f)) /\ Anc(t, f) \subseteq 1..Len(t)
<1> SUFFICES ASSUME NEW h \in 1..Len(t), h = f \/ h \in Anc(t, f), t[h].parent \in 1..Len(t)
             PROVE  t[h].parent \in Anc(t, f)
  BY DEF Closed, Anc
<1> SUFFICES ASSUME NEW S \in SUBSET (1..Len(t)), Closed(t, f, S)
             PROVE  t[h].parent \in S
  BY DEF Anc
<1>1. h = f \/ h \in S BY DEF Anc
<1> QED BY <1>1 DEF Closed

(* ... and every closed set has them.                                        *)
LEMMA AncLeast ==
    ASSUME NEW t, NEW f, NEW S, Closed(t, f, S)
    PROVE  Anc(t, f) \subseteq S
<1> DEFINE R == S \cap 1..Len(t)
<1>1. R \in SUBSET (1..Len(t)) OBVIOUS
<1>2. Closed(t, f, R) BY DEF Closed
<1> HIDE DEF R
<1>3. Anc(t, f) \subseteq R BY <1>1, <1>2 DEF Anc
<1> QED BY <1>3 DEF R

(* A fiber without a parent has none.                                        *)
LEMMA AncNone ==
    ASSUME NEW t, NEW f, t[f].parent \notin 1..Len(t)
    PROVE  Anc(t, f) = {}
<1>1. Closed(t, f, {}) BY DEF Closed
<1> QED BY <1>1, AncLeast

(* An ancestor of an ancestor is an ancestor.                                *)
LEMMA AncTransitive ==
    ASSUME NEW t, NEW f, NEW h \in Anc(t, f)
    PROVE  Anc(t, h) \subseteq Anc(t, f)
<1>1. Closed(t, f, Anc(t, f)) /\ Anc(t, f) \subseteq 1..Len(t) BY AncClosed
<1>2. Closed(t, h, Anc(t, f)) BY <1>1 DEF Closed
<1> QED BY <1>2, AncLeast

(* The ancestors of f are its parent p and those of p.                       *)
LEMMA AncParent ==
    ASSUME NEW t, NEW f \in 1..Len(t), NEW p \in 1..Len(t), t[f].parent = p
    PROVE  Anc(t, f) = {p} \cup Anc(t, p)
<1>1. Closed(t, f, Anc(t, f)) /\ Closed(t, p, Anc(t, p)) BY AncClosed
<1>2. p \in Anc(t, f) BY <1>1 DEF Closed
<1>3. Anc(t, p) \subseteq Anc(t, f) BY <1>2, AncTransitive
<1>4. Closed(t, f, {p} \cup Anc(t, p)) BY <1>1 DEF Closed
<1>5. Anc(t, f) \subseteq {p} \cup Anc(t, p) BY <1>4, AncLeast
<1> QED BY <1>2, <1>3, <1>5

(* Only the parents of f and its ancestors matter.                           *)
LEMMA AncFrame ==
    ASSUME NEW t, NEW u, NEW f \in 1..Len(t), f \in 1..Len(u),
           \A h \in {f} \cup Anc(t, f) :
               /\ h \in 1..Len(u)
               /\ u[h].parent = t[h].parent
               /\ t[h].parent \in 1..Len(t) <=> t[h].parent \in 1..Len(u)
    PROVE  Anc(u, f) = Anc(t, f)
<1> DEFINE T == Anc(t, f)
           U == Anc(u, f)
<1>1. Closed(t, f, T) /\ T \subseteq 1..Len(t) /\ Closed(u, f, U) /\ U \subseteq 1..Len(u) BY AncClosed
<1>2. Closed(u, f, T) BY <1>1 DEF Closed
<1>3. Closed(t, f, T \cap U) BY <1>1 DEF Closed
<1>4. U \subseteq T BY <1>2, AncLeast
<1>5. T \subseteq T \cap U BY <1>3, AncLeast
<1> QED BY <1>4, <1>5

-----------------------------------------------------------------------------
(* Chains *)

Linked(t, h) == t[h].parent = Null \/ (t[h].parent \in 1..Len(t) /\ t[t[h].parent].status # "freed")

(* From every root in F, the parents form a chain of suspended fibers, and   *)
(* no two chains meet.                                                       *)
Chains(t, F) ==
    /\ \A f \in F : f \in 1..Len(t) /\ Linked(t, f)
    /\ \A f \in F : \A h \in Anc(t, f) : t[h].status = "suspended" /\ Linked(t, h) /\ h \notin Anc(t, h)
    /\ \A f, g \in F : f # g => Anc(t, f) \cap Anc(t, g) = {}

(* Without a change to the parents of roots and chains, and to the state of  *)
(* the fibers in chains, the chains are the same.                            *)
LEMMA ChainsKept ==
    ASSUME NEW t, NEW u, NEW F, Chains(t, F),
           \A f \in F : f \in 1..Len(u) /\ u[f].parent = t[f].parent,
           \A f \in F : \A h \in Anc(t, f) :
               h \in 1..Len(u) /\ u[h].parent = t[h].parent /\ u[h].status = "suspended",
           Len(t) \in Nat, Len(u) \in Nat
    PROVE  Chains(u, F) /\ \A f \in F : Anc(u, f) = Anc(t, f)
<1>1. ASSUME NEW f \in F, NEW h \in {f} \cup Anc(t, f)
      PROVE  /\ h \in 1..Len(t) /\ h \in 1..Len(u)
             /\ u[h].parent = t[h].parent
             /\ t[h].parent \in 1..Len(t) <=> t[h].parent \in 1..Len(u)
             /\ Linked(u, h)
  <2>1. Closed(t, f, Anc(t, f)) /\ Anc(t, f) \subseteq 1..Len(t) BY AncClosed
  <2>2. h \in 1..Len(t) /\ h \in 1..Len(u) /\ u[h].parent = t[h].parent /\ Linked(t, h)
    BY <2>1 DEF Chains
  <2>3. CASE t[h].parent = Null BY <2>2, <2>3 DEF Linked, Null
  <2>4. CASE t[h].parent \in 1..Len(t)
    <3>1. t[h].parent \in Anc(t, f) BY <2>1, <2>2, <2>4 DEF Closed
    <3>2. t[h].parent \in 1..Len(u) /\ u[t[h].parent].status = "suspended" BY <3>1
    <3> QED BY <2>2, <2>4, <3>2 DEF Linked
  <2> QED BY <2>2, <2>3, <2>4 DEF Linked
<1>2. ASSUME NEW f \in F PROVE Anc(u, f) = Anc(t, f)
  <2>1. f \in 1..Len(t) /\ f \in 1..Len(u) BY <1>1
  <2>2. \A h \in {f} \cup Anc(t, f) :
               /\ h \in 1..Len(u)
               /\ u[h].parent = t[h].parent
               /\ t[h].parent \in 1..Len(t) <=> t[h].parent \in 1..Len(u)
    BY <1>1
  <2> QED BY <2>1, <2>2, AncFrame
<1>3. ASSUME NEW f \in F, NEW g \in Anc(t, f) PROVE Anc(u, g) = Anc(t, g)
  <2>1. g \in 1..Len(t) /\ g \in 1..Len(u) BY <1>1
  <2>2. {g} \cup Anc(t, g) \subseteq Anc(t, f) BY AncTransitive
  <2>3. \A h \in {g} \cup Anc(t, g) :
               /\ h \in 1..Len(u)
               /\ u[h].parent = t[h].parent
               /\ t[h].parent \in 1..Len(t) <=> t[h].parent \in 1..Len(u)
    BY <1>1, <2>2
  <2> QED BY <2>1, <2>3, AncFrame
<1>4. \A f \in F : f \in 1..Len(u) /\ Linked(u, f) BY <1>1
<1>5. \A f \in F : \A h \in Anc(u, f) : u[h].status = "suspended" /\ Linked(u, h) /\ h \notin Anc(u, h)
  BY <1>1, <1>2, <1>3 DEF Chains
<1>6. \A f, g \in F : f # g => Anc(u, f) \cap Anc(u, g) = {} BY <1>2 DEF Chains
<1> QED BY <1>2, <1>4, <1>5, <1>6 DEF Chains

LEMMA ChainsFewer ==
    ASSUME NEW t, NEW F, Chains(t, F), NEW G \in SUBSET F
    PROVE  Chains(t, G)
BY DEF Chains

(* Control goes from the root c to its parent p.                             *)
LEMMA ChainsUp ==
    ASSUME NEW t, NEW F, Chains(t, F), NEW c \in F, NEW p \in 1..Len(t), t[c].parent = p
    PROVE  /\ p \in Anc(t, c)
           /\ Chains(t, (F \ {c}) \cup {p})
           /\ \A f \in (F \ {c}) \cup {p} : p \notin Anc(t, f)
<1>1. c \in 1..Len(t) BY DEF Chains
<1>2. Anc(t, c) = {p} \cup Anc(t, p) BY <1>1, AncParent
<1>3. p \notin Anc(t, p) BY <1>2 DEF Chains
<1>4. \A g \in F : g # c => p \notin Anc(t, g) /\ Anc(t, p) \cap Anc(t, g) = {} BY <1>2 DEF Chains
<1>5. Linked(t, p) BY <1>2 DEF Chains
<1>6. \A h \in Anc(t, p) : t[h].status = "suspended" /\ Linked(t, h) /\ h \notin Anc(t, h) BY <1>2 DEF Chains
<1>7. Chains(t, (F \ {c}) \cup {p}) BY <1>4, <1>5, <1>6 DEF Chains
<1> QED BY <1>2, <1>3, <1>4, <1>7

(* The root c now waits for another fiber.                                   *)
LEMMA ChainsDown ==
    ASSUME NEW t, NEW F, Chains(t, F), NEW c \in F, NEW h \in 1..Len(t), t[h].parent = c,
           t[c].status = "suspended", \A f \in F : c \notin Anc(t, f)
    PROVE  Chains(t, (F \ {c}) \cup {h})
<1>1. c \in 1..Len(t) /\ Linked(t, c) BY DEF Chains
<1>2. Anc(t, h) = {c} \cup Anc(t, c) BY <1>1, AncParent
<1>3. Linked(t, h) BY <1>1 DEF Linked
<1>4. \A g \in F : g # c => Anc(t, h) \cap Anc(t, g) = {} BY <1>2 DEF Chains
<1>5. \A g \in Anc(t, h) : t[g].status = "suspended" /\ Linked(t, g) /\ g \notin Anc(t, g) BY <1>1, <1>2 DEF Chains
<1> QED BY <1>3, <1>4, <1>5 DEF Chains

(* Another fiber gets the parent of the root c.                              *)
LEMMA ChainsAcross ==
    ASSUME NEW t, NEW F, Chains(t, F), NEW c \in F, NEW h \in 1..Len(t), t[h].parent = t[c].parent
    PROVE  Chains(t, (F \ {c}) \cup {h})
<1>1. c \in 1..Len(t) /\ Linked(t, c) BY DEF Chains
<1>2. Anc(t, h) = Anc(t, c)
  <2>1. CASE t[c].parent \in 1..Len(t)
    <3>1. \A f \in 1..Len(t), p \in 1..Len(t) : t[f].parent = p => Anc(t, f) = {p} \cup Anc(t, p) BY AncParent
    <3> QED BY <1>1, <2>1, <3>1
  <2>2. CASE t[c].parent \notin 1..Len(t) BY <2>2, AncNone
  <2> QED BY <2>1, <2>2
<1>3. Linked(t, h) BY <1>1 DEF Linked
<1> QED BY <1>2, <1>3 DEF Chains

(* A new root has no parent.                                                 *)
LEMMA ChainsMore ==
    ASSUME NEW t, NEW F, Chains(t, F), NEW h \in 1..Len(t), t[h].parent = Null, Len(t) \in Nat
    PROVE  Chains(t, F \cup {h}) /\ Anc(t, h) = {}
<1>1. t[h].parent \notin 1..Len(t) BY DEF Null
<1>2. Anc(t, h) = {} BY <1>1, AncNone
<1> QED BY <1>2 DEF Chains, Linked

-----------------------------------------------------------------------------
(* The invariant of disciplined programs *)

BelowOf(hs) == {hs[i].saved : i \in 2..Len(hs)}

OnTop == (IF control = "run" THEN {cur} ELSE {}) \cup BelowOf(hosts)

(* Activations still have the fibers that they refer to, no two destroy the  *)
(* same one, and none destroys a fiber that executes below it or waits for   *)
(* one that does.                                                            *)
Owners(t, hs) ==
    /\ \A i \in 1..Len(hs) : hs[i].initial # Dangling
    /\ \A i \in 2..Len(hs) : hs[i].saved # Dangling
    /\ \A i, j \in 1..Len(hs) : i # j => hs[i].initial # hs[j].initial
    /\ \A i, j \in 2..Len(hs) : j <= i =>
          hs[i].initial # hs[j].saved /\ hs[i].initial \notin Anc(t, hs[j].saved)

(* The fiber that left the interpreter gives what the host takes, or         *)
(* nothing, and nobody below waits for it.                                   *)
Given ==
    control = "returned" =>
        /\ IF table[cur].status = "done" THEN table[cur].outputs = Top.outputs
           ELSE yielded = 0 \/ yielded = Top.outputs
        /\ \A f \in BelowOf(hosts) : cur \notin Anc(table, f)

Forest == Chains(table, OnTop) /\ Owners(table, hosts)

Rules == program.disciplined => fault = "none" /\ Forest /\ Given

-----------------------------------------------------------------------------

(* The roots of chains run, and the fibers in chains do not.                 *)
LEMMA Roots ==
    ASSUME Inv, fault = "none", Forest
    PROVE  /\ OnTop \subseteq Alive
           /\ \A f \in OnTop : table[f].status = "running"
           /\ \A h \in Alive : table[h].status = "running" => h \in OnTop
           /\ \A f \in OnTop : \A h \in Anc(table, f) : h \in Alive /\ h \notin OnTop
           /\ BelowOf(hosts) \subseteq OnTop
           /\ control = "run" => cur \in OnTop /\ cur \notin BelowOf(hosts)
<1>1. OnTop \subseteq Alive BY DEF Inv, ControlInv, StackInv, Forest, Owners, OnTop, BelowOf, Inner
<1>2. \A h \in Alive : table[h].status = "running" <=> h \in OnTop
  BY DEF Inv, StackInv, OnTop, BelowOf, Inner
<1>3. \A f \in OnTop : \A h \in Anc(table, f) : table[h].status = "suspended" /\ h \in 1..Len(table)
  BY AncClosed DEF Forest, Chains
<1>4. control = "run" => cur \in OnTop /\ cur \notin BelowOf(hosts)
  BY DEF OnTop, BelowOf, Inv, StackInv, Inner
<1> QED BY <1>1, <1>2, <1>3, <1>4 DEF Alive, OnTop

(* Where the chains of the fibers below stay, so do the owners.              *)
LEMMA OwnersKept ==
    ASSUME NEW t, NEW u, NEW hs, Owners(t, hs), \A f \in BelowOf(hs) : Anc(u, f) = Anc(t, f)
    PROVE  Owners(u, hs)
<1>1. \A j \in 2..Len(hs) : Anc(u, hs[j].saved) = Anc(t, hs[j].saved) BY DEF BelowOf
<1> QED BY <1>1 DEF Owners

(* Waiting and InUse are about the roots and chains, and the fiber that was  *)
(* current when the host made a call.                                        *)
LEMMA WaitingAre ==
    ASSUME Inv, fault = "none"
    PROVE  /\ \A f \in OnTop : Anc(table, f) \subseteq Waiting
           /\ OnTop \cup Waiting \cup {hosts[i].initial : i \in 1..Len(hosts)} \subseteq InUse
<1>1. OnTop \subseteq OnStack
  <2>1. \A i \in 2..Len(hosts) : i \in 1..Len(hosts) BY Types DEF Inv
  <2> QED BY <2>1 DEF OnTop, OnStack, BelowOf
<1> QED BY <1>1, AncestorsAre DEF Waiting, InUse

(* The invariant after a step, from its parts.                               *)
LEMMA RulesFrom ==
    ASSUME NEW F, OnTop' = F, Chains(table', F), Owners(table', hosts'), fault' = "none",
           control' # "returned"
    PROVE  Rules'
BY DEF Rules, Forest, Given

-----------------------------------------------------------------------------
(* Switches *)

(* The current fiber stops, in a table where it is suspended or done.        *)
LEMMA StoppedChains ==
    ASSUME Inv, Executing, Forest, NEW a \in FiberRecords, a.parent = table[cur].parent
    PROVE  LET u == [table EXCEPT ![cur] = a]
           IN  /\ Chains(u, OnTop)
               /\ \A f \in OnTop : Anc(u, f) = Anc(table, f)
               /\ Owners(u, hosts)
<1> DEFINE u == [table EXCEPT ![cur] = a]
<1>0. fault = "none" /\ control = "run" BY DEF Executing
<1>1. cur \in 1..Len(table) /\ table \in Seq(FiberRecords) /\ Len(table) \in Nat BY Current, Types DEF Inv
<1>2. Len(u) = Len(table) /\ u[cur] = a /\ \A h \in 1..Len(table) : h # cur => u[h] = table[h]
  BY <1>1, ExceptSeq
<1> HIDE DEF u
<1>3. OnTop \subseteq 1..Len(table) /\ cur \in OnTop /\ \A f \in OnTop : \A h \in Anc(table, f) : h \in 1..Len(table) /\ h # cur
  BY <1>0, Roots DEF Alive
<1>4. Chains(table, OnTop) /\ Owners(table, hosts) BY DEF Forest
<1>5. \A f \in OnTop : f \in 1..Len(u) /\ u[f].parent = table[f].parent BY <1>2, <1>3
<1>6. \A f \in OnTop : \A h \in Anc(table, f) :
               h \in 1..Len(u) /\ u[h].parent = table[h].parent /\ u[h].status = "suspended"
  BY <1>2, <1>3, <1>4 DEF Chains
<1>7. Chains(u, OnTop) /\ \A f \in OnTop : Anc(u, f) = Anc(table, f)
  BY <1>1, <1>2, <1>4, <1>5, <1>6, ChainsKept
<1>8. Owners(u, hosts) BY <1>0, <1>4, <1>7, Roots, OwnersKept
<1> QED BY <1>7, <1>8 DEF u

(* A panic                                                                   *)
LEMMA PanicRules ==
    ASSUME Inv, Rules, program.disciplined, Executing, Panic, program' = program
    PROVE  Rules'
<1>1. cur \in 1..Len(table) /\ table[cur] \in FiberRecords /\ table[cur].status = "running" BY Current
<1>2. program \in Programs /\ 0 \in Arities /\ 0 \in 0..MaxFibers BY Types DEF Inv
<1> DEFINE a == SuspendedFor(table[cur], 0)
<1>3. /\ table' = [table EXCEPT ![cur] = a]
      /\ control' = "panicked" /\ UNCHANGED <<hosts, yielded, fault>>
  BY <1>1 DEF Panic
<1>4. a \in FiberRecords /\ a.parent = table[cur].parent BY <1>1, <1>2, RecordTypes
<1> HIDE DEF a
<1>5. Forest /\ fault = "none" BY DEF Rules
<1>6. Chains(table', OnTop) /\ Owners(table', hosts) BY <1>3, <1>4, <1>5, StoppedChains
<1>7. OnTop' = BelowOf(hosts) /\ BelowOf(hosts) \subseteq OnTop BY <1>3 DEF OnTop, BelowOf
<1>8. Chains(table', BelowOf(hosts)) BY <1>6, <1>7, ChainsFewer
<1>9. hosts' = hosts /\ fault' = "none" /\ control' # "returned" BY <1>3, <1>5
<1> QED BY <1>6, <1>7, <1>8, <1>9, RulesFrom

(* The roots after a switch from the current fiber to h.                     *)
LEMMA RootsSwitched ==
    ASSUME Inv, Executing, Forest, control' = control, hosts' = hosts, NEW h, cur' = h
    PROVE  OnTop' = (OnTop \ {cur}) \cup {h} /\ BelowOf(hosts) \subseteq OnTop \ {cur}
<1>1. control = "run" /\ fault = "none" BY DEF Executing
<1>2. cur \notin BelowOf(hosts) BY <1>1, Roots
<1>3. OnTop = {cur} \cup BelowOf(hosts) BY <1>1 DEF OnTop
<1>4. OnTop' = {h} \cup BelowOf(hosts) BY <1>1 DEF OnTop, BelowOf
<1> QED BY <1>2, <1>3, <1>4

(* resume and transfer: h gets the current fiber or its parent as parent.    *)
LEMMA SwitchToRules ==
    ASSUME Inv, Forest, Executing, NEW h, NEW in, Accepts(h, in), MaySwitchTo(h), program.disciplined,
           NEW out \in Arities, NEW p \in {cur, table[cur].parent}, SwitchTo(h, out, p), program' = program
    PROVE  Rules'
<1> DEFINE a == SuspendedFor(table[cur], out)
           b == ResumedBy(table[h], p)
           u == [table EXCEPT ![cur] = a, ![h] = b]
<1>1. /\ cur \in 1..Len(table) /\ table[cur] \in FiberRecords /\ table[cur].status = "running"
      /\ fault = "none" /\ control = "run" /\ cur \in 0..MaxFibers
  BY Current DEF Executing
<1>2. /\ program \in Programs /\ table \in Seq(FiberRecords) /\ Len(table) \in Nat
      /\ \A g \in 1..Len(table) : table[g] \in FiberRecords /\ table[g].parent \in 0..MaxFibers
  BY Types DEF Inv
<1>3. h \in 1..Len(table) /\ table[h].status \in {"suspended", "ready"} /\ h # cur
  BY <1>1 DEF Accepts, Exists, Waits
<1>4. p \in 0..MaxFibers BY <1>1, <1>2
<1>5. a \in FiberRecords /\ a.status = "suspended" /\ a.parent = table[cur].parent BY <1>1, <1>2, RecordTypes
<1>6. b \in FiberRecords /\ b.status = "running" /\ b.parent = p
  <2>1. table[h] \in FiberRecords BY <1>2, <1>3
  <2> QED BY <1>2, <1>4, <2>1, RecordTypes
<1>7. table' = u /\ cur' = h /\ UNCHANGED <<hosts, control, yielded, fault>>
  BY <1>1, <1>3 DEF SwitchTo
<1> HIDE DEF a, b
<1>8. u = [[table EXCEPT ![cur] = a] EXCEPT ![h] = b] OBVIOUS
<1>9. /\ Len(u) = Len(table) /\ u[cur] = a /\ u[h] = b
      /\ \A g \in 1..Len(table) : g # cur /\ g # h => u[g] = table[g]
  <2> DEFINE v == [table EXCEPT ![cur] = a]
  <2>1. v \in Seq(FiberRecords) /\ Len(v) = Len(table) /\ v[cur] = a /\ \A g \in 1..Len(table) : g # cur => v[g] = table[g]
    BY <1>1, <1>2, <1>5, ExceptSeq
  <2>2. u = [v EXCEPT ![h] = b] BY <1>8
  <2> HIDE DEF v, u
  <2>3. Len(u) = Len(v) /\ u[h] = b /\ \A g \in 1..Len(v) : g # h => u[g] = v[g]
    BY <2>1, <2>2, <1>3, <1>6, ExceptSeq
  <2> QED BY <2>1, <2>3, <1>1, <1>3
<1> HIDE DEF u
<1>10. Chains(table, OnTop) /\ Owners(table, hosts) BY DEF Forest
<1>11. /\ OnTop \subseteq 1..Len(table) /\ cur \in OnTop /\ \A f \in OnTop : table[f].status = "running"
       /\ \A f \in OnTop : \A g \in Anc(table, f) : g \in 1..Len(table) /\ g # cur
  BY <1>1, Roots DEF Alive
<1>12. \A f \in OnTop : h # f /\ h \notin Anc(table, f)
  BY <1>1, <1>3, <1>11, WaitingAre DEF MaySwitchTo
<1>13. Chains(u, OnTop) /\ \A f \in OnTop : Anc(u, f) = Anc(table, f)
  <2>1. \A f \in OnTop : f \in 1..Len(u) /\ u[f].parent = table[f].parent BY <1>5, <1>9, <1>11, <1>12
  <2>2. \A f \in OnTop : \A g \in Anc(table, f) :
               g \in 1..Len(u) /\ u[g].parent = table[g].parent /\ u[g].status = "suspended"
    BY <1>9, <1>10, <1>11, <1>12 DEF Chains
  <2> QED BY <1>2, <1>9, <1>10, <2>1, <2>2, ChainsKept
<1>14. Chains(u, (OnTop \ {cur}) \cup {h})
  <2>1. CASE p = cur
    <3>1. u[h].parent = cur /\ u[cur].status = "suspended" /\ h \in 1..Len(u) BY <1>3, <1>5, <1>6, <1>9, <2>1
    <3>2. \A f \in OnTop : cur \notin Anc(u, f) BY <1>11, <1>13
    <3> QED BY <1>11, <1>13, <3>1, <3>2, ChainsDown
  <2>2. CASE p = table[cur].parent
    <3>1. u[h].parent = u[cur].parent /\ h \in 1..Len(u) BY <1>3, <1>5, <1>6, <1>9, <2>2
    <3> QED BY <1>11, <1>13, <3>1, ChainsAcross
  <2> QED BY <2>1, <2>2
<1>15. Owners(u, hosts) BY <1>1, <1>10, <1>13, Roots, OwnersKept
<1>16. OnTop' = (OnTop \ {cur}) \cup {h} BY <1>7, RootsSwitched
<1>17. hosts' = hosts /\ fault' = "none" /\ control' # "returned" BY <1>1, <1>7
<1> QED BY <1>7, <1>14, <1>15, <1>16, <1>17, RulesFrom

LEMMA ResumeRules ==
    ASSUME Inv, Rules, program.disciplined, NEW h, NEW in, NEW out \in Arities,
           Resume(h, in, out) \/ Transfer(h, in, out), program' = program
    PROVE  Rules'
<1>1. Executing /\ MaySwitchTo(h) /\ Forest BY DEF Resume, Transfer, Rules
<1>2. CASE Accepts(h, in)
  <2>1. \E p \in {cur, table[cur].parent} : SwitchTo(h, out, p) BY <1>2 DEF Resume, Transfer
  <2> QED BY <1>1, <1>2, <2>1, SwitchToRules
<1>3. CASE ~Accepts(h, in)
  <2>1. Panic BY <1>3 DEF Resume, Transfer
  <2> QED BY <1>1, <2>1, PanicRules
<1> QED BY <1>2, <1>3

(* The current fiber stops and its parent, which waits, goes on.             *)
LEMMA BackRules ==
    ASSUME Inv, Forest, Executing, program.disciplined, NEW p \in 1..Len(table), p = table[cur].parent,
           NEW a \in FiberRecords, a.parent = table[cur].parent,
           NEW b \in FiberRecords, b.parent = table[p].parent,
           table' = [table EXCEPT ![cur] = a, ![p] = b], cur' = p,
           UNCHANGED <<program, hosts, control, yielded, fault>>
    PROVE  Rules'
<1> DEFINE v == [table EXCEPT ![cur] = a]
           w == [v EXCEPT ![p] = b]
           F == (OnTop \ {cur}) \cup {p}
<1>1. fault = "none" /\ control = "run" /\ cur \in 1..Len(table) BY Current DEF Executing
<1>2. table \in Seq(FiberRecords) /\ Len(table) \in Nat BY Types DEF Inv
<1>3. v \in Seq(FiberRecords) /\ Len(v) = Len(table) /\ v[cur] = a /\ \A g \in 1..Len(table) : g # cur => v[g] = table[g]
  BY <1>1, <1>2, ExceptSeq
<1>4. Chains(v, OnTop) /\ Owners(v, hosts) BY StoppedChains
<1>5. table' = w OBVIOUS
<1> HIDE DEF v
<1>6. cur \in OnTop BY <1>1, Roots
<1>7. v[cur].parent = p /\ p \in 1..Len(v) BY <1>3
<1>8. Chains(v, F) /\ \A f \in F : p \notin Anc(v, f) BY <1>4, <1>6, <1>7, ChainsUp
<1>9. Len(w) = Len(v) /\ w[p] = b /\ \A g \in 1..Len(v) : g # p => w[g] = v[g]
  BY <1>3, <1>7, ExceptSeq
<1> HIDE DEF w
<1>10. v[p].parent = b.parent
  <2>1. CASE p = cur BY <2>1, <1>3
  <2>2. CASE p # cur BY <2>2, <1>3
  <2> QED BY <2>1, <2>2
<1>11. \A f \in F : f \in 1..Len(w) /\ w[f].parent = v[f].parent BY <1>8, <1>9, <1>10 DEF Chains
<1>12. \A f \in F : \A g \in Anc(v, f) :
               g \in 1..Len(w) /\ w[g].parent = v[g].parent /\ w[g].status = "suspended"
  BY <1>8, <1>9, AncClosed DEF Chains
<1>13. Chains(v, F) /\ Len(v) \in Nat /\ Len(w) \in Nat BY <1>2, <1>3, <1>8, <1>9
<1> HIDE DEF F
<1>14. Chains(w, F) /\ \A f \in F : Anc(w, f) = Anc(v, f)
  BY <1>13, <1>11, <1>12, ChainsKept
<1>15. OnTop' = F /\ BelowOf(hosts) \subseteq F BY RootsSwitched DEF F
<1>16. Owners(w, hosts) BY <1>4, <1>14, <1>15, OwnersKept
<1>17. hosts' = hosts /\ fault' = "none" /\ control' # "returned" BY <1>1
<1> QED BY <1>5, <1>14, <1>15, <1>16, <1>17, RulesFrom

(* The current fiber stops and leaves the interpreter.                       *)
LEMMA OutRules ==
    ASSUME Inv, Forest, Executing, program.disciplined,
           NEW a \in FiberRecords, a.parent = table[cur].parent, a.status \in {"suspended", "done"},
           table' = [table EXCEPT ![cur] = a], control' = "returned",
           IF a.status = "done" THEN a.outputs = Top.outputs ELSE yielded' = 0 \/ yielded' = Top.outputs,
           UNCHANGED <<program, cur, hosts, fault>>
    PROVE  Rules'
<1>1. fault = "none" /\ control = "run" /\ cur \in 1..Len(table) BY Current DEF Executing
<1>2. table \in Seq(FiberRecords) BY Types DEF Inv
<1>3. /\ Chains(table', OnTop) /\ Owners(table', hosts)
      /\ \A f \in OnTop : Anc(table', f) = Anc(table, f)
  BY StoppedChains
<1>4. OnTop' = BelowOf(hosts) /\ BelowOf(hosts) \subseteq OnTop BY DEF OnTop, BelowOf
<1>5. Chains(table', OnTop') BY <1>3, <1>4, ChainsFewer
<1>6. table'[cur] = a BY <1>1, <1>2, ExceptSeq
<1>7. \A f \in BelowOf(hosts) : cur \notin Anc(table', f) BY <1>1, <1>3, <1>4, Roots
<1>8. Forest' BY <1>3, <1>5 DEF Forest
<1>9. Given' BY <1>6, <1>7 DEF Given, Top
<1> QED BY <1>1, <1>8, <1>9 DEF Rules

LEMMA SuspendRules ==
    ASSUME Inv, Rules, program.disciplined, NEW in \in Arities, NEW out \in Arities, Suspend(in, out),
           program' = program
    PROVE  Rules'
<1> DEFINE p == table[cur].parent
           a == SuspendedFor(table[cur], out)
<1>1. Executing /\ Forest /\ fault = "none" /\ control = "run" BY DEF Suspend, Rules, Executing
<1>2. cur \in 1..Len(table) /\ table[cur] \in FiberRecords /\ table[cur].status = "running" BY <1>1, Current
<1>3. /\ program \in Programs /\ 0 \in 0..MaxFibers
      /\ \A g \in 1..Len(table) : table[g] \in FiberRecords
  BY Types DEF Inv
<1>4. a \in FiberRecords /\ a.status = "suspended" /\ a.parent = table[cur].parent BY <1>2, <1>3, RecordTypes
<1>5. CASE p = Null
  <2>1. /\ in > 0 => MayGive(in)
        /\ table' = [table EXCEPT ![cur] = a] /\ control' = "returned" /\ yielded' = in /\ UNCHANGED <<cur, hosts, fault>>
    BY <1>2, <1>5 DEF Suspend, Exists, Null
  <2>2. in > 0 => in = Top.outputs BY <1>5, <2>1 DEF MayGive, Exists, Null
  <2>3. yielded' = 0 \/ yielded' = Top.outputs
    <3>1. in \in Nat BY <1>3, FibersAssumption DEF FibersAssumption, Arities, ProgramKinds
    <3> QED BY <3>1, <2>1, <2>2
  <2> HIDE DEF a
  <2> QED BY <1>1, <1>4, <2>1, <2>3, OutRules
<1>6. CASE p # Null /\ ~Exists(p)
  <2>1. Panic BY <1>6 DEF Suspend
  <2> QED BY <1>1, <2>1, PanicRules
<1>7. CASE p # Null /\ Exists(p)
  <2>1. p \in 1..Len(table) BY <1>7 DEF Exists
  <2>2. Waits(p)
    <3>1. cur \in OnTop BY <1>1, Roots
    <3>2. p \in Anc(table, cur) BY <1>2, <2>1, AncClosed DEF Closed
    <3> QED BY <1>1, <3>1, <3>2 DEF Forest, Chains, Waits
  <2>3. CASE table[p].expects # in
    <3>1. Panic BY <1>7, <2>2, <2>3 DEF Suspend
    <3> QED BY <1>1, <3>1, PanicRules
  <2>4. CASE table[p].expects = in
    <3> DEFINE b == Resumed(table[p])
    <3>1. p # cur BY <1>2, <2>2 DEF Waits
    <3>2. b \in FiberRecords /\ b.parent = table[p].parent BY <1>3, <2>1, RecordTypes
    <3>3. /\ table' = [table EXCEPT ![cur] = a, ![p] = b] /\ cur' = p
          /\ UNCHANGED <<hosts, control, yielded, fault>>
      BY <1>2, <1>7, <2>1, <2>2, <2>4, <3>1 DEF Suspend
    <3> HIDE DEF a, b
    <3> QED BY <1>1, <1>4, <2>1, <3>2, <3>3, BackRules
  <2> QED BY <2>3, <2>4
<1> QED BY <1>5, <1>6, <1>7

LEMMA ExitRules ==
    ASSUME Inv, Rules, program.disciplined, Exit, program' = program
    PROVE  Rules'
<1> DEFINE p == table[cur].parent
           a == Done(table[cur])
           d == [table EXCEPT ![cur] = a]
<1>1. Executing /\ Forest /\ fault = "none" /\ control = "run" BY DEF Exit, Rules, Executing
<1>2. cur \in 1..Len(table) /\ table[cur] \in FiberRecords /\ table[cur].status = "running" BY <1>1, Current
<1>3. /\ program \in Programs /\ 0 \in 0..MaxFibers /\ 0 \in Arities /\ table \in Seq(FiberRecords)
      /\ \A g \in 1..Len(table) : table[g] \in FiberRecords
  BY Types DEF Inv
<1>4. a \in FiberRecords /\ a.status = "done" /\ a.parent = table[cur].parent /\ a.outputs = table[cur].outputs
  BY <1>2, <1>3, RecordTypes
<1>5. d = [table EXCEPT ![cur] = Done(@)] BY <1>2
<1>6. CASE ~Exists(p)
  <2>1. table' = d /\ control' = "returned" /\ UNCHANGED <<cur, hosts, yielded, fault>>
    BY <1>5, <1>6 DEF Exit
  <2>2. a.outputs = Top.outputs BY <1>4, <1>6 DEF Exit, MayGive
  <2>3. table' = [table EXCEPT ![cur] = a] BY <2>1
  <2> HIDE DEF a, d
  <2> QED BY <1>1, <1>4, <2>1, <2>2, <2>3, OutRules
<1>7. CASE Exists(p)
  <2>1. p \in 1..Len(table) BY <1>7 DEF Exists
  <2>2. table[p].status = "suspended"
    <3>1. cur \in OnTop BY <1>1, Roots
    <3>2. p \in Anc(table, cur) BY <1>2, <2>1, AncClosed DEF Closed
    <3> QED BY <1>1, <3>1, <3>2 DEF Forest, Chains
  <2>3. p # cur BY <1>2, <2>2
  <2>4. d[p] = table[p] BY <2>3, <2>1, <1>2, <1>3
  <2>5. table[p].expects = table[cur].outputs BY <1>7 DEF Exit, MayGive
  <2> DEFINE b == Resumed(table[p])
  <2>6. b \in FiberRecords /\ b.parent = table[p].parent BY <1>3, <2>1, RecordTypes
  <2>7. /\ table' = [d EXCEPT ![p] = Resumed(@)] /\ cur' = p
        /\ UNCHANGED <<hosts, control, yielded, fault>>
    <3>1. Waits(p) /\ d[p].status # "done" BY <2>2, <2>4 DEF Waits
    <3> HIDE DEF a
    <3> QED BY <1>5, <1>7, <2>2, <2>5, <3>1 DEF Exit
  <2>8. table' = [d EXCEPT ![p] = b] BY <2>4, <2>7
  <2>9. table' = [table EXCEPT ![cur] = a, ![p] = b] BY <2>8
  <2>10. cur' = p /\ UNCHANGED <<program, hosts, control, yielded, fault>> BY <2>7
  <2>11. a \in FiberRecords /\ a.parent = table[cur].parent BY <1>4
  <2> HIDE DEF a, b, d
  <2> QED BY <1>1, <2>1, <2>6, <2>9, <2>10, <2>11, BackRules
<1> QED BY <1>6, <1>7

-----------------------------------------------------------------------------
(* Fibers that come and go *)

(* The fibers of some handles go, which are neither roots nor in chains.     *)
LEMMA WithoutChains ==
    ASSUME Inv, fault = "none", Forest, NEW handles, NEW t, Without(table, t, handles),
           \A f \in OnTop : f \notin handles /\ Anc(table, f) \cap handles = {}
    PROVE  Chains(t, OnTop) /\ Owners(t, hosts)
<1>1. Len(table) \in Nat /\ Len(t) \in Nat BY Types DEF Inv, Without
<1>2. \A h \in Alive \ handles : h \in 1..Len(t) /\ t[h] = table[h] BY DEF Without, Alive
<1>3. \A f \in OnTop : f \in Alive \ handles /\ Anc(table, f) \subseteq Alive \ handles BY Roots
<1>4. Chains(table, OnTop) /\ Owners(table, hosts) BY DEF Forest
<1>5. \A f \in OnTop : f \in 1..Len(t) /\ t[f].parent = table[f].parent BY <1>2, <1>3
<1>6. \A f \in OnTop : \A h \in Anc(table, f) :
           h \in 1..Len(t) /\ t[h].parent = table[h].parent /\ t[h].status = "suspended"
  BY <1>2, <1>3, <1>4 DEF Chains
<1>7. Chains(t, OnTop) /\ \A f \in OnTop : Anc(t, f) = Anc(table, f) BY <1>1, <1>4, <1>5, <1>6, ChainsKept
<1> QED BY <1>4, <1>7, Roots, OwnersKept

(* A fiber comes.                                                            *)
LEMMA AppendChains ==
    ASSUME Inv, fault = "none", Forest, NEW r \in FiberRecords
    PROVE  LET t == Append(table, r)
           IN  /\ Chains(t, OnTop) /\ Owners(t, hosts)
               /\ \A f \in OnTop : f # Len(table) + 1 /\ Len(table) + 1 \notin Anc(t, f)
<1> DEFINE t == Append(table, r)
<1>1. table \in Seq(FiberRecords) /\ Len(table) \in Nat BY Types DEF Inv
<1>2. Len(t) = Len(table) + 1 /\ \A h \in 1..Len(table) : t[h] = table[h] BY <1>1, AppendProperties
<1> HIDE DEF t
<1>3. \A f \in OnTop : f \in 1..Len(table) /\ Anc(table, f) \subseteq 1..Len(table) BY Roots, AncClosed DEF Alive
<1>4. Chains(table, OnTop) /\ Owners(table, hosts) BY DEF Forest
<1>5. \A f \in OnTop : f \in 1..Len(t) /\ t[f].parent = table[f].parent BY <1>1, <1>2, <1>3
<1>6. \A f \in OnTop : \A h \in Anc(table, f) :
           h \in 1..Len(t) /\ t[h].parent = table[h].parent /\ t[h].status = "suspended"
  BY <1>1, <1>2, <1>3, <1>4 DEF Chains
<1>7. Len(t) \in Nat BY <1>1, <1>2
<1>8. Chains(t, OnTop) /\ \A f \in OnTop : Anc(t, f) = Anc(table, f) BY <1>1, <1>4, <1>5, <1>6, <1>7, ChainsKept
<1>9. Owners(t, hosts) BY <1>4, <1>8, Roots, OwnersKept
<1>10. \A f \in OnTop : f # Len(table) + 1 /\ Len(table) + 1 \notin Anc(t, f) BY <1>1, <1>3, <1>8
<1> QED BY <1>8, <1>9, <1>10 DEF t

LEMMA CreateRules ==
    ASSUME Inv, Rules, program.disciplined, NEW in \in Arities, NEW out \in Arities, Create(in, out),
           program' = program
    PROVE  Rules'
<1>1. Forest /\ fault = "none" /\ control \in {"run", "host"} /\ UNCHANGED <<cur, hosts, control, fault>>
  BY DEF Create, Rules
<1>2. program \in Programs BY Types DEF Inv
<1> DEFINE r == Fresh(in, out)
<1>3. r \in FiberRecords BY <1>2, NewRecordTypes
<1>4. table' = Append(table, r) BY DEF Create
<1> HIDE DEF r
<1>5. Chains(table', OnTop) /\ Owners(table', hosts') BY <1>1, <1>3, <1>4, AppendChains
<1>6. OnTop' = OnTop BY <1>1 DEF OnTop, BelowOf
<1> QED BY <1>1, <1>5, <1>6, RulesFrom

(* Fibers are destroyed that are not in use.                                 *)
LEMMA DestroyRules ==
    ASSUME Inv, Rules, program.disciplined, control \in {"run", "host"},
           NEW handles, \A h \in handles : h \notin InUse,
           NEW t, Without(table, t, handles), Destroy(handles, t), UNCHANGED <<program, control, fault>>
    PROVE  Rules'
<1>1. Forest /\ fault = "none" BY DEF Rules
<1>2. \A f \in OnTop : f \notin handles /\ Anc(table, f) \cap handles = {} BY <1>1, WaitingAre
<1>3. Chains(t, OnTop) /\ Owners(t, hosts) BY <1>1, <1>2, WithoutChains
<1>4. hosts \in Seq(Activations) /\ Len(hosts) \in Nat BY Types DEF Inv
<1>5. Len(hosts') = Len(hosts) /\ \A i \in 1..Len(hosts) :
           /\ hosts'[i].initial = Pointer(hosts[i].initial, handles)
           /\ hosts'[i].saved = Pointer(hosts[i].saved, handles)
  BY <1>4, PointersShape DEF Destroy
<1>6. \A i \in 1..Len(hosts) : hosts'[i].initial = hosts[i].initial
  BY <1>1, <1>5, WaitingAre DEF Pointer
<1>7. \A i \in 2..Len(hosts) : i \in 1..Len(hosts) /\ hosts'[i].saved = hosts[i].saved
  <2>1. \A i \in 2..Len(hosts) : i \in 1..Len(hosts) /\ hosts[i].saved \in OnTop BY <1>4 DEF OnTop, BelowOf
  <2> QED BY <1>2, <1>5, <2>1 DEF Pointer
<1>8. Owners(t, hosts') BY <1>3, <1>5, <1>6, <1>7 DEF Owners
<1>9. control = "run" => cur' = cur
  <2>1. control = "run" => cur \in OnTop BY DEF OnTop
  <2> QED BY <1>2, <2>1 DEF Destroy, Pointer
<1>10. BelowOf(hosts') = BelowOf(hosts) BY <1>5, <1>7 DEF BelowOf
<1>11. OnTop' = OnTop BY <1>9, <1>10 DEF OnTop, BelowOf
<1>12. table' = t /\ fault' = "none" /\ control' # "returned" BY <1>1 DEF Destroy
<1> QED BY <1>3, <1>8, <1>11, <1>12, RulesFrom

LEMMA DestroyFiberRules ==
    ASSUME Inv, Rules, program.disciplined, NEW h, DestroyFiber(h), program' = program
    PROVE  Rules'
<1>1. Forest /\ fault = "none" /\ TypeOK BY DEF Rules, Inv
<1>2. CASE ~Exists(h)
  <2>1. Executing /\ Panic BY <1>2 DEF DestroyFiber
  <2> QED BY <2>1, PanicRules
<1>3. CASE Exists(h)
  <2>1. h \notin InUse BY DEF DestroyFiber, MayDestroy
  <2>2. table[h].status # "running" BY <1>1, <1>3, <2>1, Roots, WaitingAre DEF Alive, Exists
  <2>3. Destroy({h}, Trimmed(Freed({h}))) /\ UNCHANGED <<control, yielded, fault>>
    BY <1>3, <2>2 DEF DestroyFiber
  <2>4. control \in {"run", "host"} BY DEF DestroyFiber, Executing
  <2>5. Without(table, Trimmed(Freed({h})), {h}) BY <1>1, FreedTrimmed
  <2>6. \A g \in {h} : g \notin InUse BY <2>1
  <2> QED BY <2>3, <2>4, <2>5, <2>6, DestroyRules
<1> QED BY <1>2, <1>3

LEMMA CollectRules ==
    ASSUME Inv, Rules, program.disciplined, NEW handles, Collect(handles), program' = program
    PROVE  Rules'
<1>1. program \in Programs /\ TypeOK BY Types DEF Inv
<1>2. program.loses # "any" BY <1>1, FibersAssumption DEF FibersAssumption
<1>3. \A h \in handles : h \notin InUse BY <1>2 DEF Collect, MayBeCollected
<1>4. Without(table, Freed(handles), handles) BY <1>1, FreedShape
<1>5. Destroy(handles, Freed(handles)) /\ UNCHANGED <<program, control, fault>> /\ control \in {"run", "host"}
  BY DEF Collect, Executing
<1> QED BY <1>3, <1>4, <1>5, DestroyRules

LEMMA ReturnFreeRules ==
    ASSUME Inv, Rules, program.disciplined, ReturnFree, program' = program
    PROVE  Rules'
<1>1. /\ Forest /\ fault = "none" /\ control = "run" /\ table' = Trimmed(table)
      /\ UNCHANGED <<cur, hosts, control, fault>>
  BY DEF ReturnFree, Executing, Rules
<1>2. table \in Seq(FiberRecords) BY Types DEF Inv
<1>3. Without(table, table', {}) BY <1>1, <1>2, TrimmedShape
<1>4. Chains(table', OnTop) /\ Owners(table', hosts') BY <1>1, <1>3, WithoutChains
<1>5. OnTop' = OnTop BY <1>1 DEF OnTop, BelowOf
<1> QED BY <1>1, <1>4, <1>5, RulesFrom

-----------------------------------------------------------------------------
(* Activations *)

(* The interpreter is entered with the fiber h, which is in no chain.        *)
LEMMA EnterRules ==
    ASSUME program \in Programs, fault = "none", NEW t \in Seq(FiberRecords), NEW h \in 1..Len(t), NEW in,
           Chains(t, BelowOf(hosts')), Owners(t, hosts'),
           \A f \in BelowOf(hosts') : f # h /\ h \notin Anc(t, f),
           Enter(t, h, in), program' = program
    PROVE  Rules'
<1> DEFINE r == ResumedBy(t[h], Null)
           s == SuspendedFor(r, 0)
           b == IF t[h].expects = in THEN r ELSE s
           u == [t EXCEPT ![h] = b]
           F == BelowOf(hosts')
<1>1. t[h] \in FiberRecords /\ Len(t) \in Nat BY LenProperties
<1>2. Null \in 0..MaxFibers /\ 0 \in Arities BY FibersAssumption DEF FibersAssumption, Null, Arities
<1>3. b \in FiberRecords /\ b.parent = Null
  <2>1. r \in FiberRecords /\ r.parent = Null BY <1>1, <1>2, RecordTypes
  <2> HIDE DEF r
  <2>2. s \in FiberRecords /\ s.parent = Null BY <2>1, <1>2, RecordTypes
  <2> HIDE DEF s
  <2> QED BY <2>1, <2>2
<1>4. table' = u BY DEF Enter
<1>5. \/ control' = "run" /\ cur' = h
      \/ control' = "panicked"
  BY DEF Enter
<1>6. fault' = "none" /\ control' # "returned" BY <1>5 DEF Enter
<1> HIDE DEF b
<1>7. Len(u) = Len(t) /\ u[h] = b /\ \A g \in 1..Len(t) : g # h => u[g] = t[g] BY <1>3, ExceptSeq
<1> HIDE DEF u
<1>8. \A f \in F : f \in 1..Len(u) /\ u[f].parent = t[f].parent BY <1>7 DEF Chains
<1>9. \A f \in F : \A g \in Anc(t, f) :
           g \in 1..Len(u) /\ u[g].parent = t[g].parent /\ u[g].status = "suspended"
  BY <1>7, AncClosed DEF Chains
<1>10. Chains(t, F) /\ Owners(t, hosts') /\ Len(u) \in Nat BY <1>1, <1>7
<1> HIDE DEF F
<1>11. Chains(u, F) /\ \A f \in F : Anc(u, f) = Anc(t, f) BY <1>1, <1>8, <1>9, <1>10, ChainsKept
<1>12. Owners(u, hosts')
  <2> DEFINE hs == hosts'
  <2>1. Owners(t, hs) /\ \A f \in BelowOf(hs) : Anc(u, f) = Anc(t, f) BY <1>10, <1>11 DEF F
  <2> HIDE DEF hs
  <2>2. Owners(u, hs) BY <2>1, OwnersKept
  <2> QED BY <2>2 DEF hs
<1>13. CASE control' = "run" /\ cur' = h
  <2>1. Chains(u, F \cup {h})
    <3>1. h \in 1..Len(u) /\ u[h].parent = Null BY <1>3, <1>7
    <3> QED BY <1>10, <1>11, <3>1, ChainsMore
  <2>2. OnTop' = F \cup {h} BY <1>13 DEF OnTop, F, BelowOf
  <2> QED BY <1>4, <1>6, <1>12, <2>1, <2>2, RulesFrom
<1>14. CASE control' = "panicked"
  <2>1. OnTop' = F BY <1>14 DEF OnTop, F, BelowOf
  <2> QED BY <1>4, <1>6, <1>11, <1>12, <2>1, RulesFrom
<1> QED BY <1>5, <1>13, <1>14

LEMMA CallRules ==
    ASSUME Inv, Rules, program.disciplined, NEW in \in Arities, NEW out \in Arities, Call(in, out),
           program' = program
    PROVE  Rules'
<1> DEFINE n == Len(table)
           m == Len(hosts)
           r == Fresh(in, out)
           t == Append(table, r)
           a == [initial |-> n + 1, until |-> TRUE, outputs |-> out, call |-> TRUE, saved |-> cur]
           hs == hosts'
<1>1. Forest /\ fault = "none" /\ control \in {"run", "host"} /\ Enter(t, n + 1, in) /\ n < program.fibers
  BY DEF Call, Rules
<1>2. /\ program \in Programs /\ program.fibers \in Nat /\ program.fibers <= MaxFibers /\ MaxFibers \in Nat
      /\ table \in Seq(FiberRecords) /\ n \in Nat /\ m \in Nat /\ TypeOK /\ cur \in FiberPointers
      /\ hosts \in Seq(Activations)
  BY Types DEF Inv, TypeOK
<1>3. a \in Activations
  <2>1. n + 1 \in Handles BY <1>1, <1>2 DEF Handles
  <2> QED BY <1>2, <2>1 DEF Activations
<1>4. hs = Append(hosts, a) BY DEF Call
<1>5. /\ Len(hs) = m + 1 /\ \A i \in 1..m : hs[i] = hosts[i]
      /\ hs[m + 1].initial = n + 1 /\ hs[m + 1].saved = cur
  BY <1>2, <1>3, <1>4, AppendProperties
<1>6. r \in FiberRecords BY <1>2, NewRecordTypes
<1> HIDE DEF r
<1>7. t \in Seq(FiberRecords) /\ Len(t) = n + 1 /\ n + 1 \in 1..Len(t) BY <1>2, <1>6, AppendProperties
<1>8. /\ Chains(t, OnTop) /\ Owners(t, hosts)
      /\ \A f \in OnTop : f # n + 1 /\ n + 1 \notin Anc(t, f)
  BY <1>1, <1>6, AppendChains
<1>9. BelowOf(hs) = OnTop
  <2>1. CASE control = "run"
    <3>1. m > 0 BY <1>2, <2>1 DEF Inv, Rules, ControlInv
    <3>2. 2..m + 1 = 2..m \cup {m + 1} BY <1>2, <3>1
    <3>3. \A i \in 2..m : hs[i] = hosts[i] BY <1>2, <1>5
    <3> QED BY <1>5, <2>1, <3>2, <3>3 DEF BelowOf, OnTop
  <2>2. CASE control = "host"
    <3>1. m = 0 BY <1>1, <2>2 DEF Inv, ControlInv
    <3> QED BY <1>5, <2>2, <3>1 DEF BelowOf, OnTop
  <2> QED BY <1>1, <2>1, <2>2
<1>10. \A i \in 1..m : hosts[i].initial \in 1..n
  BY <1>1, <1>8 DEF Inv, ControlInv, Depths, Alive, Owners
<1>11. Owners(t, hs)
  <2>1. \A i \in 1..m + 1 : i \in 1..m \/ i = m + 1 BY <1>2
  <2>2. \A i \in 2..m + 1 : i \in 2..m \/ (i = m + 1 /\ m > 0) BY <1>2
  <2>3. \A i \in 2..m : i \in 1..m BY <1>2
  <2>4. \A i \in 1..m + 1 : hs[i].initial # Dangling
    <3>1. n + 1 # Dangling BY <1>2 DEF Dangling
    <3> QED BY <1>5, <1>8, <2>1, <3>1 DEF Owners
  <2>5. \A i \in 2..m + 1 : hs[i].saved # Dangling
    <3>1. \A i \in 2..m + 1 : hs[i].saved \in OnTop BY <1>5, <1>9 DEF BelowOf
    <3>2. \A f \in OnTop : f # Dangling BY <1>1, <1>2, Roots DEF Alive, Dangling
    <3> QED BY <3>1, <3>2
  <2>6. \A i, j \in 1..m + 1 : i # j => hs[i].initial # hs[j].initial
    <3>1. \A i \in 1..m : hs[i].initial # n + 1 BY <1>2, <1>5, <1>10
    <3> QED BY <1>5, <1>8, <2>1, <3>1 DEF Owners
  <2>7. ASSUME NEW i \in 2..m + 1, NEW j \in 2..m + 1, j <= i
        PROVE  hs[i].initial # hs[j].saved /\ hs[i].initial \notin Anc(t, hs[j].saved)
    <3>1. CASE i = m + 1
      <4>1. hs[j].saved \in OnTop BY <1>5, <1>9 DEF BelowOf
      <4> QED BY <1>5, <1>8, <3>1, <4>1
    <3>2. CASE i \in 2..m
      <4>1. j \in 2..m BY <1>2, <3>2, <2>7
      <4> QED BY <1>5, <1>8, <2>3, <2>7, <3>2, <4>1 DEF Owners
    <3> QED BY <2>2, <3>1, <3>2
  <2> QED BY <1>5, <2>4, <2>5, <2>6, <2>7 DEF Owners
<1> HIDE DEF t, hs, a
<1>12. /\ Chains(t, BelowOf(hosts')) /\ Owners(t, hosts')
       /\ \A f \in BelowOf(hosts') : f # n + 1 /\ n + 1 \notin Anc(t, f)
  BY <1>8, <1>9, <1>11 DEF hs
<1> QED BY <1>1, <1>2, <1>7, <1>12, EnterRules

LEMMA HostResumeRules ==
    ASSUME Inv, Rules, program.disciplined, NEW h \in Handles, NEW in \in Arities, NEW out \in Arities,
           NEW until \in BOOLEAN, HostResume(h, in, out, until), program' = program
    PROVE  Rules'
<1> DEFINE a == [initial |-> h, until |-> until, outputs |-> out, call |-> FALSE, saved |-> Null]
<1>1. fault = "none" /\ control = "host" /\ h \in 1..Len(table) /\ cur # Dangling
  BY DEF HostResume, Exists, MayEnter
<1>2. hosts' = Append(hosts, a) /\ Enter(table, h, in) BY <1>1 DEF HostResume
<1>3. hosts = <<>> BY <1>1 DEF Inv, ControlInv
<1>4. hosts' = <<a>> BY <1>2, <1>3
<1>5. Len(hosts') = 1 /\ hosts'[1].initial = h /\ h # Dangling BY <1>4 DEF Handles, Dangling
<1>6. BelowOf(hosts') = {} BY <1>5 DEF BelowOf
<1>7. Chains(table, BelowOf(hosts')) BY <1>6 DEF Chains
<1>8. Owners(table, hosts') BY <1>5 DEF Owners
<1>9. program \in Programs /\ table \in Seq(FiberRecords) BY Types DEF Inv
<1> QED BY <1>1, <1>2, <1>6, <1>7, <1>8, <1>9, EnterRules

(* The end of an activation destroys the fiber it was given, which is        *)
(* neither below it nor waits there.                                         *)
LEMMA LeaveRules ==
    ASSUME Inv, Rules, program.disciplined, control \in {"returned", "panicked"}, Leave, program' = program
    PROVE  Rules'
<1> DEFINE n == Len(hosts)
           below == SubSeq(hosts, 1, n - 1)
           saved == IF Top.call THEN Top.saved ELSE cur
           back  == IF below = <<>> THEN "host" ELSE "run"
           gone  == {Top.initial}
<1>1. Forest /\ fault = "none" /\ TypeOK BY DEF Rules, Inv
<1>2. hosts # <<>> BY <1>1 DEF Inv, ControlInv
<1>3. /\ below \in Seq(Activations) /\ n \in Nat \ {0} /\ Len(below) = n - 1
      /\ \A i \in 1..n - 1 : below[i] = hosts[i]
      /\ below = <<>> <=> n = 1
      /\ Top = hosts[n]
  BY <1>1, <1>2, HostsPopped
<1>4. \A i \in 2..n : hosts[i].call /\ hosts[i].until BY <1>1 DEF Inv, ControlInv, Inner
<1>5. OnTop = BelowOf(hosts) BY DEF OnTop
<1>6. Owners(table, hosts) /\ Chains(table, OnTop) BY <1>1 DEF Forest
<1>7. Top.initial # Dangling /\ Top.initial \in Alive
  BY <1>1, <1>3, <1>6 DEF Owners, Inv, ControlInv, Depths
<1> HIDE DEF below
<1>8. CASE n = 1
  <2>1. back = "host" BY <1>3, <1>8
  <2>2. BelowOf(hosts) = {} /\ OnTop = {} BY <1>5, <1>8 DEF BelowOf
  <2>3. table[Top.initial].status # "running" BY <1>1, <1>7, <2>2, Roots
  <2>4. control' = "host" /\ fault' = "none" /\ Len(hosts') = 0
    <3>1. CASE ~Top.until BY <1>1, <1>3, <1>8, <2>1, <3>1 DEF Leave, below
    <3>2. CASE Top.until
      <4>1. control' = back /\ hosts' = Pointers(below, gone) /\ fault' = fault
        BY <1>7, <2>1, <2>3, <3>2 DEF Leave, below
      <4> QED BY <1>1, <1>3, <1>8, <2>1, <4>1, PointersShape
    <3> QED BY <3>1, <3>2
  <2>5. BelowOf(hosts') = {} /\ OnTop' = {} BY <2>4 DEF BelowOf, OnTop
  <2>6. Chains(table', {}) BY DEF Chains
  <2>7. Owners(table', hosts') BY <2>4 DEF Owners
  <2> QED BY <2>4, <2>5, <2>6, <2>7, RulesFrom
<1>9. CASE n > 1
  <2>1. back = "run" /\ saved = Top.saved /\ n \in 2..n /\ Top.until BY <1>3, <1>4, <1>9
  <2>2. \A f \in OnTop : f \notin gone /\ Anc(table, f) \cap gone = {}
    <3>1. \A j \in 2..n : j <= n /\ n \in 2..n BY <1>3, <2>1
    <3> QED BY <1>3, <1>5, <1>6, <3>1 DEF Owners, BelowOf
  <2>3. table[Top.initial].status # "running" BY <1>1, <1>7, <2>2, Roots
  <2>4. saved # Dangling /\ saved \in OnTop BY <1>3, <1>5, <1>6, <2>1 DEF Owners, BelowOf
  <2>5. /\ table' = Trimmed(Freed(gone)) /\ hosts' = Pointers(below, gone)
        /\ cur' = Pointer(saved, gone) /\ control' = back /\ fault' = "none"
    BY <1>1, <1>7, <2>1, <2>3, <2>4 DEF Leave, below
  <2>6. Without(table, table', gone) BY <1>1, <2>5, FreedTrimmed
  <2>7. Chains(table', OnTop) /\ Owners(table', hosts) BY <1>1, <2>2, <2>6, WithoutChains
  <2>8. cur' = Top.saved BY <2>1, <2>2, <2>4, <2>5 DEF Pointer
  <2>9. Len(hosts') = n - 1 /\ \A i \in 1..n - 1 :
              /\ hosts'[i].initial = Pointer(hosts[i].initial, gone)
              /\ hosts'[i].saved = Pointer(hosts[i].saved, gone)
    BY <1>3, <2>5, PointersShape
  <2>10. \A i \in 1..n - 1 : hosts'[i].initial = hosts[i].initial
    <3>1. \A i \in 1..n - 1 : i \in 1..n /\ n \in 1..n /\ i # n BY <1>3
    <3> QED BY <1>3, <1>6, <2>9, <3>1 DEF Owners, Pointer
  <2>11. \A i \in 2..n - 1 : i \in 1..n - 1 /\ i \in 2..n /\ hosts'[i].saved = hosts[i].saved
    <3>1. \A i \in 2..n - 1 : i \in 1..n - 1 /\ i \in 2..n BY <1>3
    <3> QED BY <1>5, <2>2, <2>9, <3>1 DEF BelowOf, Pointer
  <2>12. Owners(table', hosts')
    <3>1. \A i \in 1..n - 1 : i \in 1..n BY <1>3
    <3>2. \A i \in 1..n - 1 : hosts'[i].initial # Dangling BY <2>7, <2>10, <3>1 DEF Owners
    <3>3. \A i \in 2..n - 1 : hosts'[i].saved # Dangling BY <2>7, <2>11 DEF Owners
    <3>4. \A i, j \in 1..n - 1 : i # j => hosts'[i].initial # hosts'[j].initial
      BY <2>7, <2>10, <3>1 DEF Owners
    <3>5. \A i, j \in 2..n - 1 : j <= i =>
             hosts'[i].initial # hosts'[j].saved /\ hosts'[i].initial \notin Anc(table', hosts'[j].saved)
      BY <2>7, <2>10, <2>11 DEF Owners
    <3> QED BY <2>9, <3>2, <3>3, <3>4, <3>5 DEF Owners
  <2>13. OnTop' = OnTop
    <3>1. OnTop' = {Top.saved} \cup BelowOf(hosts') BY <2>1, <2>5, <2>8 DEF OnTop, BelowOf
    <3>2. BelowOf(hosts') = {hosts[i].saved : i \in 2..n - 1} BY <2>9, <2>11 DEF BelowOf
    <3>3. 2..n = 2..n - 1 \cup {n} BY <1>3, <2>1
    <3> QED BY <1>3, <1>5, <3>1, <3>2, <3>3 DEF BelowOf
  <2> QED BY <2>1, <2>5, <2>7, <2>12, <2>13, RulesFrom
<1> QED BY <1>3, <1>8, <1>9

LEMMA ReturnRules ==
    ASSUME Inv, Rules, program.disciplined, Return \/ ReturnPanic, program' = program
    PROVE  Rules'
<1>1. control \in {"returned", "panicked"} BY DEF Return, ReturnPanic
<1>2. Forest /\ Given /\ fault = "none" BY DEF Rules
<1>3. CASE Leave BY <1>1, <1>3, LeaveRules
<1>4. CASE ~Leave
  <2>1. control = "returned" BY <1>4 DEF Return, ReturnPanic
  <2>2. cur \in Alive /\ table[cur].status \in {"suspended", "done"} /\ cur \in 1..Len(table)
    BY <1>2, <2>1 DEF Inv, ControlInv, Alive
  <2>3. ~(LET done == table[cur].status = "done"
              k    == IF done THEN table[cur].outputs ELSE yielded
          IN  (done \/ k > 0) /\ k # Top.outputs)
    <3>1. yielded = 0 => ~(yielded > 0) OBVIOUS
    <3> QED BY <1>2, <2>1, <3>1 DEF Given
  <2>4. Enter(table, cur, 0) /\ hosts' = hosts BY <1>4, <2>1, <2>3 DEF Return, ReturnPanic
  <2>5. OnTop = BelowOf(hosts) BY <2>1 DEF OnTop
  <2>6. Chains(table, BelowOf(hosts')) /\ Owners(table, hosts') BY <1>2, <2>4, <2>5 DEF Forest
  <2>7. \A f \in BelowOf(hosts') : f # cur /\ cur \notin Anc(table, f)
    BY <1>2, <2>1, <2>2, <2>4, <2>5, Roots DEF Given
  <2>8. program \in Programs /\ table \in Seq(FiberRecords) BY Types DEF Inv
  <2> QED BY <1>2, <2>2, <2>4, <2>6, <2>7, <2>8, EnterRules
<1> QED BY <1>3, <1>4

-----------------------------------------------------------------------------

LEMMA InitRules == Init => Rules
<1> SUFFICES ASSUME Init PROVE Rules OBVIOUS
<1>1. hosts = <<>> /\ control = "host" /\ fault = "none" BY DEF Init
<1>2. Len(hosts) = 0 BY <1>1
<1>3. BelowOf(hosts) = {} /\ OnTop = {} BY <1>1, <1>2 DEF BelowOf, OnTop
<1>4. Chains(table, {}) /\ Owners(table, hosts) BY <1>2 DEF Chains, Owners
<1> QED BY <1>1, <1>3, <1>4 DEF Rules, Forest, Given

LEMMA NextRules == Inv /\ Rules /\ [Next]_vars => Rules'
<1> SUFFICES ASSUME Inv, Rules, [Next]_vars PROVE Rules' OBVIOUS
<1>1. CASE UNCHANGED vars
  <2> USE <1>1 DEF vars
  <2>1. OnTop' = OnTop BY DEF OnTop, BelowOf
  <2>2. Forest' <=> Forest BY <2>1 DEF Forest
  <2>3. Given' <=> Given BY DEF Given, Top
  <2> QED BY <2>2, <2>3 DEF Rules
<1>2. CASE Next /\ ~program.disciplined BY <1>2 DEF Next, Rules
<1>3. CASE Next /\ program.disciplined
  <2>0. program' = program /\ program.disciplined BY <1>3 DEF Next
  <2>1. ASSUME NEW in \in Arities, NEW out \in Arities, Create(in, out) PROVE Rules' BY <2>0, <2>1, CreateRules
  <2>2. ASSUME NEW in \in Arities, NEW out \in Arities, Call(in, out) PROVE Rules' BY <2>0, <2>2, CallRules
  <2>3. ASSUME NEW in \in Arities, NEW out \in Arities, Suspend(in, out) PROVE Rules' BY <2>0, <2>3, SuspendRules
  <2>4. ASSUME NEW in \in Arities, NEW out \in Arities, NEW h \in Handles,
               Resume(h, in, out) \/ Transfer(h, in, out)
        PROVE  Rules'
    BY <2>0, <2>4, ResumeRules
  <2>5. ASSUME NEW in \in Arities, NEW out \in Arities, NEW h \in Handles, NEW until \in BOOLEAN,
               HostResume(h, in, out, until)
        PROVE  Rules'
    BY <2>0, <2>5, HostResumeRules
  <2>6. ASSUME NEW h \in Handles, DestroyFiber(h) PROVE Rules' BY <2>0, <2>6, DestroyFiberRules
  <2>7. ASSUME NEW handles \in SUBSET (1..Len(table)), Collect(handles) PROVE Rules' BY <2>0, <2>7, CollectRules
  <2>8. CASE Exit BY <2>0, <2>8, ExitRules
  <2>9. CASE PanicInstruction BY <2>0, <2>9, PanicRules DEF PanicInstruction
  <2>10. CASE ReturnFree BY <2>0, <2>10, ReturnFreeRules
  <2>11. CASE Return \/ ReturnPanic BY <2>0, <2>11, ReturnRules
  <2> QED BY <1>3, <2>1, <2>2, <2>3, <2>4, <2>5, <2>6, <2>7, <2>8, <2>9, <2>10, <2>11 DEF Next
<1> QED BY <1>1, <1>2, <1>3

LEMMA RulesHold == Spec => [](Inv /\ Rules)
<1>1. Init => Inv /\ Rules BY InitInv, InitRules
<1>2. (Inv /\ Rules) /\ [Next]_vars => (Inv /\ Rules)' BY NextInv, NextRules
<1> QED BY <1>1, <1>2, PTL DEF Spec

(* No assertion fails and no destroyed fiber is used, in a disciplined       *)
(* program, whatever it switches, destroys, collects and enters.             *)
THEOREM DisciplinedHasNoFault == Spec => []NoFault
<1>1. Inv /\ Rules => NoFault BY DEF Rules, NoFault
<1> QED BY <1>1, RulesHold, PTL

(* In a disciplined program, while the interpreter runs, the parents from    *)
(* the current fiber on form a chain of suspended fibers without a cycle,    *)
(* with none of those that execute below an activation, and with no parent   *)
(* that does not exist: it ends at a fiber without one.                      *)
THEOREM ChainsOfParents == Spec => []ParentsFormChain
<1>1. ASSUME Inv, Rules, program.disciplined, control = "run"
      PROVE  /\ cur \notin Ancestors(cur)
             /\ \A h \in Ancestors(cur) :
                   /\ table[h].status = "suspended"
                   /\ h \notin Ancestors(h)
                   /\ h \notin Below
                   /\ table[h].parent # Null => Exists(table[h].parent)
  <2>1. Forest /\ fault = "none" BY <1>1 DEF Rules
  <2>2. cur \in OnTop /\ BelowOf(hosts) \subseteq OnTop BY <1>1, <2>1, Roots
  <2>3. Below = BelowOf(hosts) BY DEF Below, BelowOf
  <2>4. \A h \in Anc(table, cur) :
             /\ table[h].status = "suspended" /\ h \notin Anc(table, h) /\ h \notin OnTop
             /\ Linked(table, h)
    BY <1>1, <2>1, <2>2, Roots DEF Forest, Chains
  <2> QED BY <2>2, <2>3, <2>4, AncestorsAre DEF Linked, Exists
<1>2. Inv /\ Rules => ParentsFormChain BY <1>1 DEF ParentsFormChain
<1> QED BY <1>2, RulesHold, PTL
=============================================================================
