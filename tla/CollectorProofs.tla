-------------------------- MODULE CollectorProofs --------------------------
(* Proofs about the garbage collector, for tables of any size.               *)
EXTENDS Collector, SequenceTheorems, TLAPS

LEMMA TypeInit == Init => TypeOK
  BY CollectorAssumption DEF Init, TypeOK, Entries, Addresses, HeapStatuses, FiberStatuses

(* What the marking steps do to the fields they change.                      *)
LEMMA TypeMark ==
    ASSUME TypeOK, NEW targets \in SUBSET Entries, NEW rest \in SUBSET Entries,
           MarkReachable(targets, rest), UNCHANGED Memory,
           phase' \in {"run", "explicit", "drain"}
    PROVE  TypeOK'
  BY DEF TypeOK, MarkReachable, Fresh, Memory

LEMMA RefersTyped == \A ws : Refers(ws) \in SUBSET Entries
  BY DEF Refers

LEMMA TracedTyped == \A e : Traced(e) \in SUBSET Entries
  BY RefersTyped DEF Traced

(* The types of TypeOK.                                                      *)
LEMMA TypeStep == TypeOK /\ [Next]_vars => TypeOK'
<1> SUFFICES ASSUME TypeOK, [Next]_vars PROVE TypeOK'
  OBVIOUS
<1> USE CollectorAssumption DEF Entries, Addresses, HeapStatuses, FiberStatuses
<1>1. ASSUME NEW h \in Heap, Allocate(h) PROVE TypeOK'
  BY <1>1 DEF TypeOK, Allocate, MayStore, Address
<1>2. ASSUME NEW h \in Heap, FreeHeap(h) PROVE TypeOK'
  BY <1>2 DEF TypeOK, FreeHeap
<1>3. ASSUME NEW h \in Heap, Merge(h) PROVE TypeOK'
  <2>1. next[h] \in Heap
    BY <1>3 DEF TypeOK, Merge
  <2>2. size' \in [Entries -> Nat]
    BY <1>3, <2>1 DEF TypeOK, Merge
  <2>6. words' \in [Entries -> SUBSET Addresses]
    <3>1. words[h] \cup words[next[h]] \in SUBSET Addresses
      BY <2>1 DEF TypeOK
    <3>2. words' = [words EXCEPT ![h] = words[h] \cup words[next[h]], ![next[h]] = {}]
      BY <1>3 DEF Merge
    <3>3. QED
      BY <2>1, <3>1, <3>2 DEF TypeOK
  <2>3. /\ status' \in [Entries -> HeapStatuses \cup FiberStatuses]
        /\ \A e \in Entries : status'[e] \in IF e \in Fibers THEN FiberStatuses ELSE HeapStatuses
    BY <1>3, <2>1 DEF TypeOK, Merge
  <2>4. next' \in [Heap -> Heap \cup {None}]
    BY <1>3, <2>1 DEF TypeOK, Merge
  <2>5. QED
    BY <1>3, <2>2, <2>3, <2>4, <2>6 DEF TypeOK, Merge
<1>4. ASSUME NEW h \in Heap, DeclareReachable(h) \/ UndeclareReachable(h) PROVE TypeOK'
  BY <1>4 DEF TypeOK, DeclareReachable, UndeclareReachable
<1>5. ASSUME NEW h \in Heap, NEW p \in Heap, NEW o \in SplitOffsets,
             NEW behind \in SUBSET words[h], Split(h, p, o, behind)
      PROVE TypeOK'
  <2>1. words' \in [Entries -> SUBSET Addresses]
    <3>1. behind \in SUBSET Addresses /\ words[h] \ behind \in SUBSET Addresses
      BY DEF TypeOK
    <3>2. words' = [words EXCEPT ![h] = words[h] \ behind, ![p] = behind]
      BY <1>5 DEF Split
    <3>3. QED
      BY <3>1, <3>2 DEF TypeOK
  <2>2. size' \in [Entries -> Nat]
    <3>1. o \in Nat /\ size[h] - o \in Nat
      BY <1>5 DEF TypeOK, Split
    <3>2. QED
      BY <1>5, <3>1 DEF TypeOK, Split, SplitSizes
  <2>3. /\ status' \in [Entries -> HeapStatuses \cup FiberStatuses]
        /\ \A e \in Entries : status'[e] \in IF e \in Fibers THEN FiberStatuses ELSE HeapStatuses
    BY <1>5 DEF TypeOK, Split
  <2>4. next' \in [Heap -> Heap \cup {None}] /\ weak' \in SUBSET Entries
    BY <1>5 DEF TypeOK, Split
  <2>5. QED
    BY <1>5, <2>1, <2>2, <2>3, <2>4 DEF TypeOK, Split
<1>6. ASSUME NEW e \in Entries, NEW w \in Words, Store(e, w) \/ Erase(e, w) PROVE TypeOK'
  <2>1. w \in Addresses
    OBVIOUS
  <2>2. words[e] \cup {w} \in SUBSET Addresses /\ words[e] \ {w} \in SUBSET Addresses
    BY <2>1 DEF TypeOK
  <2>3. PICK held \in SUBSET Addresses : words' = [words EXCEPT ![e] = held]
    BY <1>6, <2>2 DEF Store, Erase
  <2>4. words' \in [Entries -> SUBSET Addresses]
    BY <2>3 DEF TypeOK
  <2>5. QED
    BY <1>6, <2>4 DEF TypeOK, Store, Erase
<1>7. ASSUME NEW e \in Entries, DeclareWeak(e) \/ UndeclareWeak(e) PROVE TypeOK'
  BY <1>7 DEF TypeOK, DeclareWeak, UndeclareWeak
<1>8. ASSUME NEW f \in Fibers, CreateFiber(f) PROVE TypeOK'
  BY <1>8 DEF TypeOK, CreateFiber, Address
<1>9. ASSUME NEW f \in Fibers, DestroyFiber(f) PROVE TypeOK'
  BY <1>9 DEF TypeOK, DestroyFiber
<1>10. ASSUME NEW f \in Fibers, Switch(f) PROVE TypeOK'
  BY <1>10 DEF TypeOK, Switch, SuspensionPoint
<1>11. ASSUME NEW f \in Fibers, NEW leftover \in Leftovers, Exit(f, leftover) PROVE TypeOK'
  BY <1>11 DEF TypeOK, Exit
<1>12. ASSUME NEW f \in Fibers, NEW leftover \in Leftovers, CallNested(f, leftover) PROVE TypeOK'
  BY <1>12 DEF TypeOK, CallNested
<1>13. CASE ReturnNested
  <2>1. Head(below) \in [caller : Fibers, callee : Fibers]
    BY <1>13, HeadTailProperties DEF TypeOK, ReturnNested
  <2>2. below' \in Seq([caller : Fibers, callee : Fibers])
    BY <1>13, HeadTailProperties DEF TypeOK, ReturnNested
  <2>3. QED
    BY <1>13, <2>1, <2>2 DEF TypeOK, ReturnNested
<1>14. CASE MarkStacks
  <2>1. {cur} \cup UNION {Refers(Scanned(f)) : f \in {f \in Fibers : Exists(f)}} \in SUBSET Entries
    BY RefersTyped DEF TypeOK
  <2>2. QED
    BY <1>14, <2>1, TypeMark DEF TypeOK, MarkStacks
<1>15. CASE MarkExplicit
  <2>1. UNION {Traced(e) : e \in {e \in Pinned : Exists(e)}} \in SUBSET Entries
    BY TracedTyped
  <2>2. QED
    BY <1>15, <2>1, TypeMark DEF TypeOK, MarkExplicit
<1>16. ASSUME NEW e \in Entries, MarkPending(e) PROVE TypeOK'
  BY <1>16, TypeMark, TracedTyped DEF TypeOK, MarkPending
<1>17. CASE Sweep
  BY <1>17 DEF TypeOK, Sweep, Doomed, Exists
<1>18. CASE UNCHANGED vars
  BY <1>18 DEF TypeOK, vars
<1>19. QED
  BY <1>1, <1>2, <1>3, <1>4, <1>5, <1>6, <1>7, <1>8, <1>9, <1>10, <1>11, <1>12, <1>13, <1>14,
     <1>15, <1>16, <1>17, <1>18 DEF Next, Program, Collection

THEOREM CollectorTypeCorrect == Spec => []TypeOK
  BY TypeInit, TypeStep, PTL DEF Spec

-----------------------------------------------------------------------------
(* The inductive invariant.  A collection marks only what is reachable, and  *)
(* when nothing is pending, it has marked all of it; no mark is left over    *)
(* for the next collection.                                                  *)

Activations == {a \in [caller : Fibers, callee : Fibers] : a.caller # a.callee}

CurrentRuns == status[cur] = "running" /\ below \in Seq(Activations)

NoMarksBetween == phase = "run" => pending = {} /\ \A e \in Entries : gc[e] # "reachable"

PendingAreMarked == \A e \in pending : gc[e] = "reachable"

OnlyPendingMarked == phase = "explicit" => \A e \in Entries : gc[e] = "reachable" => e \in pending

RootsMarked == phase # "run" => \A e \in InReach : Exists(e) => gc[e] # "unreachable"

MarkedAreReachable ==
    phase # "run" => \A e \in Entries : gc[e] = "reachable" => e \in Graph!Reachable

IInv ==
    /\ TypeOK
    /\ CurrentRuns
    /\ NoMarksBetween
    /\ PendingAreMarked
    /\ OnlyPendingMarked
    /\ RootsMarked
    /\ MarkedReferToMarked
    /\ MarkedAreReachable

(* A step of the program leaves the current fiber running and marks nothing. *)
LEMMA ProgramStep ==
    ASSUME TypeOK, CurrentRuns, NoMarksBetween, Program
    PROVE  /\ phase = "run" /\ phase' = "run"
           /\ pending' = {}
           /\ \A e \in Entries : gc'[e] # "reachable"
           /\ CurrentRuns'
<1> DEFINE Goal == /\ phase = "run" /\ phase' = "run"
                   /\ pending' = {}
                   /\ \A e \in Entries : gc'[e] # "reachable"
                   /\ CurrentRuns'
<1> USE CollectorAssumption DEF Entries, NoMarksBetween, CurrentRuns, TypeOK
<1>1. ASSUME NEW h \in Heap, Allocate(h) PROVE Goal
  BY <1>1 DEF Allocate
<1>2. ASSUME NEW h \in Heap, FreeHeap(h) PROVE Goal
  BY <1>2 DEF FreeHeap
<1>3. ASSUME NEW h \in Heap, Merge(h) PROVE Goal
  <2>1. next[h] \in Heap
    BY <1>3 DEF Merge
  <2>2. QED
    BY <1>3, <2>1 DEF Merge
<1>4. ASSUME NEW h \in Heap, DeclareReachable(h) \/ UndeclareReachable(h) PROVE Goal
  BY <1>4 DEF DeclareReachable, UndeclareReachable
<1>5. ASSUME NEW h \in Heap, NEW p \in Heap, NEW o \in SplitOffsets,
             NEW behind \in SUBSET words[h], Split(h, p, o, behind)
      PROVE Goal
  BY <1>5 DEF Split
<1>6. ASSUME NEW e \in Entries, NEW w \in Words, Store(e, w) \/ Erase(e, w) PROVE Goal
  BY <1>6 DEF Store, Erase
<1>7. ASSUME NEW e \in Entries, DeclareWeak(e) \/ UndeclareWeak(e) PROVE Goal
  BY <1>7 DEF DeclareWeak, UndeclareWeak
<1>8. ASSUME NEW f \in Fibers, CreateFiber(f) PROVE Goal
  BY <1>8 DEF CreateFiber
<1>9. ASSUME NEW f \in Fibers, DestroyFiber(f) PROVE Goal
  BY <1>9 DEF DestroyFiber
<1>10. ASSUME NEW f \in Fibers, Switch(f) PROVE Goal
  BY <1>10 DEF Switch
<1>11. ASSUME NEW f \in Fibers, NEW leftover \in Leftovers, Exit(f, leftover) PROVE Goal
  BY <1>11 DEF Exit
<1>12. ASSUME NEW f \in Fibers, NEW leftover \in Leftovers, CallNested(f, leftover) PROVE Goal
  <2>1. [caller |-> cur, callee |-> f] \in Activations
    BY <1>12 DEF CallNested, Activations
  <2>2. below' \in Seq(Activations)
    BY <1>12, <2>1 DEF CallNested
  <2>3. QED
    BY <1>12, <2>2 DEF CallNested
<1>13. CASE ReturnNested
  <2>1. Head(below) \in Activations /\ Tail(below) \in Seq(Activations)
    BY <1>13, HeadTailProperties DEF ReturnNested
  <2>2. Head(below).caller # cur
    BY <1>13, <2>1 DEF ReturnNested, Activations
  <2>3. status'[Head(below).caller] = "running"
    BY <1>13, <2>1, <2>2 DEF ReturnNested, Activations
  <2>4. QED
    BY <1>13, <2>1, <2>3 DEF ReturnNested
<1>14. QED
  BY <1>1, <1>2, <1>3, <1>4, <1>5, <1>6, <1>7, <1>8, <1>9, <1>10, <1>11, <1>12, <1>13 DEF Program

(* Marking changes neither the graph nor who is reachable in it.             *)
LEMMA MarkingKeepsGraph ==
    ASSUME TypeOK, NEW targets, NEW rest, MarkReachable(targets, rest), UNCHANGED Memory
    PROVE  /\ Existing' = Existing /\ Pinned' = Pinned /\ Pieces' = Pieces
           /\ Edges' = Edges /\ InReach' = InReach
           /\ Graph!Reachable' = Graph!Reachable
<1>1. /\ Existing' = Existing
      /\ Pieces' = Pieces
  BY DEF Memory, Existing, Pieces, Exists, IsSplit
<1>2. Pinned' = Pinned
  BY DEF MarkReachable, Fresh, Pinned, TypeOK
<1>3. Edges' = Edges
  BY DEF Memory, Edges, Refers
<1>4. InReach' = InReach
  BY <1>1 DEF Memory, InReach, Refers, Scanned
<1>5. Graph!Reachable' = Graph!Reachable
  BY <1>1, <1>2, <1>3, <1>4 DEF Graph!Reachable, Graph!ClosedFrom
<1>6. QED
  BY <1>1, <1>2, <1>3, <1>4, <1>5

LEMMA MarkingMarks ==
    ASSUME TypeOK, NEW targets \in SUBSET Entries, NEW rest, MarkReachable(targets, rest)
    PROVE  /\ \A e \in Entries : gc[e] # "unreachable" => gc'[e] = gc[e]
           /\ \A e \in targets : Exists(e) => gc'[e] # "unreachable"
           /\ \A e \in Fresh(targets) : e \in targets /\ Exists(e) /\ gc'[e] = "reachable"
           /\ \A e \in Entries \ Fresh(targets) : gc'[e] = gc[e]
           /\ pending' = rest \cup Fresh(targets)
  BY DEF TypeOK, MarkReachable, Fresh

LEMMA InReachTyped == TypeOK => InReach \in SUBSET Entries
  BY RefersTyped DEF TypeOK, InReach, Entries

(* The roots that exist are reachable, and so is what they refer to.         *)
LEMMA RootsAreReachable ==
    ASSUME TypeOK, NEW e \in InReach \cup Pinned, Exists(e)
    PROVE  e \in Graph!Reachable
<1>1. e \in Entries
  BY InReachTyped DEF Pinned
<1>2. e \in (InReach \cup Pinned) \cap Existing
  BY <1>1 DEF Existing
<1>3. QED
  BY <1>1, <1>2 DEF Graph!Reachable, Graph!ClosedFrom

LEMMA ReachableGoesOn ==
    ASSUME NEW e \in Entries, e \in Graph!Reachable, NEW t \in Traced(e), Exists(t)
    PROVE  t \in Graph!Reachable
<1>1. t \in Entries
  BY TracedTyped
<1>2. t \in Edges[e] \cap Existing
  BY <1>1 DEF Edges, Traced, Existing
<1>3. QED
  BY <1>1, <1>2 DEF Graph!Reachable, Graph!ClosedFrom

LEMMA MarkStacksStep ==
    ASSUME IInv, MarkStacks
    PROVE  IInv'
<1>1. MarkReachable(InReach, {}) /\ UNCHANGED Memory /\ phase = "run" /\ phase' = "explicit"
  <2>1. Fibers \cap Existing = {f \in Fibers : Exists(f)}
    BY DEF Existing, Entries
  <2>2. QED
    BY <2>1 DEF MarkStacks, InReach
<1>2. TypeOK /\ TypeOK'
  BY TypeStep DEF IInv, Next, Collection
<1>3. InReach' = InReach /\ Graph!Reachable' = Graph!Reachable
  BY <1>1, <1>2, MarkingKeepsGraph
<1>4. /\ \A e \in InReach : Exists(e) => gc'[e] # "unreachable"
      /\ \A e \in Fresh(InReach) : e \in InReach /\ Exists(e) /\ gc'[e] = "reachable"
      /\ \A e \in Entries : gc'[e] = "reachable" => e \in Fresh(InReach)
      /\ pending' = Fresh(InReach)
  BY <1>1, <1>2, InReachTyped, MarkingMarks DEF IInv, NoMarksBetween
<1>5. \A e \in Entries : Exists(e)' = Exists(e)
  BY <1>1 DEF Memory, Exists
<1>6. RootsMarked'
  BY <1>2, <1>3, <1>4, <1>5, InReachTyped DEF RootsMarked
<1>7. MarkedAreReachable'
  BY <1>2, <1>3, <1>4, RootsAreReachable DEF MarkedAreReachable
<1>8. CurrentRuns'
  BY <1>1 DEF IInv, CurrentRuns, Memory
<1>9. QED
  BY <1>1, <1>2, <1>4, <1>6, <1>7, <1>8
     DEF IInv, NoMarksBetween, PendingAreMarked, OnlyPendingMarked, MarkedReferToMarked

LEMMA MarkExplicitStep ==
    ASSUME IInv, MarkExplicit
    PROVE  IInv'
<1> DEFINE targets == UNION {Traced(e) : e \in {e \in Pinned : Exists(e)}}
<1>1. MarkReachable(targets, pending) /\ UNCHANGED Memory /\ phase = "explicit" /\ phase' = "drain"
  BY DEF MarkExplicit
<1>2. TypeOK /\ TypeOK'
  BY TypeStep DEF IInv, Next, Collection
<1>3. InReach' = InReach /\ Graph!Reachable' = Graph!Reachable /\ Pinned' = Pinned
  BY <1>1, <1>2, MarkingKeepsGraph
<1>4. targets \in SUBSET Entries
  BY TracedTyped
<1>5. /\ \A e \in Entries : gc[e] # "unreachable" => gc'[e] = gc[e]
      /\ \A e \in targets : Exists(e) => gc'[e] # "unreachable"
      /\ \A e \in Fresh(targets) : e \in targets /\ Exists(e) /\ gc'[e] = "reachable"
      /\ \A e \in Entries \ Fresh(targets) : gc'[e] = gc[e]
      /\ pending' = pending \cup Fresh(targets)
  BY <1>1, <1>2, <1>4, MarkingMarks
<1>6. \A e \in Entries : Exists(e)' = Exists(e) /\ Traced(e)' = Traced(e)
  BY <1>1 DEF Memory, Exists, Traced, Refers
<1>7. RootsMarked'
  BY <1>1, <1>2, <1>3, <1>5, <1>6, InReachTyped DEF IInv, RootsMarked
<1>8. MarkedAreReachable'
  <2>1. \A e \in targets : Exists(e) => e \in Graph!Reachable
    BY <1>2, RootsAreReachable, ReachableGoesOn DEF Pinned
  <2>2. QED
    BY <1>1, <1>3, <1>4, <1>5, <2>1 DEF IInv, MarkedAreReachable
<1>9. MarkedReferToMarked'
  <2> SUFFICES ASSUME NEW e \in Entries, e \notin pending', Exists(e)', gc'[e] # "unreachable",
                      NEW t \in Traced(e)', Exists(t)'
               PROVE  gc'[t] # "unreachable"
    BY DEF MarkedReferToMarked
  <2>1. gc'[e] # "reachable"
    BY <1>1, <1>5 DEF IInv, OnlyPendingMarked
  <2>2. e \in Pinned
    BY <1>2, <1>3, <2>1 DEF TypeOK, Pinned
  <2>3. t \in targets
    BY <1>6, <2>2
  <2>4. QED
    BY <1>4, <1>5, <1>6, <2>3
<1>10. CurrentRuns'
  BY <1>1 DEF IInv, CurrentRuns, Memory
<1>11. PendingAreMarked'
  BY <1>2, <1>5 DEF IInv, PendingAreMarked, TypeOK
<1>12. QED
  BY <1>1, <1>2, <1>7, <1>8, <1>9, <1>10, <1>11 DEF IInv, NoMarksBetween, OnlyPendingMarked

LEMMA MarkPendingStep ==
    ASSUME IInv, NEW p \in Entries, MarkPending(p)
    PROVE  IInv'
<1>1. /\ MarkReachable(Traced(p), pending \ {p})
      /\ UNCHANGED Memory
      /\ phase = "drain" /\ phase' = "drain"
      /\ p \in pending
  BY DEF MarkPending
<1>2. TypeOK /\ TypeOK'
  BY TypeStep DEF IInv, Next, Collection
<1>3. InReach' = InReach /\ Graph!Reachable' = Graph!Reachable
  BY <1>1, <1>2, MarkingKeepsGraph
<1>4. /\ \A e \in Entries : gc[e] # "unreachable" => gc'[e] = gc[e]
      /\ \A e \in Traced(p) : Exists(e) => gc'[e] # "unreachable"
      /\ \A e \in Fresh(Traced(p)) : e \in Traced(p) /\ Exists(e) /\ gc'[e] = "reachable"
      /\ \A e \in Entries \ Fresh(Traced(p)) : gc'[e] = gc[e]
      /\ pending' = (pending \ {p}) \cup Fresh(Traced(p))
  BY <1>1, <1>2, TracedTyped, MarkingMarks
<1>5. \A e \in Entries : Exists(e)' = Exists(e) /\ Traced(e)' = Traced(e)
  BY <1>1 DEF Memory, Exists, Traced, Refers
<1>6. RootsMarked'
  BY <1>1, <1>2, <1>3, <1>4, <1>5, InReachTyped DEF IInv, RootsMarked
<1>7. MarkedAreReachable'
  <2>1. p \in Graph!Reachable
    BY <1>1 DEF IInv, PendingAreMarked, MarkedAreReachable
  <2>2. \A e \in Traced(p) : Exists(e) => e \in Graph!Reachable
    BY <2>1, ReachableGoesOn
  <2>3. QED
    BY <1>1, <1>3, <1>4, <2>2 DEF IInv, MarkedAreReachable
<1>8. MarkedReferToMarked'
  <2> SUFFICES ASSUME NEW e \in Entries, e \notin pending', Exists(e)', gc'[e] # "unreachable",
                      NEW t \in Traced(e)', Exists(t)'
               PROVE  gc'[t] # "unreachable"
    BY DEF MarkedReferToMarked
  <2>1. t \in Entries /\ t \in Traced(e) /\ Exists(t) /\ Exists(e)
    BY <1>5, TracedTyped
  <2>2. CASE e = p
    BY <1>4, <2>1, <2>2
  <2>3. CASE e # p
    <3>1. e \notin pending /\ gc[e] # "unreachable"
      BY <1>2, <1>4, <2>3 DEF TypeOK
    <3>2. gc[t] # "unreachable"
      BY <1>1, <2>1, <3>1 DEF IInv, MarkedReferToMarked
    <3>3. QED
      BY <1>4, <2>1, <3>2
  <2>4. QED
    BY <2>2, <2>3
<1>9. CurrentRuns'
  BY <1>1 DEF IInv, CurrentRuns, Memory
<1>10. PendingAreMarked'
  BY <1>2, <1>4 DEF IInv, PendingAreMarked, TypeOK
<1>11. QED
  BY <1>1, <1>2, <1>6, <1>7, <1>8, <1>9, <1>10 DEF IInv, NoMarksBetween, OnlyPendingMarked

Marked == {e \in Existing : gc[e] # "unreachable"}

(* At the end of the marking, the entries that are marked or pinned are those *)
(* that are reachable.                                                        *)
LEMMA MarkedIsReachable ==
    ASSUME IInv, phase = "drain", pending = {}
    PROVE  Marked = Graph!Reachable
<1> USE DEF Marked
<1>1. Marked \in Graph!ClosedFrom((InReach \cup Pinned) \cap Existing)
  <2>1. (InReach \cup Pinned) \cap Existing \subseteq Marked
    BY DEF IInv, RootsMarked, Existing, Pinned
  <2>2. \A e \in Marked : Edges[e] \cap Existing \subseteq Marked
    <3> SUFFICES ASSUME NEW e \in Marked, NEW t \in Edges[e], t \in Existing
                 PROVE  gc[t] # "unreachable"
      OBVIOUS
    <3>1. t \in Traced(e)
      BY DEF Edges, Traced, Existing
    <3>2. QED
      BY <3>1 DEF IInv, MarkedReferToMarked, Existing
  <2>3. QED
    BY <2>1, <2>2 DEF Graph!ClosedFrom, Existing
<1>2. Graph!Reachable \subseteq Marked
  BY <1>1 DEF Graph!Reachable
<1>3. Marked \subseteq Graph!Reachable
  <2> SUFFICES ASSUME NEW e \in Marked PROVE e \in Graph!Reachable
    OBVIOUS
  <2>1. CASE gc[e] = "reachable"
    BY <2>1 DEF IInv, MarkedAreReachable, Existing
  <2>2. CASE gc[e] = "reachable_explicit"
    BY <2>2, RootsAreReachable DEF IInv, Existing, Pinned
  <2>3. QED
    BY <2>1, <2>2 DEF IInv, TypeOK, Existing
<1>4. QED
  BY <1>2, <1>3

(* And so what the sweep frees is the garbage.                                *)
LEMMA DoomedIsGarbage ==
    ASSUME IInv, phase = "drain", pending = {}
    PROVE  Doomed = Graph!Garbage
<1>1. Marked = Graph!Reachable
  BY MarkedIsReachable
<1>2. Pieces \subseteq Heap /\ \A e \in Heap : e \in Pieces <=> IsSplit(e)
  BY DEF Pieces
<1>3. Doomed = ((Existing \cap (Fibers \cup Heap)) \ Pieces) \ Marked
  <2>1. \A e \in Fibers : e \notin Pieces
    BY <1>2, CollectorAssumption
  <2>2. QED
    BY <1>2, <2>1 DEF Doomed, Existing, Marked
<1>4. QED
  BY <1>1, <1>3 DEF Graph!Garbage

LEMMA SweepStep ==
    ASSUME IInv, Sweep
    PROVE  IInv'
<1>1. TypeOK /\ TypeOK'
  BY TypeStep DEF IInv, Next, Collection
<1>2. CurrentRuns'
  <2>1. cur \in Entries /\ cur \in InReach
    BY <1>1 DEF TypeOK, Entries, InReach
  <2>2. gc[cur] # "unreachable"
    BY <2>1 DEF IInv, CurrentRuns, RootsMarked, Sweep, Exists
  <2>3. status'[cur] = status[cur]
    BY <2>1, <2>2 DEF Sweep, Doomed
  <2>4. QED
    BY <2>3 DEF IInv, CurrentRuns, Sweep
<1>3. pending' = {} /\ phase' = "run"
  BY DEF Sweep
<1>4. \A e \in Entries : gc'[e] # "reachable"
  BY DEF Sweep
<1>5. QED
  BY <1>1, <1>2, <1>3, <1>4
     DEF IInv, NoMarksBetween, PendingAreMarked, OnlyPendingMarked, RootsMarked,
         MarkedReferToMarked, MarkedAreReachable

LEMMA InvInit == Init => IInv
<1> SUFFICES ASSUME Init PROVE IInv
  OBVIOUS
<1>1. TypeOK
  BY TypeInit
<1>2. CurrentRuns
  BY CollectorAssumption DEF Init, CurrentRuns, Entries
<1>3. \A e \in Entries : gc[e] # "reachable"
  BY DEF Init
<1>4. QED
  BY <1>1, <1>2, <1>3
     DEF Init, IInv, NoMarksBetween, PendingAreMarked, OnlyPendingMarked, RootsMarked,
         MarkedReferToMarked, MarkedAreReachable

LEMMA InvStep == IInv /\ [Next]_vars => IInv'
<1> SUFFICES ASSUME IInv, [Next]_vars PROVE IInv'
  OBVIOUS
<1>1. TypeOK'
  BY TypeStep DEF IInv
<1>2. CASE Program
  BY <1>1, <1>2, ProgramStep
     DEF IInv, NoMarksBetween, PendingAreMarked, OnlyPendingMarked, RootsMarked,
         MarkedReferToMarked, MarkedAreReachable
<1>3. CASE Collection
  BY <1>3, MarkStacksStep, MarkExplicitStep, MarkPendingStep, SweepStep DEF Collection
<1>4. CASE UNCHANGED vars
  <2>1. /\ CurrentRuns' /\ NoMarksBetween' /\ PendingAreMarked' /\ OnlyPendingMarked'
    BY <1>4 DEF vars, IInv, CurrentRuns, NoMarksBetween, PendingAreMarked, OnlyPendingMarked
  <2>2. RootsMarked' /\ MarkedReferToMarked'
    BY <1>4 DEF vars, IInv, RootsMarked, InReach, Scanned, Refers, Exists, Existing,
                MarkedReferToMarked, Traced
  <2>3. MarkedAreReachable'
    <3>1. Existing' = Existing /\ Pinned' = Pinned /\ Edges' = Edges
      BY <1>4 DEF vars, Existing, Exists, Pinned, Edges, Refers
    <3>2. InReach' = InReach
      BY <1>4, <3>1 DEF vars, InReach, Scanned, Refers
    <3>3. Graph!Reachable' = Graph!Reachable
      BY <3>1, <3>2 DEF Graph!Reachable, Graph!ClosedFrom
    <3>4. QED
      BY <1>4, <3>3 DEF vars, IInv, MarkedAreReachable
  <2>4. QED
    BY <1>1, <2>1, <2>2, <2>3 DEF IInv
<1>5. QED
  BY <1>2, <1>3, <1>4 DEF Next

LEMMA Invariant == Spec => []IInv
  BY InvInit, InvStep, PTL DEF Spec

(* While the loop over the pending entries runs, no entry that is done with  *)
(* refers to an unmarked one.                                                *)
THEOREM MarkingIsClosed == Spec => []MarkedReferToMarked
  BY Invariant, PTL DEF IInv

-----------------------------------------------------------------------------
(* The collector implements Reachability *)

(* The program creates or frees one entry at a time.                         *)
LEMMA ProgramChangesOne ==
    ASSUME IInv, Program
    PROVE  \E e \in Entries : Existing' \in {Existing, Existing \cup {e}, Existing \ {e}}
<1> DEFINE Goal == \E e \in Entries : Existing' \in {Existing, Existing \cup {e}, Existing \ {e}}
<1> USE CollectorAssumption DEF Entries, IInv, TypeOK, CurrentRuns, Existing, Exists
<1>1. ASSUME NEW h \in Heap, Allocate(h) PROVE Goal
  <2>1. Existing' = Existing \cup {h}
    BY <1>1 DEF Allocate
  <2>2. QED
    BY <2>1
<1>2. ASSUME NEW h \in Heap, FreeHeap(h) PROVE Goal
  <2>1. Existing' = Existing \ {h}
    BY <1>2 DEF FreeHeap
  <2>2. QED
    BY <2>1
<1>3. ASSUME NEW h \in Heap, Merge(h) PROVE Goal
  <2>1. next[h] \in Heap
    BY <1>3 DEF Merge
  <2>2. Existing' = Existing \ {next[h]}
    BY <1>3, <2>1 DEF Merge
  <2>3. QED
    BY <2>1, <2>2
<1>4. ASSUME UNCHANGED status PROVE Goal
  <2>1. Existing' = Existing
    BY <1>4
  <2>2. QED
    BY <2>1
<1>5. ASSUME NEW h \in Heap, NEW p \in Heap, NEW o \in SplitOffsets,
             NEW behind \in SUBSET words[h], Split(h, p, o, behind)
      PROVE Goal
  <2>1. Existing' = Existing \cup {p}
    BY <1>5 DEF Split
  <2>2. QED
    BY <2>1
<1>6. ASSUME NEW f \in Fibers, CreateFiber(f) PROVE Goal
  <2>1. Existing' = Existing \cup {f}
    BY <1>6 DEF CreateFiber
  <2>2. QED
    BY <2>1
<1>7. ASSUME NEW f \in Fibers, DestroyFiber(f) PROVE Goal
  <2>1. Existing' = Existing \ {f}
    BY <1>7 DEF DestroyFiber
  <2>2. QED
    BY <2>1
<1>8. ASSUME NEW f \in Fibers, Switch(f) \/ (\E leftover \in Leftovers : Exit(f, leftover)) PROVE Goal
  <2>1. Existing' = Existing
    BY <1>8 DEF Switch, Exit
  <2>2. QED
    BY <2>1
<1>9. ASSUME NEW f \in Fibers, NEW leftover \in Leftovers, CallNested(f, leftover) PROVE Goal
  <2>1. Existing' = Existing \cup {f}
    BY <1>9 DEF CallNested
  <2>2. QED
    BY <2>1
<1>10. CASE ReturnNested
  <2>1. Existing' = Existing \ {cur}
    BY <1>10 DEF ReturnNested
  <2>2. QED
    BY <2>1
<1>11. QED
  BY <1>1, <1>2, <1>3, <1>4, <1>5, <1>6, <1>7, <1>8, <1>9, <1>10
     DEF Program, DeclareReachable, UndeclareReachable, Store, Erase, DeclareWeak, UndeclareWeak

LEMMA InitImplements == Init => Graph!Init
<1> SUFFICES ASSUME Init PROVE Graph!Init
  OBVIOUS
<1>1. InReach \in SUBSET Entries
  BY TypeInit, InReachTyped
<1>2. Edges \in [Entries -> SUBSET Entries]
  BY RefersTyped DEF Edges
<1>3. Pieces = {}
  BY CollectorAssumption DEF Init, Pieces, IsSplit
<1>4. QED
  BY <1>1, <1>2, <1>3 DEF Init, Graph!Init, Existing, Pinned

LEMMA StepImplements == IInv /\ IInv' /\ [Next]_vars => [Graph!Next]_(Graph!vars)
<1> SUFFICES ASSUME IInv, IInv', [Next]_vars PROVE [Graph!Next]_(Graph!vars)
  OBVIOUS
<1>1. /\ InReach' \in SUBSET Entries
      /\ Edges' \in [Entries -> SUBSET Entries]
      /\ Pinned' \in SUBSET Entries
      /\ Pieces' \in SUBSET Entries
  <2>1. InReach' \in SUBSET Entries
    BY DEF IInv, TypeOK, InReach, Refers, Entries
  <2>2. QED
    BY <2>1 DEF Edges, Refers, Pinned, Pieces, Entries
<1>2. CASE Program
  <2>1. phase = "run" /\ phase' = "run"
    BY <1>2, ProgramStep DEF IInv
  <2>2. Graph!Program
    BY <1>1, <1>2, <2>1, ProgramChangesOne DEF Graph!Program
  <2>3. QED
    BY <2>2 DEF Graph!Next
<1>3. ASSUME NEW targets, NEW rest, MarkReachable(targets, rest), UNCHANGED Memory
      PROVE  /\ Existing' = Existing /\ Pieces' = Pieces /\ Pinned' = Pinned
             /\ InReach' = InReach /\ Edges' = Edges
  BY <1>3, MarkingKeepsGraph DEF IInv
<1>4. CASE MarkStacks
  BY <1>3, <1>4 DEF MarkStacks, Graph!Next, Graph!Begin
<1>5. CASE MarkExplicit
  BY <1>3, <1>5 DEF MarkExplicit, Graph!vars
<1>6. ASSUME NEW e \in Entries, MarkPending(e) PROVE UNCHANGED Graph!vars
  BY <1>3, <1>6 DEF MarkPending, Graph!vars
<1>7. CASE Sweep
  <2>1. Existing' = Existing \ Graph!Garbage
    <3>1. Doomed = Graph!Garbage
      BY <1>7, DoomedIsGarbage DEF Sweep
    <3>2. QED
      BY <1>7, <3>1 DEF Sweep, Existing, Exists, Doomed
  <2>2. Pieces' = Pieces /\ Pinned' = Pinned
    BY <1>7 DEF Sweep, Pieces, IsSplit, Pinned, IInv, TypeOK
  <2>3. InReach' \in SUBSET InReach
    <3>1. \A f \in Fibers \cap Existing' : /\ f \in Existing /\ f \notin Doomed
                                          /\ words'[f] = words[f]
                                          /\ point'[f] = point[f]
      BY <1>7 DEF Sweep, Existing, Exists, Doomed, Entries
    <3>2. \A f \in Fibers \cap Existing' : Refers(Scanned(f))' = Refers(Scanned(f))
      BY <1>7, <3>1 DEF Sweep, Refers, Scanned
    <3>3. QED
      BY <1>7, <3>1, <3>2 DEF Sweep, InReach
  <2>4. \A e \in Existing' : Edges'[e] = Edges[e]
    BY <1>7 DEF Sweep, Edges, Existing, Exists, Refers
  <2>5. Graph!Collect
    BY <1>1, <1>7, <2>1, <2>2, <2>3, <2>4 DEF Sweep, Graph!Collect
  <2>6. QED
    BY <2>5 DEF Graph!Next
<1>8. CASE UNCHANGED vars
  <2>1. Existing' = Existing /\ Pinned' = Pinned /\ Edges' = Edges /\ Pieces' = Pieces
    BY <1>8 DEF vars, Existing, Exists, Pinned, Edges, Refers, Pieces, IsSplit
  <2>2. InReach' = InReach
    BY <1>8, <2>1 DEF vars, InReach, Scanned, Refers
  <2>3. QED
    BY <1>8, <2>1, <2>2 DEF vars, Graph!vars
<1>9. QED
  BY <1>2, <1>4, <1>5, <1>6, <1>7, <1>8 DEF Next, Collection

(* A collection frees exactly the heap memory and the fibers that cannot be  *)
(* reached from what it walks, for every table and all of its contents.      *)
THEOREM CollectorImplements == Spec => CollectsGarbage
  BY Invariant, InitImplements, StepImplements, PTL DEF Spec, CollectsGarbage, Graph!Spec

-----------------------------------------------------------------------------
(* The marking ends *)

(* Every pending entry that is processed leaves fewer unmarked entries, or   *)
(* as many and fewer pending ones.                                           *)
THEOREM CollectorMarkingEnds == Spec => MarkingEnds
<1> DEFINE Shrinks == \/ Unmarked' \subseteq Unmarked /\ Unmarked' # Unmarked
                      \/ Unmarked' = Unmarked /\ pending' \subseteq pending /\ pending' # pending
<1>1. ASSUME IInv, [Next]_vars
      PROVE  [phase = "drain" /\ phase' = "drain" => Shrinks]_vars
  <2> SUFFICES ASSUME phase = "drain", phase' = "drain", Next PROVE Shrinks
    BY <1>1
  <2>1. ~Program
    BY <1>1, ProgramStep DEF IInv
  <2>2. PICK p \in Entries : MarkPending(p)
    BY <2>1 DEF Next, Collection, MarkStacks, MarkExplicit, Sweep
  <2>3. /\ MarkReachable(Traced(p), pending \ {p})
        /\ UNCHANGED Memory
        /\ p \in pending
    BY <2>2 DEF MarkPending
  <2>4. Existing' = Existing
    BY <1>1, <2>3, MarkingKeepsGraph DEF IInv
  <2>5. Unmarked' = Unmarked \ Fresh(Traced(p))
    BY <1>1, <2>3, <2>4 DEF Unmarked, Existing, MarkReachable, IInv, TypeOK
  <2>6. CASE Fresh(Traced(p)) = {}
    BY <2>3, <2>5, <2>6 DEF MarkReachable
  <2>7. CASE Fresh(Traced(p)) # {}
    <3>1. Fresh(Traced(p)) \subseteq Unmarked
      BY TracedTyped DEF Fresh, Unmarked, Existing
    <3>2. QED
      BY <2>5, <2>7, <3>1
  <2>8. QED
    BY <2>6, <2>7
<1>2. QED
  BY <1>1, Invariant, PTL DEF Spec, MarkingEnds

-----------------------------------------------------------------------------
(* What the program needs is kept *)

(* The suspension point of every fiber that does not execute covers its      *)
(* stack, but for those that wait below a nested call.                       *)
PointsCoverStacks ==
    /\ \A f \in Fibers : status[f] = "absent" => words[f] = {}
    /\ \A f \in Fibers : Exists(f) /\ f # cur /\ f \notin Callers => words[f] \subseteq point[f]

LEMMA PointsInit == Init => PointsCoverStacks
  BY DEF Init, PointsCoverStacks, Entries

LEMMA PointsStep == IInv /\ PointsCoverStacks /\ [Next]_vars => PointsCoverStacks'
<1> SUFFICES ASSUME IInv, PointsCoverStacks, [Next]_vars PROVE PointsCoverStacks'
  OBVIOUS
<1> USE CollectorAssumption DEF Entries, IInv, TypeOK, CurrentRuns, PointsCoverStacks, Exists
<1>1. ASSUME UNCHANGED <<below, point>>, UNCHANGED <<cur>>,
             \A f \in Fibers : \/ status'[f] = status[f] /\ (words'[f] = words[f] \/ f = cur)
                               \/ status[f] = "absent" /\ status'[f] = "ready" /\ words'[f] = words[f]
      PROVE  PointsCoverStacks'
  <2>1. Callers' = Callers
    BY <1>1 DEF Callers
  <2>2. ASSUME NEW f \in Fibers, status'[f] = "absent" PROVE words'[f] = {}
    BY <1>1, <2>2
  <2>3. ASSUME NEW f \in Fibers, Exists(f)', f # cur', f \notin Callers'
        PROVE  words'[f] \subseteq point'[f]
    BY <1>1, <2>1, <2>3
  <2>4. QED
    BY <2>2, <2>3
<1>2. ASSUME NEW h \in Heap, Allocate(h) \/ FreeHeap(h) PROVE PointsCoverStacks'
  BY <1>1, <1>2 DEF Allocate, FreeHeap
<1>3. ASSUME NEW h \in Heap, Merge(h) PROVE PointsCoverStacks'
  <2>1. next[h] \in Heap
    BY <1>3 DEF Merge
  <2>2. QED
    BY <1>1, <1>3, <2>1 DEF Merge
<1>4. ASSUME NEW h \in Heap, NEW p \in Heap, NEW o \in SplitOffsets,
             NEW behind \in SUBSET words[h], Split(h, p, o, behind)
      PROVE PointsCoverStacks'
  BY <1>1, <1>4 DEF Split
<1>5. ASSUME NEW e \in Entries, NEW w \in Words, Store(e, w) \/ Erase(e, w) PROVE PointsCoverStacks'
  BY <1>1, <1>5 DEF Store, Erase, Accessible
<1>6. ASSUME UNCHANGED <<status, words, point, cur, below>> PROVE PointsCoverStacks'
  BY <1>1, <1>6
<1>7. ASSUME NEW f \in Fibers, CreateFiber(f) PROVE PointsCoverStacks'
  BY <1>1, <1>7 DEF CreateFiber
<1>8. ASSUME NEW f \in Fibers, DestroyFiber(f) PROVE PointsCoverStacks'
  BY <1>8 DEF DestroyFiber, Callers
<1>9. ASSUME NEW f \in Fibers, Switch(f) PROVE PointsCoverStacks'
  BY <1>9 DEF Switch, SuspensionPoint, Callers
<1>10. ASSUME NEW f \in Fibers, NEW leftover \in Leftovers, Exit(f, leftover) PROVE PointsCoverStacks'
  BY <1>10 DEF Exit, Callers
<1>11. ASSUME NEW f \in Fibers, NEW leftover \in Leftovers, CallNested(f, leftover)
       PROVE  PointsCoverStacks'
  <2>1. Callers' = Callers \cup {cur}
    <3> DEFINE a == [caller |-> cur, callee |-> f]
    <3>1. below' = <<a>> \o below /\ a.caller = cur
      BY <1>11 DEF CallNested
    <3>2. /\ Len(below') = Len(below) + 1
          /\ below'[1] = a
          /\ \A i \in 1..Len(below) : below'[i + 1] = below[i]
      BY <3>1
    <3> HIDE DEF a
    <3>3. Len(below) \in Nat
      OBVIOUS
    <3>4. ASSUME NEW i \in 1..Len(below') PROVE below'[i].caller \in Callers \cup {cur}
      <4>1. CASE i = 1
        BY <3>1, <3>2, <4>1
      <4>2. CASE i # 1
        <5>1. i - 1 \in 1..Len(below) /\ (i - 1) + 1 = i
          BY <3>2, <3>3, <4>2
        <5>2. below'[i] = below[i - 1]
          BY <3>2, <5>1
        <5>3. QED
          BY <5>1, <5>2 DEF Callers
      <4>3. QED
        BY <4>1, <4>2
    <3>5. ASSUME NEW i \in 1..Len(below) PROVE below[i].caller \in Callers'
      <4>1. i + 1 \in 1..Len(below') /\ below'[i + 1] = below[i]
        BY <3>2, <3>3
      <4>2. QED
        BY <4>1 DEF Callers
    <3>6. cur \in Callers'
      <4>1. 1 \in 1..Len(below') /\ below'[1].caller = cur
        BY <3>1, <3>2, <3>3
      <4>2. QED
        BY <4>1 DEF Callers
    <3>7. Callers' \subseteq Callers \cup {cur}
      <4> SUFFICES ASSUME NEW c \in Callers' PROVE c \in Callers \cup {cur}
        OBVIOUS
      <4>1. PICK i \in 1..Len(below') : c = below'[i].caller
        BY DEF Callers
      <4>2. QED
        BY <3>4, <4>1
    <3>8. Callers \subseteq Callers'
      <4> SUFFICES ASSUME NEW c \in Callers PROVE c \in Callers'
        OBVIOUS
      <4>1. PICK i \in 1..Len(below) : c = below[i].caller
        BY DEF Callers
      <4>2. QED
        BY <3>5, <4>1
    <3>9. QED
      BY <3>6, <3>7, <3>8
  <2>2. QED
    BY <1>11, <2>1 DEF CallNested
<1>12. CASE ReturnNested
  <2>1. Callers \subseteq Callers' \cup {cur'}
    <3>1. below' = Tail(below) /\ below # <<>> /\ cur' = Head(below).caller
      BY <1>12 DEF ReturnNested
    <3>2. /\ Len(below') = Len(below) - 1
          /\ \A i \in 1..Len(below') : below'[i] = below[i + 1]
          /\ cur' = below[1].caller
      BY <3>1, HeadTailProperties
    <3>3. ASSUME NEW i \in 1..Len(below) PROVE below[i].caller \in Callers' \cup {cur'}
      <4>1. CASE i = 1
        BY <3>2, <4>1
      <4>2. CASE i # 1
        <5>1. i - 1 \in 1..Len(below') /\ (i - 1) + 1 = i
          BY <3>2, <4>2
        <5>2. below[i] = below'[i - 1]
          BY <3>2, <5>1
        <5>3. QED
          BY <5>1, <5>2 DEF Callers
      <4>3. QED
        BY <4>1, <4>2
    <3>4. SUFFICES ASSUME NEW c \in Callers PROVE c \in Callers' \cup {cur'}
      OBVIOUS
    <3>5. PICK i \in 1..Len(below) : c = below[i].caller
      BY DEF Callers
    <3>6. QED
      BY <3>3, <3>5
  <2>2. QED
    BY <1>12, <2>1 DEF ReturnNested
<1>13. CASE Sweep
  BY <1>13 DEF Sweep, Callers, Doomed
<1>14. CASE UNCHANGED vars
  BY <1>6, <1>14 DEF vars
<1>15. QED
  BY <1>2, <1>3, <1>4, <1>5, <1>6, <1>7, <1>8, <1>9, <1>10, <1>11, <1>12, <1>13, <1>14
     DEF Next, Program, Collection, DeclareReachable, UndeclareReachable, DeclareWeak, UndeclareWeak,
         MarkStacks, MarkExplicit, MarkPending, Memory

LEMMA PointsInvariant == Spec => []PointsCoverStacks
  BY Invariant, PointsInit, PointsStep, PTL DEF Spec

LEMMA NeededExists == Needed!Reachable \subseteq Existing
<1>1. Existing \in Needed!ClosedFrom((OnStacks \cup Pinned) \cap Existing)
  BY DEF Needed!ClosedFrom, Existing
<1>2. QED
  BY <1>1 DEF Needed!Reachable

(* With all suspension points up to date, the collector walks at least what  *)
(* is on the stacks.                                                         *)
LEMMA NeededIsReachable ==
    ASSUME TypeOK, PointsCoverStacks, below = <<>>
    PROVE  Needed!Reachable \subseteq Graph!Reachable
<1>1. Callers = {}
  BY DEF Callers
<1>2. \A f \in Fibers \cap Existing : words[f] \subseteq Scanned(f)
  BY <1>1 DEF PointsCoverStacks, Existing, Scanned
<1>3. \A f \in Fibers \cap Existing : Refers(words[f]) \subseteq Refers(Scanned(f))
  BY <1>2 DEF Refers
<1>4. OnStacks \subseteq InReach
  BY <1>3 DEF OnStacks, InReach
<1>5. Graph!ClosedFrom((InReach \cup Pinned) \cap Existing)
        \subseteq Needed!ClosedFrom((OnStacks \cup Pinned) \cap Existing)
  BY <1>4 DEF Graph!ClosedFrom, Needed!ClosedFrom
<1>6. QED
  BY <1>5 DEF Graph!Reachable, Needed!Reachable

(* What the program can reach from its stacks survives a collection, if no   *)
(* fiber waits below a nested call.                                          *)
THEOREM CollectorKeepsLive == Spec => LiveKept
<1>1. ASSUME IInv, PointsCoverStacks, [Next]_vars
      PROVE  [phase = "drain" /\ below = <<>> => \A e \in Needed!Reachable : Exists(e)']_vars
  <2> SUFFICES ASSUME phase = "drain", below = <<>>, Next, NEW e \in Needed!Reachable
               PROVE  Exists(e)'
    BY <1>1
  <2>1. e \in Existing
    BY NeededExists
  <2>2. CASE Sweep
    <3>1. e \in Marked
      BY <1>1, <2>2, NeededIsReachable, MarkedIsReachable DEF IInv, Sweep
    <3>2. status'[e] = status[e]
      BY <2>2, <3>1 DEF Sweep, Doomed, Marked, Existing
    <3>3. QED
      BY <2>1, <3>2 DEF Exists, Existing
  <2>3. CASE ~Sweep
    <3>1. ~Program
      BY <1>1, ProgramStep DEF IInv
    <3>2. UNCHANGED status
      BY <2>3, <3>1 DEF Next, Collection, MarkStacks, MarkExplicit, MarkPending, Memory
    <3>3. QED
      BY <2>1, <3>2 DEF Exists, Existing
  <2>4. QED
    BY <2>2, <2>3
<1>2. QED
  BY <1>1, Invariant, PointsInvariant, PTL DEF Spec, LiveKept
=============================================================================
